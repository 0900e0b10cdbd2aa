# TLA+ verification of auto-pass

auto-pass keeps credentials in KeePassXC vaults and hands them to scripts and
repositories of one user. This directory holds TLA+ models of its concurrent and
multi-step parts, the TLC configurations that check them on small instances, and
theorems about them whose proofs TLAPS checks. `PROJECT.json` lists components,
runs, mutants, hazards and theorems, and maps every definition that models code
to its lines.

    tlc -workers 2 -config MCProvisioningDaemon_safety.cfg MCProvisioningDaemon.tla
    tlapm ProvisioningDaemonProofs.tla

## 1. Inventory

| Component | State | Operations | Interacts with |
|---|---|---|---|
| Provisioning daemon, `server.py` | master password (under a lock), socket, audit log file | status, reload, lock, unlock, get, admin_context; start, shutdown | client library over the socket; allowlist enforcer and database index by calls; keepassxc-cli as child processes |
| Allowlist enforcer, `allowlist.py` | table of repositories in memory, file on disk, cache of repository names | load, reload, is_permitted, repo_default_db | shared by all handler threads of the daemon; file edited by the user and by the web console |
| KeePassXC access, `keepassxc.py` | process environment, password cache file, the vault (through keepassxc-cli) | show, all fields, upsert, mkdir, rm, ls; context manager, cache seeding | used by the CLI, the rotation workflow, the web console and the daemon; calls the notifications |
| Rotation workflow, `rotation.py` | real, pending and registry entry of each account, in the vault | prepare, status, promote, discard, configure, infer, list, to-do sync | several keepassxc-cli calls per command, no transaction |
| Retrieval notifications, `notifications.py` | daily log, counter file and its temporary file | log, count, notify, send summary | every process that reads a password; shock-relay scripts |
| Web console, `web/` | none of its own; edits the allowlist file | login, allowlist upsert and delete, entry read and write, audit view | client of the daemon; `with_keepassxc_context` |
| Client library, `client.py` | none | one request per connection | daemon |
| Database index, `dbindex.py` | a JSON file it only reads | alias lookup | daemon |
| Environment and profiles, `envfile.py` | process environment | load env file, apply profile | CLI |
| Access check and CLI, `access.py`, `cli.py` | none | probe, parse, print | all of the above |

What is hard in this code:

- **Daemon.** One thread per connection and a lock only around single reads and
  writes of the password. unlock, lock, reload and get interleave between any
  two statements; a `get` decides by state it reads at four different moments.
  It is correct if no wrong password is ever held, nothing is released without a
  grant, an unlocked vault and an audit record, reloads settle on the file's
  policy, and every request ends.
- **Rotation.** A command is up to five calls of keepassxc-cli. It is correct if
  the password the provider accepts never leaves the vault, a finished promotion
  is complete, and what one command writes the next can read.
- **Notifications.** Log and counter are shared by unsynchronised processes. They
  are correct if a record leaves the log only after it has been delivered, and
  the throttle neither fires early nor, undisturbed, misses its turn.
- **Web console.** Request threads share the process environment, into which one
  at a time puts its credentials, and the allowlist, which they read, truncate and
  write without a lock. It is correct if credentials never serve another request or
  stay behind, edits that do not overlap are kept, grants come from edits only, and
  the daemon ends up with the policy in the file.
- **Socket.** Nothing keeps two daemons from one path; the one that ends removes
  whatever is there. It is correct if a daemon that never met another is reachable,
  can start after any crash and obeys `lock`, and if a command ends with a report,
  not a traceback, unless a daemon left it.
- **Credentials of a command.** Shell, env file, `--profile`, `PF_` variables,
  password cache and prompt decide in a subtle order, and the cache is shared. It is
  correct if a command runs on what was asked for, and no cache holds a password of
  another vault.
- **To-do synchronisation.** It reads registries one by one while time passes, and
  replaces its category in a file the server writes too. It is correct if the list is
  exactly what is due, and the rest of the file stays.

## 2. Modules

| Module | Models |
|---|---|
| `CredentialService` | abstract: what the daemon promises, as three gates each secret passes |
| `ProvisioningDaemon` | the daemon with its handler threads, the allowlist and its file |
| `ProvisioningDaemonProofs` | inductive invariant, safety theorems, refinement |
| `PasswordChange` | abstract: the steps a password change may take |
| `RotationWorkflow` | the rotation of one account, call by call |
| `RotationWorkflowProofs` | inductive invariants of a promote and of overlapping commands, safety theorems, refinement |
| `RetrievalNotifications` | daily log, summaries and throttle counter |
| `RetrievalNotificationsProofs` | the daily log's invariant and theorems |
| `RetrievalCounterProofs` | the counter's invariant and theorems, on top of the log's |
| `KeepassEnvironment` | env file, profiles and `PF_` variables as operators; used by `CommandCredentials` and `WebConsole` |
| `CommandCredentials` | commands with their environments, the password cache and the prompt |
| `CommandCredentialsProofs` | order of precedence, cache and type theorems |
| `WebConsole` | entry manager, allowlist editor and daemon control of the console |
| `WebConsoleProofs` | six theorems from five invariants, one for each question |
| `SocketLifecycle` | the socket path, daemons that start and end, and the commands that talk to them |
| `SocketLifecycleProofs` | five theorems on reachability, lock and tracebacks |
| `TodoFile` | abstract: what may become of the to-do file |
| `RotationTodo` | due status, and `sync-todo` with its file |
| `RotationTodoProofs` | the sorted order, the theorems on list and file, refinement |
| `MC...` | constants for TLC |

Definitions named "Mutant of X" are plausible faults of X. No specification uses
them; replacing X by one of them must make a run fail, which shows that the
property under test depends on that code.

### ProvisioningDaemon

`pc[c]` is the place in the handler of connection `c`; the comment at `PcValues`
names the action that leaves each. An action is the code between two places where
another thread or process can change what the handler reads next:

- `unlock` is `BeginUnlock`, `Validate` (the `ls` probe: accepts the master
  password, may time out) and `StorePassword`.
- `reload` is `ReloadReset` (`self._repos = {}`), `LoadRead` (open and parse) and,
  per entry, `LoadBind` and `LoadStore`. `self._repos[str(k)] = dict(v)` fetches
  `self._repos` before it evaluates the key: a reload that has fetched the table
  when another one replaces it stores into an object nobody uses (`orphans`).
- `get` is `BeginGet`, `ChooseDb`, `CheckPermitted`, `SnapshotPassword`,
  `ResolveSubVault`, `ShowEntry`, `AppendAudit`. `pw[c]` is its copy of the
  master password; for a sub-vault it stands for the password derived from it.
- `Shutdown` is the signal handler and `Exit` the return of the accept loop;
  in between, running handlers go on. `Crash` ends the process at any other time.
  `Start` succeeds only if the file parses.
- `EditAllowlist` is any editor of the file, the web console included.

An entry of the allowlist is its default vault and the set of (vault, path) pairs
its globs match, which covers the simple and the multi-vault form. `alone` and
`edited` are history: they record whether reloads overlapped and whether the file
changed after it was read, and guard `SettledPolicy`.

`CredentialService` abstracts from threads, tables and files: a grant is in play
from the edit that writes it until it is forgotten, and a secret passes the gates
permitted, authorized, released. `ProvisioningDaemon!Service` is the refinement
mapping. A grant counts as in play while it is in the file, in the table, or in
the hands of a running reload; a `get` that has read one version of the policy may
finish after the next one is loaded, and a value may be sent after a lock that
came while keepassxc-cli was running. The abstract specification permits exactly
these two races and no more.

### RotationWorkflow

`real`, `pending` and `registry` are the three entries, `provider` is the password
the provider accepts. Each action is one call of keepassxc-cli; `Fail` ends a
command before any of its calls (an error, or a kill). `WritePending` and
`EditRegistry` are the `edit` of the upsert, `AddPending` and `AddRegistry` its
`add` after "not found". The real entry exists, so its upsert is the edit only.
Notes have a layout, since `resolve_keepassxc_entry_all_fields` splits lines at
colons: of indented JSON it returns `{`. `TidyNotes` is a user who reformats or
empties Notes in KeePassXC; without it no command that reads Notes gets past the
parser. `Advised` is the order the README of auto-pass asks for: prepare or discard only
while the provider accepts the real password, promote only after the change.
Any number of commands may be on their way at once, and two histories record what
that can do. `raced`: a prepare or a discard (`Replacing`) has been on its way at the
same time as a promote, or while the user changed the password at the provider; until
then the password in use is not lost (`LostOnlyByRace`). `crossed`: the promotes during
which somebody else has changed the vault; `PromotionIsComplete` is about the others. A
registry update that is lost because two commands write what they made of the same read
falls under `crossed`: the code does not prevent it, and no property excludes it.

What the source of a registry (`manual`, `inferred`) tells is less than the README of
auto-pass says: "a successful future rotation is what should upgrade the config from
inferred to verified" (`src/README.md:392-394`), but `rotate configure` without a policy
flag keeps the inferred policy and writes it as `manual` with confidence `high`
(`rotation.py:277`, `292-293`). `RegistryOf` does what the code does, and no property
says that a manual policy has been verified.

`PasswordChange` abstracts from calls, commands, Notes and the registry: a candidate
is prepared while the provider accepts the real password, changed to at the provider,
stored, and dropped when the password in use is stored. Its `broken` is `raced`, after
which it permits anything. `RotationWorkflow!Rotation` is the refinement mapping.

### RetrievalNotifications

A retrieval is a process that either appends to the log or counts itself. The
throttle's read, open, write and replace are separate steps; `handle` tracks the
open file through renames, because two processes share one temporary file and a
`replace` can move it while another process has it open. A summary reads the log,
runs one relay script per channel and truncates the log if no script failed. A
script that fails may have delivered. An append can be cut short by an `OSError`, which
is swallowed, or by a kill: `tail` is what the last line then holds without an end, a
whole record or a part of one (`Cut`), and the next append joins it (`Joined`), so that
neither can be read. `spoilt` is history: the records that were appended to such a line.
They are lost, and the properties about the log name them. The sends of a single notification are one
step (`Notify`): their failures end as a warning and nothing shared depends on
them.

### KeepassEnvironment and CommandCredentials

`KeepassEnvironment` translates `load_env_file`, `activate_keepass_profile`,
`apply_keepass_profile_environment`, `load_config_environment`, the first lines of
`main` (`Prepare`) and the `_resolve_` functions (`Resolve`). A variable that is
unset, empty or blank is `Nothing`, since the code strips before it tests.
`CommandCredentials!Asked` states the documented order of precedence, setting by
setting, without following the code. The shell comes before the env file, since the
README (`src/README.md:169-170`) and the example of an env file (line 2) say that
values exported by the shell win; and in each of them a direct value comes before the
profile's, which are mapped to it, and those before the compatibility variable:

1. `AUTO_PASS_KEEPASSXC_*`, 2. the profile's, 3. `PF_KEEPASSXC_*` exported by the
shell; 4. to 6. the same in the env file. The profile is that of `--profile`, or the
exported `AUTO_PASS_PROFILE`, or the env file's.

The code keeps to this order but for the settings in `Overruled`, where the env file
gets its way although the shell exports a value: a direct value of the env file counts
before the profile's values exported, and before exported `PF_` variables; the
env file's value of a profile counts before exported `PF_` variables; and with
`--no-env-file` an exported `AUTO_PASS_PROFILE` counts only with `--profile`.
`RunsAsAsked` says that this is all; `ShellWins` is the documented promise without
exceptions, and the run `command_shell` shows that the code breaks it. An empty
`--profile` is ignored with `--no-env-file` and an error without it (`OptionOf`).

`pc[p]` of `CommandCredentials` follows `seed_keepass_password_env_for_tty`: exists
and stat (`check`), `unlink`, `read`, `prompt`, `os.open` with truncation (`open`),
`write`, then `_resolve_context` and the call (`run`). `linked` says whether the open
file is still at its path. A torn cache is no JSON. A password is cached as it was
typed, before keepassxc-cli has accepted it.

### WebConsole

A request is a thread. `Arrive` is `require_session` and the dispatch;
`FetchContext`, `AcquireContext`, `ShowEntry` or `EditEntry`, `MakeGroup`, `AddEntry`
and `RestoreContext` are the entry manager; `LoadAllowlist`, `TruncateAllowlist` and
`WriteAllowlist` an edit, which ends with the daemon's reload: `ClearTable`,
`ReadAllowlist`, `FillTable`. The reload runs in the daemon, so that a restart of the
console does not end it, and `StopDaemon` does. The entries of one reload are stored
in one step here; `ProvisioningDaemon` has them one by one. `FetchContext` waits for
nothing, `AcquireContext` for the lock: the daemon may have gone, been locked or be
another one by then. A missing key file of the daemon's context removes the
`AUTO_PASS_` variable only, so that an exported `PF_KEEPASSXC_KEY_FILE` is used
instead: `OwnCredentials` states this.

An allowlist is a set of tables, as in the file: `[repos.n]`, and one
`[repos.n.vaults.v]` for each vault. `Effective` are those `is_permitted` decides by,
and all `_save_allowlist` keeps. `Overlay` is the text of one request over that of
another: of the longer text any set of tables may be left, also some of a repository
that the new text has, or other vaults of it; the rest begins inside a table whose
header is overwritten, and a table that the text then has twice makes the file
malformed (`Fits`). Drafts by hand are taken to have `db` before `allowed_paths`, as
the console writes it; a `db` that came last could be read as that of the new text's
last table. `NoGrantInvented` compares tables: a mixture may give a repository an old
grant beside a new one, but none that was not asked for, for the same repository and
vault. `EditByHand` rewrites the file in place.

### SocketLifecycle

`Start`, `CheckPath`, `UnlinkPath`, `Bind`, `Listen` are the statements of `serve`,
`Signal`, `CloseSocket`, `RemovePath` those of its signal handler, `EndServe` the
return of the accept loop, `Kill` an end at any statement. `path` is whose socket is
at the path; a closed or killed daemon leaves a stale one. Between `exists` and
`unlink`, or between `unlink` and `bind`, another daemon can make `serve` fail
(`failed`).

`unlock` first probes with `is_running`; `daemon-status` is that probe alone. The
thread of a connection lives as long as the daemon's process. A client whose daemon
ends reads the end of the stream (`cut`) or a reset. `is_running`, `daemon-status` and
`lock` catch `OSError`, `unlock` after the prompt does not, and nothing catches the
JSON error of an empty answer, although the docstring of
`ProvisioningClientError` says that an unreachable daemon raises it. `met`,
`disturbed` and `lastWord` are history.

### RotationTodo

Time counts half days, so that an instant can lie inside a day; `DaysUntilDue` rounds
as `timedelta.days` does, down, also below zero. `ListEntries`, `ReadRegistry` (one
call of keepassxc-cli each), `LoadFile`, `TruncateFile` and `WriteFile` are the steps
of `sync-todo`. Meanwhile time ticks, registries are written, tidied and removed, and
the server writes the file. `Exact` is stated against the deadline in half days, not
by the functions of the code. `Kept` is what `_load_clockwork_todo_file` keeps of
other categories.

`TodoFile` abstracts from registries, time and the steps of a sync: the file is a
managed list and a rest, a sync replaces the list by a new one (sorted, no account
twice, nothing done) and keeps what it knows of the rest, and the server marks lines
and changes the rest. The moment of a sync is its truncation: from then on `Held`,
the mapping, is the text it is about to write, chosen among the `Writers` whose read
is not stale. A server that finds the file cut begins a new one, without the list,
which `TodoFile` permits; `broken` is `lossy`.

Notes as the code writes them end every `sync-todo` with an error until a user has
tidied them (the same defect as in `rotation_notes`). And `configure`, `infer-config` and
`promote` write `updated_at`, so that changing a note postpones the deadline; a
rotation that is done stays in the list if its interval is not above the window.

## 3. Runs

| Run | Instance | Shows |
|---|---|---|
| `daemon_life` | 2 connections, 14 kinds of request, 4 files, fairness | `TypeOK`, `OnlyMasterKeyHeld`, `SettledPolicy`, and that each request is answered or cut off (`AllAnswered`) |
| `daemon_safety` | 3 connections (symmetric), 5 requests, 2 files | `AuditedBeforeRelease`; the daemon implements `CredentialService` |
| `daemon_reloads` | 2 connections, reloads only | counterexample to `ReloadReflectsFile` |
| `rotation_team` | 2 operators interleaving, 3 passwords, 2 policies (operators and later passwords symmetric) | `TypeOK`, `LostOnlyByRace`, `PromotionIsComplete`; the workflow implements `PasswordChange` |
| `rotation_notes` | 1 operator, no manual edits of Notes | counterexample to `NotesReadBack` |
| `notifications_mixed` | 2 daily records, 2 counted and 1 unthrottled retrieval, 2 summaries, 2 channels, appends cut short | `TypeOK`, `ClearedAfterDelivery`, `NothingLostUnraced`, `NeverEarly`, `FiresOnEveryNth` |
| `notifications_window` | the same, with 3 counted | counterexample to `NoRetrievalLost` |
| `command_credentials` | 2 commands, 2 vaults, 2 passwords, 2 profiles and a blank name, 35 invocations | `TypeOK`, `RunsAsAsked`, `CacheHoldsTyped`, `CommandsEnd` |
| `command_shell` | one invocation: a profile exported by the shell, a path in the env file | counterexample to `ShellWins` |
| `web_console` | 3 requests with 7 operations, 2 repositories, one with two vaults, 2 daemons' contexts | `TypeOK`, `EnvironmentRestored`, `OwnCredentials`, `LatestKept`, `NoGrantInvented`, `DaemonFollowsFile`, `RequestsEnd` |
| `socket_lifecycle` | 2 daemons and 2 commands, each started any number of times | `TypeOK`, `UnreachableOnlyByOverlap`, `FailsOnlyByOverlap`, `LockReachesAll`, `TracebackOnlyWhenDisturbed`, `CommandsEnd` |
| `rotation_todo` | 2 syncs, 2 accounts, 5 first registries of one, 2 changes | `TypeOK`, `ListedExactlyDue`, `RestKept`, `BecomesExact`; the syncs and the server implement `TodoFile` |

**Bounds.** Every model is finite without state constraints: a connection carries
one request, a password is generated once, a retrieval happens once, a request of the
console is served once; daemons and commands of `SocketLifecycle` and
`CommandCredentials` come and go without end; `RotationTodo` counts changes of the
world and failures to `MaxChanges`. Two
connections are enough for every pairwise race of the daemon, three for a `get`
beside two writers (a lock and a reload, two reloads). Two repositories and two
vaults distinguish "another repository's grant" and "another vault's password";
two policies that differ for both repositories make every mixture visible.
Two counted retrievals with `every_n = 2` cover firing, not firing and the counter's fall (longer counts are the business of
`EveryNthFires`, which holds for any number); two records and two summaries are
the smallest case with a late record and overlapping digests.
Three passwords in `rotation_team` allow a second rotation over the candidate of a
first, or after a failed one; with two policies, one that generates every password and
one that `infer` finds, a registry that was not upgraded shows.
Two commands are enough for every pair of steps on a cache, two vaults to put a
password into the wrong one; the shells and env files of `MCCommandCredentials` set
every level of the precedence above something lower. Three requests of the console
give two edits with a reload, or two entries with a lock; one edit adds the second repository while the
other deletes the first, a hand-written one with several vaults, so that the texts
written over each other share and lack tables; the daemons of two vaults, one with a key
file, make foreign credentials visible. With two daemons, each of them restarted at
will, every pair of steps of a first and a second one occurs. Two changes in
`rotation_todo` are enough for a day to end or a registry to change between two
reads, for a write of the server inside a sync, and for a failure after either; the
first registries are overdue, due, ahead of the clock, blank or missing.

**Deadlock.** It is checked except in the two notification runs, where all
retrievals may be over and the log empty. The daemon can always be restarted or
its file edited, an operator can always start a configure, a command and a sync can
always be started.

**Fairness.** Weak fairness of the steps of one handler, request, command or sync,
never of a caller, a user's edit, a signal, a crash or a restart:
`daemon_life`, each connection's handler steps; `web_console`, each request's, which
includes its reload in the daemon; `socket_lifecycle`, the steps of a daemon that has
started or been signalled, and of a command; `command_credentials` and
`rotation_todo`, the steps of a command that has begun. Each of these is a thread or a
process of its own that the operating system schedules, and blocks on nothing but a
lock and a child process or the prompt. `AcquireContext` waits for
`_keepass_env_lock`; weak fairness is enough in the run because a request takes the
lock once. That a child process returns is an assumption: `ls` has a timeout of 30 s,
the other calls have none. That a user answers a prompt or gives up is another.

**Counterexamples.** (1) `ReloadReflectsFile`: reload A has read the old file, the
file is edited, reload B empties the table and loads the new file, and A then
stores its entries into B's table; both answer ok, and the old grants stay until
the next reload. (2) `NotesReadBack`: `configure` writes its registry, and the next
`prepare` ends in a JSON error. (3) `NoRetrievalLost`: a record is appended while
the digest is on its way, and the truncation removes it. (4) `ShellWins`: the shell
exports `AUTO_PASS_PROFILE=home` and the path of `home`, the env file sets
`AUTO_PASS_KEEPASSXC_DB_PATH`, and the command runs on the path of the env file.

## 4. Proofs

All theorems hold for every value of the constants that satisfies the named
assumption of the module (`ConstantsAssumption`, `CommandAssumption` with
`EnvironmentAssumption`, `ConsoleAssumption`, `SocketAssumption`, `TodoAssumption`): any sets of connections, repositories, vaults,
paths, passwords, operators, retrievals and channels, finite or not where the
model does not count them (the retrievals, and the accounts of the to-do list, are
finitely many).

- **Daemon.** `IndInv` adds to the properties where a handler can stand and what
  it then knows (`HandlersOnTrack`), that only running loads hold entries
  (`LoadersOnTrack`), and what a lone reload has already stored (`LoneReload`):
  for each repository the file's entry is either still in the reload's hands or in
  the table. `SettledPolicy` is not inductive without it, since its last step only
  sees that nothing is left to store. From `Invariance` follow `TypeCorrect`,
  `MasterKeyOnly`, `ReleasesAudited` and `PolicySettles`.
  `DaemonImplementsService` maps each action to a step of `CredentialService` or
  to a stutter, one lemma per kind of step, using `IndInv` for what the handler
  was permitted by.
- **Rotation.** `CompleteInv` says what a promote that nobody has crossed can rely on
  at each of its calls: the pending entry is the one it read, from its write on the
  real entry has that password, and at its end the registry is the one it wrote. Any
  number of others may read, fail and be killed meanwhile. It gives `PromoteCompletes`.
  `OverlapInv` is about the password. Until something has raced (`Unraced`), no prepare
  or discard is on its way together with a promote (`ReplacingApart`), the provider
  accepts the real password while one of them runs, and what a promote holds is the
  pending password, which the provider accepts (`PromotingApart`). `LossNeedsRace`
  follows: of all overlaps only those two can lose the password.
  `WorkflowImplementsChange` maps each call to one
  of the four steps of `PasswordChange` or to a stutter; the call that overwrites or
  removes the pending entry needs `ReplacingApart`, the one that writes the real entry
  `PromotingApart`.
- **Notifications.** `LogInv`: a summary without errors has delivered its digest on
  every channel it has used, without a race its digest covers the log, and a line
  without end comes from an append that failed (`TailFailed`). It
  gives `UnracedLogKept` and `ClearedDelivered`.

- **Counter.** `CountInv` ties the numbers retrievals hold to the order in which they
  were counted: no number, and nothing in the counter or the temporary file, is above
  the number of retrievals counted (`Bounded`), and without a disturbance at most one
  retrieval updates, which holds that number, and the counter is that number when none
  does (`Undisturbed`). The
  step that counts needs the cardinality lemmas of `FiniteSetTheorems`. It gives
  `CountedNeverEarly`, `EveryNthFires` and `TypeCorrect`.
- **Credentials.** `AskedIsFound` is the lemma that matters: for every invocation and
  every setting that is not in `Overruled`, what the code's sequence of loads leaves
  (`Found`) equals `Asked`, the documented order. It goes through `Taken`, the order the
  code follows (`TakenIsFound`), by cases on the option, the env file and the profile,
  for any number of profiles. `AskedInv` then follows the settings through the cache and
  the prompt, using `CacheInv` (what is in a cache or about to be written was typed
  for that vault). Both rest on `TypeInv`, with `PathInv`: a running command has a
  path, and the write holds a password.
- **Web console.** Each question has its own invariant on top of `TypeInv`.
  `ContextInv`: who holds the lock has saved `Base`, and the environment is its
  context's (`EnvironmentAlwaysRestored`, `CredentialsAlwaysOwn`). `GrantInv`: every
  table of a list that a request, the file or the daemon holds was asked for, or is
  what the request itself asks for, whichever tables a write over another text leaves
  (`GrantsAlwaysAsked`). `KeptInv`: unless an edit was lost, a request whose read is
  not stale holds what the file is to hold, but for its own repository, and without
  writers the file itself does (`EditsKept`). `FollowInv`: a reload that no other
  overlaps starts from an empty table, and what it has read is the file, unless an
  edit is pending that will reload (`TableFollowsFile`).
- **Socket.** `PathInv` says where the socket of a daemon that is alone is at each of
  its steps, and that of two living daemons each has met the other (`ReachableAlone`,
  `RestartableAlone`). `LockInv` adds that only a daemon that is up is unlocked, or has
  a request without an answer (`LockForgets`); `TalkInv` that a command nobody
  disturbed can still reach the daemon it has talked to (`TracebacksExplained`).

- **To-do list.** `Listed` picks a sorted order of what is due, so that the first thing
  to prove is that there is one. `PlaceIsOrder` constructs it: each entry goes after
  as many places as there are entries before it. `Before` is a strict total order
  between entries of different accounts (`BeforeIsOrder`), so no two get the same
  place, and as many places as entries are all taken (the cardinality theorems
  replace an induction). `RoundedDown` and `DueInHalfDays` relate the whole days of the
  code to the deadline in half days, below zero too, and `ListIsExact` puts both
  together: the list of a set of due entries is `Exact`. `FoundExactly` says what a
  sync that nothing disturbed has found so far: what is due of the registries it has
  read. With `FileKept` (the rest of a file that is not cut is what the server made of
  it), `CopyKept` (so is what a sync has read, unless its read is stale) and `CutMended`
  (who cut the file is still to write it) `IInv` is inductive and gives `TypeCorrect`,
  `ListExact` and `RestAlwaysKept`.
  `TodoImplementsFile` needs two facts more (`WriteInv`): a sync that is about to cut
  the file holds the rest of it as it is, unless its read is stale (`CopyFresh`), and
  of the syncs that have cut it one at most is not stale (`OneWriter`), so that the
  choice in `Held` is none. The write then brings what `Held` has had since the
  truncation, and is a stutter.

Only model-checked: liveness (`AllAnswered`, `CommandsEnd` of two modules,
`RequestsEnd`, `BecomesExact`), which is out of the prover's reach. Every safety
invariant and action property of the passing runs has a theorem.

## 5. Not modelled

- keepassxc-cli is external: one call is atomic and succeeds or fails. Two calls
  that write the vault file at the same moment can lose an update inside the CLI.
- A change of the master password while the daemon runs.
- An allowlist entry that is not a table, which stops a load half-way; glob
  matching itself.
- The cache of repository names, and whether a process belongs to the repository
  it claims: the name is an input of a request.
- The queue of the listening socket (16 connections), and a client that never reads.
- Generation and inference of passwords: a policy is a model value. An inference
  reads characters one by one, and its outcome matters to no other state.
- Reports without effect: `daemon-status` beyond its probe, `rotate status` and
  `show-config`, `list-profiles`, the pages of the console, the audit view (a pure read of a
  growing log; with `limit=0` it returns one event), the access check and its
  `--fix-acl`.
- Login and session: the outcome of `require_session` is an input of a request; the
  comparison of tokens and `safe_next` are pure functions.
- Lines of the audit log cut short in the middle of an append: in the model an append
  succeeds or fails as a whole.
- A `db` after `allowed_paths` in an allowlist written by hand, under a text written over
  it (`WebConsole!Overlay`).
- Argument parsing, templates, message texts, the access report.

## 6. Plan

Done: the modules of section 2, in the order `CredentialService`,
`ProvisioningDaemon`, `RotationWorkflow` with `PasswordChange`,
`RetrievalNotifications`, then
`CommandCredentials` (which took up profiles and the password cache), `WebConsole`
(allowlist editor and `with_keepassxc_context`), `SocketLifecycle` and `RotationTodo`
with `TodoFile`, with the theorems of section 4.

What a continuation could take up:

1. The cache of repository names as a component of `ProvisioningDaemon`, with a
   change of the remote while the daemon runs.
2. A refinement of `WebConsole`'s one-step `FillTable` by the entry-by-entry stores of
   `ProvisioningDaemon`.
