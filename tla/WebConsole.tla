---------------------------- MODULE WebConsole ----------------------------
(***************************************************************************)
(* The web console (web/app.py): the entry manager, the editor of the      *)
(* allowlist and the control of the daemon.                                *)
(*                                                                         *)
(* Each request runs in a thread of its own.  All share the process        *)
(* environment, into which with_keepassxc_context puts the credentials of  *)
(* one request at a time, the allowlist file, which is read, truncated and *)
(* written without a lock, and the daemon, whose reload empties its table, *)
(* reads the file and fills the table, also without a lock.  The password  *)
(* and the decisions of the daemon are the business of ProvisioningDaemon; *)
(* here it is what the console sees of it.                                 *)
(***************************************************************************)
EXTENDS KeepassEnvironment

CONSTANTS
  Requests,  \* the requests the console gets, each served once
  Calls,     \* what each of them may ask for
  Repos,     \* repositories
  Aliases,   \* the names of vaults
  Own,       \* in the place of a vault: the table of the repository itself
  Grants,    \* what a table may allow, with the db of a repository's own table
  Unlisted,  \* instead of that, in an own table without allowed_paths
  Drafts,    \* the allowlists a user may write by hand
  Masters,   \* the vault, password and key file a daemon may hold
  Base,      \* the AUTO_PASS_KEEPASSXC_ variables the console was started with
  Compat     \* the PF_KEEPASSXC_ variables it was started with

\* An allowlist is a series of tables: [repos.n], or one [repos.n.vaults.v] for
\* each vault, or both.  A file that is missing or cut to nothing has none.
Tables == [repo : Repos, vault : Aliases \cup {Own}, grant : Grants \cup {Unlisted}]

\* TOML permits a table once.
Distinct(list) == \A s, t \in list : s.repo = t.repo /\ s.vault = t.vault => s = t

Operations ==
  [kind : {"get", "set", "lock", "unlock", "reload"}]
    \cup [kind : {"upsert"}, repo : Repos, grant : Grants]
    \cup [kind : {"delete"}, repo : Repos]

ASSUME ConsoleAssumption ==
  /\ Calls \in [Requests -> SUBSET Operations]
  /\ Own \notin Aliases
  /\ Unlisted \notin Grants
  /\ \A list \in Drafts : list \subseteq Tables /\ Distinct(list)
  /\ Masters \subseteq {m \in Settings : m.path # Nothing /\ m.password # Nothing}
  /\ Masters # {}
  /\ {Base, Compat} \subseteq Settings
  /\ Nothing \notin Requests \cup Operations

VARIABLES
  pc,       \* where each request is
  op,       \* what it asks for, or Nothing
  ctx,      \* the credentials the daemon gave it
  saved,    \* the variables it has to put back
  context,  \* the settings upsert_keepassxc_entry has resolved
  repos,    \* the tables it has read from the file, and changed
  environ,  \* the AUTO_PASS_KEEPASSXC_ variables of the process
  holder,   \* the request that holds _keepass_env_lock, or Nothing
  file,     \* the tables in the text of the allowlist file
  malformed, \* that text is no TOML
  master,   \* the credentials of the daemon that runs, or Nothing
  unlocked, \* it is unlocked
  table,    \* what its enforcer has read of the file
  calls,    \* history: the settings of each call of keepassxc-cli the requests have made
  stale,    \* history: the file has changed since the request read it
  lossy,    \* history: a change of the file was made from a stale read, or cut off
  behind,   \* history: no reload has read the file since it was changed
  mixed,    \* history: the last reloads have overlapped
  latest,   \* history: what the last edit of each repository asked for
  authored  \* history: every table that was asked for

entryVars == <<ctx, saved, context, environ, holder, calls>>
editVars == <<file, malformed, stale, lossy, latest, authored>>
daemonVars == <<master, unlocked>>
tableVars == <<table, behind, mixed>>
vars == <<pc, op, repos, entryVars, editVars, daemonVars, tableVars>>

Inside == {"show", "edit", "mkdir", "add", "restore"}
InDaemon == {"reading", "filling"}
PcValues ==
  {"new", "fetch", "acquire", "load", "truncate", "write", "control", "reload", "done"}
    \cup Inside \cup InDaemon

TypeOK ==
  /\ pc \in [Requests -> PcValues]
  /\ op \in [Requests -> Operations \cup {Nothing}]
  /\ ctx \in [Requests -> Settings]
  /\ saved \in [Requests -> Settings]
  /\ context \in [Requests -> Settings]
  /\ repos \in [Requests -> SUBSET Tables]
  /\ environ \in Settings
  /\ holder \in Requests \cup {Nothing}
  /\ file \subseteq Tables
  /\ malformed \in BOOLEAN
  /\ unlocked \in BOOLEAN
  /\ master \in Masters \cup {Nothing}
  /\ table \subseteq Tables
  /\ calls \subseteq Requests \X Settings
  /\ stale \in [Requests -> BOOLEAN]
  /\ lossy \in BOOLEAN
  /\ behind \in BOOLEAN
  /\ mixed \in BOOLEAN
  /\ latest \subseteq Tables
  /\ authored \subseteq Tables

Init ==
  /\ pc = [r \in Requests |-> "new"]
  /\ op = [r \in Requests |-> Nothing]
  /\ ctx = [r \in Requests |-> NoSettings]
  /\ saved = [r \in Requests |-> NoSettings]
  /\ context = [r \in Requests |-> NoSettings]
  /\ repos = [r \in Requests |-> {}]
  /\ environ = Base
  /\ holder = Nothing
  /\ file \in Drafts
  /\ malformed = FALSE
  /\ master = Nothing
  /\ unlocked = FALSE
  /\ table = {}
  /\ calls = {}
  /\ stale = [r \in Requests |-> FALSE]
  /\ lossy = FALSE
  /\ behind = FALSE
  /\ mixed = FALSE
  /\ latest = file
  /\ authored = file

-----------------------------------------------------------------------------
Up == master # Nothing

\* A request that ends forgets what it asked for.
Goto(r, label) ==
  /\ pc' = [pc EXCEPT ![r] = label]
  /\ op' = IF label = "done" THEN [op EXCEPT ![r] = Nothing] ELSE op

\* require_session, then the handler of the operation.
Arrive(r) ==
  /\ pc[r] = "new"
  /\ \/ Goto(r, "done")
     \/ \E o \in Calls[r] :
          /\ op' = [op EXCEPT ![r] = o]
          /\ pc' = [pc EXCEPT ![r] =
                      CASE o.kind \in {"get", "set"} -> "fetch"
                        [] o.kind \in {"upsert", "delete"} -> "load"
                        [] o.kind \in {"lock", "unlock"} -> "control"
                        [] o.kind = "reload" -> "reload"]
  /\ UNCHANGED <<repos, entryVars, editVars, daemonVars, tableVars>>

-----------------------------------------------------------------------------
(* The entry manager: entries_get and entries_set.                          *)

\* Mutant of FetchContext: it takes any answer of the daemon for credentials.
FetchContextUnchecked(r) ==
  /\ pc[r] = "fetch"
  /\ ctx' = [ctx EXCEPT ![r] = master]
  /\ Goto(r, "acquire")
  /\ UNCHANGED <<repos, saved, context, environ, holder, calls, editVars, daemonVars, tableVars>>

\* _get_admin_context: a daemon that is down or locked is the end of the request.
FetchContext(r) ==
  /\ pc[r] = "fetch"
  /\ \/ /\ Up /\ unlocked
        /\ ctx' = [ctx EXCEPT ![r] = master]
        /\ Goto(r, "acquire")
     \/ ~(Up /\ unlocked) /\ Goto(r, "done") /\ UNCHANGED ctx
  /\ UNCHANGED <<repos, saved, context, environ, holder, calls, editVars, daemonVars, tableVars>>

Enter(r) ==
  /\ pc[r] = "acquire"
  /\ holder' = r
  /\ saved' = [saved EXCEPT ![r] = environ]
  /\ environ' = ctx[r]
  /\ Goto(r, IF op[r].kind = "get" THEN "show" ELSE "edit")
  /\ UNCHANGED <<repos, ctx, context, calls, editVars, daemonVars, tableVars>>

\* Mutant of AcquireContext: it does not wait for the lock.
AcquireContextAtOnce(r) == Enter(r)

\* with_keepassxc_context.  Without a key file the variable is removed.
AcquireContext(r) == holder = Nothing /\ Enter(r)

\* What _resolve_context finds: the password is set, so nothing is asked or read.
Resolved == Resolve([own |-> environ, pf |-> Compat])

CallWith(r, settings) == calls' = calls \cup {<<r, settings>>}

\* resolve_keepassxc_entry_all_fields; a KeepassCommandError too leaves the context.
ShowEntry(r) ==
  /\ pc[r] = "show"
  /\ CallWith(r, Resolved)
  /\ Goto(r, "restore")
  /\ UNCHANGED <<repos, ctx, saved, context, environ, holder, editVars, daemonVars, tableVars>>

\* upsert_keepassxc_entry: with nothing to set no call is made; an entry that is
\* not found is added, after its group if it has one.
EditEntry(r) ==
  /\ pc[r] = "edit"
  /\ \/ Goto(r, "restore") /\ UNCHANGED <<context, calls>>
     \/ /\ context' = [context EXCEPT ![r] = Resolved]
        /\ CallWith(r, Resolved)
        /\ \E next \in {"restore", "mkdir", "add"} : Goto(r, next)
  /\ UNCHANGED <<repos, ctx, saved, environ, holder, editVars, daemonVars, tableVars>>

\* ensure_group resolves the context again.
MakeGroup(r) ==
  /\ pc[r] = "mkdir"
  /\ CallWith(r, Resolved)
  /\ \E next \in {"add", "restore"} : Goto(r, next)
  /\ UNCHANGED <<repos, ctx, saved, context, environ, holder, editVars, daemonVars, tableVars>>

AddEntry(r) ==
  /\ pc[r] = "add"
  /\ CallWith(r, context[r])
  /\ Goto(r, "restore")
  /\ UNCHANGED <<repos, ctx, saved, context, environ, holder, editVars, daemonVars, tableVars>>

\* The request ends, and what it knew with it.
LeaveContext(r) ==
  /\ Goto(r, "done")
  /\ ctx' = [ctx EXCEPT ![r] = NoSettings]
  /\ saved' = [saved EXCEPT ![r] = NoSettings]
  /\ context' = [context EXCEPT ![r] = NoSettings]
  /\ calls' = {call \in calls : call[1] # r}

\* Mutant of RestoreContext: a variable that was not set is not removed.
RestoreContextPartly(r) ==
  /\ pc[r] = "restore"
  /\ environ' = Over(saved[r], environ)
  /\ holder' = Nothing
  /\ LeaveContext(r)
  /\ UNCHANGED <<repos, editVars, daemonVars, tableVars>>

\* The finally of with_keepassxc_context.
RestoreContext(r) ==
  /\ pc[r] = "restore"
  /\ environ' = saved[r]
  /\ holder' = Nothing
  /\ LeaveContext(r)
  /\ UNCHANGED <<repos, editVars, daemonVars, tableVars>>

-----------------------------------------------------------------------------
(* The allowlist: allowlist_upsert_repo and allowlist_delete_repo.          *)

\* The form of the console makes an own table with allowed_paths.
Asks(r) ==
  IF op[r].kind = "upsert" THEN {[repo |-> op[r].repo, vault |-> Own, grant |-> op[r].grant]} ELSE {}

Without(list, n) == {t \in list : t.repo # n}

\* The handler fails on a file that is no TOML, and on a repository to delete that
\* is not there.
CanChange(r) ==
  /\ ~malformed
  /\ op[r].kind = "delete" => \E t \in file : t.repo = op[r].repo

\* _load_allowlist_raw and the change of one repository.
LoadAllowlist(r) ==
  /\ pc[r] = "load"
  /\ \/ /\ CanChange(r)
        /\ repos' = [repos EXCEPT ![r] = Without(file, op[r].repo) \cup Asks(r)]
        /\ stale' = [stale EXCEPT ![r] = FALSE]
        /\ Goto(r, "truncate")
     \/ /\ ~CanChange(r)
        /\ Goto(r, "done")
        /\ UNCHANGED <<repos, stale>>
  /\ UNCHANGED <<entryVars, file, malformed, lossy, latest, authored, daemonVars, tableVars>>

\* What other requests have read is stale from now on.
Editing(r) == pc[r] \in {"truncate", "write"}
Outdate(r) == stale' = [q \in Requests |-> IF q = r THEN stale[q] ELSE Editing(q)]

\* write_text opens the file, which cuts it, or raises an OSError.
TruncateAllowlist(r) ==
  /\ pc[r] = "truncate"
  /\ \/ /\ file' = {}
        /\ malformed' = FALSE
        /\ Outdate(r)
        /\ lossy' = (lossy \/ stale[r])
        /\ Goto(r, "write")
     \/ Goto(r, "done") /\ UNCHANGED <<file, malformed, stale, lossy>>
  /\ UNCHANGED <<repos, entryVars, latest, authored, daemonVars, tableVars>>

\* is_permitted goes by the own table of a repository if that has allowed_paths,
\* and by the tables of its vaults if not.
Simple(list, n) == \E t \in list : t.repo = n /\ t.vault = Own /\ t.grant # Unlisted
Effective(list) == {t \in list : t.vault = Own <=> Simple(list, t.repo)}

\* Mutants of Saved: all tables get one name; those of vaults are left out.
SavedUnderOneName(list) ==
  {[t EXCEPT !.repo = CHOOSE n \in Repos : \E s \in list : s.repo = n] : t \in Effective(list)}
SavedSimple(list) == {t \in Effective(list) : t.vault = Own}

\* The text _save_allowlist makes: it leaves out what is_permitted does not read.
Saved(list) == Effective(list)

\* write_text begins at the start of the file: over the text of another writer, a
\* rest of that, from any byte on, ends the file when it is longer.  The rest
\* begins inside a table, whose header is lost.  What is left of that one is no
\* TOML or a key that nobody reads.  Of the tables after it there may be any; one
\* that the new text has too makes the file malformed.  Drafts are taken to have
\* db before allowed_paths, as _save_allowlist writes it: a db that comes last
\* could become that of the new text's last table.
Fits(text, rest) == text \cap rest = {} /\ Distinct(text \cup rest)

Overlay(text) ==
  \E rest \in SUBSET file :
    /\ file' = text \cup rest
    /\ \/ malformed' = ~Fits(text, rest)
       \/ (malformed \/ file # {}) /\ malformed' = TRUE

\* The text is written, or not if that raises an OSError.
WriteAllowlist(r) ==
  /\ pc[r] = "write"
  /\ \/ /\ Overlay(Saved(repos[r]))
        /\ Outdate(r)
        /\ lossy' = (lossy \/ stale[r])
        /\ latest' = Without(latest, op[r].repo) \cup Asks(r)
        /\ authored' = authored \cup Asks(r)
        /\ Goto(r, "reload")
        /\ UNCHANGED behind
     \/ /\ lossy' = TRUE
        /\ behind' = TRUE
        /\ Goto(r, "done")
        /\ UNCHANGED <<file, malformed, stale, latest, authored>>
  /\ repos' = [repos EXCEPT ![r] = {}]
  /\ UNCHANGED <<entryVars, daemonVars, table, mixed>>

-----------------------------------------------------------------------------
(* The daemon: its control, and the reload after an edit.                   *)

\* daemon_lock and daemon_unlock.  A wrong password and a daemon that is down
\* are errors of the request.
ControlDaemon(r) ==
  /\ pc[r] = "control"
  /\ \/ Up /\ unlocked' = (op[r].kind = "unlock")
     \/ (op[r].kind = "unlock" \/ ~Up) /\ UNCHANGED unlocked
  /\ Goto(r, "done")
  /\ UNCHANGED <<repos, entryVars, editVars, master, tableVars>>

\* Mutants of ClearTable: a handler does not ask for a reload; it waits for the
\* daemon.
ClearTableNever(r) ==
  /\ pc[r] = "reload"
  /\ Goto(r, "done")
  /\ UNCHANGED <<repos, entryVars, editVars, daemonVars, tableVars>>

ClearTableWaiting(r) ==
  /\ pc[r] = "reload"
  /\ Up
  /\ table' = {}
  /\ mixed' = (\E q \in Requests : pc[q] \in InDaemon)
  /\ Goto(r, "reading")
  /\ UNCHANGED <<repos, entryVars, editVars, daemonVars, behind>>

\* AllowlistEnforcer.reload begins.  If the daemon is down the error is shown,
\* or suppressed after an edit.
ClearTable(r) ==
  /\ pc[r] = "reload"
  /\ \/ /\ Up
        /\ table' = {}
        /\ mixed' = (\E q \in Requests : pc[q] \in InDaemon)
        /\ Goto(r, "reading")
     \/ ~Up /\ Goto(r, "done") /\ UNCHANGED <<table, mixed>>
  /\ UNCHANGED <<repos, entryVars, editVars, daemonVars, behind>>

\* _load reads the file.  One that is no TOML ends the reload, with the table empty.
ReadAllowlist(r) ==
  /\ pc[r] = "reading"
  /\ behind' = FALSE
  /\ \/ malformed /\ Goto(r, "done") /\ UNCHANGED repos
     \/ /\ ~malformed
        /\ repos' = [repos EXCEPT ![r] = file]
        /\ Goto(r, "filling")
  /\ UNCHANGED <<entryVars, editVars, daemonVars, table, mixed>>

\* _load enters what it has read, one repository with all its tables after the other.
FillTable(r) ==
  /\ pc[r] = "filling"
  /\ table' = repos[r] \cup {t \in table : \A s \in repos[r] : s.repo # t.repo}
  /\ repos' = [repos EXCEPT ![r] = {}]
  /\ Goto(r, "done")
  /\ UNCHANGED <<entryVars, editVars, daemonVars, behind, mixed>>

-----------------------------------------------------------------------------
(* What happens around the console.                                         *)

\* The console is stopped and started again: its requests end, but for a reload
\* the daemon has begun.
RestartConsole ==
  /\ \E r \in Requests : pc[r] \notin {"new", "done"} \cup InDaemon
  /\ pc' = [r \in Requests |-> IF pc[r] \in {"new"} \cup InDaemon THEN pc[r] ELSE "done"]
  /\ op' = [r \in Requests |-> IF pc'[r] = "done" THEN Nothing ELSE op[r]]
  /\ environ' = Base
  /\ holder' = Nothing
  /\ lossy' = (lossy \/ \E r \in Requests : pc[r] = "write")
  /\ behind' = (behind \/ \E r \in Requests :
                            pc[r] = "write" \/ (pc[r] = "reload" /\ op[r].kind # "reload"))
  /\ ctx' = [r \in Requests |-> NoSettings]
  /\ saved' = [r \in Requests |-> NoSettings]
  /\ context' = [r \in Requests |-> NoSettings]
  /\ calls' = {}
  /\ repos' = [r \in Requests |-> IF pc[r] \in InDaemon THEN repos[r] ELSE {}]
  /\ stale' = [r \in Requests |-> FALSE]
  /\ UNCHANGED <<file, malformed, latest, authored, daemonVars, table, mixed>>

\* A user writes the allowlist by hand, in place.
EditByHand(list) ==
  /\ file' = list
  /\ malformed' = FALSE
  /\ stale' = [r \in Requests |-> Editing(r)]
  /\ lossy' = FALSE
  /\ behind' = TRUE
  /\ latest' = list
  /\ authored' = authored \cup list
  /\ UNCHANGED <<pc, op, repos, entryVars, daemonVars, table, mixed>>

\* auto-pass serve, with an allowlist it can read.
StartDaemon(m) ==
  /\ ~Up
  /\ ~malformed
  /\ unlocked' = FALSE
  /\ master' = m
  /\ table' = file
  /\ behind' = FALSE
  /\ mixed' = FALSE
  /\ UNCHANGED <<pc, op, repos, entryVars, editVars>>

\* auto-pass unlock.
UnlockDaemon ==
  /\ Up
  /\ ~unlocked
  /\ unlocked' = TRUE
  /\ UNCHANGED <<pc, op, repos, entryVars, editVars, master, tableVars>>

\* The reloads in progress end with the daemon: their requests get no answer.
StopDaemon ==
  /\ Up
  /\ master' = Nothing
  /\ unlocked' = FALSE
  /\ table' = {}
  /\ behind' = FALSE
  /\ mixed' = FALSE
  /\ pc' = [r \in Requests |-> IF pc[r] \in InDaemon THEN "done" ELSE pc[r]]
  /\ op' = [r \in Requests |-> IF pc'[r] = "done" THEN Nothing ELSE op[r]]
  /\ repos' = [r \in Requests |-> IF pc[r] \in InDaemon THEN {} ELSE repos[r]]
  /\ UNCHANGED <<entryVars, editVars>>

-----------------------------------------------------------------------------
EntryStep(r) ==
  FetchContext(r) \/ AcquireContext(r) \/ ShowEntry(r) \/ EditEntry(r) \/ MakeGroup(r)
    \/ AddEntry(r) \/ RestoreContext(r)

AllowlistStep(r) == LoadAllowlist(r) \/ TruncateAllowlist(r) \/ WriteAllowlist(r)

DaemonStep(r) == ControlDaemon(r) \/ ClearTable(r) \/ ReadAllowlist(r) \/ FillTable(r)

RequestStep(r) == EntryStep(r) \/ AllowlistStep(r) \/ DaemonStep(r)

Next ==
  \/ \E r \in Requests : Arrive(r) \/ RequestStep(r)
  \/ RestartConsole
  \/ \E list \in Drafts : EditByHand(list)
  \/ \E m \in Masters : StartDaemon(m)
  \/ UnlockDaemon
  \/ StopDaemon

\* The threads of the console and the daemon run, and keepassxc-cli returns.
Fairness == \A r \in Requests : WF_vars(RequestStep(r))

Spec == Init /\ [][Next]_vars /\ Fairness

-----------------------------------------------------------------------------
(* Properties.                                                              *)

\* While no request is inside with_keepassxc_context, the process environment is
\* the one the console was started with: no credentials of a request remain in
\* it, whichever way the request ended.
EnvironmentRestored == holder = Nothing => environ = Base

\* Every call of keepassxc-cli for a request, the later ones of an upsert too, is
\* made with the vault and password the daemon gave this request, whatever other
\* requests and daemons have done meanwhile, and with its key file; without one,
\* with the key file of the PF_ variables.
OwnCredentials ==
  \A call \in calls :
    LET given == ctx[call[1]]
    IN call[2] = [given EXCEPT !.key = IF given.key = Nothing THEN Compat.key ELSE given.key]

Of(list, n) == {t \in list : t.repo = n}

\* As long as no edit is made from a stale read or cut off, the file holds for
\* each repository what its last edit asked for, by console or by hand, but for
\* what _save_allowlist leaves out, which decides nothing: an edit changes one repository only.
LatestKept ==
  (~lossy /\ \A r \in Requests : pc[r] # "write") =>
    /\ ~malformed
    /\ \A n \in Repos : Of(file, n) \in {Of(latest, n), Of(Effective(latest), n)}

\* Whatever edits, reloads and crashes overlap, each grant the daemon goes by was
\* asked for, for the same repository and vault, by some edit at some time: texts
\* written over each other may leave or revive a grant, also beside a newer one of
\* the same repository, but give it to no other repository and no other vault.
NoGrantInvented == Effective(table) \subseteq authored

\* A file that cannot be read gives no grants.
Readable == IF malformed THEN {} ELSE file

\* Once the edits are over, the daemon decides by the file as it is: the reload
\* each edit ends with reads its own text or a later one.  Not so after an edit
\* by hand or one that was cut off, until the next reload, and after reloads
\* that overlapped, until the next that does not.
DaemonFollowsFile ==
  (/\ Up /\ ~behind /\ ~mixed
   /\ \A r \in Requests : pc[r] \notin {"write", "reload"} \cup InDaemon) =>
    table = Readable

\* A request that has arrived is answered.
RequestsEnd == \A r \in Requests : []<>(pc[r] \in {"new", "done"})
=============================================================================
