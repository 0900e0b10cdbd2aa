------------------------ MODULE CommandCredentials ------------------------
(***************************************************************************)
(* How a command of the CLI comes by its database password: the            *)
(* environment (main and envfile.py), the password cache and the prompt    *)
(* (seed_keepass_password_env_for_tty), and _resolve_context.              *)
(*                                                                         *)
(* Commands are processes.  Each has an environment of its own, but all    *)
(* share the cache, one file per vault, which they check, read, remove and *)
(* rewrite without a lock.  A process that has the file open keeps it when *)
(* another one removes it: what it writes then is at no path.              *)
(***************************************************************************)
EXTENDS Naturals, KeepassEnvironment

CONSTANTS
  Processes,   \* the commands that may run at the same time
  Invocations, \* how each of them may be called
  Expires,     \* whether a cache file expires (a time to live above 0)
  Torn,        \* a cache that was cut, or that two processes have written over each other
  Malformed,   \* an env file with a line that is no assignment
  Empty        \* the empty string, as the argument of --profile

CacheFiles == [body : Keys \cup {Torn}, expired : BOOLEAN]

\* How a command is called: its shell, its env file (Nothing for --no-env-file),
\* --profile, and whether it may ask the user.
InvocationType ==
  [shell : Environments, file : Environments \cup {Malformed, Nothing},
   option : Names \cup {Empty, Nothing}, tty : BOOLEAN, allow : BOOLEAN]

ASSUME CommandAssumption ==
  /\ Invocations \in [Processes -> SUBSET InvocationType]
  /\ Expires \in BOOLEAN
  /\ Torn \notin Keys
  /\ Malformed \notin Environments
  /\ Empty \notin Names \cup {Nothing}
  /\ Nothing \notin CacheFiles \cup Environments \cup {Malformed, Torn}

VARIABLES
  cache,    \* the cache file of each vault, or Nothing
  pc,       \* where each command is
  settings, \* the path, password and key file its environment gives
  tty,      \* whether it has a terminal
  allow,    \* whether it was called with --allow-interactive
  entered,  \* the password its user has entered, or Nothing
  linked,   \* whether the cache file it has open is still at its path
  outcome,  \* how it ended
  expected,  \* history: what its call, shell and env file ask for
  overruled, \* history: the settings for which the env file overrules its shell
  typed      \* history: the passwords entered for each vault

call == <<tty, allow, expected, overruled>>
local == <<call, linked>>
vars == <<cache, pc, settings, tty, allow, entered, linked, outcome, expected,
          overruled, typed>>

PcValues == {"idle", "check", "unlink", "read", "prompt", "open", "write", "run"}
Outcomes == {"", "ran", "no path", "no password", "bad profile", "bad file"}

TypeOK ==
  /\ cache \in [Vaults -> CacheFiles \cup {Nothing}]
  /\ pc \in [Processes -> PcValues]
  /\ settings \in [Processes -> Settings]
  /\ tty \in [Processes -> BOOLEAN]
  /\ allow \in [Processes -> BOOLEAN]
  /\ entered \in [Processes -> Keys \cup {Nothing}]
  /\ linked \in [Processes -> BOOLEAN]
  /\ outcome \in [Processes -> Outcomes]
  /\ expected \in [Processes -> Settings]
  /\ overruled \in [Processes -> SUBSET Fields]
  /\ typed \in [Vaults -> SUBSET Keys]

Init ==
  /\ cache = [v \in Vaults |-> Nothing]
  /\ pc = [p \in Processes |-> "idle"]
  /\ settings = [p \in Processes |-> NoSettings]
  /\ tty = [p \in Processes |-> FALSE]
  /\ allow = [p \in Processes |-> FALSE]
  /\ entered = [p \in Processes |-> Nothing]
  /\ linked = [p \in Processes |-> FALSE]
  /\ outcome = [p \in Processes |-> ""]
  /\ expected = [p \in Processes |-> NoSettings]
  /\ overruled = [p \in Processes |-> {}]
  /\ typed = [v \in Vaults |-> {}]

-----------------------------------------------------------------------------
Goto(p, label) == pc' = [pc EXCEPT ![p] = label]

\* The process ends, and its environment with it.
End(p, how) ==
  /\ Goto(p, "idle")
  /\ outcome' = [outcome EXCEPT ![p] = how]
  /\ settings' = [settings EXCEPT ![p] = NoSettings]
  /\ expected' = [expected EXCEPT ![p] = NoSettings]
  /\ overruled' = [overruled EXCEPT ![p] = {}]
  /\ tty' = [tty EXCEPT ![p] = FALSE]
  /\ allow' = [allow EXCEPT ![p] = FALSE]
  /\ entered' = [entered EXCEPT ![p] = Nothing]
  /\ linked' = [linked EXCEPT ![p] = FALSE]

\* _default_cache_path: one file for each path of a database.
CacheOf(p) == settings[p].path

\* Without a password in the environment or the cache the user is asked, if
\* there is a terminal.
AskNext(p) == Goto(p, IF tty[p] THEN "prompt" ELSE "run")

-----------------------------------------------------------------------------
(* What a call asks for.                                                    *)

\* main() tests --profile for truth when there is no env file: an empty one is
\* as good as none.
OptionOf(i) == IF i.file = Nothing /\ i.option = Empty THEN Nothing ELSE i.option

First(s) ==
  IF \E i \in DOMAIN s : s[i] # Nothing
  THEN s[CHOOSE i \in DOMAIN s : s[i] # Nothing /\ \A j \in DOMAIN s : j < i => s[j] = Nothing]
  ELSE Nothing

FromProfile(env, profile, f) ==
  IF env = Nothing \/ profile = Nothing THEN Nothing ELSE env.profiles[profile][f]
FromFile(file, part, f) == IF file = Nothing THEN Nothing ELSE file[part][f]

\* --profile counts before the profile the shell exports, and that before the
\* env file's.
ProfileAsked(i) ==
  ProfileOf(First(<<OptionOf(i), i.shell.active, IF i.file = Nothing THEN Nothing ELSE i.file.active>>))

\* What counts for each of the three settings by the README and the example of
\* an env file: whatever the shell exports before anything in the env file, and
\* in each of them AUTO_PASS_ variables, then the profile's, then PF_ variables.
Asked(i) ==
  [f \in Fields |->
     First(<<i.shell.own[f], FromProfile(i.shell, ProfileAsked(i), f), i.shell.pf[f],
             FromFile(i.file, "own", f), FromProfile(i.file, ProfileAsked(i), f),
             FromFile(i.file, "pf", f)>>)]

\* The settings for which main() takes another value although the shell exports
\* one: an AUTO_PASS_ variable of the env file counts before the profile's
\* variables of the shell, and it or the env file's profile before the shell's PF_
\* variables; and with neither an env file nor --profile no profile counts.
Overruled(i) ==
  {f \in Fields :
     /\ i.shell.own[f] = Nothing
     /\ \/ /\ FromProfile(i.shell, ProfileAsked(i), f) # Nothing
           /\ \/ FromFile(i.file, "own", f) # Nothing
              \/ i.file = Nothing /\ OptionOf(i) = Nothing
        \/ /\ FromProfile(i.shell, ProfileAsked(i), f) = Nothing
           /\ i.shell.pf[f] # Nothing
           /\ \/ FromFile(i.file, "own", f) # Nothing
              \/ FromProfile(i.file, ProfileAsked(i), f) # Nothing}

-----------------------------------------------------------------------------
(* The start of a command.                                                  *)

\* A profile that is blank once normalized.
Blank(name) == name \notin {n \in Names : Normalized[n] # Nothing}

Accepted(i) ==
  /\ i.file # Malformed
  /\ OptionOf(i) # Nothing => ~Blank(OptionOf(i))

\* The settings main() leaves a command with.
Found(i) == Resolve(Prepare(i.shell, i.file, OptionOf(i)))

\* EnvFileError for a malformed file or a blank --profile; KeepassCommandError if
\* no path is set.
CannotBegin(p) ==
  /\ pc[p] = "idle"
  /\ \E i \in Invocations[p] :
       \/ i.file = Malformed /\ End(p, "bad file")
       \/ /\ i.file # Malformed
          /\ OptionOf(i) # Nothing /\ Blank(OptionOf(i))
          /\ End(p, "bad profile")
       \/ /\ Accepted(i)
          /\ Found(i).path = Nothing
          /\ End(p, "no path")
  /\ UNCHANGED <<cache, typed>>

\* The password is looked for only if the environment has none.
Begin(p) ==
  /\ pc[p] = "idle"
  /\ \E i \in Invocations[p] :
       /\ Accepted(i)
       /\ settings' = [settings EXCEPT ![p] = Found(i)]
       /\ settings'[p].path # Nothing
       /\ Goto(p, IF settings'[p].password # Nothing THEN "run" ELSE "check")
       /\ expected' = [expected EXCEPT ![p] = Asked(i)]
       /\ overruled' = [overruled EXCEPT ![p] = Overruled(i)]
       /\ tty' = [tty EXCEPT ![p] = i.tty]
       /\ allow' = [allow EXCEPT ![p] = i.allow]
  /\ outcome' = [outcome EXCEPT ![p] = ""]
  /\ UNCHANGED <<cache, linked, entered, typed>>

-----------------------------------------------------------------------------
(* The cache and the prompt.                                                *)

\* json.loads finds a password in the file.
Readable(file) == file # Nothing /\ file.body # Torn

\* exists() and stat(): a file that is missing, or goes in between, is no cache.
CheckCache(p) ==
  /\ pc[p] = "check"
  /\ \/ cache[CacheOf(p)] = Nothing /\ AskNext(p)
     \/ /\ cache[CacheOf(p)] # Nothing
        /\ Goto(p, IF cache[CacheOf(p)].expired THEN "unlink" ELSE "read")
  /\ UNCHANGED <<cache, settings, local, entered, outcome, typed>>

\* unlink(missing_ok=True), of whatever is at the path by now.
UnlinkCache(p) ==
  /\ pc[p] = "unlink"
  /\ cache' = [cache EXCEPT ![CacheOf(p)] = Nothing]
  /\ linked' = [q \in Processes |-> linked[q] /\ CacheOf(q) # CacheOf(p)]
  /\ AskNext(p)
  /\ UNCHANGED <<settings, call, entered, outcome, typed>>

\* Mutants of ReadCache: a file that is no JSON is not caught; it is not parsed.
ReadCacheUncaught(p) ==
  /\ pc[p] = "read"
  /\ Readable(cache[CacheOf(p)])
  /\ settings' = [settings EXCEPT ![p].password = cache[CacheOf(p)].body]
  /\ Goto(p, "run")
  /\ UNCHANGED <<cache, local, entered, outcome, typed>>
ReadCacheUnparsed(p) ==
  /\ pc[p] = "read"
  /\ \/ /\ cache[CacheOf(p)] = Nothing
        /\ AskNext(p)
        /\ UNCHANGED settings
     \/ /\ cache[CacheOf(p)] # Nothing
        /\ settings' = [settings EXCEPT ![p].password = cache[CacheOf(p)].body]
        /\ Goto(p, "run")
  /\ UNCHANGED <<cache, local, entered, outcome, typed>>

\* A file that is gone or no JSON is no cache; otherwise its password goes into
\* the environment.
ReadCache(p) ==
  /\ pc[p] = "read"
  /\ \/ /\ ~Readable(cache[CacheOf(p)])
        /\ AskNext(p)
        /\ UNCHANGED settings
     \/ /\ Readable(cache[CacheOf(p)])
        /\ settings' = [settings EXCEPT ![p].password = cache[CacheOf(p)].body]
        /\ Goto(p, "run")
  /\ UNCHANGED <<cache, local, entered, outcome, typed>>

\* getpass: the user enters a password, right or wrong, or nothing.
Prompt(p) ==
  /\ pc[p] = "prompt"
  /\ \/ \E k \in Keys :
          /\ entered' = [entered EXCEPT ![p] = k]
          /\ settings' = [settings EXCEPT ![p].password = k]
          /\ typed' = [typed EXCEPT ![CacheOf(p)] = @ \cup {k}]
          /\ Goto(p, "open")
     \/ /\ Goto(p, "run")
        /\ UNCHANGED <<entered, settings, typed>>
  /\ UNCHANGED <<cache, local, outcome>>

\* os.open creates or truncates the file.  An OSError is the end of the seeding.
OpenCache(p) ==
  /\ pc[p] = "open"
  /\ \/ /\ cache' = [cache EXCEPT ![CacheOf(p)] = [body |-> Torn, expired |-> FALSE]]
        /\ linked' = [linked EXCEPT ![p] = TRUE]
        /\ Goto(p, "write")
     \/ /\ Goto(p, "run")
        /\ UNCHANGED <<cache, linked>>
  /\ UNCHANGED <<settings, call, entered, outcome, typed>>

\* Mutant of WriteCache: the file of another vault may be written.
WriteCacheAnywhere(p) ==
  /\ pc[p] = "write"
  /\ \E v \in Vaults : cache' = [cache EXCEPT ![v] = [body |-> entered[p], expired |-> FALSE]]
  /\ linked' = [linked EXCEPT ![p] = FALSE]
  /\ Goto(p, "run")
  /\ UNCHANGED <<settings, call, entered, outcome, typed>>

\* The write starts at the beginning of the file; over the text of another
\* process it may leave a rest of that behind.  A write to no path, or one that
\* fails, changes no file.
WriteCache(p) ==
  /\ pc[p] = "write"
  /\ \/ /\ linked[p]
        /\ \E b \in IF cache[CacheOf(p)].body = Torn THEN {entered[p]} ELSE {entered[p], Torn} :
             cache' = [cache EXCEPT ![CacheOf(p)] = [body |-> b, expired |-> FALSE]]
     \/ UNCHANGED cache
  /\ linked' = [linked EXCEPT ![p] = FALSE]
  /\ Goto(p, "run")
  /\ UNCHANGED <<settings, call, entered, outcome, typed>>

\* _resolve_context and the call of keepassxc-cli, which asks the user itself
\* when it gets no password.
Run(p) ==
  /\ pc[p] = "run"
  /\ End(p, IF settings[p].password = Nothing /\ ~allow[p] /\ ~tty[p] THEN "no password" ELSE "ran")
  /\ UNCHANGED <<cache, typed>>

\* The file of v becomes older than its time to live.
Expire(v) ==
  /\ Expires
  /\ cache[v] # Nothing
  /\ ~cache[v].expired
  /\ cache' = [cache EXCEPT ![v].expired = TRUE]
  /\ UNCHANGED <<pc, settings, local, entered, outcome, typed>>

\* A command is killed.
Kill(p) ==
  /\ pc[p] # "idle"
  /\ End(p, "")
  /\ UNCHANGED <<cache, typed>>

-----------------------------------------------------------------------------
CommandStep(p) ==
  CheckCache(p) \/ UnlinkCache(p) \/ ReadCache(p) \/ Prompt(p) \/ OpenCache(p)
    \/ WriteCache(p) \/ Run(p)

Next ==
  \/ \E p \in Processes : CannotBegin(p) \/ Begin(p) \/ CommandStep(p) \/ Kill(p)
  \/ \E v \in Vaults : Expire(v)

\* The steps of a command that has begun; its user answers or gives up.
Fairness == \A p \in Processes : WF_vars(CommandStep(p))

Spec == Init /\ [][Next]_vars /\ Fairness

-----------------------------------------------------------------------------
(* Properties.                                                              *)

\* A command has the setting its call asks for; a password that its call does not
\* give is one that was entered for the path it runs on, or none.
AsAsked(p, f) ==
  IF f = "password" /\ expected[p].password = Nothing
  THEN settings[p].password \in typed[settings[p].path] \cup {Nothing}
  ELSE settings[p][f] = expected[p][f]

\* A command runs on the path, password and key file that its call, its shell and
\* its env file ask for by the documented order, whatever other commands do to the
\* cache, but for the settings in which the env file overrules the shell (main,
\* load_config_environment, seed_keepass_password_env_for_tty).
RunsAsAsked ==
  \A p \in Processes : pc[p] # "idle" => \A f \in Fields \ overruled[p] : AsAsked(p, f)

\* What the README says of the environment, without that exception: values exported
\* by the shell are the overrides of highest precedence.  The code breaks it.
ShellWins == \A p \in Processes : pc[p] # "idle" => \A f \in Fields : AsAsked(p, f)

\* A cache file holds a password that was entered at a prompt for its own vault,
\* or nothing that parses: no race of writers, and no password from a profile or
\* the shell, puts another one there.
CacheHoldsTyped ==
  \A v \in Vaults : cache[v] # Nothing => cache[v].body \in typed[v] \cup {Torn}

\* A command that has begun ends, whatever state it finds the cache in.
CommandsEnd == \A p \in Processes : []<>(pc[p] = "idle")
=============================================================================
