------------------------- MODULE RotationWorkflow -------------------------
(***************************************************************************)
(* The rotation of one account's password (rotation.py over keepassxc.py). *)
(*                                                                         *)
(* The vault holds three entries for the account: the real one, the        *)
(* pending one with the candidate password, and the registry with the      *)
(* rotation policy.  A command is a series of keepassxc-cli calls on them; *)
(* nothing makes the series atomic.  Between two calls other commands run, *)
(* and any call may be the last: it fails, or the process is killed.  One  *)
(* call of keepassxc-cli is atomic here.                                   *)
(*                                                                         *)
(* Outside the vault there is the password the provider accepts, which the *)
(* user changes by hand.                                                   *)
(***************************************************************************)
EXTENDS Naturals, FiniteSets

CONSTANTS
  Operators,  \* the users and jobs that run commands
  Passwords,  \* passwords the account may get
  Initial,    \* the password it has in the beginning
  Policies,   \* password policies
  CommandLine, \* the policies given on the command line
  Default,    \* the policy that applies when nothing else is said
  PolicyOf,   \* the policy each password is generated by
  Observed,   \* the policy infer_password_policy sees in each password
  NotesEdits, \* whether the user tidies the Notes of the companion entries
  None        \* the absent value

Commands == {"prepare", "promote", "discard", "configure", "infer"}

\* What a Notes field holds.  Notes written by the code are indented JSON over
\* several lines; the user may put them on one line, or empty them.
Layouts == {"blank", "inline", "indented"}
Sources == {"", "manual", "inferred"}
NotesValues ==
  [layout : Layouts, policy : Policies \cup {None}, source : Sources]
BlankNotes == [layout |-> "blank", policy |-> None, source |-> ""]

ASSUME ConstantsAssumption ==
  /\ Initial \in Passwords
  /\ Default \in Policies
  /\ CommandLine \subseteq Policies
  /\ PolicyOf \in [Passwords -> Policies]
  /\ Observed \in [Passwords -> Policies]
  /\ NotesEdits \in BOOLEAN
  /\ None \notin Passwords \cup Policies \cup NotesValues
                 \cup [password : Passwords, notes : NotesValues]

VARIABLES
  real,       \* the password of the real entry
  pending,    \* the pending entry, or None
  registry,   \* the Notes of the registry entry, or None
  provider,   \* the password the provider accepts
  generated,  \* the passwords used so far
  pc,         \* the next keepassxc-cli call of each operator's command
  command,    \* the command of each operator
  password,   \* the password it is about to write or has read
  notes,      \* the Notes it is about to write, or those it read from pending
  known,      \* the registry it has read, or None
  outcome,    \* how the latest command of each operator ended
  raced,      \* history: a prepare or discard was in the way of a promote or a change
  crossed     \* history: the promotes during which somebody else has changed the vault

vault == <<real, pending, registry>>
local == <<command, password, notes, known>>
vars == <<vault, provider, generated, pc, local, outcome, raced, crossed>>

PcValues ==
  {"idle", "readRegistry", "readPending", "readReal", "writePending", "addPending",
   "writeReal", "writeRegistry", "addRegistry", "removePending"}
Outcomes == {"", "done", "failed", "unreadable"}

Idle(o) == pc[o] = "idle"

TypeOK ==
  /\ real \in Passwords
  /\ pending \in [password : Passwords, notes : NotesValues] \cup {None}
  /\ registry \in NotesValues \cup {None}
  /\ provider \in Passwords
  /\ generated \in SUBSET Passwords
  /\ pc \in [Operators -> PcValues]
  /\ command \in [Operators -> Commands]
  /\ password \in [Operators -> Passwords \cup {None}]
  /\ notes \in [Operators -> NotesValues]
  /\ known \in [Operators -> NotesValues \cup {None}]
  /\ outcome \in [Operators -> Outcomes]
  /\ raced \in BOOLEAN
  /\ crossed \subseteq Operators

Init ==
  /\ real = Initial
  /\ pending = None
  /\ registry = None
  /\ provider = Initial
  /\ generated = {Initial}
  /\ pc = [o \in Operators |-> "idle"]
  /\ command = [o \in Operators |-> "discard"]
  /\ password = [o \in Operators |-> None]
  /\ notes = [o \in Operators |-> BlankNotes]
  /\ known = [o \in Operators |-> None]
  /\ outcome = [o \in Operators |-> ""]
  /\ raced = FALSE
  /\ crossed = {}

-----------------------------------------------------------------------------
(* Helpers.                                                                 *)

\* resolve_keepassxc_entry_all_fields takes every line with a colon for a field
\* of its own: of indented JSON only the first line, "{", is left of the Notes,
\* and json.loads fails on it.
Readable(n) == n.layout # "indented"

\* json.dumps(..., indent=2).
Dumped(policy, source) == [layout |-> "indented", policy |-> policy, source |-> source]

CandidateInUse == pending # None /\ provider = pending.password

Goto(o, label) == pc' = [pc EXCEPT ![o] = label]

End(o, how) ==
  /\ pc' = [pc EXCEPT ![o] = "idle"]
  /\ outcome' = [outcome EXCEPT ![o] = how]
  /\ password' = [password EXCEPT ![o] = None]
  /\ notes' = [notes EXCEPT ![o] = BlankNotes]
  /\ known' = [known EXCEPT ![o] = None]

\* _resolve_policy: what the command line gives, which is any policy, or else
\* the registry's, or else the default.
Fallback(o) ==
  IF known[o] # None /\ known[o].policy # None THEN known[o].policy ELSE Default
EffectivePolicies(o) == CommandLine \cup {Fallback(o)}

-----------------------------------------------------------------------------
(* The user.                                                                *)

FirstCall(cmd) ==
  CASE cmd = "promote" -> "readPending"
    [] cmd = "discard" -> "removePending"
    [] OTHER -> "readRegistry"

\* The user prepares or discards only while the provider still accepts the
\* real password, and promotes only after the change at the provider.
Advised(cmd) ==
  /\ cmd \in {"prepare", "discard"} => provider = real
  /\ cmd = "promote" => CandidateInUse

\* The commands that replace or drop the candidate, and whose way they are in.
Replacing == {"prepare", "discard"}
RivalsOf(cmd) ==
  IF cmd \in Replacing THEN {"promote"} ELSE IF cmd = "promote" THEN Replacing ELSE {}
Running(cmds) == \E o \in Operators : ~Idle(o) /\ command[o] \in cmds

Begin(o) ==
  /\ Idle(o)
  /\ \E cmd \in Commands :
       /\ Advised(cmd)
       /\ command' = [command EXCEPT ![o] = cmd]
       /\ Goto(o, FirstCall(cmd))
       /\ raced' = (raced \/ Running(RivalsOf(cmd)))
  /\ outcome' = [outcome EXCEPT ![o] = ""]
  /\ UNCHANGED <<vault, provider, generated, password, notes, known>>

\* The user takes the pending password to the provider.
ChangeAtProvider ==
  /\ pending # None
  /\ provider' = pending.password
  /\ raced' = (raced \/ Running(Replacing))
  /\ UNCHANGED <<vault, generated, pc, local, outcome>>

\* The user puts the Notes of a companion entry on one line, or empties them.
TidyNotes ==
  /\ NotesEdits
  /\ \/ /\ pending # None
        /\ pending' \in {[pending EXCEPT !.notes = BlankNotes],
                         [pending EXCEPT !.notes.layout = "inline"]}
        /\ UNCHANGED <<real, registry>>
     \/ /\ registry # None
        /\ registry' \in {BlankNotes, [registry EXCEPT !.layout = "inline"]}
        /\ UNCHANGED <<real, pending>>
  /\ UNCHANGED <<provider, generated, pc, local, outcome, raced>>

\* A call fails, or the command is killed before its next call.
Fail(o) ==
  /\ ~Idle(o)
  /\ End(o, "failed")
  /\ UNCHANGED <<vault, provider, generated, command, raced>>

-----------------------------------------------------------------------------
(* Reading the registry, and what each command makes of it.                 *)

ReadRegistry(o) ==
  /\ pc[o] = "readRegistry"
  /\ registry # None => Readable(registry)
  /\ known' = [known EXCEPT ![o] = registry]
  /\ Goto(o, CASE command[o] = "prepare" -> "writePending"
               [] command[o] = "infer" -> "readReal"
               [] OTHER -> "writeRegistry")
  /\ UNCHANGED <<vault, provider, generated, command, password, notes, outcome, raced>>

\* infer_rotation_registry reads the real password.
ReadReal(o) ==
  /\ pc[o] = "readReal"
  /\ password' = [password EXCEPT ![o] = real]
  /\ Goto(o, "writeRegistry")
  /\ UNCHANGED <<vault, provider, generated, command, notes, known, outcome, raced>>

\* Mutants of ReadPending: the entry is kept for its password; it is removed as
\* soon as it is read; the registry is upgraded without the real entry's edit.
ReadPendingWhole(o) ==
  /\ pc[o] = "readPending"
  /\ pending # None
  /\ Readable(pending.notes)
  /\ password' = [password EXCEPT ![o] = pending]
  /\ notes' = [notes EXCEPT ![o] = pending.notes]
  /\ Goto(o, "writeReal")
  /\ UNCHANGED <<vault, provider, generated, command, known, outcome, raced>>
ReadPendingRemoving(o) ==
  /\ pc[o] = "readPending"
  /\ pending # None
  /\ Readable(pending.notes)
  /\ password' = [password EXCEPT ![o] = pending.password]
  /\ notes' = [notes EXCEPT ![o] = pending.notes]
  /\ pending' = None
  /\ Goto(o, "writeReal")
  /\ UNCHANGED <<real, registry, provider, generated, command, known, outcome, raced>>
ReadPendingSkipping(o) ==
  /\ pc[o] = "readPending"
  /\ pending # None
  /\ Readable(pending.notes)
  /\ password' = [password EXCEPT ![o] = pending.password]
  /\ notes' = [notes EXCEPT ![o] = pending.notes]
  /\ Goto(o, "readRegistry")
  /\ UNCHANGED <<vault, provider, generated, command, known, outcome, raced>>

\* promote_rotation reads the candidate and its metadata.
ReadPending(o) ==
  /\ pc[o] = "readPending"
  /\ pending # None
  /\ Readable(pending.notes)
  /\ password' = [password EXCEPT ![o] = pending.password]
  /\ notes' = [notes EXCEPT ![o] = pending.notes]
  /\ Goto(o, "writeReal")
  /\ UNCHANGED <<vault, provider, generated, command, known, outcome, raced>>

\* JSONDecodeError: the command ends.
ReadFails(o) ==
  /\ \/ pc[o] = "readRegistry" /\ registry # None /\ ~Readable(registry)
     \/ pc[o] = "readPending" /\ pending # None /\ ~Readable(pending.notes)
  /\ End(o, "unreadable")
  /\ UNCHANGED <<vault, provider, generated, command, raced>>

\* There is no pending entry.
NothingPending(o) ==
  /\ pc[o] = "readPending"
  /\ pending = None
  /\ End(o, "failed")
  /\ UNCHANGED <<vault, provider, generated, command, raced>>

-----------------------------------------------------------------------------
(* upsert_keepassxc_entry: edit; if the entry is missing, mkdir and add,    *)
(* where the add fails if the entry has appeared meanwhile.                 *)

\* prepare_rotation generates the candidate and edits the pending entry.
WritePending(o) ==
  /\ pc[o] = "writePending"
  /\ \E policy \in EffectivePolicies(o), p \in Passwords \ generated :
       /\ PolicyOf[p] = policy
       /\ generated' = generated \cup {p}
       /\ \/ /\ pending # None
             /\ pending' = [password |-> p, notes |-> Dumped(policy, "")]
             /\ End(o, "done")
          \/ /\ pending = None
             /\ password' = [password EXCEPT ![o] = p]
             /\ notes' = [notes EXCEPT ![o] = Dumped(policy, "")]
             /\ Goto(o, "addPending")
             /\ UNCHANGED <<pending, known, outcome>>
  /\ UNCHANGED <<real, registry, provider, command, raced>>

AddPending(o) ==
  /\ pc[o] = "addPending"
  /\ \/ /\ pending = None
        /\ pending' = [password |-> password[o], notes |-> notes[o]]
        /\ End(o, "done")
     \/ /\ pending # None
        /\ End(o, "failed")
        /\ UNCHANGED pending
  /\ UNCHANGED <<real, registry, provider, generated, command, raced>>

\* promote_rotation stores the candidate in the real entry, then reads the
\* registry.
WriteReal(o) ==
  /\ pc[o] = "writeReal"
  /\ real' = password[o]
  /\ Goto(o, "readRegistry")
  /\ UNCHANGED <<pending, registry, provider, generated, local, outcome, raced>>

\* Mutant of RegistryOf: promote prefers the policy of the old registry.
RegistryOfStale(o) ==
  CASE command[o] = "configure" -> {Dumped(policy, "manual") : policy \in EffectivePolicies(o)}
    [] command[o] = "infer" -> {Dumped(Observed[password[o]], "inferred")}
    [] OTHER -> {Dumped(IF known[o] # None THEN known[o].policy ELSE notes[o].policy, "manual")}

\* The registry the command leaves.
RegistryOf(o) ==
  CASE command[o] = "configure" -> {Dumped(policy, "manual") : policy \in EffectivePolicies(o)}
    [] command[o] = "infer" -> {Dumped(Observed[password[o]], "inferred")}
    [] OTHER -> {Dumped(IF notes[o].policy # None THEN notes[o].policy
                        ELSE IF known[o] # None THEN known[o].policy ELSE None,
                        "manual")}

\* The registry is written; promote goes on, the other commands are done.
RegistryWritten(o) ==
  /\ registry' \in RegistryOf(o)
  /\ \/ /\ command[o] = "promote"
        /\ Goto(o, "removePending")
        /\ UNCHANGED <<password, notes, known, outcome>>
     \/ /\ command[o] # "promote"
        /\ End(o, "done")
  /\ UNCHANGED <<real, pending, provider, generated, command, raced>>

EditRegistry(o) ==
  /\ pc[o] = "writeRegistry"
  /\ \/ /\ registry # None
        /\ RegistryWritten(o)
     \/ /\ registry = None
        /\ Goto(o, "addRegistry")
        /\ UNCHANGED <<vault, provider, generated, local, outcome, raced>>

AddRegistry(o) ==
  /\ pc[o] = "addRegistry"
  /\ \/ /\ registry = None
        /\ RegistryWritten(o)
     \/ /\ registry # None
        /\ End(o, "failed")
        /\ UNCHANGED <<vault, provider, generated, command, raced>>

\* The last call of promote and the only one of discard; a missing entry is
\* not an error.
RemovePending(o) ==
  /\ pc[o] = "removePending"
  /\ pending' = None
  /\ End(o, "done")
  /\ UNCHANGED <<real, registry, provider, generated, command, raced>>

-----------------------------------------------------------------------------
CommandStep(o) ==
  \/ ReadRegistry(o) \/ ReadReal(o) \/ ReadPending(o) \/ ReadFails(o) \/ NothingPending(o)
  \/ WritePending(o) \/ AddPending(o) \/ WriteReal(o)
  \/ EditRegistry(o) \/ AddRegistry(o) \/ RemovePending(o)

\* A promote is crossed by any change of the vault between its calls.
Cross ==
  crossed' = {o \in Operators :
                /\ pc'[o] # "idle" /\ command'[o] = "promote"
                /\ o \in crossed \/ (vault' # vault /\ pc'[o] = pc[o])}

Next ==
  /\ \/ \E o \in Operators : Begin(o) \/ Fail(o) \/ CommandStep(o)
     \/ ChangeAtProvider \/ TidyNotes
  /\ Cross

Spec == Init /\ [][Next]_vars

-----------------------------------------------------------------------------
(* Properties.                                                              *)

\* The password the provider accepts is in the vault, in the real or in the
\* pending entry.
CurrentPasswordRecoverable ==
  provider = real \/ (pending # None /\ provider = pending.password)

\* A promote that removes the pending entry at its end leaves its candidate in
\* the real entry and the registry upgraded to manual, with the policy the
\* candidate was prepared by, whatever failed, was killed or was begun before and
\* whatever others read meanwhile.  It needs that nobody else has changed the
\* vault between its calls.
PromotionIsComplete ==
  [][\A o \in Operators \ crossed :
       command[o] = "promote" /\ pc[o] = "removePending" /\ outcome'[o] = "done" =>
         /\ real = password[o]
         /\ pending # None /\ pending.password = real
         /\ registry # None /\ registry.source = "manual"
         /\ notes[o].policy # None => registry.policy = notes[o].policy]_vars

\* Commands may run at the same time, in any order of their calls, and any of them
\* may stop on its way: the password in use is lost only if a prepare or a discard
\* overlapped with a promote, or with a change at the provider.
LostOnlyByRace == ~raced => CurrentPasswordRecoverable

\* What the user takes for the candidate is the password of the pending entry.
Rotation == INSTANCE PasswordChange WITH
  candidate <- IF pending = None THEN None ELSE pending.password,
  broken <- raced

\* Until then the vault and the provider go through the steps of PasswordChange and
\* no other: the real entry changes only to the password in use, and the pending
\* entry is replaced or removed only when the password in use is in the real one.
ImplementsChange == Rotation!ASpec

\* The Notes written by one command can be read by the next: no command ends
\* because the JSON it finds in a companion entry does not parse.
NotesReadBack == \A o \in Operators : outcome[o] # "unreadable"
=============================================================================
