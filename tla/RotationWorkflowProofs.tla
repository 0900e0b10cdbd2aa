--------------------- MODULE RotationWorkflowProofs ---------------------
(***************************************************************************)
(* Theorems about RotationWorkflow, for every set of operators, passwords  *)
(* and policies that ConstantsAssumption allows.                           *)
(***************************************************************************)
EXTENDS RotationWorkflow, TLAPS

USE ConstantsAssumption

-----------------------------------------------------------------------------
(* Type correctness.                                                        *)

\* Each call belongs to a command that makes it.
CallsOnTrack ==
  \A o \in Operators :
    /\ pc[o] \in {"writePending", "addPending"} => command[o] = "prepare"
    /\ pc[o] \in {"readPending", "writeReal"} => command[o] = "promote"
    /\ pc[o] = "readReal" => command[o] = "infer"
    /\ pc[o] = "removePending" => command[o] \in {"promote", "discard"}
    /\ pc[o] = "readRegistry" => command[o] # "discard"
    /\ pc[o] \in {"writeRegistry", "addRegistry"} =>
         /\ command[o] \in {"configure", "infer", "promote"}
         /\ command[o] = "infer" => password[o] # None
    /\ pc[o] \in {"addPending", "writeReal"} => password[o] # None

\* Every Notes value the code or the user writes is well typed.
LEMMA NotesTypes ==
  /\ BlankNotes \in NotesValues
  /\ \A policy \in Policies \cup {None}, source \in Sources : Dumped(policy, source) \in NotesValues
  /\ \A n \in NotesValues : [n EXCEPT !.layout = "inline"] \in NotesValues
BY DEF BlankNotes, NotesValues, Dumped, Layouts, Sources

\* The policies prepare and configure may use are policies.
LEMMA EffectiveTypes ==
  ASSUME TypeOK, NEW o \in Operators
  PROVE  EffectivePolicies(o) \subseteq Policies
BY DEF TypeOK, EffectivePolicies, Fallback, NotesValues

\* The registry a command leaves is well typed.
LEMMA RegistryTypes ==
  ASSUME TypeOK, CallsOnTrack, NEW o \in Operators,
         pc[o] \in {"writeRegistry", "addRegistry"}
  PROVE  RegistryOf(o) \subseteq NotesValues
<1>1. CASE command[o] = "configure"
  BY <1>1, NotesTypes, EffectiveTypes DEF RegistryOf, Sources
<1>2. CASE command[o] = "infer"
  <2>1. Observed[password[o]] \in Policies
    BY <1>2 DEF TypeOK, CallsOnTrack
  <2>2. QED
    BY <1>2, <2>1, NotesTypes DEF RegistryOf, Sources
<1>3. CASE command[o] = "promote"
  <2> DEFINE p == IF notes[o].policy # None THEN notes[o].policy
                  ELSE IF known[o] # None THEN known[o].policy ELSE None
  <2>1. p \in Policies \cup {None}
    BY DEF TypeOK, NotesValues
  <2>2. QED
    BY <1>3, <2>1, NotesTypes DEF RegistryOf, Sources
<1>4. QED
  BY <1>1, <1>2, <1>3 DEF CallsOnTrack

\* The account starts well typed.
LEMMA TypeInit == Init => TypeOK
<1> SUFFICES ASSUME Init PROVE TypeOK
  OBVIOUS
<1>1. notes \in [Operators -> NotesValues]
  BY NotesTypes DEF Init
<1>2. command \in [Operators -> Commands] /\ pc \in [Operators -> PcValues]
  BY DEF Init, Commands, PcValues
<1>3. outcome \in [Operators -> Outcomes] /\ known \in [Operators -> NotesValues \cup {None}]
  BY DEF Init, Outcomes
<1>4. password \in [Operators -> Passwords \cup {None}]
  BY DEF Init
<1>5. QED
  BY <1>1, <1>2, <1>3, <1>4 DEF Init, TypeOK

\* A command that ends leaves its local state well typed.
LEMMA EndTypes ==
  ASSUME TypeOK, NEW o \in Operators, NEW how \in Outcomes, End(o, how)
  PROVE  /\ pc' \in [Operators -> PcValues]
         /\ outcome' \in [Operators -> Outcomes]
         /\ password' \in [Operators -> Passwords \cup {None}]
         /\ notes' \in [Operators -> NotesValues]
         /\ known' \in [Operators -> NotesValues \cup {None}]
<1>1. BlankNotes \in NotesValues
  BY NotesTypes
<1>2. QED
  BY <1>1 DEF TypeOK, End, PcValues

\* The first call of every command is a call.
LEMMA FirstCallTypes == \A cmd : FirstCall(cmd) \in {"readRegistry", "readPending", "removePending"}
BY DEF FirstCall

\* Every call and every act of the user keeps the types.
LEMMA TypeStep == TypeOK /\ CallsOnTrack /\ [Next]_vars => TypeOK'
<1> SUFFICES ASSUME TypeOK, CallsOnTrack, [Next]_vars PROVE TypeOK'
  OBVIOUS
<1>0. crossed' \subseteq Operators
  BY DEF Next, Cross, vars, TypeOK
<1> USE DEF TypeOK, Goto, vault, local, PcValues, Outcomes
<1>1. ASSUME NEW o \in Operators, Begin(o) PROVE TypeOK'
  <2>1. PICK cmd \in Commands : command' = [command EXCEPT ![o] = cmd] /\ Goto(o, FirstCall(cmd))
    BY <1>0, <1>1 DEF Begin
  <2>2. FirstCall(cmd) = IF cmd = "promote" THEN "readPending"
                         ELSE IF cmd = "discard" THEN "removePending" ELSE "readRegistry"
    BY DEF FirstCall
  <2>3. QED
    BY <1>0, <1>1, <2>1, <2>2 DEF Begin, Commands
<1>2. ASSUME NEW o \in Operators, Fail(o) PROVE TypeOK'
  BY <1>0, <1>2, EndTypes DEF Fail
<1>3. ASSUME NEW o \in Operators, CommandStep(o) PROVE TypeOK'
  <2>1. CASE ReadRegistry(o)
    BY <1>0, <2>1 DEF ReadRegistry
  <2>2. CASE ReadReal(o)
    BY <1>0, <2>2 DEF ReadReal
  <2>3. CASE ReadPending(o)
    BY <1>0, <2>3 DEF ReadPending
  <2>4. CASE ReadFails(o)
    BY <1>0, <2>4, EndTypes DEF ReadFails
  <2>5. CASE NothingPending(o)
    BY <1>0, <2>5, EndTypes DEF NothingPending
  <2>6. CASE WritePending(o)
    <3>1. PICK policy \in EffectivePolicies(o), p \in Passwords :
            /\ generated' = generated \cup {p}
            /\ \/ /\ pending' = [password |-> p, notes |-> Dumped(policy, "")]
                  /\ End(o, "done")
               \/ /\ password' = [password EXCEPT ![o] = p]
                  /\ notes' = [notes EXCEPT ![o] = Dumped(policy, "")]
                  /\ Goto(o, "addPending")
                  /\ UNCHANGED <<pending, known, outcome>>
      BY <1>0, <2>6 DEF WritePending
    <3>2. Dumped(policy, "") \in NotesValues
      BY <1>0, EffectiveTypes, NotesTypes DEF Sources
    <3>3. [password |-> p, notes |-> Dumped(policy, "")] \in [password : Passwords, notes : NotesValues]
      BY <1>0, <3>2
    <3>4. CASE pending' = [password |-> p, notes |-> Dumped(policy, "")] /\ End(o, "done")
      BY <1>0, <2>6, <3>1, <3>3, <3>4, EndTypes DEF WritePending
    <3>5. CASE /\ password' = [password EXCEPT ![o] = p]
               /\ notes' = [notes EXCEPT ![o] = Dumped(policy, "")]
               /\ Goto(o, "addPending")
               /\ UNCHANGED <<pending, known, outcome>>
      BY <1>0, <2>6, <3>1, <3>2, <3>5 DEF WritePending
    <3>6. QED
      BY <1>0, <3>1, <3>4, <3>5
  <2>7. CASE AddPending(o)
    <3>1. [password |-> password[o], notes |-> notes[o]] \in [password : Passwords, notes : NotesValues]
      BY <1>0, <2>7 DEF AddPending, CallsOnTrack
    <3>2. QED
      BY <1>0, <2>7, <3>1, EndTypes DEF AddPending
  <2>8. CASE WriteReal(o)
    <3>1. password[o] \in Passwords
      BY <1>0, <2>8 DEF WriteReal, CallsOnTrack
    <3>2. QED
      BY <1>0, <2>8, <3>1 DEF WriteReal
  <2>9. CASE EditRegistry(o)
    <3>1. RegistryOf(o) \subseteq NotesValues
      BY <1>0, <2>9, RegistryTypes DEF EditRegistry
    <3>2. CASE RegistryWritten(o)
      BY <1>0, <2>9, <3>1, <3>2, EndTypes DEF RegistryWritten
    <3>3. QED
      BY <1>0, <2>9, <3>2 DEF EditRegistry
  <2>10. CASE AddRegistry(o)
    <3>1. RegistryOf(o) \subseteq NotesValues
      BY <1>0, <2>10, RegistryTypes DEF AddRegistry
    <3>2. CASE RegistryWritten(o)
      BY <1>0, <2>10, <3>1, <3>2, EndTypes DEF RegistryWritten
    <3>3. QED
      BY <1>0, <2>10, <3>2, EndTypes DEF AddRegistry
  <2>11. CASE RemovePending(o)
    BY <1>0, <2>11, EndTypes DEF RemovePending
  <2>12. QED
    BY <1>0, <1>3, <2>1, <2>2, <2>3, <2>4, <2>5, <2>6, <2>7, <2>8, <2>9, <2>10, <2>11 DEF CommandStep
<1>4. CASE ChangeAtProvider
  BY <1>0, <1>4 DEF ChangeAtProvider
<1>5. CASE TidyNotes
  <2>1. ASSUME pending # None
        PROVE  {[pending EXCEPT !.notes = BlankNotes], [pending EXCEPT !.notes.layout = "inline"]}
                 \subseteq [password : Passwords, notes : NotesValues]
    <3>1. pending.notes \in NotesValues
      BY <1>0, <2>1
    <3>2. [pending.notes EXCEPT !.layout = "inline"] \in NotesValues
      BY <1>0, <3>1, NotesTypes
    <3>3. QED
      BY <1>0, <2>1, <3>1, <3>2, NotesTypes
  <2>2. ASSUME registry # None
        PROVE  {BlankNotes, [registry EXCEPT !.layout = "inline"]} \subseteq NotesValues
    <3>1. registry \in NotesValues
      BY <1>0, <2>2
    <3>2. [registry EXCEPT !.layout = "inline"] \in NotesValues
      BY <1>0, <3>1, NotesTypes
    <3>3. QED
      BY <1>0, <3>2, NotesTypes
  <2>3. QED
    BY <1>0, <1>5, <2>1, <2>2 DEF TidyNotes
<1>6. CASE UNCHANGED vars
  BY <1>0, <1>6 DEF vars
<1>7. QED
  BY <1>0, <1>1, <1>2, <1>3, <1>4, <1>5, <1>6 DEF Next

-----------------------------------------------------------------------------
(* Each call belongs to a command that makes it.                            *)

\* A command makes only its own calls, whatever runs beside it.
LEMMA CallsStep == TypeOK /\ CallsOnTrack /\ [Next]_vars => CallsOnTrack'
<1> SUFFICES ASSUME TypeOK, CallsOnTrack, [Next]_vars PROVE CallsOnTrack'
  OBVIOUS
<1> USE DEF TypeOK, CallsOnTrack, Goto, End, vault, local
<1>1. ASSUME NEW o \in Operators, Begin(o) PROVE CallsOnTrack'
  <2>1. PICK cmd \in Commands : command' = [command EXCEPT ![o] = cmd] /\ Goto(o, FirstCall(cmd))
    BY <1>1 DEF Begin
  <2>2. FirstCall(cmd) = IF cmd = "promote" THEN "readPending"
                         ELSE IF cmd = "discard" THEN "removePending" ELSE "readRegistry"
    BY DEF FirstCall
  <2>3. QED
    BY <1>1, <2>1, <2>2 DEF Begin, Commands
<1>2. ASSUME NEW o \in Operators, Fail(o) PROVE CallsOnTrack'
  BY <1>2 DEF Fail
<1>3. ASSUME NEW o \in Operators, CommandStep(o) PROVE CallsOnTrack'
  <2>1. CASE ReadRegistry(o)
    BY <2>1 DEF ReadRegistry, Commands
  <2>2. CASE ReadReal(o)
    BY <2>2 DEF ReadReal
  <2>3. CASE ReadPending(o)
    BY <2>3 DEF ReadPending
  <2>4. CASE ReadFails(o)
    BY <2>4 DEF ReadFails
  <2>5. CASE NothingPending(o)
    BY <2>5 DEF NothingPending
  <2>6. CASE WritePending(o)
    <3>1. PICK p \in Passwords :
            \/ End(o, "done")
            \/ password' = [password EXCEPT ![o] = p] /\ Goto(o, "addPending")
      BY <2>6 DEF WritePending
    <3>2. command' = command /\ command[o] = "prepare"
      BY <2>6 DEF WritePending
    <3>3. CASE End(o, "done")
      BY <3>2, <3>3
    <3>4. CASE password' = [password EXCEPT ![o] = p] /\ Goto(o, "addPending")
      <4>1. p # None
        OBVIOUS
      <4>2. QED
        BY <3>2, <3>4, <4>1
    <3>5. QED
      BY <3>1, <3>3, <3>4
  <2>7. CASE AddPending(o)
    BY <2>7 DEF AddPending
  <2>8. CASE WriteReal(o)
    BY <2>8 DEF WriteReal
  <2>9. CASE EditRegistry(o)
    BY <2>9 DEF EditRegistry, RegistryWritten
  <2>10. CASE AddRegistry(o)
    BY <2>10 DEF AddRegistry, RegistryWritten
  <2>11. CASE RemovePending(o)
    BY <2>11 DEF RemovePending
  <2>12. QED
    BY <1>3, <2>1, <2>2, <2>3, <2>4, <2>5, <2>6, <2>7, <2>8, <2>9, <2>10, <2>11 DEF CommandStep
<1>4. CASE ChangeAtProvider
  BY <1>4 DEF ChangeAtProvider
<1>5. CASE TidyNotes
  BY <1>5 DEF TidyNotes
<1>6. CASE UNCHANGED vars
  BY <1>6 DEF vars
<1>7. QED
  BY <1>1, <1>2, <1>3, <1>4, <1>5, <1>6 DEF Next

-----------------------------------------------------------------------------
(* What a promote has done so far.                                          *)

\* A promote that nobody has crossed finds the candidate it read in the pending
\* entry, from its write on in the real one too, and at its end the registry it
\* has written.
Complete(o) ==
  pc[o] # "idle" /\ command[o] = "promote" /\ o \notin crossed =>
    /\ pc[o] # "readPending" => pending # None /\ pending.password = password[o]
    /\ pc[o] \notin {"readPending", "writeReal"} => real = password[o]
    /\ pc[o] = "removePending" =>
         /\ registry # None /\ registry.source = "manual"
         /\ notes[o].policy # None => registry.policy = notes[o].policy

CompleteInv == \A o \in Operators : Complete(o)

\* A promote that makes no call is crossed, or what it relies on stays as it is.
LEMMA CompleteRests ==
  ASSUME Cross, NEW o \in Operators, Complete(o), pc'[o] = pc[o], command'[o] = command[o],
         password'[o] = password[o], notes'[o] = notes[o]
  PROVE  Complete(o)'
BY DEF Cross, Complete, vault

\* Writing the registry is the last thing promote relies on.
LEMMA CompleteWritten ==
  ASSUME TypeOK, CallsOnTrack, Cross, NEW o \in Operators, Complete(o),
         pc[o] \in {"writeRegistry", "addRegistry"}, RegistryWritten(o)
  PROVE  Complete(o)'
<1>1. UNCHANGED <<real, pending, command>>
  BY DEF RegistryWritten
<1>2. CASE command[o] = "promote"
  <2>1. PICK p : /\ registry' = Dumped(p, "manual")
                 /\ notes[o].policy # None => p = notes[o].policy
    BY <1>2 DEF RegistryWritten, RegistryOf
  <2>2. /\ registry'.source = "manual"
        /\ notes[o].policy # None => registry'.policy = notes[o].policy
    BY <2>1 DEF Dumped
  <2>3. registry' # None
    <3>1. registry' \in NotesValues
      BY RegistryTypes DEF RegistryWritten
    <3>2. QED
      BY <3>1
  <2>4. pc'[o] = "removePending" /\ UNCHANGED <<password, notes>>
    BY <1>2 DEF RegistryWritten, Goto, TypeOK
  <2>5. o \notin crossed' => o \notin crossed
    BY <1>1, <1>2, <2>4 DEF Cross
  <2>6. QED
    BY <1>1, <1>2, <2>2, <2>3, <2>4, <2>5 DEF Complete
<1>3. CASE command[o] # "promote"
  BY <1>1, <1>3 DEF Complete
<1>4. QED
  BY <1>2, <1>3

\* Each call of a promote relies on the ones before it.
LEMMA CompleteOwn ==
  ASSUME TypeOK, CallsOnTrack, Cross, NEW o \in Operators, Complete(o),
         Begin(o) \/ Fail(o) \/ CommandStep(o)
  PROVE  Complete(o)'
<1> USE DEF TypeOK, Goto, End, vault, local
<1>1. pc'[o] # "idle" /\ command'[o] = "promote" /\ o \notin crossed' => o \notin crossed
  BY DEF Cross
<1>2. CASE Begin(o)
  <2>1. PICK cmd \in Commands : command' = [command EXCEPT ![o] = cmd] /\ Goto(o, FirstCall(cmd))
    BY <1>2 DEF Begin
  <2>2. cmd = "promote" => pc'[o] = "readPending"
    BY <2>1 DEF FirstCall
  <2>3. command'[o] = cmd
    BY <2>1
  <2>4. QED
    BY <2>2, <2>3 DEF Complete
<1>3. CASE Fail(o) \/ ReadFails(o) \/ NothingPending(o) \/ RemovePending(o) \/ AddPending(o)
  <2>1. pc'[o] = "idle"
    BY <1>3 DEF Fail, ReadFails, NothingPending, RemovePending, AddPending
  <2>2. QED
    BY <2>1 DEF Complete
<1>4. CASE ReadReal(o) \/ WritePending(o)
  <2>1. command'[o] # "promote"
    BY <1>4 DEF ReadReal, WritePending, CallsOnTrack
  <2>2. QED
    BY <2>1 DEF Complete
<1>5. CASE ReadPending(o)
  <2>1. /\ pc'[o] = "writeReal" /\ pending' # None /\ pending' = pending
        /\ password'[o] = pending.password
    BY <1>5 DEF ReadPending
  <2>2. QED
    BY <2>1 DEF Complete
<1>6. CASE WriteReal(o)
  <2>1. /\ pc[o] = "writeReal" /\ pc'[o] = "readRegistry" /\ real' = password[o]
        /\ UNCHANGED <<pending, command, password>>
    BY <1>6 DEF WriteReal
  <2>2. QED
    BY <1>1, <2>1 DEF Complete
<1>7. CASE ReadRegistry(o)
  <2>1. /\ pc[o] = "readRegistry" /\ UNCHANGED <<real, pending, command, password>>
        /\ command[o] = "promote" => pc'[o] = "writeRegistry"
    BY <1>7 DEF ReadRegistry
  <2>2. QED
    BY <1>1, <2>1 DEF Complete
<1>8. CASE EditRegistry(o) \/ AddRegistry(o)
  <2>1. CASE RegistryWritten(o)
    BY <1>8, <2>1, CompleteWritten DEF EditRegistry, AddRegistry
  <2>2. CASE ~RegistryWritten(o)
    <3>1. CASE pc[o] = "writeRegistry" /\ pc'[o] = "addRegistry" /\ UNCHANGED <<vault, local>>
      BY <1>1, <3>1 DEF Complete
    <3>2. CASE pc'[o] = "idle"
      BY <3>2 DEF Complete
    <3>3. QED
      BY <1>8, <2>2, <3>1, <3>2 DEF EditRegistry, AddRegistry
  <2>3. QED
    BY <2>1, <2>2
<1>9. QED
  BY <1>2, <1>3, <1>4, <1>5, <1>6, <1>7, <1>8 DEF CommandStep

\* A command touches no local state but its own.
LEMMA OthersRest ==
  ASSUME TypeOK, NEW o \in Operators, Begin(o) \/ Fail(o) \/ CommandStep(o),
         NEW q \in Operators, q # o
  PROVE  /\ pc'[q] = pc[q] /\ command'[q] = command[q]
         /\ password'[q] = password[q] /\ notes'[q] = notes[q]
<1> USE DEF TypeOK, Goto, End, vault, local
<1>1. CASE Begin(o) \/ Fail(o)
  BY <1>1 DEF Begin, Fail
<1>2. CASE ReadRegistry(o) \/ ReadReal(o) \/ ReadPending(o) \/ ReadFails(o) \/ NothingPending(o)
  BY <1>2 DEF ReadRegistry, ReadReal, ReadPending, ReadFails, NothingPending
<1>3. CASE WritePending(o)
  BY <1>3 DEF WritePending
<1>4. CASE AddPending(o) \/ WriteReal(o) \/ RemovePending(o)
  BY <1>4 DEF AddPending, WriteReal, RemovePending
<1>5. CASE EditRegistry(o) \/ AddRegistry(o)
  BY <1>5 DEF EditRegistry, AddRegistry, RegistryWritten
<1>6. QED
  BY <1>1, <1>2, <1>3, <1>4, <1>5 DEF CommandStep

\* Every step keeps what promotes rely on.
LEMMA CompleteStep == TypeOK /\ CallsOnTrack /\ CompleteInv /\ [Next]_vars => CompleteInv'
<1> SUFFICES ASSUME TypeOK, CallsOnTrack, CompleteInv, [Next]_vars, NEW q \in Operators
             PROVE  Complete(q)'
  BY DEF CompleteInv
<1>1. Complete(q)
  BY DEF CompleteInv
<1>2. ASSUME Cross, NEW o \in Operators, Begin(o) \/ Fail(o) \/ CommandStep(o)
      PROVE  Complete(q)'
  <2>1. CASE q = o
    BY <1>1, <1>2, <2>1, CompleteOwn
  <2>2. CASE q # o
    BY <1>1, <1>2, <2>2, OthersRest, CompleteRests
  <2>3. QED
    BY <2>1, <2>2
<1>3. CASE Cross /\ (ChangeAtProvider \/ TidyNotes)
  BY <1>1, <1>3, CompleteRests DEF ChangeAtProvider, TidyNotes, local
<1>4. CASE UNCHANGED vars
  BY <1>1, <1>4 DEF vars, vault, local, Complete
<1>5. QED
  BY <1>2, <1>3, <1>4 DEF Next

-----------------------------------------------------------------------------
(* Commands that overlap.                                                   *)

\* Every password in use, on offer or about to be has been generated, so that a
\* new one is none of them.
AllGenerated ==
  /\ {real, provider} \subseteq generated
  /\ pending # None => pending.password \in generated
  /\ \A o \in Operators : pc[o] \in {"addPending", "writeReal"} => password[o] \in generated

\* Without a race, while a prepare or a discard runs the password in use is the
\* real one, no promote runs, and what prepare is about to add is another.
ReplacingApart ==
  \A o \in Operators :
    ~Idle(o) /\ command[o] \in Replacing =>
      /\ provider = real
      /\ ~Running({"promote"})
      /\ pc[o] = "addPending" => password[o] # real

\* Without a race, while a promote runs there is no candidate but the password in
\* use, which is what it has read, and, from its write on, the real one.
PromotingApart ==
  \A o \in Operators :
    ~Idle(o) /\ command[o] = "promote" =>
      /\ pending # None => pending.password = provider
      /\ pc[o] # "readPending" => password[o] = provider
      /\ pc[o] \notin {"readPending", "writeReal"} => real = provider

Unraced == ~raced => ReplacingApart /\ PromotingApart /\ CurrentPasswordRecoverable

OverlapInv == TypeOK /\ CallsOnTrack /\ AllGenerated /\ Unraced

\* The Notes of the pending entry are no part of the candidate.
LEMMA TidyKeepsCandidate ==
  ASSUME TypeOK, TidyNotes
  PROVE  /\ pending' = None <=> pending = None
         /\ pending # None => pending'.password = pending.password
         /\ UNCHANGED <<real, provider, generated, pc, password>>
<1>1. CASE pending = None
  BY <1>1 DEF TidyNotes, local
<1>2. CASE pending # None
  <2>1. pending \in [password : Passwords, notes : NotesValues]
    BY <1>2 DEF TypeOK
  <2>2. CASE pending' = [pending EXCEPT !.notes = BlankNotes]
    <3>1. pending' \in [password : Passwords, notes : NotesValues]
      BY <2>1, <2>2, NotesTypes
    <3>2. pending'.password = pending.password
      BY <2>1, <2>2
    <3>3. QED
      BY <1>2, <3>1, <3>2 DEF TidyNotes, local
  <2>3. CASE pending' = [pending EXCEPT !.notes.layout = "inline"]
    <3>1. [pending.notes EXCEPT !.layout = "inline"] \in NotesValues
      BY <2>1, NotesTypes
    <3>2. pending' \in [password : Passwords, notes : NotesValues]
      BY <2>1, <2>3, <3>1
    <3>3. pending'.password = pending.password
      BY <2>1, <2>3
    <3>4. QED
      BY <1>2, <3>2, <3>3 DEF TidyNotes, local
  <2>4. CASE pending' = pending
    BY <1>2, <2>4 DEF TidyNotes, local
  <2>5. QED
    BY <1>2, <2>2, <2>3, <2>4 DEF TidyNotes
<1>3. QED
  BY <1>1, <1>2

\* A race is never forgotten.
LEMMA RacedStays == [Next]_vars /\ ~raced' /\ raced \in BOOLEAN => ~raced
<1> SUFFICES ASSUME [Next]_vars, raced PROVE raced'
  OBVIOUS
<1>1. ASSUME NEW o \in Operators, Begin(o) \/ Fail(o) PROVE raced'
  BY <1>1 DEF Begin, Fail
<1>2. ASSUME NEW o \in Operators, CommandStep(o) PROVE raced'
  BY <1>2 DEF CommandStep, ReadRegistry, ReadReal, ReadPending, ReadFails, NothingPending,
       WritePending, AddPending, WriteReal, EditRegistry, AddRegistry, RegistryWritten,
       RemovePending
<1>3. QED
  BY <1>1, <1>2 DEF Next, ChangeAtProvider, TidyNotes, vars

\* A candidate that prepare writes is new, and its entry is one.
LEMMA NewCandidate ==
  ASSUME TypeOK, AllGenerated, NEW o \in Operators, WritePending(o)
  PROVE  \E p \in Passwords \ generated :
           /\ generated' = generated \cup {p}
           /\ p # real
           /\ \/ pending' # None /\ pending'.password = p /\ End(o, "done")
              \/ /\ UNCHANGED pending
                 /\ password' = [password EXCEPT ![o] = p]
                 /\ Goto(o, "addPending")
           /\ UNCHANGED <<real, provider, command, raced>>
<1>1. PICK policy \in EffectivePolicies(o), p \in Passwords \ generated :
        /\ generated' = generated \cup {p}
        /\ \/ /\ pending' = [password |-> p, notes |-> Dumped(policy, "")]
              /\ End(o, "done")
           \/ /\ password' = [password EXCEPT ![o] = p]
              /\ Goto(o, "addPending")
              /\ UNCHANGED pending
  BY DEF WritePending
<1>2. Dumped(policy, "") \in NotesValues
  BY EffectiveTypes, NotesTypes DEF Sources
<1>3. [password |-> p, notes |-> Dumped(policy, "")] \in [password : Passwords, notes : NotesValues]
  BY <1>2
<1>4. [password |-> p, notes |-> Dumped(policy, "")] # None
  BY <1>3
<1>5. [password |-> p, notes |-> Dumped(policy, "")].password = p
  OBVIOUS
<1>6. real \in generated
  BY DEF AllGenerated
<1>7. p # real
  BY <1>6
<1>8. UNCHANGED <<real, provider, command, raced>>
  BY DEF WritePending
<1>9. QED
  BY <1>1, <1>4, <1>5, <1>7, <1>8

\* The entry that prepare adds holds its candidate.
LEMMA AddedCandidate ==
  ASSUME TypeOK, CallsOnTrack, NEW o \in Operators, AddPending(o)
  PROVE  /\ pc[o] = "addPending" /\ command[o] = "prepare" /\ password[o] \in Passwords
         /\ \/ pending' # None /\ pending'.password = password[o]
            \/ UNCHANGED pending
         /\ \E how \in Outcomes : End(o, how)
         /\ UNCHANGED <<real, provider, generated, command, raced>>
<1>1. pc[o] = "addPending" /\ UNCHANGED <<real, provider, generated, command, raced>>
  BY DEF AddPending
<1>2. command[o] = "prepare" /\ password[o] \in Passwords
  BY <1>1 DEF CallsOnTrack, TypeOK
<1>3. [password |-> password[o], notes |-> notes[o]] \in [password : Passwords, notes : NotesValues]
  BY <1>2 DEF TypeOK
<1>4. [password |-> password[o], notes |-> notes[o]] # None
  BY <1>3
<1>5. [password |-> password[o], notes |-> notes[o]].password = password[o]
  OBVIOUS
<1>6. \/ pending' = [password |-> password[o], notes |-> notes[o]] /\ End(o, "done")
      \/ UNCHANGED pending /\ End(o, "failed")
  BY DEF AddPending
<1>7. "done" \in Outcomes /\ "failed" \in Outcomes
  BY DEF Outcomes
<1>8. QED
  BY <1>1, <1>2, <1>4, <1>5, <1>6, <1>7

\* Every step keeps track of the passwords generated.
LEMMA GeneratedStep ==
  TypeOK /\ CallsOnTrack /\ AllGenerated /\ [Next]_vars => AllGenerated'
<1> SUFFICES ASSUME TypeOK, CallsOnTrack, AllGenerated, [Next]_vars PROVE AllGenerated'
  OBVIOUS
<1> USE DEF TypeOK, AllGenerated, Goto, End, vault, local
<1>1. ASSUME UNCHANGED <<real, pending, provider, generated>>,
             \A o \in Operators : pc'[o] \in {"addPending", "writeReal"} =>
                                    pc[o] = pc'[o] /\ password'[o] = password[o]
      PROVE  AllGenerated'
  BY <1>1
<1>2. ASSUME NEW o \in Operators, Begin(o) PROVE AllGenerated'
  <2>1. PICK cmd \in Commands : Goto(o, FirstCall(cmd))
    BY <1>2 DEF Begin
  <2>2. pc'[o] \notin {"addPending", "writeReal"}
    BY <2>1, FirstCallTypes
  <2>3. QED
    BY <1>1, <1>2, <2>1, <2>2 DEF Begin
<1>3. ASSUME NEW o \in Operators, Fail(o) PROVE AllGenerated'
  BY <1>1, <1>3 DEF Fail
<1>4. ASSUME NEW o \in Operators, CommandStep(o) PROVE AllGenerated'
  <2>1. CASE ReadRegistry(o)
    BY <1>1, <2>1 DEF ReadRegistry
  <2>2. CASE ReadReal(o)
    BY <1>1, <2>2 DEF ReadReal
  <2>3. CASE ReadPending(o)
    BY <2>3 DEF ReadPending
  <2>4. CASE ReadFails(o)
    BY <1>1, <2>4 DEF ReadFails
  <2>5. CASE NothingPending(o)
    BY <1>1, <2>5 DEF NothingPending
  <2>6. CASE WritePending(o)
    <3>1. PICK p \in Passwords \ generated :
            /\ generated' = generated \cup {p}
            /\ \/ pending' # None /\ pending'.password = p /\ End(o, "done")
               \/ /\ UNCHANGED pending
                  /\ password' = [password EXCEPT ![o] = p]
                  /\ Goto(o, "addPending")
            /\ UNCHANGED <<real, provider, command, raced>>
      BY <2>6, NewCandidate
    <3>2. {real, provider}' \subseteq generated'
      BY <3>1
    <3>3. pending' # None => pending'.password \in generated'
      BY <3>1
    <3>4. \A q \in Operators : pc'[q] \in {"addPending", "writeReal"} => password'[q] \in generated'
      BY <3>1
    <3>5. QED
      BY <3>2, <3>3, <3>4
  <2>7. CASE AddPending(o)
    <3>1. /\ pending' # None => pending'.password \in generated
          /\ UNCHANGED <<real, provider, generated>>
      BY <2>7, AddedCandidate
    <3>2. \A q \in Operators : pc'[q] \in {"addPending", "writeReal"} =>
                                 pc[q] = pc'[q] /\ password'[q] = password[q]
      BY <2>7 DEF AddPending
    <3>3. QED
      BY <3>1, <3>2
  <2>8. CASE WriteReal(o)
    <3>1. real' \in generated /\ UNCHANGED <<pending, provider, generated>>
      BY <2>8 DEF WriteReal
    <3>2. \A q \in Operators : pc'[q] \in {"addPending", "writeReal"} =>
                                 pc[q] = pc'[q] /\ password'[q] = password[q]
      BY <2>8 DEF WriteReal
    <3>3. QED
      BY <3>1, <3>2
  <2>9. CASE EditRegistry(o)
    BY <1>1, <2>9 DEF EditRegistry, RegistryWritten
  <2>10. CASE AddRegistry(o)
    BY <1>1, <2>10 DEF AddRegistry, RegistryWritten
  <2>11. CASE RemovePending(o)
    BY <2>11 DEF RemovePending
  <2>12. QED
    BY <1>4, <2>1, <2>2, <2>3, <2>4, <2>5, <2>6, <2>7, <2>8, <2>9, <2>10, <2>11 DEF CommandStep
<1>5. CASE ChangeAtProvider
  BY <1>5 DEF ChangeAtProvider
<1>6. CASE TidyNotes
  BY <1>6, TidyKeepsCandidate
<1>7. CASE UNCHANGED vars
  BY <1>7 DEF vars
<1>8. QED
  BY <1>2, <1>3, <1>4, <1>5, <1>6, <1>7 DEF Next

\* Without a race, commands that overlap keep apart what they touch.
LEMMA UnracedStep ==
  TypeOK /\ CallsOnTrack /\ AllGenerated /\ Unraced /\ [Next]_vars => Unraced'
<1> SUFFICES ASSUME TypeOK, CallsOnTrack, AllGenerated, Unraced, [Next]_vars, ~raced'
             PROVE  (ReplacingApart /\ PromotingApart /\ CurrentPasswordRecoverable)'
  BY DEF Unraced
<1> DEFINE Apart == ReplacingApart /\ PromotingApart /\ CurrentPasswordRecoverable
<1>1. Apart
  BY RacedStays DEF Unraced, TypeOK
\* A step that only goes on or ends.
<1>2. ASSUME NEW o \in Operators, UNCHANGED <<real, pending, provider, command>>,
             \A q \in Operators : q # o => pc'[q] = pc[q] /\ password'[q] = password[q],
             pc'[o] \in {"idle", pc[o]}, pc'[o] # "idle" => password'[o] = password[o]
      PROVE  Apart'
  BY <1>1, <1>2 DEF ReplacingApart, PromotingApart, CurrentPasswordRecoverable, Idle, Running, Replacing
<1>3. ASSUME NEW o \in Operators, Begin(o) PROVE Apart'
  <2>1. PICK cmd \in Commands :
          /\ Advised(cmd)
          /\ command' = [command EXCEPT ![o] = cmd]
          /\ Goto(o, FirstCall(cmd))
          /\ raced' = (raced \/ Running(RivalsOf(cmd)))
    BY <1>3 DEF Begin
  <2>2. UNCHANGED <<real, pending, provider, password>> /\ pc[o] = "idle"
    BY <1>3 DEF Begin, vault, Idle
  <2>3. /\ pc'[o] \in {"readRegistry", "readPending", "removePending"} /\ command'[o] = cmd
        /\ cmd = "promote" => pc'[o] = "readPending"
        /\ \A q \in Operators \ {o} : pc'[q] = pc[q] /\ command'[q] = command[q]
    BY <2>1, FirstCallTypes DEF Goto, TypeOK, FirstCall
  <2>4. ~Running(RivalsOf(cmd))
    BY <2>1
  <2>5. CASE cmd \in Replacing
    <3>1. provider = real /\ ~Running({"promote"})
      BY <2>1, <2>4, <2>5 DEF Advised, Replacing, RivalsOf
    <3>2. ~Running({"promote"})'
      BY <2>3, <2>5, <3>1 DEF Running, Idle, Replacing
    <3>3. QED
      BY <1>1, <2>2, <2>3, <3>1, <3>2
         DEF ReplacingApart, PromotingApart, CurrentPasswordRecoverable, Idle, Running
  <2>6. CASE cmd = "promote"
    <3>1. CandidateInUse /\ ~Running(Replacing)
      BY <2>1, <2>4, <2>6 DEF Advised, Replacing, RivalsOf
    <3>2. ~Running(Replacing)'
      BY <2>3, <2>6, <3>1 DEF Running, Idle, Replacing
    <3>3. QED
      BY <1>1, <2>2, <2>3, <2>6, <3>1, <3>2
         DEF ReplacingApart, PromotingApart, CurrentPasswordRecoverable, CandidateInUse, Idle, Running
  <2>7. CASE cmd \notin Replacing \cup {"promote"}
    BY <1>1, <2>2, <2>3, <2>7
       DEF ReplacingApart, PromotingApart, CurrentPasswordRecoverable, Idle, Running, Replacing
  <2>8. QED
    BY <2>5, <2>6, <2>7
<1>4. ASSUME NEW o \in Operators, Fail(o) PROVE Apart'
  BY <1>2, <1>4 DEF Fail, End, vault, TypeOK
<1>5. ASSUME NEW o \in Operators, CommandStep(o) PROVE Apart'
  <2>1. CASE ReadFails(o) \/ NothingPending(o)
    BY <1>2, <2>1 DEF ReadFails, NothingPending, End, vault, TypeOK
  <2>2. CASE ReadRegistry(o)
    <3>1. /\ UNCHANGED <<real, pending, provider, command, password>> /\ pc[o] = "readRegistry"
          /\ pc'[o] \in {"writePending", "readReal", "writeRegistry"}
          /\ \A q \in Operators \ {o} : pc'[q] = pc[q]
      BY <2>2 DEF ReadRegistry, Goto, vault, TypeOK
    <3>2. QED
      BY <1>1, <3>1 DEF ReplacingApart, PromotingApart, CurrentPasswordRecoverable, Idle, Running
  <2>3. CASE ReadReal(o)
    <3>1. /\ UNCHANGED <<real, pending, provider, command>> /\ command[o] = "infer"
          /\ \A q \in Operators \ {o} : pc'[q] = pc[q] /\ password'[q] = password[q]
      BY <2>3 DEF ReadReal, Goto, vault, TypeOK, CallsOnTrack
    <3>2. QED
      BY <1>1, <3>1 DEF ReplacingApart, PromotingApart, CurrentPasswordRecoverable, Idle, Running, Replacing
  <2>4. CASE ReadPending(o)
    <3>1. /\ UNCHANGED <<real, pending, provider, command>> /\ command[o] = "promote"
          /\ pc[o] = "readPending" /\ pc'[o] = "writeReal"
          /\ pending # None /\ password'[o] = pending.password
          /\ \A q \in Operators \ {o} : pc'[q] = pc[q] /\ password'[q] = password[q]
      BY <2>4 DEF ReadPending, Goto, vault, TypeOK, CallsOnTrack
    <3>2. QED
      BY <1>1, <3>1 DEF ReplacingApart, PromotingApart, CurrentPasswordRecoverable, Idle, Running, Replacing
  <2>5. CASE WritePending(o)
    <3>1. PICK p \in Passwords \ generated :
            /\ p # real
            /\ \/ pending' # None /\ pending'.password = p /\ End(o, "done")
               \/ /\ UNCHANGED pending
                  /\ password' = [password EXCEPT ![o] = p]
                  /\ Goto(o, "addPending")
            /\ UNCHANGED <<real, provider, command, raced>>
      BY <2>5, NewCandidate
    <3>2. pc[o] = "writePending" /\ command[o] = "prepare"
      BY <2>5 DEF WritePending, CallsOnTrack
    <3>3. provider = real /\ ~Running({"promote"})
      BY <1>1, <3>2 DEF ReplacingApart, Idle, Replacing
    <3>4. /\ pc'[o] \in {"idle", "addPending"}
          /\ pc'[o] = "addPending" => password'[o] = p
          /\ \A q \in Operators \ {o} : pc'[q] = pc[q] /\ password'[q] = password[q]
      BY <3>1 DEF End, Goto, TypeOK
    <3>5. ~Running({"promote"})'
      BY <3>1, <3>2, <3>3, <3>4 DEF Running, Idle
    <3>6. QED
      BY <1>1, <3>1, <3>3, <3>4, <3>5
         DEF ReplacingApart, PromotingApart, CurrentPasswordRecoverable, Idle, Running
  <2>6. CASE AddPending(o)
    <3>1. /\ pc[o] = "addPending" /\ command[o] = "prepare"
          /\ \E how \in Outcomes : End(o, how)
          /\ UNCHANGED <<real, provider, command, raced>>
      BY <2>6, AddedCandidate
    <3>2. provider = real /\ ~Running({"promote"})
      BY <1>1, <3>1 DEF ReplacingApart, Idle, Replacing
    <3>3. /\ pc'[o] = "idle"
          /\ \A q \in Operators \ {o} : pc'[q] = pc[q] /\ password'[q] = password[q]
      BY <3>1 DEF End, TypeOK
    <3>4. ~Running({"promote"})'
      BY <3>1, <3>2, <3>3 DEF Running, Idle
    <3>5. QED
      BY <1>1, <3>1, <3>2, <3>3, <3>4
         DEF ReplacingApart, PromotingApart, CurrentPasswordRecoverable, Idle, Running
  <2>7. CASE WriteReal(o)
    <3>1. /\ real' = password[o] /\ command[o] = "promote"
          /\ pc[o] = "writeReal" /\ pc'[o] = "readRegistry"
          /\ \A q \in Operators \ {o} : pc'[q] = pc[q]
          /\ UNCHANGED <<pending, provider, command, password>>
      BY <2>7 DEF WriteReal, CallsOnTrack, Goto, TypeOK, local
    <3>2. password[o] = provider /\ Running({"promote"})
      BY <1>1, <3>1 DEF PromotingApart, Idle, Running
    <3>3. \A q \in Operators : pc'[q] # "idle" => command'[q] \notin Replacing
      BY <1>1, <3>1, <3>2 DEF ReplacingApart, Idle
    <3>4. QED
      BY <1>1, <3>1, <3>2, <3>3
         DEF ReplacingApart, PromotingApart, CurrentPasswordRecoverable, Idle, Running
  <2>8. CASE EditRegistry(o) \/ AddRegistry(o)
    <3>1. /\ UNCHANGED <<real, pending, provider, command>>
          /\ command[o] \notin Replacing
          /\ pc[o] \in {"writeRegistry", "addRegistry"}
          /\ \A q \in Operators \ {o} : pc'[q] = pc[q] /\ password'[q] = password[q]
      BY <2>8 DEF EditRegistry, AddRegistry, RegistryWritten, CallsOnTrack, Goto, End, TypeOK,
                  vault, local, Replacing
    <3>2. pc'[o] # "idle" =>
            pc'[o] \in {"addRegistry", "removePending"} /\ password'[o] = password[o]
      BY <2>8 DEF EditRegistry, AddRegistry, RegistryWritten, Goto, End, TypeOK, local
    <3>3. QED
      BY <1>1, <3>1, <3>2
         DEF ReplacingApart, PromotingApart, CurrentPasswordRecoverable, Idle, Running
  <2>9. CASE RemovePending(o)
    <3>1. /\ pending' = None /\ pc[o] = "removePending" /\ pc'[o] = "idle"
          /\ command[o] \in {"promote", "discard"}
          /\ \A q \in Operators \ {o} : pc'[q] = pc[q] /\ password'[q] = password[q]
          /\ UNCHANGED <<real, provider, command>>
      BY <2>9 DEF RemovePending, CallsOnTrack, End, TypeOK
    <3>2. provider = real
      BY <1>1, <3>1 DEF ReplacingApart, PromotingApart, Idle, Replacing
    <3>3. QED
      BY <1>1, <3>1, <3>2
         DEF ReplacingApart, PromotingApart, CurrentPasswordRecoverable, Idle, Running
  <2>10. QED
    BY <1>5, <2>1, <2>2, <2>3, <2>4, <2>5, <2>6, <2>7, <2>8, <2>9 DEF CommandStep
<1>6. CASE ChangeAtProvider
  <2>1. /\ pending # None /\ provider' = pending.password
        /\ UNCHANGED <<real, pending, pc, command, password>>
        /\ ~Running(Replacing)
    BY <1>6 DEF ChangeAtProvider, vault, local
  <2>2. QED
    BY <1>1, <2>1 DEF ReplacingApart, PromotingApart, CurrentPasswordRecoverable, Idle, Running
<1>7. CASE TidyNotes
  <2>1. UNCHANGED command
    BY <1>7 DEF TidyNotes, local
  <2>2. QED
    BY <1>1, <1>7, <2>1, TidyKeepsCandidate
       DEF ReplacingApart, PromotingApart, CurrentPasswordRecoverable, Idle, Running
<1>8. CASE UNCHANGED vars
  BY <1>1, <1>8 DEF vars, vault, local, ReplacingApart, PromotingApart, CurrentPasswordRecoverable,
                    Idle, Running
<1>9. QED
  BY <1>3, <1>4, <1>5, <1>6, <1>7, <1>8 DEF Next

\* Without a race each call is a step of PasswordChange, or none at all.
LEMMA ChangeStep ==
  OverlapInv /\ [Next]_vars => [Rotation!ANext]_(Rotation!avars)
<1> SUFFICES ASSUME OverlapInv, [Next]_vars
             PROVE  Rotation!ANext \/ UNCHANGED Rotation!avars
  OBVIOUS
<1> USE DEF OverlapInv
<1>1. CASE raced'
  <2>1. TypeOK'
    BY TypeStep
  <2>2. real' \in Passwords /\ provider' \in Passwords
    BY <2>1 DEF TypeOK
  <2>3. (IF pending' = None THEN None ELSE pending'.password) \in Passwords \cup {None}
    BY <2>1 DEF TypeOK
  <2>4. raced' = TRUE
    BY <1>1, <2>1 DEF TypeOK
  <2>5. Rotation!Break
    BY <2>2, <2>3, <2>4 DEF Rotation!Break
  <2>6. QED
    BY <2>5 DEF Rotation!ANext
<1>2. CASE ~raced'
  <2>1. ~raced /\ raced' = FALSE /\ raced = FALSE
    BY <1>2, RacedStays, TypeStep DEF TypeOK
  <2>2. ReplacingApart /\ PromotingApart
    BY <2>1 DEF Unraced
  <2>3. ASSUME Rotation!Prepare \/ Rotation!Change \/ Rotation!Store \/ Rotation!Drop
        PROVE  Rotation!ANext
    BY <2>1, <2>3 DEF Rotation!ANext
  <2>4. ASSUME UNCHANGED <<real, pending, provider>>
        PROVE  UNCHANGED Rotation!avars
    BY <2>1, <2>4 DEF Rotation!avars
  <2>5. ASSUME NEW o \in Operators, Begin(o) \/ Fail(o)
        PROVE  UNCHANGED Rotation!avars
    BY <2>4, <2>5 DEF Begin, Fail, vault
  <2>6. ASSUME NEW o \in Operators, CommandStep(o)
        PROVE  Rotation!ANext \/ UNCHANGED Rotation!avars
    <3>1. CASE \/ ReadRegistry(o) \/ ReadReal(o) \/ ReadPending(o) \/ ReadFails(o) \/ NothingPending(o)
               \/ EditRegistry(o) \/ AddRegistry(o)
      BY <2>4, <3>1 DEF ReadRegistry, ReadReal, ReadPending, ReadFails, NothingPending,
                        EditRegistry, AddRegistry, RegistryWritten, vault
    <3>2. CASE WritePending(o)
      <4>1. PICK p \in Passwords \ generated :
              /\ p # real
              /\ \/ pending' # None /\ pending'.password = p
                 \/ UNCHANGED pending
              /\ UNCHANGED <<real, provider>>
        BY <3>2, NewCandidate
      <4>2. provider = real
        BY <2>2, <3>2 DEF WritePending, CallsOnTrack, ReplacingApart, Idle, Replacing
      <4>3. CASE pending' # None /\ pending'.password = p
        BY <2>3, <4>1, <4>2, <4>3 DEF Rotation!Prepare
      <4>4. QED
        BY <2>4, <4>1, <4>3
    <3>3. CASE AddPending(o)
      <4>1. /\ pc[o] = "addPending" /\ command[o] = "prepare" /\ password[o] \in Passwords
            /\ \/ pending' # None /\ pending'.password = password[o]
               \/ UNCHANGED pending
            /\ UNCHANGED <<real, provider>>
        BY <3>3, AddedCandidate
      <4>2. provider = real /\ password[o] # real
        BY <2>2, <4>1 DEF ReplacingApart, Idle, Replacing
      <4>3. CASE pending' # None /\ pending'.password = password[o]
        BY <2>3, <4>1, <4>2, <4>3 DEF Rotation!Prepare
      <4>4. QED
        BY <2>4, <4>1, <4>3
    <3>4. CASE WriteReal(o)
      <4>1. /\ real' = password[o] /\ UNCHANGED <<pending, provider>> /\ password[o] = provider
            /\ pending # None => pending.password = provider
        BY <2>2, <3>4 DEF WriteReal, CallsOnTrack, PromotingApart, Idle
      <4>2. CASE pending = None
        <5>1. real' = real
          BY <2>1, <4>1, <4>2 DEF Unraced, CurrentPasswordRecoverable
        <5>2. QED
          BY <2>4, <4>1, <5>1
      <4>3. CASE pending # None
        <5>1. pending.password # None
          BY <4>3 DEF TypeOK
        <5>2. Rotation!Store
          BY <4>1, <4>3, <5>1 DEF Rotation!Store
        <5>3. QED
          BY <2>3, <5>2
      <4>4. QED
        BY <4>2, <4>3
    <3>5. CASE RemovePending(o)
      <4>1. provider = real
        BY <2>2, <3>5 DEF RemovePending, CallsOnTrack, ReplacingApart, PromotingApart, Idle, Replacing
      <4>2. pending' = None /\ UNCHANGED <<real, provider>>
        BY <3>5 DEF RemovePending
      <4>3. Rotation!Drop
        BY <4>1, <4>2 DEF Rotation!Drop
      <4>4. QED
        BY <2>3, <4>3
    <3>6. QED
      BY <2>6, <3>1, <3>2, <3>3, <3>4, <3>5 DEF CommandStep
  <2>7. CASE ChangeAtProvider
    <3>1. pending # None /\ pending.password # None /\ provider' = pending.password
      BY <2>7 DEF ChangeAtProvider, TypeOK
    <3>2. Rotation!Change
      BY <2>7, <3>1 DEF ChangeAtProvider, vault, Rotation!Change
    <3>3. QED
      BY <2>3, <3>2
  <2>8. CASE TidyNotes
    BY <2>1, <2>8, TidyKeepsCandidate DEF Rotation!avars
  <2>9. CASE UNCHANGED vars
    BY <2>4, <2>9 DEF vars, vault
  <2>10. QED
    BY <2>5, <2>6, <2>7, <2>8, <2>9 DEF Next
<1>3. QED
  BY <1>1, <1>2

-----------------------------------------------------------------------------
(* The theorems.                                                            *)

\* The state is well typed, whether or not commands overlap.
THEOREM TypeCorrect == Spec => []TypeOK
<1>1. Init => TypeOK /\ CallsOnTrack
  BY TypeInit DEF Init, CallsOnTrack
<1>2. TypeOK /\ CallsOnTrack /\ [Next]_vars => (TypeOK /\ CallsOnTrack)'
  BY TypeStep, CallsStep
<1>3. QED
  BY <1>1, <1>2, PTL DEF Spec

\* A promote that gets to its end has done all of its work, unless somebody else has
\* changed the vault between its calls.
THEOREM PromoteCompletes == Spec => PromotionIsComplete
<1>1. Init => TypeOK /\ CallsOnTrack /\ CompleteInv
  BY TypeInit DEF Init, CallsOnTrack, CompleteInv, Complete
<1>2. TypeOK /\ CallsOnTrack /\ CompleteInv /\ [Next]_vars => (TypeOK /\ CallsOnTrack /\ CompleteInv)'
  BY TypeStep, CallsStep, CompleteStep
<1>3. CompleteInv /\ [Next]_vars =>
        [\A o \in Operators \ crossed :
           command[o] = "promote" /\ pc[o] = "removePending" /\ outcome'[o] = "done" =>
             /\ real = password[o]
             /\ pending # None /\ pending.password = real
             /\ registry # None /\ registry.source = "manual"
             /\ notes[o].policy # None => registry.policy = notes[o].policy]_vars
  BY DEF CompleteInv, Complete
<1>4. QED
  BY <1>1, <1>2, <1>3, PTL DEF Spec, PromotionIsComplete

\* The invariant of commands that overlap holds in every reachable state.
THEOREM OverlapInvariance == Spec => []OverlapInv
<1>1. Init => OverlapInv
  BY TypeInit DEF Init, OverlapInv, CallsOnTrack, AllGenerated, Unraced, ReplacingApart,
       PromotingApart, CurrentPasswordRecoverable, Idle
<1>2. OverlapInv /\ [Next]_vars => OverlapInv'
  BY TypeStep, CallsStep, GeneratedStep, UnracedStep DEF OverlapInv
<1>3. QED
  BY <1>1, <1>2, PTL DEF Spec

\* Whoever runs commands at the same time, and wherever they stop, the password the
\* provider accepts is in the vault, unless a prepare or a discard overlapped with a
\* promote or with the change at the provider.
THEOREM LossNeedsRace == Spec => []LostOnlyByRace
<1>1. OverlapInv => LostOnlyByRace
  BY DEF OverlapInv, Unraced, LostOnlyByRace
<1>2. QED
  BY <1>1, OverlapInvariance, PTL

\* However many calls the commands make, and whichever of them is the last, the
\* account goes through the steps of PasswordChange, until there is a race: prepare,
\* change at the provider, store, drop.
THEOREM WorkflowImplementsChange == Spec => ImplementsChange
<1>1. Init => Rotation!AInit
  BY DEF Init, Rotation!AInit
<1>2. OverlapInv /\ [Next]_vars => [Rotation!ANext]_(Rotation!avars)
  BY ChangeStep
<1>3. QED
  BY <1>1, <1>2, OverlapInvariance, PTL DEF Spec, ImplementsChange, Rotation!ASpec
=============================================================================
