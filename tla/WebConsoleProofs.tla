------------------------- MODULE WebConsoleProofs -------------------------
(***************************************************************************)
(* Theorems about WebConsole, for any number of requests, whatever they    *)
(* ask for, and any repositories, aliases, grants, vaults and passwords.   *)
(***************************************************************************)
EXTENDS WebConsole, TLAPS

-----------------------------------------------------------------------------
(* Type correctness.                                                        *)

\* A handler that edits the allowlist has a repository, and what to make of it.
EditInv ==
  \A r \in Requests : pc[r] \in {"load", "truncate", "write"} =>
    /\ op[r].repo \in Repos /\ op[r].kind # "reload"
    /\ Asks(r) \subseteq Tables /\ \A t \in Asks(r) : t.grant # Unlisted

\* What an operation on the allowlist consists of.
LEMMA EditTypes ==
  ASSUME NEW o \in Operations, o.kind \in {"upsert", "delete"}
  PROVE  o.repo \in Repos /\ (o.kind = "upsert" => o.grant \in Grants)
BY ConsoleAssumption DEF Operations, ConsoleAssumption

\* The absent value is no request.
LEMMA Absent == Nothing \notin Requests
BY ConsoleAssumption DEF ConsoleAssumption

\* The credentials of a daemon, the base environment and what is resolved from
\* them are settings.
LEMMA SettingsTypes ==
  /\ Base \in Settings /\ Compat \in Settings /\ NoSettings \in Settings
  /\ Masters \subseteq Settings
BY ConsoleAssumption DEF ConsoleAssumption, NoSettings, Settings

LEMMA ResolvedType ==
  ASSUME NEW s \in Settings
  PROVE  Resolve([own |-> s, pf |-> Compat]) \in Settings
BY SettingsTypes DEF Resolve, Over, Fields, Settings

\* The parts of the state that few actions change.
EntryTypes ==
  /\ ctx \in [Requests -> Settings]
  /\ saved \in [Requests -> Settings]
  /\ context \in [Requests -> Settings]
  /\ environ \in Settings
  /\ holder \in Requests \cup {Nothing}
  /\ calls \subseteq Requests \X Settings

FileTypes ==
  /\ file \subseteq Tables
  /\ malformed \in BOOLEAN
  /\ stale \in [Requests -> BOOLEAN]
  /\ lossy \in BOOLEAN
  /\ latest \subseteq Tables
  /\ authored \subseteq Tables

DaemonTypes ==
  /\ unlocked \in BOOLEAN
  /\ master \in Masters \cup {Nothing}
  /\ table \subseteq Tables
  /\ behind \in BOOLEAN
  /\ mixed \in BOOLEAN

RequestTypes ==
  /\ pc \in [Requests -> PcValues]
  /\ op \in [Requests -> Operations \cup {Nothing}]
  /\ repos \in [Requests -> SUBSET Tables]

TypeInv == RequestTypes /\ EntryTypes /\ FileTypes /\ DaemonTypes

\* The four parts are the type invariant.
LEMMA Parts == TypeInv <=> TypeOK
BY DEF TypeInv, TypeOK, RequestTypes, EntryTypes, FileTypes, DaemonTypes

\* What a request does keeps its place and its operation well typed.
LEMMA GotoType ==
  ASSUME RequestTypes, NEW r \in Requests, NEW label \in PcValues, Goto(r, label)
  PROVE  pc' \in [Requests -> PcValues] /\ op' \in [Requests -> Operations \cup {Nothing}]
BY DEF RequestTypes, Goto

\* So does what it makes of the reads of other requests.
LEMMA OutdateType ==
  ASSUME FileTypes, NEW r \in Requests, Outdate(r)
  PROVE  stale' \in [Requests -> BOOLEAN]
<1>1. \A q \in Requests : Editing(q) \in BOOLEAN
  BY DEF Editing
<1>2. QED
  BY <1>1 DEF Outdate, FileTypes

\* Text over other text is made of tables of both, and malformed or not.
LEMMA OverlayType ==
  ASSUME FileTypes, NEW text \in SUBSET Tables, Overlay(text)
  PROVE  file' \subseteq Tables /\ malformed' \in BOOLEAN
<1>1. PICK rest \in SUBSET file : /\ file' = text \cup rest
                                  /\ malformed' = ~Fits(text, rest) \/ malformed' = TRUE
  BY DEF Overlay
<1>2. (~Fits(text, rest)) \in BOOLEAN
  OBVIOUS
<1>3. malformed' \in BOOLEAN
  BY <1>1, <1>2
<1>4. QED
  BY <1>1, <1>3 DEF FileTypes

\* The entry manager keeps the types.
LEMMA TypeEntry ==
  ASSUME TypeInv, NEW r \in Requests, EntryStep(r)
  PROVE  TypeInv'
<1> USE DEF TypeInv
<1>1. FileTypes' /\ DaemonTypes' /\ UNCHANGED repos
  BY DEF EntryStep, FetchContext, AcquireContext, Enter, ShowEntry, EditEntry, MakeGroup, AddEntry,
         RestoreContext, FileTypes, DaemonTypes, editVars, daemonVars, tableVars
<1>2. PICK label \in PcValues : Goto(r, label)
  BY DEF EntryStep, FetchContext, AcquireContext, Enter, ShowEntry, EditEntry, MakeGroup, AddEntry,
         RestoreContext, LeaveContext, PcValues, Inside
<1>3. RequestTypes'
  BY <1>1, <1>2, GotoType DEF RequestTypes
<1>4. CASE FetchContext(r)
  <2>1. ctx' \in [Requests -> Settings]
    <3>1. CASE ctx' = [ctx EXCEPT ![r] = master] /\ Up
      BY <3>1, SettingsTypes DEF EntryTypes, DaemonTypes, Up
    <3>2. QED
      BY <1>4, <3>1 DEF FetchContext, EntryTypes
  <2>2. QED
    BY <1>1, <1>3, <1>4, <2>1 DEF FetchContext, EntryTypes
<1>5. CASE Enter(r)
  BY <1>1, <1>3, <1>5 DEF Enter, EntryTypes
<1>6. CASE ShowEntry(r) \/ EditEntry(r) \/ MakeGroup(r) \/ AddEntry(r)
  <2>1. Resolved \in Settings
    BY ResolvedType DEF Resolved, EntryTypes
  <2>2. /\ UNCHANGED <<ctx, saved, environ, holder>>
        /\ \/ UNCHANGED calls
           \/ \E s \in Settings : calls' = calls \cup {<<r, s>>}
        /\ UNCHANGED context \/ context' = [context EXCEPT ![r] = Resolved]
    BY <1>6, <2>1 DEF ShowEntry, EditEntry, MakeGroup, AddEntry, CallWith, EntryTypes
  <2>3. QED
    BY <1>1, <1>3, <2>1, <2>2 DEF EntryTypes
<1>7. CASE RestoreContext(r)
  BY <1>1, <1>3, <1>7, SettingsTypes DEF RestoreContext, LeaveContext, EntryTypes
<1>8. QED
  BY <1>4, <1>5, <1>6, <1>7 DEF EntryStep, AcquireContext

\* The editor of the allowlist keeps the types.
LEMMA TypeAllowlist ==
  ASSUME TypeInv, EditInv, NEW r \in Requests, AllowlistStep(r)
  PROVE  TypeInv'
<1> USE DEF TypeInv
<1>1. DaemonTypes'
  BY DEF AllowlistStep, LoadAllowlist, TruncateAllowlist, WriteAllowlist, DaemonTypes, daemonVars,
         tableVars
<1>2. EntryTypes'
  BY DEF AllowlistStep, LoadAllowlist, TruncateAllowlist, WriteAllowlist, EntryTypes, entryVars
<1>3. PICK label \in PcValues : Goto(r, label)
  BY DEF AllowlistStep, LoadAllowlist, TruncateAllowlist, WriteAllowlist, PcValues
<1>4. op[r].repo \in Repos /\ Asks(r) \subseteq Tables
  BY DEF AllowlistStep, LoadAllowlist, TruncateAllowlist, WriteAllowlist, EditInv
<1>5. CASE LoadAllowlist(r)
  <2>1. repos' \in [Requests -> SUBSET Tables]
    <3>1. CASE repos' = [repos EXCEPT ![r] = Without(file, op[r].repo) \cup Asks(r)]
      <4>1. Without(file, op[r].repo) \cup Asks(r) \subseteq Tables
        BY <1>4 DEF FileTypes, Without
      <4>2. QED
        BY <3>1, <4>1 DEF RequestTypes
    <3>2. QED
      BY <1>5, <3>1 DEF LoadAllowlist, RequestTypes
  <2>2. FileTypes'
    BY <1>5 DEF LoadAllowlist, FileTypes
  <2>3. QED
    BY <1>1, <1>2, <1>3, <2>1, <2>2, GotoType DEF RequestTypes
<1>6. CASE TruncateAllowlist(r)
  <2>1. stale' \in [Requests -> BOOLEAN]
    BY <1>6, OutdateType DEF TruncateAllowlist, FileTypes
  <2>2. lossy' \in BOOLEAN
    <3>1. (lossy \/ stale[r]) \in BOOLEAN
      OBVIOUS
    <3>2. lossy' = (lossy \/ stale[r]) \/ lossy' = lossy
      BY <1>6 DEF TruncateAllowlist
    <3>3. QED
      BY <3>1, <3>2 DEF FileTypes
  <2>3. FileTypes'
    BY <1>6, <2>1, <2>2 DEF TruncateAllowlist, FileTypes
  <2>4. QED
    BY <1>1, <1>2, <1>3, <1>6, <2>3, GotoType DEF TruncateAllowlist, RequestTypes
<1>7. CASE WriteAllowlist(r)
  <2>1. file' \subseteq Tables /\ malformed' \in BOOLEAN
    <3>1. Saved(repos[r]) \in SUBSET Tables
      BY DEF RequestTypes, Saved, Effective
    <3>2. Overlay(Saved(repos[r])) \/ UNCHANGED <<file, malformed>>
      BY <1>7 DEF WriteAllowlist
    <3>3. QED
      BY <3>1, <3>2, OverlayType DEF FileTypes
  <2>2. stale' \in [Requests -> BOOLEAN]
    BY <1>7, OutdateType DEF WriteAllowlist, FileTypes
  <2>3. lossy' \in BOOLEAN
    <3>1. (lossy \/ stale[r]) \in BOOLEAN
      OBVIOUS
    <3>2. lossy' = (lossy \/ stale[r]) \/ lossy' = TRUE
      BY <1>7 DEF WriteAllowlist
    <3>3. QED
      BY <3>1, <3>2
  <2>4. latest' \subseteq Tables
    BY <1>4, <1>7 DEF WriteAllowlist, FileTypes, Without
  <2>5. authored' \subseteq Tables
    BY <1>4, <1>7 DEF WriteAllowlist, FileTypes
  <2>6. repos' \in [Requests -> SUBSET Tables]
    BY <1>7 DEF WriteAllowlist, RequestTypes
  <2>7. behind' \in BOOLEAN
    BY <1>7 DEF WriteAllowlist, DaemonTypes
  <2>8. QED
    BY <1>1, <1>2, <1>3, <2>1, <2>2, <2>3, <2>4, <2>5, <2>6, <2>7, GotoType DEF FileTypes, RequestTypes
<1>8. QED
  BY <1>5, <1>6, <1>7 DEF AllowlistStep

\* Some steps of a request about the daemon keep the types, and so do its arrival.
LEMMA TypeDaemon ==
  ASSUME TypeInv, NEW r \in Requests, Arrive(r) \/ DaemonStep(r)
  PROVE  TypeInv'
<1> USE DEF TypeInv
<1>1. EntryTypes' /\ FileTypes'
  BY DEF Arrive, DaemonStep, ControlDaemon, ClearTable, ReadAllowlist, FillTable, EntryTypes,
         FileTypes, entryVars, editVars
<1>2. CASE Arrive(r)
  <2>1. CASE Goto(r, "done")
    BY <1>1, <1>2, <2>1 DEF Arrive, Goto, RequestTypes, PcValues, DaemonTypes, daemonVars, tableVars
  <2>2. ASSUME NEW o \in Calls[r], op' = [op EXCEPT ![r] = o],
               NEW label \in PcValues, pc' = [pc EXCEPT ![r] = label]
        PROVE  TypeInv'
    <3>1. o \in Operations
      BY ConsoleAssumption DEF ConsoleAssumption
    <3>2. QED
      BY <1>1, <1>2, <2>2, <3>1 DEF Arrive, RequestTypes, DaemonTypes, daemonVars, tableVars
  <2>3. ASSUME NEW o \in Calls[r]
        PROVE  (CASE o.kind \in {"get", "set"} -> "fetch"
                  [] o.kind \in {"upsert", "delete"} -> "load"
                  [] o.kind \in {"lock", "unlock"} -> "control"
                  [] o.kind = "reload" -> "reload") \in PcValues
    <3>1. o.kind \in {"get", "set", "upsert", "delete", "lock", "unlock", "reload"}
      BY ConsoleAssumption DEF ConsoleAssumption, Operations
    <3>2. QED
      BY <3>1 DEF PcValues
  <2>4. QED
    BY <1>2, <2>1, <2>2, <2>3 DEF Arrive
<1>3. CASE ControlDaemon(r)
  <2>1. unlocked' \in BOOLEAN
    <3>1. (op[r].kind = "unlock") \in BOOLEAN
      OBVIOUS
    <3>2. unlocked' = (op[r].kind = "unlock") \/ unlocked' = unlocked
      BY <1>3 DEF ControlDaemon
    <3>3. QED
      BY <3>1, <3>2 DEF DaemonTypes
  <2>2. QED
    BY <1>1, <1>3, <2>1, GotoType DEF ControlDaemon, RequestTypes, DaemonTypes, PcValues, tableVars
<1>4. CASE ClearTable(r)
  <2>1. mixed' \in BOOLEAN
    <3>1. (\E q \in Requests : pc[q] \in InDaemon) \in BOOLEAN
      OBVIOUS
    <3>2. QED
      BY <1>4, <3>1 DEF ClearTable, DaemonTypes
  <2>2. \E label \in PcValues : Goto(r, label)
    BY <1>4 DEF ClearTable, PcValues, InDaemon
  <2>3. QED
    BY <1>1, <1>4, <2>1, <2>2, GotoType DEF ClearTable, RequestTypes, DaemonTypes, daemonVars
<1>5. CASE ReadAllowlist(r)
  <2>1. \E label \in PcValues : Goto(r, label)
    BY <1>5 DEF ReadAllowlist, PcValues, InDaemon
  <2>2. repos' \in [Requests -> SUBSET Tables]
    BY <1>5 DEF ReadAllowlist, RequestTypes, FileTypes
  <2>3. QED
    BY <1>1, <1>5, <2>1, <2>2, GotoType DEF ReadAllowlist, RequestTypes, DaemonTypes, daemonVars
<1>6. CASE FillTable(r)
  <2>1. table' \subseteq Tables
    BY <1>6 DEF FillTable, RequestTypes, DaemonTypes
  <2>2. repos' \in [Requests -> SUBSET Tables]
    BY <1>6 DEF FillTable, RequestTypes
  <2>3. QED
    BY <1>1, <1>6, <2>1, <2>2, GotoType DEF FillTable, RequestTypes, DaemonTypes, PcValues, daemonVars
<1>7. QED
  BY <1>2, <1>3, <1>4, <1>5, <1>6 DEF DaemonStep

\* What happens around the console keeps the types.
LEMMA TypeAround ==
  ASSUME TypeInv,
         \/ RestartConsole \/ UnlockDaemon \/ StopDaemon
         \/ \E list \in Drafts : EditByHand(list)
         \/ \E m \in Masters : StartDaemon(m)
  PROVE  TypeInv'
<1> USE DEF TypeInv
<1>1. CASE RestartConsole
  <2>1. pc' \in [Requests -> PcValues]
    BY <1>1 DEF RestartConsole, RequestTypes, PcValues
  <2>2. op' \in [Requests -> Operations \cup {Nothing}]
    BY <1>1 DEF RestartConsole, RequestTypes
  <2>3. repos' \in [Requests -> SUBSET Tables]
    BY <1>1 DEF RestartConsole, RequestTypes
  <2>4. EntryTypes'
    BY <1>1, SettingsTypes DEF RestartConsole, EntryTypes
  <2>5. lossy' \in BOOLEAN /\ behind' \in BOOLEAN
    <3>1. /\ (lossy \/ \E r \in Requests : pc[r] = "write") \in BOOLEAN
          /\ (behind \/ \E r \in Requests :
                          pc[r] = "write" \/ (pc[r] = "reload" /\ op[r].kind # "reload")) \in BOOLEAN
      OBVIOUS
    <3>2. QED
      BY <1>1, <3>1 DEF RestartConsole
  <2>6. QED
    BY <1>1, <2>1, <2>2, <2>3, <2>4, <2>5 DEF RestartConsole, RequestTypes, FileTypes, DaemonTypes,
       daemonVars
<1>2. ASSUME NEW list \in Drafts, EditByHand(list)
      PROVE  TypeInv'
  <2>1. list \subseteq Tables
    BY ConsoleAssumption DEF ConsoleAssumption
  <2>2. stale' \in [Requests -> BOOLEAN]
    BY <1>2 DEF EditByHand, Editing
  <2>3. FileTypes'
    BY <1>2, <2>1, <2>2 DEF EditByHand, FileTypes
  <2>4. QED
    BY <1>2, <2>3 DEF EditByHand, RequestTypes, EntryTypes, DaemonTypes, entryVars, daemonVars
<1>3. ASSUME NEW m \in Masters, StartDaemon(m)
      PROVE  TypeInv'
  BY <1>3 DEF StartDaemon, RequestTypes, EntryTypes, FileTypes, DaemonTypes, entryVars, editVars
<1>4. CASE UnlockDaemon
  BY <1>4 DEF UnlockDaemon, RequestTypes, EntryTypes, FileTypes, DaemonTypes, entryVars, editVars,
     tableVars
<1>5. CASE StopDaemon
  <2>1. pc' \in [Requests -> PcValues]
    BY <1>5 DEF StopDaemon, RequestTypes, PcValues
  <2>2. op' \in [Requests -> Operations \cup {Nothing}]
    BY <1>5 DEF StopDaemon, RequestTypes
  <2>3. repos' \in [Requests -> SUBSET Tables]
    BY <1>5 DEF StopDaemon, RequestTypes
  <2>4. DaemonTypes'
    BY <1>5 DEF StopDaemon, DaemonTypes
  <2>5. QED
    BY <1>5, <2>1, <2>2, <2>3, <2>4 DEF StopDaemon, RequestTypes, EntryTypes, FileTypes, entryVars,
       editVars
<1>6. QED
  BY <1>1, <1>2, <1>3, <1>4, <1>5

\* A request is at its edit with the operation it has arrived with.
LEMMA EditArrive ==
  ASSUME RequestTypes, EditInv, NEW r \in Requests, Arrive(r)
  PROVE  EditInv'
<1>1. CASE Goto(r, "done")
  BY <1>1 DEF Goto, EditInv, Asks, RequestTypes
<1>2. ASSUME NEW o \in Calls[r], op' = [op EXCEPT ![r] = o],
             pc' = [pc EXCEPT ![r] = CASE o.kind \in {"get", "set"} -> "fetch"
                                       [] o.kind \in {"upsert", "delete"} -> "load"
                                       [] o.kind \in {"lock", "unlock"} -> "control"
                                       [] o.kind = "reload" -> "reload"]
      PROVE  EditInv'
  <2>1. o \in Operations
    BY ConsoleAssumption DEF ConsoleAssumption
  <2>2. o.kind \in {"get", "set", "upsert", "delete", "lock", "unlock", "reload"}
    BY <2>1 DEF Operations
  <2>3. pc'[r] \in {"load", "truncate", "write"} => o.kind \in {"upsert", "delete"}
    BY <1>2, <2>2 DEF RequestTypes
  <2>4. op'[r] = o /\ \A q \in Requests \ {r} : pc'[q] = pc[q] /\ op'[q] = op[q]
    BY <1>2 DEF RequestTypes
  <2>5. pc'[r] \in {"load", "truncate", "write"} =>
          /\ op'[r].repo \in Repos
          /\ Asks(r)' \subseteq Tables /\ \A t \in Asks(r)' : t.grant # Unlisted
          /\ op'[r].kind # "reload"
    BY <2>1, <2>3, <2>4, EditTypes, ConsoleAssumption DEF Asks, Tables, ConsoleAssumption
  <2>6. QED
    BY <2>4, <2>5 DEF EditInv, Asks
<1>3. QED
  BY <1>1, <1>2 DEF Arrive

\* The other steps of a request lead to an edit only from the step before it.
LEMMA EditStep ==
  ASSUME RequestTypes, EditInv, NEW r \in Requests, RequestStep(r)
  PROVE  EditInv'
<1>1. PICK label : Goto(r, label) /\
        (label \in {"load", "truncate", "write"} => pc[r] \in {"load", "truncate", "write"})
  <2>1. CASE EntryStep(r)
    BY <2>1 DEF EntryStep, FetchContext, AcquireContext, Enter, ShowEntry, EditEntry, MakeGroup,
       AddEntry, RestoreContext, LeaveContext
  <2>2. CASE AllowlistStep(r)
    BY <2>2 DEF AllowlistStep, LoadAllowlist, TruncateAllowlist, WriteAllowlist
  <2>3. CASE DaemonStep(r)
    <3>1. \E label \in {"reading", "filling", "done"} : Goto(r, label)
      BY <2>3 DEF DaemonStep, ControlDaemon, ClearTable, ReadAllowlist, FillTable
    <3>2. QED
      BY <3>1
  <2>4. QED
    BY <2>1, <2>2, <2>3 DEF RequestStep
<1>2. \A q \in Requests : pc'[q] \in {"load", "truncate", "write"} =>
        pc[q] \in {"load", "truncate", "write"} /\ op'[q] = op[q]
  BY <1>1 DEF Goto, RequestTypes
<1>3. QED
  BY <1>2 DEF EditInv, Asks

\* No step around the console begins an edit.
LEMMA EditAround ==
  ASSUME RequestTypes, EditInv,
         \/ RestartConsole \/ UnlockDaemon \/ StopDaemon \/ UNCHANGED vars
         \/ \E list \in Drafts : EditByHand(list)
         \/ \E m \in Masters : StartDaemon(m)
  PROVE  EditInv'
<1>1. \A q \in Requests : pc'[q] \in {"load", "truncate", "write"} =>
        pc'[q] = pc[q] /\ op'[q] = op[q]
  BY DEF RestartConsole, UnlockDaemon, StopDaemon, EditByHand, StartDaemon, vars, RequestTypes, InDaemon
<1>2. QED
  BY <1>1 DEF EditInv, Asks

\* Every step keeps the types.
LEMMA TypeNext == TypeInv /\ EditInv /\ [Next]_vars => TypeInv' /\ EditInv'
<1> SUFFICES ASSUME TypeInv, EditInv, [Next]_vars PROVE TypeInv' /\ EditInv'
  OBVIOUS
<1>1. CASE UNCHANGED vars
  BY <1>1, EditAround DEF TypeInv, RequestTypes, EntryTypes, FileTypes, DaemonTypes, vars, entryVars,
     editVars, daemonVars, tableVars
<1>2. ASSUME NEW r \in Requests, Arrive(r) \/ RequestStep(r)
      PROVE  TypeInv' /\ EditInv'
  BY <1>2, TypeEntry, TypeAllowlist, TypeDaemon, EditArrive, EditStep DEF RequestStep, TypeInv
<1>3. ASSUME \/ RestartConsole \/ UnlockDaemon \/ StopDaemon
             \/ \E list \in Drafts : EditByHand(list)
             \/ \E m \in Masters : StartDaemon(m)
      PROVE  TypeInv' /\ EditInv'
  BY <1>3, TypeAround, EditAround DEF TypeInv
<1>4. QED
  BY <1>1, <1>2, <1>3 DEF Next

\* The console starts well typed.
LEMMA TypeInit == Init => TypeInv /\ EditInv
<1> SUFFICES ASSUME Init PROVE TypeInv /\ EditInv
  OBVIOUS
<1>1. RequestTypes
  BY DEF Init, RequestTypes, PcValues
<1>2. EntryTypes
  BY SettingsTypes DEF Init, EntryTypes
<1>3. file \subseteq Tables
  BY ConsoleAssumption DEF Init, ConsoleAssumption
<1>4. FileTypes
  BY <1>3 DEF Init, FileTypes
<1>5. DaemonTypes
  BY DEF Init, DaemonTypes
<1>6. EditInv
  BY DEF Init, EditInv
<1>7. QED
  BY <1>1, <1>2, <1>4, <1>5, <1>6 DEF TypeInv

\* The types hold at all times.
LEMMA TypeAlways == Spec => [](TypeInv /\ EditInv)
<1>1. (TypeInv /\ EditInv) /\ [Next]_vars => (TypeInv /\ EditInv)'
  BY TypeNext
<1>2. QED
  BY <1>1, TypeInit, PTL DEF Spec

\* The requests, the environment, the allowlist file and the table of the daemon
\* hold what the code may put there (web/app.py).
THEOREM TypeCorrect == Spec => []TypeOK
<1>1. TypeInv => TypeOK
  BY Parts
<1>2. QED
  BY <1>1, TypeAlways, PTL

-----------------------------------------------------------------------------
(* The credentials in the environment.                                      *)

\* The settings keepassxc-cli gets with the credentials s in the environment.
With(s) == Resolve([own |-> s, pf |-> Compat])

\* The request that holds the lock, and only that one, is inside the context, and
\* the environment holds its credentials until it leaves.
ContextInv ==
  /\ \A r \in Requests : pc[r] \in Inside <=> holder = r
  /\ holder = Nothing => environ = Base
  /\ \A r \in Requests : holder = r => environ = ctx[r] /\ saved[r] = Base
  /\ \A r \in Requests : pc[r] \in Inside \cup {"acquire"} => ctx[r] \in Masters
  /\ \A r \in Requests : pc[r] \in {"mkdir", "add"} => context[r] = With(ctx[r])
  /\ \A call \in calls : pc[call[1]] \in Inside /\ call[2] = With(ctx[call[1]])

\* A step of one request inside the context, which makes a call of its own or none.
LEMMA ContextInside ==
  ASSUME TypeInv, ContextInv, NEW r \in Requests, holder = r,
         NEW label \in Inside, pc' = [pc EXCEPT ![r] = label],
         UNCHANGED <<ctx, saved, environ, holder>>,
         calls' \subseteq calls \cup {<<r, With(ctx[r])>>},
         \A q \in Requests \ {r} : context'[q] = context[q],
         label \in {"mkdir", "add"} => context'[r] = With(ctx[r])
  PROVE  ContextInv'
<1>1. pc'[r] = label /\ \A q \in Requests \ {r} : pc'[q] = pc[q]
  BY DEF TypeInv, RequestTypes
<1>2. \A q \in Requests : pc'[q] \in Inside <=> pc[q] \in Inside
  BY <1>1 DEF ContextInv
<1>3. \A q \in Requests : pc'[q] \in Inside \cup {"acquire"} => ctx[q] \in Masters
  BY <1>1, <1>2 DEF ContextInv
<1>4. \A q \in Requests : pc'[q] \in {"mkdir", "add"} => context'[q] = With(ctx[q])
  BY <1>1 DEF ContextInv
<1>5. \A call \in calls' : pc'[call[1]] \in Inside /\ call[2] = With(ctx[call[1]])
  <2> SUFFICES ASSUME NEW call \in calls' 
               PROVE  pc'[call[1]] \in Inside /\ call[2] = With(ctx[call[1]])
    OBVIOUS
  <2>1. CASE call \in calls
    <3>1. call[1] \in Requests
      BY <2>1 DEF TypeInv, EntryTypes
    <3>2. QED
      BY <1>2, <2>1, <3>1 DEF ContextInv
  <2>2. CASE call = <<r, With(ctx[r])>>
    BY <1>1, <2>2
  <2>3. QED
    BY <2>1, <2>2
<1>6. QED
  BY <1>2, <1>3, <1>4, <1>5 DEF ContextInv, With

\* A step of a request outside the context that leaves the credentials alone.
LEMMA ContextOutside ==
  ASSUME TypeInv, ContextInv, UNCHANGED entryVars,
         \A q \in Requests : pc'[q] = pc[q] \/ {pc[q], pc'[q]} \cap (Inside \cup {"acquire"}) = {}
  PROVE  ContextInv'
<1>1. \A q \in Requests : /\ pc'[q] \in Inside <=> pc[q] \in Inside
                          /\ pc'[q] = "acquire" <=> pc[q] = "acquire"
                          /\ pc'[q] \in {"mkdir", "add"} <=> pc[q] \in {"mkdir", "add"}
  BY DEF Inside
<1>2. \A call \in calls : call[1] \in Requests
  BY DEF TypeInv, EntryTypes
<1>3. QED
  BY <1>1, <1>2 DEF ContextInv, entryVars, With

\* The entry manager keeps it.
LEMMA ContextEntry ==
  ASSUME TypeInv, ContextInv, NEW r \in Requests, EntryStep(r)
  PROVE  ContextInv'
<1>1. CASE FetchContext(r)
  <2>1. CASE ctx' = [ctx EXCEPT ![r] = master] /\ Up /\ Goto(r, "acquire")
    <3>1. /\ pc'[r] = "acquire" /\ ctx'[r] \in Masters
          /\ \A q \in Requests \ {r} : pc'[q] = pc[q] /\ ctx'[q] = ctx[q]
      BY <2>1 DEF TypeInv, RequestTypes, EntryTypes, DaemonTypes, Up, Goto
    <3>2. pc[r] \notin Inside /\ pc'[r] \notin Inside
      BY <1>1, <3>1 DEF FetchContext, Inside
    <3>3. UNCHANGED <<saved, context, environ, holder, calls>>
      BY <1>1 DEF FetchContext
    <3>4. \A q \in Requests : pc'[q] \in Inside => q # r
      BY <3>2
    <3>5. \A call \in calls : call[1] \in Requests \ {r}
      BY <3>2 DEF TypeInv, EntryTypes, ContextInv
    <3>6. \A call \in calls : pc'[call[1]] \in Inside /\ call[2] = With(ctx'[call[1]])
      BY <3>1, <3>5 DEF ContextInv
    <3>7. \A q \in Requests : pc'[q] \in {"mkdir", "add"} => context[q] = With(ctx'[q])
      BY <3>1 DEF ContextInv
    <3>8. QED
      BY <3>1, <3>2, <3>3, <3>6, <3>7 DEF ContextInv, With
  <2>2. CASE Goto(r, "done") /\ UNCHANGED ctx
    BY <1>1, <2>2, ContextOutside DEF FetchContext, Goto, Inside, entryVars, TypeInv, RequestTypes
  <2>3. QED
    BY <1>1, <2>1, <2>2 DEF FetchContext
<1>2. CASE AcquireContext(r)
  <2>1. /\ holder = Nothing /\ holder' = r /\ environ = Base /\ environ' = ctx[r]
        /\ pc[r] = "acquire"
        /\ UNCHANGED <<ctx, context, calls>>
    BY <1>2 DEF AcquireContext, Enter, ContextInv
  <2>2. saved'[r] = Base
    BY <1>2, <2>1 DEF AcquireContext, Enter, TypeInv, EntryTypes
  <2>3. /\ pc'[r] \in {"show", "edit"}
        /\ \A q \in Requests \ {r} : pc'[q] = pc[q] /\ pc[q] \notin Inside
    BY <1>2, <2>1, Absent DEF AcquireContext, Enter, Goto, ContextInv, TypeInv, RequestTypes
  <2>4. calls = {}
    BY <2>1, Absent DEF ContextInv, TypeInv, EntryTypes
  <2>5. QED
    BY <2>1, <2>2, <2>3, <2>4, Absent DEF ContextInv, Inside
<1>3. CASE ShowEntry(r) \/ EditEntry(r) \/ MakeGroup(r) \/ AddEntry(r)
  <2>1. holder = r
    BY <1>3 DEF ShowEntry, EditEntry, MakeGroup, AddEntry, ContextInv, Inside
  <2>2. Resolved = With(ctx[r])
    BY <2>1 DEF ContextInv, Resolved, With
  <2>3. PICK label \in Inside : 
          /\ Goto(r, label)
          /\ label \in {"mkdir", "add"} => EditEntry(r) \/ MakeGroup(r)
    BY <1>3 DEF ShowEntry, EditEntry, MakeGroup, AddEntry, Inside
  <2>4. pc' = [pc EXCEPT ![r] = label]
    BY <2>3 DEF Goto
  <2>5. UNCHANGED <<ctx, saved, environ, holder>>
    BY <1>3 DEF ShowEntry, EditEntry, MakeGroup, AddEntry
  <2>6. calls' \subseteq calls \cup {<<r, With(ctx[r])>>}
    BY <1>3, <2>2 DEF ShowEntry, EditEntry, MakeGroup, AddEntry, CallWith, ContextInv
  <2>7. /\ \A q \in Requests \ {r} : context'[q] = context[q]
        /\ label \in {"mkdir", "add"} => context'[r] = With(ctx[r])
    <3>1. CASE EditEntry(r)
      <4>1. context' = context \/ context' = [context EXCEPT ![r] = With(ctx[r])]
        BY <2>2, <3>1 DEF EditEntry
      <4>2. label \in {"mkdir", "add"} => context' = [context EXCEPT ![r] = With(ctx[r])]
        BY <2>2, <2>4, <3>1 DEF EditEntry, Goto, TypeInv, RequestTypes
      <4>3. QED
        BY <4>1, <4>2 DEF TypeInv, EntryTypes
    <3>2. CASE MakeGroup(r)
      BY <3>2 DEF MakeGroup, ContextInv
    <3>3. CASE ~EditEntry(r) /\ ~MakeGroup(r)
      BY <1>3, <2>3, <3>3 DEF ShowEntry, AddEntry
    <3>4. QED
      BY <3>1, <3>2, <3>3
  <2>8. QED
    BY <2>1, <2>3, <2>4, <2>5, <2>6, <2>7, ContextInside
<1>4. CASE RestoreContext(r)
  <2>1. holder = r /\ holder' = Nothing /\ environ' = Base
    BY <1>4 DEF RestoreContext, ContextInv, Inside
  <2>2. /\ pc'[r] = "done"
        /\ \A q \in Requests \ {r} : /\ pc'[q] = pc[q] /\ ctx'[q] = ctx[q]
                                     /\ context'[q] = context[q] /\ pc[q] \notin Inside
    BY <1>4, <2>1 DEF RestoreContext, LeaveContext, Goto, ContextInv, TypeInv, RequestTypes, EntryTypes
  <2>3. calls' = {}
    BY <1>4, <2>2 DEF RestoreContext, LeaveContext, ContextInv, TypeInv, EntryTypes
  <2>4. QED
    BY <2>1, <2>2, <2>3, Absent DEF ContextInv, Inside
<1>5. QED
  BY <1>1, <1>2, <1>3, <1>4 DEF EntryStep

\* Other steps of a request do not enter the context.
LEMMA ContextOther ==
  ASSUME TypeInv, ContextInv, NEW r \in Requests, Arrive(r) \/ AllowlistStep(r) \/ DaemonStep(r)
  PROVE  ContextInv'
<1>1. UNCHANGED entryVars
  BY DEF Arrive, AllowlistStep, LoadAllowlist, TruncateAllowlist, WriteAllowlist, DaemonStep,
     ControlDaemon, ClearTable, ReadAllowlist, FillTable
<1>2. CASE Arrive(r)
  <2>1. CASE Goto(r, "done")
    BY <1>1, <1>2, <2>1, ContextOutside DEF Arrive, Goto, Inside, TypeInv, RequestTypes
  <2>2. ASSUME NEW o \in Calls[r],
               pc' = [pc EXCEPT ![r] = CASE o.kind \in {"get", "set"} -> "fetch"
                                         [] o.kind \in {"upsert", "delete"} -> "load"
                                         [] o.kind \in {"lock", "unlock"} -> "control"
                                         [] o.kind = "reload" -> "reload"]
        PROVE  ContextInv'
    <3>1. o.kind \in {"get", "set", "upsert", "delete", "lock", "unlock", "reload"}
      BY ConsoleAssumption DEF ConsoleAssumption, Operations
    <3>2. pc'[r] \in {"fetch", "load", "control", "reload"} /\ \A q \in Requests \ {r} : pc'[q] = pc[q]
      BY <2>2, <3>1 DEF TypeInv, RequestTypes
    <3>3. pc[r] = "new"
      BY <1>2 DEF Arrive
    <3>4. QED
      BY <1>1, <3>2, <3>3, ContextOutside DEF Inside
  <2>3. QED
    BY <1>2, <2>1, <2>2 DEF Arrive
<1>3. CASE AllowlistStep(r) \/ DaemonStep(r)
  <2>1. PICK label \in {"truncate", "write", "reload", "reading", "filling", "done"} : Goto(r, label)
    BY <1>3 DEF AllowlistStep, LoadAllowlist, TruncateAllowlist, WriteAllowlist, DaemonStep,
       ControlDaemon, ClearTable, ReadAllowlist, FillTable
  <2>2. pc[r] \notin Inside \cup {"acquire"}
    BY <1>3 DEF AllowlistStep, LoadAllowlist, TruncateAllowlist, WriteAllowlist, DaemonStep,
       ControlDaemon, ClearTable, ReadAllowlist, FillTable, Inside
  <2>3. pc'[r] \in {label} /\ \A q \in Requests \ {r} : pc'[q] = pc[q]
    BY <2>1 DEF Goto, TypeInv, RequestTypes
  <2>4. QED
    BY <1>1, <2>2, <2>3, ContextOutside DEF Inside
<1>4. QED
  BY <1>2, <1>3

\* Nor does anything around the console, which gives its environment up when it
\* ends.
LEMMA ContextAround ==
  ASSUME TypeInv, ContextInv,
         \/ RestartConsole \/ UnlockDaemon \/ StopDaemon \/ UNCHANGED vars
         \/ \E list \in Drafts : EditByHand(list)
         \/ \E m \in Masters : StartDaemon(m)
  PROVE  ContextInv'
<1>1. CASE RestartConsole
  <2>1. /\ environ' = Base /\ holder' = Nothing /\ calls' = {}
        /\ pc' = [r \in Requests |-> IF pc[r] \in {"new"} \cup InDaemon THEN pc[r] ELSE "done"]
    BY <1>1 DEF RestartConsole
  <2>2. \A r \in Requests : pc'[r] \notin Inside \cup {"acquire"}
    BY <2>1 DEF Inside, InDaemon
  <2>3. QED
    BY <2>1, <2>2, Absent DEF ContextInv, Inside
<1>2. CASE StopDaemon
  BY <1>2, ContextOutside DEF StopDaemon, InDaemon, Inside
<1>3. CASE \/ UnlockDaemon \/ UNCHANGED vars
           \/ \E list \in Drafts : EditByHand(list)
           \/ \E m \in Masters : StartDaemon(m)
  BY <1>3, ContextOutside DEF UnlockDaemon, EditByHand, StartDaemon, vars
<1>4. QED
  BY <1>1, <1>2, <1>3

\* Nobody is in the context at first.
LEMMA ContextInit == Init => ContextInv
BY Absent DEF Init, ContextInv, Inside

\* The context is one request's at all times.
LEMMA ContextAlways == Spec => [](TypeInv /\ ContextInv)
<1>1. TypeInv /\ ContextInv /\ [Next]_vars => ContextInv'
  BY ContextEntry, ContextOther, ContextAround DEF Next, RequestStep
<1>2. QED
  BY <1>1, ContextInit, TypeAlways, PTL DEF Spec

\* Whenever no request is inside with_keepassxc_context, the environment is that
\* the console was started with.
THEOREM EnvironmentAlwaysRestored == Spec => []EnvironmentRestored
<1>1. ContextInv => EnvironmentRestored
  BY DEF ContextInv, EnvironmentRestored
<1>2. QED
  BY <1>1, ContextAlways, PTL

\* Credentials of a daemon in the environment leave the PF_ variables nothing to
\* decide but the key file.
LEMMA WithOwn ==
  ASSUME NEW m \in Masters
  PROVE  With(m) = [m EXCEPT !.key = IF m.key = Nothing THEN Compat.key ELSE m.key]
<1>1. m \in Settings /\ m.path # Nothing /\ m.password # Nothing /\ Compat \in Settings
  BY ConsoleAssumption DEF ConsoleAssumption
<1>2. QED
  BY <1>1 DEF With, Resolve, Over, Fields, Settings

\* Every call of keepassxc-cli is made with the credentials the daemon gave the
\* request it is made for (with_keepassxc_context, upsert_keepassxc_entry).
THEOREM CredentialsAlwaysOwn == Spec => []OwnCredentials
<1>1. TypeInv /\ ContextInv => OwnCredentials
  <2> SUFFICES ASSUME TypeInv, ContextInv, NEW call \in calls
               PROVE  LET given == ctx[call[1]]
                      IN call[2] = [given EXCEPT !.key = IF given.key = Nothing THEN Compat.key
                                                         ELSE given.key]
    BY DEF OwnCredentials
  <2>1. call[1] \in Requests
    BY DEF TypeInv, EntryTypes
  <2>2. call[2] = With(ctx[call[1]]) /\ ctx[call[1]] \in Masters
    BY <2>1 DEF ContextInv
  <2>3. QED
    BY <2>2, WithOwn
<1>2. QED
  BY <1>1, ContextAlways, PTL

-----------------------------------------------------------------------------
(* Where grants come from.                                                  *)

\* The file and the table of the daemon consist of what was asked for, and what
\* requests will put there too, with what they ask for themselves.
GrantInv ==
  /\ file \subseteq authored
  /\ table \subseteq authored
  /\ \A r \in Requests :
       /\ pc[r] = "filling" => repos[r] \subseteq authored
       /\ pc[r] \in {"truncate", "write"} => repos[r] \subseteq authored \cup Asks(r)

\* What a step has to show.
LEMMA GrantStep ==
  ASSUME GrantInv, authored \subseteq authored',
         file' = file \/ file' \subseteq authored',
         table' = table \/ table' \subseteq authored',
         \A r \in Requests :
           \/ pc'[r] \notin {"truncate", "write", "filling"}
           \/ pc[r] = "filling" /\ pc'[r] = "filling" /\ repos'[r] = repos[r]
           \/ /\ pc[r] \in {"truncate", "write"} /\ pc'[r] \in {"truncate", "write"}
              /\ repos'[r] = repos[r] /\ op'[r] = op[r]
           \/ pc'[r] = "filling" /\ repos'[r] \subseteq authored'
           \/ pc'[r] \in {"truncate", "write"} /\ repos'[r] \subseteq authored' \cup Asks(r)'
  PROVE  GrantInv'
<1>1. file' \subseteq authored' /\ table' \subseteq authored'
  BY DEF GrantInv
<1>2. ASSUME NEW r \in Requests, pc'[r] = "filling"
      PROVE  repos'[r] \subseteq authored'
  BY <1>2 DEF GrantInv
<1>3. ASSUME NEW r \in Requests, pc'[r] \in {"truncate", "write"}
      PROVE  repos'[r] \subseteq authored' \cup Asks(r)'
  <2>1. CASE repos'[r] \subseteq authored' \cup Asks(r)'
    BY <2>1
  <2>2. CASE pc[r] \in {"truncate", "write"} /\ repos'[r] = repos[r] /\ op'[r] = op[r]
    <3>1. Asks(r)' = Asks(r)
      BY <2>2 DEF Asks
    <3>2. QED
      BY <2>2, <3>1 DEF GrantInv
  <2>3. QED
    BY <1>3, <2>1, <2>2
<1>4. QED
  BY <1>1, <1>2, <1>3 DEF GrantInv

\* The steps of an edit keep it: what is written has been asked for by then, and
\* what is left of the text before was there already.
LEMMA GrantAllowlist ==
  ASSUME TypeInv, GrantInv, NEW r \in Requests, AllowlistStep(r)
  PROVE  GrantInv'
<1>1. \A q \in Requests \ {r} : pc'[q] = pc[q] /\ repos'[q] = repos[q] /\ op'[q] = op[q]
  <2>1. PICK label : Goto(r, label)
    BY DEF AllowlistStep, LoadAllowlist, TruncateAllowlist, WriteAllowlist
  <2>2. \A q \in Requests \ {r} : pc'[q] = pc[q] /\ op'[q] = op[q]
    BY <2>1 DEF Goto, TypeInv, RequestTypes
  <2>3. \A q \in Requests \ {r} : repos'[q] = repos[q]
    BY DEF AllowlistStep, LoadAllowlist, TruncateAllowlist, WriteAllowlist, TypeInv, RequestTypes
  <2>4. QED
    BY <2>2, <2>3
<1>2. CASE LoadAllowlist(r)
  <2>1. UNCHANGED <<file, table, authored>>
    BY <1>2 DEF LoadAllowlist, tableVars
  <2>2. CASE Goto(r, "done")
    <3>1. pc'[r] = "done"
      BY <2>2 DEF Goto, TypeInv, RequestTypes
    <3>2. QED
      BY <1>1, <2>1, <3>1, GrantStep
  <2>3. CASE /\ Goto(r, "truncate")
             /\ repos' = [repos EXCEPT ![r] = Without(file, op[r].repo) \cup Asks(r)]
    <3>1. pc'[r] = "truncate" /\ op' = op
      BY <2>3 DEF Goto, TypeInv, RequestTypes
    <3>2. Asks(r)' = Asks(r)
      BY <3>1 DEF Asks
    <3>3. repos'[r] \subseteq authored' \cup Asks(r)'
      BY <2>1, <2>3, <3>2 DEF GrantInv, Without, TypeInv, RequestTypes
    <3>4. QED
      BY <1>1, <2>1, <3>1, <3>3, GrantStep
  <2>4. QED
    BY <1>2, <2>2, <2>3 DEF LoadAllowlist
<1>3. CASE TruncateAllowlist(r)
  <2>1. UNCHANGED <<repos, table, authored>> /\ (file' = file \/ file' = {})
    BY <1>3 DEF TruncateAllowlist, tableVars
  <2>2. pc[r] = "truncate" /\ \/ pc'[r] = "write" /\ op'[r] = op[r]
                              \/ pc'[r] = "done"
    BY <1>3 DEF TruncateAllowlist, Goto, TypeInv, RequestTypes
  <2>3. file' = file \/ file' \subseteq authored'
    BY <2>1
  <2>4. QED
    BY <1>1, <2>1, <2>2, <2>3, GrantStep
<1>4. CASE WriteAllowlist(r)
  <2>1. pc[r] = "write" /\ pc'[r] \in {"reload", "done"}
    BY <1>4 DEF WriteAllowlist, Goto, TypeInv, RequestTypes
  <2>2. UNCHANGED table
    BY <1>4 DEF WriteAllowlist
  <2>3. CASE UNCHANGED <<file, authored>>
    BY <1>1, <2>1, <2>2, <2>3, GrantStep
  <2>4. CASE Overlay(Saved(repos[r])) /\ authored' = authored \cup Asks(r)
    <3>1. repos[r] \subseteq authored'
      BY <2>1, <2>4 DEF GrantInv
    <3>2. file' \subseteq Saved(repos[r]) \cup file
      BY <2>4 DEF Overlay
    <3>3. file' \subseteq authored'
      BY <2>4, <3>1, <3>2 DEF GrantInv, Saved, Effective
    <3>4. QED
      BY <1>1, <2>1, <2>2, <2>4, <3>3, GrantStep
  <2>5. QED
    BY <1>4, <2>3, <2>4 DEF WriteAllowlist
<1>5. QED
  BY <1>2, <1>3, <1>4 DEF AllowlistStep

\* Reloads enter in the table only what they have read from the file.
LEMMA GrantDaemon ==
  ASSUME TypeInv, GrantInv, NEW r \in Requests, DaemonStep(r)
  PROVE  GrantInv'
<1>1. PICK label \in {"reading", "filling", "done"} :
        Goto(r, label) /\ (label = "filling" => ReadAllowlist(r))
  BY DEF DaemonStep, ControlDaemon, ClearTable, ReadAllowlist, FillTable
<1>2. pc'[r] = label /\ \A q \in Requests \ {r} : pc'[q] = pc[q] /\ op'[q] = op[q]
  BY <1>1 DEF Goto, TypeInv, RequestTypes
<1>3. \A q \in Requests \ {r} : repos'[q] = repos[q]
  BY DEF DaemonStep, ControlDaemon, ClearTable, ReadAllowlist, FillTable, TypeInv, RequestTypes
<1>4. UNCHANGED <<file, authored>>
  BY DEF DaemonStep, ControlDaemon, ClearTable, ReadAllowlist, FillTable, editVars
<1>5. label = "filling" => repos'[r] \subseteq authored'
  <2>1. CASE label = "filling"
    <3>1. repos'[r] = file
      BY <1>1, <1>2, <2>1 DEF ReadAllowlist, Goto, TypeInv, RequestTypes
    <3>2. QED
      BY <1>4, <3>1 DEF GrantInv
  <2>2. QED
    BY <2>1
<1>6. table' = table \/ table' \subseteq authored'
  <2>1. CASE FillTable(r)
    <3>1. repos[r] \subseteq authored /\ table \subseteq authored
      BY <2>1 DEF FillTable, GrantInv
    <3>2. table' \subseteq repos[r] \cup table
      BY <2>1 DEF FillTable
    <3>3. QED
      BY <1>4, <3>1, <3>2
  <2>2. CASE table' = table \/ table' = {}
    BY <2>2
  <2>3. QED
    BY <2>1, <2>2 DEF DaemonStep, ControlDaemon, ClearTable, ReadAllowlist, tableVars
<1>7. QED
  BY <1>1, <1>2, <1>3, <1>4, <1>5, <1>6, GrantStep

\* Requests that read and write no allowlist keep it.
LEMMA GrantOther ==
  ASSUME TypeInv, GrantInv, NEW r \in Requests, Arrive(r) \/ EntryStep(r)
  PROVE  GrantInv'
<1>1. UNCHANGED <<file, table, authored, repos>>
  BY DEF Arrive, EntryStep, FetchContext, AcquireContext, Enter, ShowEntry, EditEntry, MakeGroup,
     AddEntry, RestoreContext, editVars, tableVars
<1>2. /\ pc'[r] \notin {"truncate", "write", "filling"}
      /\ \A q \in Requests \ {r} : pc'[q] = pc[q] /\ op'[q] = op[q]
  <2>1. CASE Arrive(r)
    <3>1. CASE Goto(r, "done")
      BY <3>1 DEF Goto, TypeInv, RequestTypes
    <3>2. ASSUME NEW o \in Calls[r], op' = [op EXCEPT ![r] = o],
                 pc' = [pc EXCEPT ![r] = CASE o.kind \in {"get", "set"} -> "fetch"
                                           [] o.kind \in {"upsert", "delete"} -> "load"
                                           [] o.kind \in {"lock", "unlock"} -> "control"
                                           [] o.kind = "reload" -> "reload"]
          PROVE  /\ pc'[r] \notin {"truncate", "write", "filling"}
                 /\ \A q \in Requests \ {r} : pc'[q] = pc[q] /\ op'[q] = op[q]
      <4>1. o.kind \in {"get", "set", "upsert", "delete", "lock", "unlock", "reload"}
        BY ConsoleAssumption DEF ConsoleAssumption, Operations
      <4>2. QED
        BY <3>2, <4>1 DEF TypeInv, RequestTypes
    <3>3. QED
      BY <2>1, <3>1, <3>2 DEF Arrive
  <2>2. CASE EntryStep(r)
    <3>1. PICK label \in Inside \cup {"acquire", "done"} : Goto(r, label)
      BY <2>2 DEF EntryStep, FetchContext, AcquireContext, Enter, ShowEntry, EditEntry, MakeGroup,
         AddEntry, RestoreContext, LeaveContext, Inside
    <3>2. QED
      BY <3>1 DEF Goto, TypeInv, RequestTypes, Inside
  <2>3. QED
    BY <2>1, <2>2
<1>3. QED
  BY <1>1, <1>2, GrantStep

\* What is written by hand is asked for by that, and a daemon starts from the file.
LEMMA GrantAround ==
  ASSUME TypeInv, GrantInv,
         \/ RestartConsole \/ UnlockDaemon \/ StopDaemon \/ UNCHANGED vars
         \/ \E list \in Drafts : EditByHand(list)
         \/ \E m \in Masters : StartDaemon(m)
  PROVE  GrantInv'
<1>1. CASE RestartConsole
  <2>1. /\ UNCHANGED <<file, table, authored>>
        /\ pc' = [r \in Requests |-> IF pc[r] \in {"new"} \cup InDaemon THEN pc[r] ELSE "done"]
        /\ repos' = [r \in Requests |-> IF pc[r] \in InDaemon THEN repos[r] ELSE {}]
    BY <1>1 DEF RestartConsole
  <2>2. \A r \in Requests : pc'[r] \in {"truncate", "write", "filling"} =>
          pc[r] = "filling" /\ pc'[r] = "filling" /\ repos'[r] = repos[r]
    BY <2>1 DEF InDaemon
  <2>3. QED
    BY <2>1, <2>2, GrantStep
<1>2. CASE StopDaemon
  <2>1. /\ UNCHANGED <<file, authored>>
        /\ table' = {}
        /\ pc' = [r \in Requests |-> IF pc[r] \in InDaemon THEN "done" ELSE pc[r]]
        /\ op' = [r \in Requests |-> IF pc'[r] = "done" THEN Nothing ELSE op[r]]
        /\ repos' = [r \in Requests |-> IF pc[r] \in InDaemon THEN {} ELSE repos[r]]
    BY <1>2 DEF StopDaemon, editVars
  <2>2. \A r \in Requests : pc'[r] \in {"truncate", "write", "filling"} =>
          pc'[r] = pc[r] /\ pc[r] # "filling" /\ repos'[r] = repos[r] /\ op'[r] = op[r]
    BY <2>1 DEF InDaemon
  <2>3. table' \subseteq authored'
    BY <2>1
  <2>4. QED
    BY <2>1, <2>2, <2>3, GrantStep
<1>3. ASSUME NEW list \in Drafts, EditByHand(list)
      PROVE  GrantInv'
  <2>1. UNCHANGED <<pc, op, repos, table>> /\ file' = list /\ authored' = authored \cup list
    BY <1>3 DEF EditByHand
  <2>2. QED
    BY <2>1, GrantStep
<1>4. ASSUME NEW m \in Masters, StartDaemon(m)
      PROVE  GrantInv'
  <2>1. UNCHANGED <<pc, op, repos, file, authored>> /\ table' = file
    BY <1>4 DEF StartDaemon, editVars
  <2>2. table' \subseteq authored'
    BY <2>1 DEF GrantInv
  <2>3. QED
    BY <2>1, <2>2, GrantStep
<1>5. CASE UnlockDaemon \/ UNCHANGED vars
  <2>1. UNCHANGED <<pc, op, repos, file, authored, table>>
    BY <1>5 DEF UnlockDaemon, vars, editVars, tableVars
  <2>2. QED
    BY <2>1, GrantStep
<1>6. QED
  BY <1>1, <1>2, <1>3, <1>4, <1>5

\* The first file is what somebody has asked for.
LEMMA GrantInit == Init => GrantInv
BY DEF Init, GrantInv

\* The daemon goes only by grants that somebody has asked for, for this repository
\* and this vault, whatever edits, reloads and crashes overlap and whatever part of
\* an older text is left behind a newer one (_save_allowlist,
\* AllowlistEnforcer.reload).
THEOREM GrantsAlwaysAsked == Spec => []NoGrantInvented
<1>1. TypeInv /\ GrantInv /\ [Next]_vars => GrantInv'
  BY GrantAllowlist, GrantDaemon, GrantOther, GrantAround DEF Next, RequestStep
<1>2. GrantInv => NoGrantInvented
  BY DEF GrantInv, NoGrantInvented, Effective
<1>3. QED
  BY <1>1, <1>2, GrantInit, TypeAlways, PTL DEF Spec

-----------------------------------------------------------------------------
(* What becomes of the edits.                                               *)

\* What is_permitted reads of a repository depends on the tables of that only, and
\* it reads all of what it reads.
LEMMA EffectiveOf ==
  ASSUME NEW list, NEW n
  PROVE  Of(Effective(list), n) = Effective(Of(list, n))
<1>1. Simple(Of(list, n), n) <=> Simple(list, n)
  BY DEF Simple, Of
<1>2. QED
  BY <1>1 DEF Effective, Of

LEMMA EffectiveTwice ==
  ASSUME NEW list
  PROVE  Effective(Effective(list)) = Effective(list)
<1>1. \A n : Simple(Effective(list), n) <=> Simple(list, n)
  BY DEF Simple, Effective
<1>2. QED
  BY <1>1 DEF Effective

\* A request asks for at most one table, which is its repository's own.
LEMMA AsksOne ==
  ASSUME NEW r \in Requests
  PROVE  /\ \A t \in Asks(r) : t.repo = op[r].repo /\ t.vault = Own
         /\ \A s, t \in Asks(r) : s = t
BY DEF Asks

Writers == {r \in Requests : pc[r] = "write"}

\* A list has of the repository n what its last edit asked for.
Matches(list, n) == Of(list, n) \in {Of(latest, n), Of(Effective(latest), n)}

\* So has what is written of it.
LEMMA MatchesSaved ==
  ASSUME NEW list, NEW n, Matches(list, n)
  PROVE  Of(Effective(list), n) = Of(Effective(latest), n)
<1>1. Of(Effective(list), n) = Effective(Of(list, n))
  BY EffectiveOf
<1>2. Of(Effective(latest), n) = Effective(Of(latest, n))
  BY EffectiveOf
<1>3. Effective(Of(Effective(latest), n)) = Of(Effective(latest), n)
  BY <1>2, EffectiveTwice
<1>4. QED
  BY <1>1, <1>2, <1>3 DEF Matches

\* A request has what the file is to hold, unless it has read the file while
\* another one wrote it.
Holds(r) ==
  \/ \E q \in Requests \ {r} : pc[q] = "write"
  \/ \A n \in Repos : n # op[r].repo => Matches(repos[r], n)

\* As long as no edit is lost, every request that writes on a read that is not
\* stale holds the file, and without writers the file itself does.
KeptInv ==
  /\ ~malformed => Distinct(file)
  /\ \A r \in Requests : Editing(r) =>
       Distinct(repos[r]) /\ Of(repos[r], op[r].repo) = Asks(r)
  /\ \A r \in Requests : pc[r] = "write" /\ ~stale[r] => file = {} /\ ~malformed
  /\ ~lossy /\ Writers = {} => ~malformed /\ \A n \in Repos : Matches(file, n)
  /\ ~lossy => \A r \in Requests : Editing(r) /\ ~stale[r] => Holds(r)

\* Steps that edit nothing.
LEMMA KeptFrame ==
  ASSUME KeptInv, UNCHANGED <<file, malformed, stale, lossy, latest>>,
         \A r \in Requests :
           \/ pc'[r] \in {"truncate", "write"}
                /\ pc'[r] = pc[r] /\ op'[r] = op[r] /\ repos'[r] = repos[r]
           \/ pc[r] \notin {"truncate", "write"} /\ pc'[r] \notin {"truncate", "write"}
  PROVE  KeptInv'
<1>1. \A r \in Requests :
        /\ Editing(r)' => Editing(r) /\ repos'[r] = repos[r] /\ op'[r] = op[r] /\ Asks(r)' = Asks(r)
        /\ pc'[r] = "write" <=> pc[r] = "write"
  BY DEF Editing, Asks
<1>2. Writers' = Writers
  BY <1>1 DEF Writers
<1>3. \A r \in Requests : Editing(r)' /\ Holds(r) => Holds(r)'
  BY <1>1 DEF Holds, Matches
<1>4. QED
  BY <1>1, <1>2, <1>3 DEF KeptInv, Matches

\* An edit that is the only one ends with what it and the edits before it asked for.
LEMMA KeptAllowlist ==
  ASSUME TypeInv, EditInv, KeptInv, NEW r \in Requests, AllowlistStep(r)
  PROVE  KeptInv'
<1>1. PICK label : Goto(r, label)
  BY DEF AllowlistStep, LoadAllowlist, TruncateAllowlist, WriteAllowlist
<1>2. pc'[r] = label /\ \A q \in Requests \ {r} : pc'[q] = pc[q] /\ op'[q] = op[q]
  BY <1>1 DEF Goto, TypeInv, RequestTypes
<1>3. \A q \in Requests \ {r} : repos'[q] = repos[q]
  BY DEF AllowlistStep, LoadAllowlist, TruncateAllowlist, WriteAllowlist, TypeInv, RequestTypes
<1>4. \A q \in Requests \ {r} : (Editing(q)' <=> Editing(q)) /\ Asks(q)' = Asks(q)
  BY <1>2 DEF Editing, Asks
<1>5. CASE LoadAllowlist(r)
  <2>1. UNCHANGED <<file, malformed, lossy, latest>> /\ pc[r] = "load"
    BY <1>5 DEF LoadAllowlist
  <2>2. CASE Goto(r, "done") /\ UNCHANGED <<repos, stale>>
    <3>1. pc'[r] = "done"
      BY <2>2 DEF Goto, TypeInv, RequestTypes
    <3>2. QED
      BY <1>2, <1>3, <2>1, <2>2, <3>1, KeptFrame
  <2>3. CASE /\ CanChange(r) /\ Goto(r, "truncate")
             /\ repos' = [repos EXCEPT ![r] = Without(file, op[r].repo) \cup Asks(r)]
             /\ stale' = [stale EXCEPT ![r] = FALSE]
    <3>1. pc'[r] = "truncate" /\ op' = op
      BY <2>3 DEF Goto, TypeInv, RequestTypes
    <3>2. repos'[r] = Without(file, op[r].repo) \cup Asks(r) /\ Distinct(file)
      BY <2>3 DEF TypeInv, RequestTypes, CanChange, KeptInv
    <3>3. /\ Of(repos'[r], op[r].repo) = Asks(r)
          /\ \A n \in Repos \ {op[r].repo} : Of(repos'[r], n) = Of(file, n)
      BY <3>2, AsksOne DEF Of, Without
    <3>4. Distinct(repos'[r])
      BY <3>2, AsksOne DEF Distinct, Without
    <3>5. \A q \in Requests \ {r} : stale'[q] = stale[q]
      BY <2>3 DEF TypeInv, FileTypes
    <3>6. Writers' = Writers
      BY <1>2, <2>1, <3>1 DEF Writers
    <3>7. Asks(r)' = Asks(r)
      BY <3>1 DEF Asks
    <3>8. ~lossy => Holds(r)'
      <4>1. CASE Writers = {}
        BY <2>1, <3>1, <3>3, <4>1 DEF KeptInv, Holds, Matches
      <4>2. CASE Writers # {}
        BY <1>2, <2>1, <4>2 DEF Holds, Writers
      <4>3. QED
        BY <4>1, <4>2
    <3>9. \A q \in Requests \ {r} : Holds(q) => Holds(q)'
      BY <1>2, <1>3, <2>1, <3>1 DEF Holds, Matches
    <3>10. \A q \in Requests : Editing(q)' =>
             Distinct(repos'[q]) /\ Of(repos'[q], op'[q].repo) = Asks(q)'
      BY <1>3, <1>4, <3>1, <3>3, <3>4, <3>7 DEF KeptInv
    <3>11. \A q \in Requests : pc'[q] = "write" /\ ~stale'[q] => file' = {} /\ ~malformed'
      BY <1>2, <2>1, <3>1, <3>5 DEF KeptInv
    <3>12. ~lossy' /\ Writers' = {} => ~malformed' /\ \A n \in Repos : Matches(file, n)'
      BY <2>1, <3>6 DEF KeptInv, Matches
    <3>13. ~lossy' => \A q \in Requests : Editing(q)' /\ ~stale'[q] => Holds(q)'
      BY <1>4, <2>1, <3>5, <3>8, <3>9 DEF KeptInv
    <3>14. ~malformed' => Distinct(file')
      BY <2>1 DEF KeptInv
    <3>15. QED
      BY <3>10, <3>11, <3>12, <3>13, <3>14 DEF KeptInv
  <2>4. QED
    BY <1>5, <2>2, <2>3 DEF LoadAllowlist
<1>6. CASE TruncateAllowlist(r)
  <2>1. UNCHANGED <<repos, latest>> /\ pc[r] = "truncate"
    BY <1>6 DEF TruncateAllowlist
  <2>2. CASE Goto(r, "done") /\ UNCHANGED <<file, malformed, stale, lossy>>
    <3>1. pc'[r] = "done"
      BY <2>2 DEF Goto, TypeInv, RequestTypes
    <3>2. /\ Writers' = Writers
          /\ \A q \in Requests : Editing(q)' => q # r
      BY <1>2, <2>1, <3>1 DEF Writers, Editing
    <3>3. \A q \in Requests \ {r} : Holds(q) => Holds(q)'
      BY <1>2, <1>3, <2>1, <3>1 DEF Holds, Matches
    <3>4. QED
      BY <1>2, <1>3, <1>4, <2>1, <2>2, <3>1, <3>2, <3>3 DEF KeptInv, Matches
  <2>3. CASE /\ file' = {} /\ malformed' = FALSE
             /\ Outdate(r) /\ lossy' = (lossy \/ stale[r]) /\ Goto(r, "write")
    <3>1. pc'[r] = "write" /\ op' = op
      BY <2>3 DEF Goto, TypeInv, RequestTypes
    <3>2. stale'[r] = stale[r] /\ \A q \in Requests \ {r} : Editing(q) => stale'[q]
      BY <2>3 DEF Outdate
    <3>3. Editing(r) /\ Asks(r)' = Asks(r)
      BY <2>1, <3>1 DEF Editing, Asks
    <3>4. Holds(r) => Holds(r)'
      BY <1>2, <2>1, <3>1 DEF Holds, Matches
    <3>5. \A q \in Requests : Editing(q)' =>
            Distinct(repos'[q]) /\ Of(repos'[q], op'[q].repo) = Asks(q)'
      BY <1>4, <2>1, <3>1, <3>3 DEF KeptInv
    <3>6. ~lossy' => \A q \in Requests : Editing(q)' /\ ~stale'[q] => Holds(q)'
      BY <1>4, <2>3, <3>2, <3>3, <3>4 DEF KeptInv
    <3>7. Distinct(file')
      BY <2>3 DEF Distinct
    <3>8. QED
      BY <2>3, <3>1, <3>5, <3>6, <3>7 DEF KeptInv, Writers
  <2>4. QED
    BY <1>6, <2>2, <2>3 DEF TruncateAllowlist
<1>7. CASE WriteAllowlist(r)
  <2>1. pc[r] = "write" /\ Editing(r) /\ pc'[r] \in {"reload", "done"}
    BY <1>7 DEF WriteAllowlist, Editing, Goto, TypeInv, RequestTypes
  <2>2. \A q \in Requests : Editing(q)' => q # r
    BY <2>1 DEF Editing
  <2>3. CASE lossy' = TRUE /\ UNCHANGED <<file, malformed, stale, latest>>
    BY <1>2, <1>3, <1>4, <2>2, <2>3 DEF KeptInv, Editing
  <2>4. CASE /\ Overlay(Saved(repos[r]))
             /\ Outdate(r)
             /\ lossy' = (lossy \/ stale[r])
             /\ latest' = Without(latest, op[r].repo) \cup Asks(r)
    <3>1. \A q \in Requests \ {r} : Editing(q) => stale'[q]
      BY <2>4 DEF Outdate
    <3>2. \A q \in Requests : Editing(q)' =>
            /\ Distinct(repos'[q]) /\ Of(repos'[q], op'[q].repo) = Asks(q)'
            /\ stale'[q]
      BY <1>2, <1>3, <1>4, <2>2, <3>1 DEF KeptInv
    <3>3. ~malformed' => Distinct(file')
      BY <2>4 DEF Overlay, Fits
    <3>4. ASSUME ~lossy', Writers' = {}
          PROVE  ~malformed' /\ \A n \in Repos : Matches(file, n)'
      <4>1. ~lossy /\ ~stale[r] /\ \A q \in Requests \ {r} : pc[q] # "write"
        BY <1>2, <2>4, <3>4 DEF Writers
      <4>2. /\ file = {} /\ ~malformed
            /\ Holds(r) /\ Of(repos[r], op[r].repo) = Asks(r) /\ Distinct(repos[r])
        BY <2>1, <4>1 DEF KeptInv
      <4>3. Distinct(Effective(repos[r]))
        BY <4>2 DEF Distinct, Effective
      <4>4. file' = Effective(repos[r]) /\ ~malformed'
        BY <2>4, <4>2, <4>3 DEF Overlay, Fits, Saved
      <4>5. op[r].repo \in Repos /\ Asks(r) \subseteq Tables
        BY <2>1 DEF EditInv
      <4>6. Effective(Asks(r)) = Asks(r)
        <5>1. \A t \in Asks(r) : t.vault = Own /\ t.grant # Unlisted
          BY <2>1, AsksOne DEF EditInv
        <5>2. QED
          BY <5>1 DEF Effective, Simple
      <4>7. ASSUME NEW n \in Repos PROVE Matches(file, n)'
        <5>1. CASE n = op[r].repo
          <6>1. Of(file', n) = Asks(r)
            BY <4>2, <4>4, <4>6, <5>1, EffectiveOf
          <6>2. Of(latest', n) = Asks(r)
            BY <2>4, <5>1, AsksOne DEF Of, Without
          <6>3. QED
            BY <6>1, <6>2 DEF Matches
        <5>2. CASE n # op[r].repo
          <6>1. Matches(repos[r], n)
            BY <4>1, <4>2, <5>2 DEF Holds
          <6>2. Of(file', n) = Of(Effective(latest), n)
            BY <4>4, <6>1, MatchesSaved
          <6>3. Of(latest', n) = Of(latest, n)
            BY <2>4, <5>2, AsksOne DEF Of, Without
          <6>4. Of(Effective(latest'), n) = Of(Effective(latest), n)
            BY <6>3, EffectiveOf
          <6>5. QED
            BY <6>2, <6>4 DEF Matches
        <5>3. QED
          BY <5>1, <5>2
      <4>8. QED
        BY <4>4, <4>7
    <3>5. \A q \in Requests : pc'[q] # "write" \/ stale'[q]
      BY <3>2 DEF Editing
    <3>6. QED
      BY <3>2, <3>3, <3>4, <3>5 DEF KeptInv
  <2>5. QED
    BY <1>7, <2>3, <2>4 DEF WriteAllowlist
<1>8. QED
  BY <1>5, <1>6, <1>7 DEF AllowlistStep

\* The steps of a request that do not edit leave the file and the edits alone.
LEMMA KeptOther ==
  ASSUME TypeInv, KeptInv, NEW r \in Requests, Arrive(r) \/ EntryStep(r) \/ DaemonStep(r)
  PROVE  KeptInv'
<1>1. UNCHANGED <<file, malformed, stale, lossy, latest>>
  BY DEF Arrive, EntryStep, FetchContext, AcquireContext, Enter, ShowEntry, EditEntry, MakeGroup,
     AddEntry, RestoreContext, DaemonStep, ControlDaemon, ClearTable, ReadAllowlist, FillTable, editVars
<1>2. /\ pc[r] \notin {"truncate", "write"}
      /\ \A q \in Requests \ {r} : repos'[q] = repos[q]
  BY DEF Arrive, EntryStep, FetchContext, AcquireContext, Enter, ShowEntry, EditEntry, MakeGroup,
     AddEntry, RestoreContext, DaemonStep, ControlDaemon, ClearTable, ReadAllowlist, FillTable,
     TypeInv, RequestTypes
<1>3. /\ pc'[r] \notin {"truncate", "write"}
      /\ \A q \in Requests \ {r} : pc'[q] = pc[q] /\ op'[q] = op[q]
  <2>1. CASE Arrive(r)
    <3>1. CASE Goto(r, "done")
      BY <3>1 DEF Goto, TypeInv, RequestTypes
    <3>2. ASSUME NEW o \in Calls[r], op' = [op EXCEPT ![r] = o],
                 pc' = [pc EXCEPT ![r] = CASE o.kind \in {"get", "set"} -> "fetch"
                                           [] o.kind \in {"upsert", "delete"} -> "load"
                                           [] o.kind \in {"lock", "unlock"} -> "control"
                                           [] o.kind = "reload" -> "reload"]
          PROVE  /\ pc'[r] \notin {"truncate", "write"}
                 /\ \A q \in Requests \ {r} : pc'[q] = pc[q] /\ op'[q] = op[q]
      <4>1. o.kind \in {"get", "set", "upsert", "delete", "lock", "unlock", "reload"}
        BY ConsoleAssumption DEF ConsoleAssumption, Operations
      <4>2. QED
        BY <3>2, <4>1 DEF TypeInv, RequestTypes
    <3>3. QED
      BY <2>1, <3>1, <3>2 DEF Arrive
  <2>2. CASE EntryStep(r) \/ DaemonStep(r)
    <3>1. PICK label \in Inside \cup {"acquire", "reading", "filling", "done"} : Goto(r, label)
      <4>1. CASE EntryStep(r)
        BY <4>1 DEF EntryStep, FetchContext, AcquireContext, Enter, ShowEntry, EditEntry, MakeGroup,
           AddEntry, RestoreContext, LeaveContext, Inside
      <4>2. CASE DaemonStep(r)
        BY <4>2 DEF DaemonStep, ControlDaemon, ClearTable, ReadAllowlist, FillTable
      <4>3. QED
        BY <2>2, <4>1, <4>2
    <3>2. QED
      BY <3>1 DEF Goto, TypeInv, RequestTypes, Inside
  <2>3. QED
    BY <2>1, <2>2
<1>4. QED
  BY <1>1, <1>2, <1>3, KeptFrame

\* An edit by hand makes all reads stale; a restart in the middle of a write is
\* a loss.
LEMMA KeptAround ==
  ASSUME TypeInv, KeptInv,
         \/ RestartConsole \/ UnlockDaemon \/ StopDaemon \/ UNCHANGED vars
         \/ \E list \in Drafts : EditByHand(list)
         \/ \E m \in Masters : StartDaemon(m)
  PROVE  KeptInv'
<1>1. CASE RestartConsole
  <2>1. /\ UNCHANGED <<file, malformed, latest>>
        /\ pc' = [r \in Requests |-> IF pc[r] \in {"new"} \cup InDaemon THEN pc[r] ELSE "done"]
        /\ lossy' = (lossy \/ \E r \in Requests : pc[r] = "write")
    BY <1>1 DEF RestartConsole
  <2>2. \A r \in Requests : pc'[r] \notin {"truncate", "write"}
    BY <2>1 DEF InDaemon
  <2>3. ~lossy' => ~lossy /\ Writers = {}
    BY <2>1 DEF Writers
  <2>4. QED
    BY <2>1, <2>2, <2>3 DEF KeptInv, Editing, Matches
<1>2. CASE StopDaemon
  <2>1. UNCHANGED <<file, malformed, stale, lossy, latest>>
    BY <1>2 DEF StopDaemon, editVars
  <2>2. \A r \in Requests : /\ pc'[r] \in {"truncate", "write"} <=> pc[r] \in {"truncate", "write"}
                            /\ pc'[r] \in {"truncate", "write"} =>
                                 pc'[r] = pc[r] /\ op'[r] = op[r] /\ repos'[r] = repos[r]
    BY <1>2 DEF StopDaemon, InDaemon
  <2>3. QED
    BY <2>1, <2>2, KeptFrame
<1>3. ASSUME NEW list \in Drafts, EditByHand(list)
      PROVE  KeptInv'
  <2>1. /\ UNCHANGED <<pc, op, repos>> /\ file' = list /\ latest' = list /\ Distinct(list)
        /\ ~malformed'
    BY <1>3, ConsoleAssumption DEF EditByHand, ConsoleAssumption
  <2>2. \A r \in Requests : Editing(r)' = Editing(r) /\ Asks(r)' = Asks(r)
    BY <2>1 DEF Editing, Asks
  <2>3. \A r \in Requests : stale'[r] = Editing(r)
    BY <1>3 DEF EditByHand
  <2>4. \A n \in Repos : Matches(file, n)'
    BY <2>1 DEF Matches
  <2>5. QED
    BY <2>1, <2>2, <2>3, <2>4 DEF KeptInv, Editing
<1>4. CASE UnlockDaemon \/ UNCHANGED vars \/ \E m \in Masters : StartDaemon(m)
  <2>1. UNCHANGED <<pc, op, repos, file, malformed, stale, lossy, latest>>
    BY <1>4 DEF UnlockDaemon, StartDaemon, vars, editVars
  <2>2. QED
    BY <2>1, KeptFrame
<1>5. QED
  BY <1>1, <1>2, <1>3, <1>4

\* The first file is the last edit.
LEMMA KeptInit == Init => KeptInv
BY ConsoleAssumption DEF ConsoleAssumption, Init, KeptInv, Editing, Matches

\* As long as no edit is made from a stale read or cut off, the file holds what
\* the last edit of each repository asked for (allowlist_upsert_repo,
\* allowlist_delete_repo, _save_allowlist).
THEOREM EditsKept == Spec => []LatestKept
<1>1. TypeInv /\ EditInv /\ KeptInv /\ [Next]_vars => KeptInv'
  BY KeptAllowlist, KeptOther, KeptAround DEF Next, RequestStep
<1>2. KeptInv => LatestKept
  BY DEF KeptInv, Writers, Matches, LatestKept
<1>3. QED
  BY <1>1, <1>2, KeptInit, TypeAlways, PTL DEF Spec

-----------------------------------------------------------------------------
(* The daemon follows the file.                                             *)

\* Edits that have still to ask the daemon for a reload.
Pending == {r \in Requests : pc[r] = "write" \/ (pc[r] = "reload" /\ op[r].kind # "reload")}
Loaders == {r \in Requests : pc[r] \in InDaemon}

\* A reload that no other has overlapped starts from an empty table, and what it
\* has read is the file, unless that is not settled.
FollowInv ==
  /\ Loaders # {} => Up
  /\ ~mixed => \A r, q \in Loaders : r = q
  /\ ~mixed /\ Loaders # {} => table = {}
  /\ ~mixed /\ ~behind /\ Pending = {} =>
       /\ \A r \in Requests : pc[r] = "filling" => repos[r] = file /\ ~malformed
       /\ Up /\ Loaders = {} => table = Readable

\* A step that changes neither the file nor the daemon, and settles nothing.
LEMMA FollowFrame ==
  ASSUME FollowInv, UNCHANGED <<file, malformed, master, table, mixed>>, behind => behind',
         Loaders' = Loaders,
         behind' \/ Pending \subseteq Pending',
         \A r \in Requests : pc'[r] = "filling" => pc[r] = "filling" /\ repos'[r] = repos[r]
  PROVE  FollowInv'
BY DEF FollowInv, Up, Readable

\* Requests that neither edit nor reload.
LEMMA FollowOther ==
  ASSUME TypeInv, FollowInv, NEW r \in Requests, Arrive(r) \/ EntryStep(r) \/ ControlDaemon(r)
  PROVE  FollowInv'
<1>1. /\ UNCHANGED <<file, malformed, master, table, mixed, behind, repos>>
      /\ pc[r] \in {"new", "fetch", "acquire", "control"} \cup Inside
  BY DEF Arrive, EntryStep, FetchContext, AcquireContext, Enter, ShowEntry, EditEntry, MakeGroup,
     AddEntry, RestoreContext, ControlDaemon, editVars, daemonVars, tableVars, Inside
<1>2. /\ pc'[r] \notin InDaemon
      /\ \A q \in Requests \ {r} : pc'[q] = pc[q] /\ op'[q] = op[q]
  <2>1. CASE Arrive(r)
    <3>1. CASE Goto(r, "done")
      BY <3>1 DEF Goto, TypeInv, RequestTypes, InDaemon
    <3>2. ASSUME NEW o \in Calls[r], op' = [op EXCEPT ![r] = o],
                 pc' = [pc EXCEPT ![r] = CASE o.kind \in {"get", "set"} -> "fetch"
                                           [] o.kind \in {"upsert", "delete"} -> "load"
                                           [] o.kind \in {"lock", "unlock"} -> "control"
                                           [] o.kind = "reload" -> "reload"]
          PROVE  /\ pc'[r] \notin InDaemon
                 /\ \A q \in Requests \ {r} : pc'[q] = pc[q] /\ op'[q] = op[q]
      <4>1. o.kind \in {"get", "set", "upsert", "delete", "lock", "unlock", "reload"}
        BY ConsoleAssumption DEF ConsoleAssumption, Operations
      <4>2. QED
        BY <3>2, <4>1 DEF TypeInv, RequestTypes, InDaemon
    <3>3. QED
      BY <2>1, <3>1, <3>2 DEF Arrive
  <2>2. CASE EntryStep(r) \/ ControlDaemon(r)
    <3>1. PICK label \in Inside \cup {"acquire", "done"} : Goto(r, label)
      BY <2>2 DEF EntryStep, FetchContext, AcquireContext, Enter, ShowEntry, EditEntry, MakeGroup,
         AddEntry, RestoreContext, LeaveContext, ControlDaemon, Inside
    <3>2. QED
      BY <3>1 DEF Goto, TypeInv, RequestTypes, Inside, InDaemon
  <2>3. QED
    BY <2>1, <2>2
<1>3. Loaders' = Loaders /\ Pending \subseteq Pending'
  BY <1>1, <1>2 DEF Loaders, Pending, InDaemon, Inside
<1>4. \A q \in Requests : pc'[q] = "filling" => pc[q] = "filling" /\ repos'[q] = repos[q]
  BY <1>1, <1>2 DEF InDaemon
<1>5. QED
  BY <1>1, <1>3, <1>4, FollowFrame

\* An edit changes the file only while it has a reload to ask for.
LEMMA FollowAllowlist ==
  ASSUME TypeInv, EditInv, FollowInv, NEW r \in Requests, AllowlistStep(r)
  PROVE  FollowInv'
<1>1. PICK label \in {"truncate", "write", "reload", "done"} : Goto(r, label)
  BY DEF AllowlistStep, LoadAllowlist, TruncateAllowlist, WriteAllowlist
<1>2. /\ pc'[r] = label
      /\ label # "done" => op'[r] = op[r]
      /\ \A q \in Requests \ {r} : pc'[q] = pc[q] /\ op'[q] = op[q]
  BY <1>1 DEF Goto, TypeInv, RequestTypes
<1>3. pc[r] \in {"load", "truncate", "write"} /\ op[r].kind # "reload"
  BY DEF AllowlistStep, LoadAllowlist, TruncateAllowlist, WriteAllowlist, EditInv
<1>4. UNCHANGED <<master, table, mixed>> /\ (behind => behind')
  BY DEF AllowlistStep, LoadAllowlist, TruncateAllowlist, WriteAllowlist, daemonVars, tableVars
<1>5. \A q \in Requests \ {r} : repos'[q] = repos[q]
  BY DEF AllowlistStep, LoadAllowlist, TruncateAllowlist, WriteAllowlist, TypeInv, RequestTypes
<1>6. Loaders' = Loaders
  BY <1>2, <1>3 DEF Loaders, InDaemon
<1>7. CASE r \in Pending'
  BY <1>4, <1>6, <1>7 DEF FollowInv, Up
<1>8. CASE r \notin Pending'
  <2>1. label \in {"truncate", "done"}
    BY <1>2, <1>3, <1>8 DEF Pending
  <2>2. UNCHANGED <<file, malformed>>
    <3>1. CASE LoadAllowlist(r)
      BY <3>1 DEF LoadAllowlist
    <3>2. CASE TruncateAllowlist(r)
      BY <1>2, <2>1, <3>2 DEF TruncateAllowlist, Goto, TypeInv, RequestTypes
    <3>3. CASE WriteAllowlist(r)
      BY <1>2, <2>1, <3>3 DEF WriteAllowlist, Goto, TypeInv, RequestTypes
    <3>4. QED
      BY <3>1, <3>2, <3>3 DEF AllowlistStep
  <2>3. behind' \/ Pending \subseteq Pending'
    <3>1. CASE pc[r] = "write"
      <4>1. behind' = TRUE
        BY <1>2, <2>1, <3>1 DEF AllowlistStep, LoadAllowlist, TruncateAllowlist, WriteAllowlist, Goto,
           TypeInv, RequestTypes
      <4>2. QED
        BY <4>1
    <3>2. CASE pc[r] # "write"
      BY <1>2, <1>3, <3>2 DEF Pending
    <3>3. QED
      BY <3>1, <3>2
  <2>4. \A q \in Requests : pc'[q] = "filling" => pc[q] = "filling" /\ repos'[q] = repos[q]
    BY <1>2, <1>5, <2>1
  <2>5. QED
    BY <1>4, <1>6, <2>2, <2>3, <2>4, FollowFrame
<1>9. QED
  BY <1>7, <1>8

\* The three steps of a reload.
LEMMA FollowReload ==
  ASSUME TypeInv, FollowInv, NEW r \in Requests,
         ClearTable(r) \/ ReadAllowlist(r) \/ FillTable(r)
  PROVE  FollowInv'
<1>1. /\ UNCHANGED <<file, malformed, master>>
      /\ \A q \in Requests \ {r} : pc'[q] = pc[q] /\ op'[q] = op[q] /\ repos'[q] = repos[q]
  BY DEF ClearTable, ReadAllowlist, FillTable, Goto, editVars, daemonVars, TypeInv, RequestTypes
<1>2. CASE ClearTable(r) /\ Up
  <2>1. /\ pc'[r] = "reading" /\ table' = {} /\ behind' = behind
        /\ mixed' = (\E q \in Requests : pc[q] \in InDaemon)
    BY <1>2 DEF ClearTable, Goto, TypeInv, RequestTypes
  <2>2. ~mixed' => Loaders' \subseteq {r}
    BY <1>1, <2>1 DEF Loaders
  <2>3. r \in Loaders'
    BY <2>1 DEF Loaders, InDaemon
  <2>4. \A q \in Requests : pc'[q] = "filling" => q \in Loaders' /\ q # r
    BY <2>1 DEF Loaders, InDaemon
  <2>5. QED
    BY <1>1, <1>2, <2>1, <2>2, <2>3, <2>4 DEF FollowInv, Up
<1>3. CASE ClearTable(r) /\ ~Up
  <2>1. pc'[r] = "done" /\ UNCHANGED <<table, mixed, behind>> /\ Loaders = {}
    BY <1>3 DEF ClearTable, Goto, TypeInv, RequestTypes, FollowInv
  <2>2. Loaders' = {}
    BY <1>1, <2>1 DEF Loaders, InDaemon
  <2>3. \A q \in Requests : pc'[q] # "filling"
    BY <2>2 DEF Loaders, InDaemon
  <2>4. QED
    BY <1>1, <1>3, <2>2, <2>3 DEF FollowInv, Up
<1>4. CASE ReadAllowlist(r)
  <2>1. /\ pc[r] = "reading" /\ UNCHANGED <<table, mixed>>
        /\ \/ malformed /\ pc'[r] = "done"
           \/ ~malformed /\ pc'[r] = "filling" /\ repos'[r] = file
    BY <1>4 DEF ReadAllowlist, Goto, TypeInv, RequestTypes
  <2>2. Loaders' \subseteq Loaders /\ r \in Loaders
    BY <1>1, <2>1 DEF Loaders, InDaemon
  <2>3. ASSUME ~mixed'
        PROVE  /\ \A q \in Requests : pc'[q] = "filling" => repos'[q] = file' /\ ~malformed'
               /\ Loaders' = {} => table' = Readable'
    <3>1. Loaders = {r} /\ table = {}
      BY <2>1, <2>2, <2>3 DEF FollowInv
    <3>2. \A q \in Requests : pc'[q] = "filling" => q = r
      BY <1>1, <3>1 DEF Loaders, InDaemon
    <3>3. Loaders' = {} => malformed
      BY <2>1 DEF Loaders, InDaemon
    <3>4. QED
      BY <1>1, <2>1, <3>1, <3>2, <3>3 DEF Readable
  <2>4. QED
    BY <1>1, <2>1, <2>2, <2>3 DEF FollowInv, Up, Readable
<1>5. CASE FillTable(r)
  <2>1. /\ pc[r] = "filling" /\ pc'[r] = "done" /\ UNCHANGED <<behind, mixed>>
        /\ table' = repos[r] \cup {t \in table : \A s \in repos[r] : s.repo # t.repo}
    BY <1>5 DEF FillTable, Goto, TypeInv, RequestTypes
  <2>2. r \in Loaders /\ Loaders' = Loaders \ {r} /\ Pending' = Pending
    BY <1>1, <2>1 DEF Loaders, Pending, InDaemon
  <2>3. \A q \in Requests : pc'[q] = "filling" => q \in Loaders'
    BY DEF Loaders, InDaemon
  <2>4. ~mixed => Loaders' = {} /\ table = {}
    BY <2>2 DEF FollowInv
  <2>5. ASSUME ~mixed, ~behind, Pending = {} PROVE table' = Readable
    <3>1. repos[r] = file /\ ~malformed
      BY <2>1, <2>5 DEF FollowInv
    <3>2. table' = file
      BY <2>1, <2>4, <2>5, <3>1
    <3>3. QED
      BY <3>1, <3>2 DEF Readable
  <2>6. Loaders' # {} => Up'
    BY <1>1, <2>2 DEF FollowInv, Up
  <2>7. QED
    BY <1>1, <2>1, <2>2, <2>3, <2>4, <2>5, <2>6 DEF FollowInv, Readable
<1>6. QED
  BY <1>2, <1>3, <1>4, <1>5

\* What happens around the console.
LEMMA FollowAround ==
  ASSUME TypeInv, FollowInv,
         \/ RestartConsole \/ UnlockDaemon \/ StopDaemon \/ UNCHANGED vars
         \/ \E list \in Drafts : EditByHand(list)
         \/ \E m \in Masters : StartDaemon(m)
  PROVE  FollowInv'
<1>1. CASE RestartConsole
  <2>1. /\ UNCHANGED <<file, malformed, master, table, mixed>>
        /\ pc' = [r \in Requests |-> IF pc[r] \in {"new"} \cup InDaemon THEN pc[r] ELSE "done"]
        /\ repos' = [r \in Requests |-> IF pc[r] \in InDaemon THEN repos[r] ELSE {}]
        /\ behind' = (behind \/ \E r \in Requests :
                                  pc[r] = "write" \/ (pc[r] = "reload" /\ op[r].kind # "reload"))
    BY <1>1 DEF RestartConsole, daemonVars
  <2>2. Loaders' = Loaders
    BY <2>1 DEF Loaders, InDaemon
  <2>3. behind' \/ Pending \subseteq Pending'
    BY <2>1 DEF Pending
  <2>4. \A r \in Requests : pc'[r] = "filling" => pc[r] = "filling" /\ repos'[r] = repos[r]
    BY <2>1 DEF InDaemon
  <2>5. behind => behind'
    BY <2>1
  <2>6. QED
    BY <2>1, <2>2, <2>3, <2>4, <2>5, FollowFrame
<1>2. CASE StopDaemon
  <2>1. /\ master' = Nothing
        /\ pc' = [r \in Requests |-> IF pc[r] \in InDaemon THEN "done" ELSE pc[r]]
    BY <1>2 DEF StopDaemon
  <2>2. \A r \in Requests : pc'[r] \notin InDaemon
    BY <2>1 DEF InDaemon
  <2>3. Loaders' = {} /\ \A r \in Requests : pc'[r] # "filling"
    BY <2>2 DEF Loaders, InDaemon
  <2>4. QED
    BY <2>1, <2>3 DEF FollowInv, Up
<1>3. ASSUME NEW list \in Drafts, EditByHand(list)
      PROVE  FollowInv'
  BY <1>3 DEF EditByHand, FollowInv, Loaders, Up, daemonVars
<1>4. ASSUME NEW m \in Masters, StartDaemon(m)
      PROVE  FollowInv'
  <2>1. ~Up /\ ~malformed /\ table' = file /\ UNCHANGED <<pc, op, repos, file, malformed>>
    BY <1>4 DEF StartDaemon, editVars
  <2>2. Loaders = {} /\ Loaders' = {}
    BY <2>1 DEF FollowInv, Loaders
  <2>3. \A r \in Requests : pc'[r] # "filling"
    BY <2>2 DEF Loaders, InDaemon
  <2>4. QED
    BY <2>1, <2>2, <2>3 DEF FollowInv, Readable
<1>5. CASE UnlockDaemon \/ UNCHANGED vars
  <2>1. UNCHANGED <<pc, op, repos, file, malformed, master, table, mixed, behind>>
    BY <1>5 DEF UnlockDaemon, vars, editVars, daemonVars, tableVars
  <2>2. Loaders' = Loaders /\ Pending' = Pending
    BY <2>1 DEF Loaders, Pending
  <2>3. QED
    BY <2>1, <2>2, FollowFrame
<1>6. QED
  BY <1>1, <1>2, <1>3, <1>4, <1>5

\* No daemon runs at first.
LEMMA FollowInit == Init => FollowInv
BY DEF Init, FollowInv, Loaders, InDaemon, Up

\* Once the edits are over, the daemon decides by the file as it is
\* (AllowlistEnforcer.reload, called after each edit).
THEOREM TableFollowsFile == Spec => []DaemonFollowsFile
<1>1. TypeInv /\ EditInv /\ FollowInv /\ [Next]_vars => FollowInv'
  BY FollowOther, FollowAllowlist, FollowReload, FollowAround DEF Next, RequestStep, DaemonStep
<1>2. FollowInv => DaemonFollowsFile
  BY DEF FollowInv, DaemonFollowsFile, Pending, Loaders
<1>3. QED
  BY <1>1, <1>2, FollowInit, TypeAlways, PTL DEF Spec
=============================================================================
