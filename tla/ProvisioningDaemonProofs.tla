-------------------- MODULE ProvisioningDaemonProofs --------------------
(***************************************************************************)
(* Theorems about ProvisioningDaemon, for every set of connections,        *)
(* repositories, vaults, paths, passwords, requests and file contents that *)
(* ConstantsAssumption allows.                                             *)
(***************************************************************************)
EXTENDS ProvisioningDaemon, TLAPS

USE ConstantsAssumption

-----------------------------------------------------------------------------
(* Type correctness.                                                        *)

\* An empty table, an entry without grants and an absent request are well typed.
LEMMA BlankTypes ==
  /\ NoEntry \in Entries
  /\ EmptyTable \in Tables
  /\ \A f \in Files : f.table \in Tables /\ f.readable \in BOOLEAN
  /\ \A f \in Files : Contents(f) \in Tables
BY DEF NoEntry, Entries, EmptyTable, Tables, Contents

\* The entry stored by a reload leaves a table a table.
LEMMA StoreKeepsTable ==
  ASSUME NEW t \in Tables, NEW r \in Repos, NEW e \in Entries
  PROVE  [t EXCEPT ![r] = e] \in Tables
BY DEF Tables

\* What a table holds for a repository is an entry.
LEMMA TableEntry ==
  ASSUME NEW t \in Tables, NEW r \in Repos
  PROVE  t[r] \in Entries
BY DEF Tables

\* The daemon starts well typed.
LEMMA TypeInit == Init => TypeOK
<1> SUFFICES ASSUME Init PROVE TypeOK
  OBVIOUS
<1>1. repos \in Tables /\ snap \in [Conns -> Tables]
  BY BlankTypes DEF Init
<1>2. QED
  BY <1>1 DEF Init, TypeOK, PcValues, Replies

\* Every step of the daemon keeps the types.
LEMMA TypeStep == TypeOK /\ HandlersOnTrack /\ [Next]_vars => TypeOK'
<1> SUFFICES ASSUME TypeOK, HandlersOnTrack, [Next]_vars PROVE TypeOK'
  OBVIOUS
<1> USE DEF TypeOK, Goto, Answer, Received, tableVars, getVars, auditVars
<1>1. ASSUME NEW c \in Conns, Connect(c) PROVE TypeOK'
  BY <1>1 DEF Connect, PcValues
<1>2. ASSUME NEW c \in Conns, HandlerStep(c) PROVE TypeOK'
  <2>1. CASE RejectRequest(c)
    BY <2>1 DEF RejectRequest, PcValues, Replies
  <2>2. CASE HandleStatus(c)
    BY <2>2 DEF HandleStatus, PcValues, Replies
  <2>3. CASE HandleLock(c)
    BY <2>3 DEF HandleLock, PcValues, Replies
  <2>4. CASE RejectEmptyPassword(c)
    BY <2>4 DEF RejectEmptyPassword, PcValues, Replies
  <2>5. CASE BeginUnlock(c)
    BY <2>5 DEF BeginUnlock, PcValues, Replies
  <2>6. CASE Validate(c)
    BY <2>6 DEF Validate, PcValues, Replies
  <2>7. CASE StorePassword(c)
    <3>1. req[c].password \in Passwords \cup {None}
      BY DEF NoRequest, RequestRecords
    <3>2. QED
      BY <2>7, <3>1 DEF StorePassword, PcValues, Replies
  <2>8. CASE AdminContext(c)
    BY <2>8 DEF AdminContext, PcValues, Replies
  <2>9. CASE ReloadReset(c)
    BY <2>9, BlankTypes DEF ReloadReset, PcValues
  <2>10. CASE LoadRead(c)
    <3>1. allowFile.table \in Tables
      BY BlankTypes
    <3>2. QED
      BY <2>10, <3>1 DEF LoadRead, PcValues, Replies
  <2>11. CASE LoadBind(c)
    BY <2>11 DEF LoadBind, PcValues
  <2>12. CASE LoadStore(c)
    <3>1. bound[c] \in Repos /\ snap[c] \in Tables
      BY <2>12 DEF LoadStore
    <3>2. repos' \in Tables
      <4>1. snap[c][bound[c]] \in Entries
        BY <3>1, TableEntry
      <4>2. [repos EXCEPT ![bound[c]] = snap[c][bound[c]]] \in Tables
        BY <3>1, <4>1, StoreKeepsTable
      <4>3. QED
        BY <2>12, <4>2 DEF LoadStore
    <3>3. [snap[c] EXCEPT ![bound[c]] = NoEntry] \in Tables
      BY <3>1, StoreKeepsTable, BlankTypes
    <3>4. snap' \in [Conns -> Tables]
      BY <2>12, <3>3 DEF LoadStore
    <3>5. QED
      BY <2>12, <3>2, <3>4 DEF LoadStore, PcValues
  <2>13. CASE LoadDone(c)
    BY <2>13 DEF LoadDone, PcValues, Replies
  <2>14. CASE RefuseGet(c)
    BY <2>14 DEF RefuseGet, PcValues, Replies
  <2>15. CASE BeginGet(c)
    BY <2>15 DEF BeginGet, PcValues
  <2>16. CASE ChooseDb(c)
    <3>1. DbFor(c) # None => DbFor(c) \in DBs
      <4>1. req[c].repo \in Repos /\ req[c].db \in DBs \cup {None}
        BY <2>16 DEF ChooseDb, HandlersOnTrack, GetSteps, NoRequest, RequestRecords
      <4>2. repos[req[c].repo].default \in DBs \cup {None}
        BY <4>1, TableEntry DEF Entries
      <4>3. QED
        BY <4>1, <4>2 DEF DbFor
    <3>2. QED
      BY <2>16, <3>1 DEF ChooseDb, PcValues, Replies
  <2>17. CASE CheckPermitted(c)
    BY <2>17 DEF CheckPermitted, PcValues, Replies
  <2>18. CASE SnapshotPassword(c)
    BY <2>18 DEF SnapshotPassword, PcValues, Replies
  <2>19. CASE ResolveSubVault(c)
    BY <2>19 DEF ResolveSubVault, PcValues, Replies
  <2>20. CASE ShowEntry(c)
    BY <2>20 DEF ShowEntry, PcValues, Replies
  <2>21. CASE AppendAudit(c)
    <3>1. AuditRecord(c) \in [conn : Conns, repo : Repos \cup {None},
                              db : DBs \cup {None}, path : Paths \cup {None}]
      BY DEF AuditRecord, NoRequest, RequestRecords
    <3>2. QED
      BY <2>21, <3>1 DEF AppendAudit, PcValues, Replies
  <2>22. CASE SendReply(c)
    BY <2>22 DEF SendReply, PcValues, Replies
  <2>23. QED
    BY <1>2, <2>1, <2>2, <2>3, <2>4, <2>5, <2>6, <2>7, <2>8, <2>9, <2>10, <2>11, <2>12,
       <2>13, <2>14, <2>15, <2>16, <2>17, <2>18, <2>19, <2>20, <2>21, <2>22 DEF HandlerStep
<1>3. CASE EditAllowlist
  BY <1>3 DEF EditAllowlist
<1>4. CASE Shutdown
  BY <1>4 DEF Shutdown
<1>5. ASSUME EndProcess PROVE TypeOK'
  BY <1>5, BlankTypes DEF EndProcess, PcValues, Replies
<1>6. CASE Start
  BY <1>6, BlankTypes DEF Start
<1>7. CASE UNCHANGED vars
  BY <1>7 DEF vars
<1>8. QED
  BY <1>1, <1>2, <1>3, <1>4, <1>5, <1>6, <1>7 DEF Next, Exit, Crash

-----------------------------------------------------------------------------
(* Where a handler can stand, and what it then knows about its request.     *)

\* A handler never leaves the path of its request, and answers once.
LEMMA HandlersStep ==
  TypeOK /\ HandlersOnTrack /\ [Next]_vars => HandlersOnTrack'
<1> SUFFICES ASSUME TypeOK, HandlersOnTrack, [Next]_vars PROVE HandlersOnTrack'
  OBVIOUS
<1> USE DEF TypeOK, HandlersOnTrack, GetSteps, DecidedSteps, Goto, Answer, Received,
            tableVars, getVars, auditVars
<1>1. ASSUME NEW c \in Conns, Connect(c) PROVE HandlersOnTrack'
  BY <1>1 DEF Connect
<1>2. ASSUME NEW c \in Conns, HandlerStep(c) PROVE HandlersOnTrack'
  <2>1. CASE RejectRequest(c)
    BY <2>1 DEF RejectRequest
  <2>2. CASE HandleStatus(c)
    BY <2>2 DEF HandleStatus
  <2>3. CASE HandleLock(c)
    BY <2>3 DEF HandleLock
  <2>4. CASE RejectEmptyPassword(c)
    BY <2>4 DEF RejectEmptyPassword
  <2>5. CASE BeginUnlock(c)
    BY <2>5 DEF BeginUnlock
  <2>6. CASE Validate(c)
    BY <2>6 DEF Validate
  <2>7. CASE StorePassword(c)
    BY <2>7 DEF StorePassword
  <2>8. CASE AdminContext(c)
    BY <2>8 DEF AdminContext
  <2>9. CASE ReloadReset(c)
    BY <2>9 DEF ReloadReset
  <2>10. CASE LoadRead(c)
    BY <2>10 DEF LoadRead
  <2>11. CASE LoadBind(c)
    BY <2>11 DEF LoadBind
  <2>12. CASE LoadStore(c)
    BY <2>12 DEF LoadStore
  <2>13. CASE LoadDone(c)
    BY <2>13 DEF LoadDone
  <2>14. CASE RefuseGet(c)
    BY <2>14 DEF RefuseGet
  <2>15. CASE BeginGet(c)
    BY <2>15 DEF BeginGet, NoRequest, RequestRecords
  <2>16. CASE ChooseDb(c)
    <3>1. db' \in [Conns -> DBs \cup {None}]
      BY TypeStep
    <3>2. CASE DbFor(c) # None
      <4>1. db'[c] = DbFor(c) /\ db'[c] \in DBs
        BY <2>16, <3>1, <3>2 DEF ChooseDb
      <4>2. req[c].db \in {None, db'[c]}
        BY <4>1 DEF DbFor
      <4>3. QED
        BY <2>16, <3>2, <4>1, <4>2 DEF ChooseDb
    <3>3. CASE DbFor(c) = None
      BY <2>16, <3>3 DEF ChooseDb
    <3>4. QED
      BY <3>2, <3>3
  <2>17. CASE CheckPermitted(c)
    BY <2>17 DEF CheckPermitted
  <2>18. CASE SnapshotPassword(c)
    BY <2>18 DEF SnapshotPassword
  <2>19. CASE ResolveSubVault(c)
    BY <2>19 DEF ResolveSubVault
  <2>20. CASE ShowEntry(c)
    BY <2>20 DEF ShowEntry
  <2>21. CASE AppendAudit(c)
    BY <2>21 DEF AppendAudit
  <2>22. CASE SendReply(c)
    BY <2>22 DEF SendReply
  <2>23. QED
    BY <1>2, <2>1, <2>2, <2>3, <2>4, <2>5, <2>6, <2>7, <2>8, <2>9, <2>10, <2>11, <2>12,
       <2>13, <2>14, <2>15, <2>16, <2>17, <2>18, <2>19, <2>20, <2>21, <2>22 DEF HandlerStep
<1>3. CASE EditAllowlist
  BY <1>3 DEF EditAllowlist
<1>4. CASE Shutdown
  BY <1>4 DEF Shutdown
<1>5. ASSUME EndProcess PROVE HandlersOnTrack'
  BY <1>5 DEF EndProcess, Quiet
<1>6. CASE Start
  BY <1>6 DEF Start
<1>7. CASE UNCHANGED vars
  BY <1>7 DEF vars
<1>8. QED
  BY <1>1, <1>2, <1>3, <1>4, <1>5, <1>6, <1>7 DEF Next, Exit, Crash

-----------------------------------------------------------------------------
(* Only a running load holds entries of the file.                           *)

\* Only a running load holds entries or is bound to a table.
LEMMA LoadersStep ==
  TypeOK /\ LoadersOnTrack /\ [Next]_vars => LoadersOnTrack'
<1> SUFFICES ASSUME TypeOK, LoadersOnTrack, [Next]_vars PROVE LoadersOnTrack'
  OBVIOUS
<1> USE DEF TypeOK, LoadersOnTrack, Quiet, Goto, Answer, Received,
            tableVars, getVars, auditVars
<1>1. ASSUME NEW c \in Conns, Connect(c) PROVE LoadersOnTrack'
  BY <1>1 DEF Connect
<1>2. ASSUME NEW c \in Conns, HandlerStep(c) PROVE LoadersOnTrack'
  <2>1. CASE RejectRequest(c)
    BY <2>1 DEF RejectRequest
  <2>2. CASE HandleStatus(c)
    BY <2>2 DEF HandleStatus
  <2>3. CASE HandleLock(c)
    BY <2>3 DEF HandleLock
  <2>4. CASE RejectEmptyPassword(c)
    BY <2>4 DEF RejectEmptyPassword
  <2>5. CASE BeginUnlock(c)
    BY <2>5 DEF BeginUnlock
  <2>6. CASE Validate(c)
    BY <2>6 DEF Validate
  <2>7. CASE StorePassword(c)
    BY <2>7 DEF StorePassword
  <2>8. CASE AdminContext(c)
    BY <2>8 DEF AdminContext
  <2>9. CASE ReloadReset(c)
    BY <2>9 DEF ReloadReset
  <2>10. CASE LoadRead(c)
    BY <2>10 DEF LoadRead
  <2>11. CASE LoadBind(c)
    BY <2>11 DEF LoadBind
  <2>12. CASE LoadStore(c)
    BY <2>12 DEF LoadStore
  <2>13. CASE LoadDone(c)
    BY <2>13 DEF LoadDone
  <2>14. CASE RefuseGet(c)
    BY <2>14 DEF RefuseGet
  <2>15. CASE BeginGet(c)
    BY <2>15 DEF BeginGet
  <2>16. CASE ChooseDb(c)
    BY <2>16 DEF ChooseDb
  <2>17. CASE CheckPermitted(c)
    BY <2>17 DEF CheckPermitted
  <2>18. CASE SnapshotPassword(c)
    BY <2>18 DEF SnapshotPassword
  <2>19. CASE ResolveSubVault(c)
    BY <2>19 DEF ResolveSubVault
  <2>20. CASE ShowEntry(c)
    BY <2>20 DEF ShowEntry
  <2>21. CASE AppendAudit(c)
    BY <2>21 DEF AppendAudit
  <2>22. CASE SendReply(c)
    BY <2>22 DEF SendReply
  <2>23. QED
    BY <1>2, <2>1, <2>2, <2>3, <2>4, <2>5, <2>6, <2>7, <2>8, <2>9, <2>10, <2>11, <2>12,
       <2>13, <2>14, <2>15, <2>16, <2>17, <2>18, <2>19, <2>20, <2>21, <2>22 DEF HandlerStep
<1>3. CASE EditAllowlist
  BY <1>3 DEF EditAllowlist
<1>4. CASE Shutdown
  BY <1>4 DEF Shutdown
<1>5. ASSUME EndProcess PROVE LoadersOnTrack'
  BY <1>5 DEF EndProcess
<1>6. CASE Start
  BY <1>6 DEF Start
<1>7. CASE UNCHANGED vars
  BY <1>7 DEF vars
<1>8. QED
  BY <1>1, <1>2, <1>3, <1>4, <1>5, <1>6, <1>7 DEF Next, Exit, Crash

-----------------------------------------------------------------------------
(* The password in memory is the one the CLI accepted.                      *)

\* unlock, lock, get and the end of the process keep any other password out.
LEMMA KeyStep ==
  TypeOK /\ OnlyMasterKeyHeld /\ [Next]_vars => OnlyMasterKeyHeld'
<1> SUFFICES ASSUME TypeOK, OnlyMasterKeyHeld, [Next]_vars PROVE OnlyMasterKeyHeld'
  OBVIOUS
<1> USE DEF TypeOK, OnlyMasterKeyHeld, Goto, Answer, Received,
            tableVars, getVars, auditVars
<1>1. ASSUME NEW c \in Conns, Connect(c) PROVE OnlyMasterKeyHeld'
  BY <1>1 DEF Connect
<1>2. ASSUME NEW c \in Conns, HandlerStep(c) PROVE OnlyMasterKeyHeld'
  <2>1. CASE RejectRequest(c)
    BY <2>1 DEF RejectRequest
  <2>2. CASE HandleStatus(c)
    BY <2>2 DEF HandleStatus
  <2>3. CASE HandleLock(c)
    BY <2>3 DEF HandleLock
  <2>4. CASE RejectEmptyPassword(c)
    BY <2>4 DEF RejectEmptyPassword
  <2>5. CASE BeginUnlock(c)
    BY <2>5 DEF BeginUnlock
  <2>6. CASE Validate(c)
    BY <2>6 DEF Validate
  <2>7. CASE StorePassword(c)
    BY <2>7 DEF StorePassword
  <2>8. CASE AdminContext(c)
    BY <2>8 DEF AdminContext
  <2>9. CASE ReloadReset(c)
    BY <2>9 DEF ReloadReset
  <2>10. CASE LoadRead(c)
    BY <2>10 DEF LoadRead
  <2>11. CASE LoadBind(c)
    BY <2>11 DEF LoadBind
  <2>12. CASE LoadStore(c)
    BY <2>12 DEF LoadStore
  <2>13. CASE LoadDone(c)
    BY <2>13 DEF LoadDone
  <2>14. CASE RefuseGet(c)
    BY <2>14 DEF RefuseGet
  <2>15. CASE BeginGet(c)
    BY <2>15 DEF BeginGet
  <2>16. CASE ChooseDb(c)
    BY <2>16 DEF ChooseDb
  <2>17. CASE CheckPermitted(c)
    BY <2>17 DEF CheckPermitted
  <2>18. CASE SnapshotPassword(c)
    BY <2>18 DEF SnapshotPassword
  <2>19. CASE ResolveSubVault(c)
    BY <2>19 DEF ResolveSubVault
  <2>20. CASE ShowEntry(c)
    BY <2>20 DEF ShowEntry
  <2>21. CASE AppendAudit(c)
    BY <2>21 DEF AppendAudit
  <2>22. CASE SendReply(c)
    BY <2>22 DEF SendReply
  <2>23. QED
    BY <1>2, <2>1, <2>2, <2>3, <2>4, <2>5, <2>6, <2>7, <2>8, <2>9, <2>10, <2>11, <2>12,
       <2>13, <2>14, <2>15, <2>16, <2>17, <2>18, <2>19, <2>20, <2>21, <2>22 DEF HandlerStep
<1>3. CASE EditAllowlist
  BY <1>3 DEF EditAllowlist
<1>4. CASE Shutdown
  BY <1>4 DEF Shutdown
<1>5. ASSUME EndProcess PROVE OnlyMasterKeyHeld'
  BY <1>5 DEF EndProcess
<1>6. CASE Start
  BY <1>6 DEF Start
<1>7. CASE UNCHANGED vars
  BY <1>7 DEF vars
<1>8. QED
  BY <1>1, <1>2, <1>3, <1>4, <1>5, <1>6, <1>7 DEF Next, Exit, Crash

-----------------------------------------------------------------------------
(* The audit log.                                                           *)

\* _append_audit comes between the value in hand and the answer, on every path.
LEMMA AuditStep ==
  TypeOK /\ HandlersOnTrack /\ AuditedBeforeRelease /\ [Next]_vars => AuditedBeforeRelease'
<1> SUFFICES ASSUME TypeOK, HandlersOnTrack, AuditedBeforeRelease, [Next]_vars
             PROVE  AuditedBeforeRelease'
  OBVIOUS
<1> USE DEF TypeOK, AuditedBeforeRelease, AuditRecord, Goto, Answer, Received,
            tableVars, getVars, auditVars
<1>1. ASSUME NEW c \in Conns, Connect(c) PROVE AuditedBeforeRelease'
  BY <1>1 DEF Connect
<1>2. ASSUME NEW c \in Conns, HandlerStep(c) PROVE AuditedBeforeRelease'
  <2>1. CASE RejectRequest(c)
    BY <2>1 DEF RejectRequest
  <2>2. CASE HandleStatus(c)
    BY <2>2 DEF HandleStatus
  <2>3. CASE HandleLock(c)
    BY <2>3 DEF HandleLock
  <2>4. CASE RejectEmptyPassword(c)
    BY <2>4 DEF RejectEmptyPassword
  <2>5. CASE BeginUnlock(c)
    BY <2>5 DEF BeginUnlock
  <2>6. CASE Validate(c)
    BY <2>6 DEF Validate
  <2>7. CASE StorePassword(c)
    BY <2>7 DEF StorePassword
  <2>8. CASE AdminContext(c)
    BY <2>8 DEF AdminContext
  <2>9. CASE ReloadReset(c)
    BY <2>9 DEF ReloadReset
  <2>10. CASE LoadRead(c)
    BY <2>10 DEF LoadRead
  <2>11. CASE LoadBind(c)
    BY <2>11 DEF LoadBind
  <2>12. CASE LoadStore(c)
    BY <2>12 DEF LoadStore
  <2>13. CASE LoadDone(c)
    BY <2>13 DEF LoadDone
  <2>14. CASE RefuseGet(c)
    BY <2>14 DEF RefuseGet
  <2>15. CASE BeginGet(c)
    BY <2>15 DEF BeginGet
  <2>16. CASE ChooseDb(c)
    BY <2>16 DEF ChooseDb
  <2>17. CASE CheckPermitted(c)
    BY <2>17 DEF CheckPermitted
  <2>18. CASE SnapshotPassword(c)
    BY <2>18 DEF SnapshotPassword
  <2>19. CASE ResolveSubVault(c)
    BY <2>19 DEF ResolveSubVault
  <2>20. CASE ShowEntry(c)
    BY <2>20 DEF ShowEntry
  <2>21. CASE AppendAudit(c)
    BY <2>21 DEF AppendAudit, HandlersOnTrack, GetSteps, DecidedSteps
  <2>22. CASE SendReply(c)
    BY <2>22 DEF SendReply
  <2>23. QED
    BY <1>2, <2>1, <2>2, <2>3, <2>4, <2>5, <2>6, <2>7, <2>8, <2>9, <2>10, <2>11, <2>12,
       <2>13, <2>14, <2>15, <2>16, <2>17, <2>18, <2>19, <2>20, <2>21, <2>22 DEF HandlerStep
<1>3. CASE EditAllowlist
  BY <1>3 DEF EditAllowlist
<1>4. CASE Shutdown
  BY <1>4 DEF Shutdown
<1>5. ASSUME EndProcess PROVE AuditedBeforeRelease'
  BY <1>5 DEF EndProcess, Quiet
<1>6. CASE Start
  BY <1>6 DEF Start
<1>7. CASE UNCHANGED vars
  BY <1>7 DEF vars
<1>8. QED
  BY <1>1, <1>2, <1>3, <1>4, <1>5, <1>6, <1>7 DEF Next, Exit, Crash

-----------------------------------------------------------------------------
(* The policy in memory.                                                    *)

\* reload and _load move the file's entries to memory without loss, if alone.
LEMMA LoneStep ==
  TypeOK /\ LoadersOnTrack /\ LoneReload /\ [Next]_vars => LoneReload'
<1> SUFFICES ASSUME TypeOK, LoadersOnTrack, LoneReload, [Next]_vars
             PROVE  LoneReload'
  OBVIOUS
<1> USE DEF TypeOK, LoneReload, Loaders, Goto, Answer, Received,
            tableVars, getVars, auditVars
<1>1. ASSUME NEW c \in Conns, Connect(c) PROVE LoneReload'
  BY <1>1 DEF Connect
<1>2. ASSUME NEW c \in Conns, HandlerStep(c) PROVE LoneReload'
  <2>1. CASE RejectRequest(c)
    BY <2>1 DEF RejectRequest
  <2>2. CASE HandleStatus(c)
    BY <2>2 DEF HandleStatus
  <2>3. CASE HandleLock(c)
    BY <2>3 DEF HandleLock
  <2>4. CASE RejectEmptyPassword(c)
    BY <2>4 DEF RejectEmptyPassword
  <2>5. CASE BeginUnlock(c)
    BY <2>5 DEF BeginUnlock
  <2>6. CASE Validate(c)
    BY <2>6 DEF Validate
  <2>7. CASE StorePassword(c)
    BY <2>7 DEF StorePassword
  <2>8. CASE AdminContext(c)
    BY <2>8 DEF AdminContext
  <2>9. CASE ReloadReset(c)
    BY <2>9 DEF ReloadReset, LoadersOnTrack
  <2>10. CASE LoadRead(c)
    <3>1. CASE allowFile.readable
      <4> SUFFICES ASSUME alone, phase # "down" PROVE LoneReload'
        BY <2>10 DEF LoadRead
      <4>1. repos = EmptyTable /\ repos' = repos /\ snap'[c] = allowFile.table
        BY <2>10, <3>1 DEF LoadRead
      <4>2. \A d \in Conns : pc'[d] \in {"reloading", "loading"} => d = c
        BY <2>10 DEF LoadRead
      <4>3. Contents(allowFile)' = allowFile.table
        BY <2>10, <3>1 DEF LoadRead, Contents
      <4>4. \A r \in Repos : allowFile.table[r] =
              IF snap'[c][r] # NoEntry THEN snap'[c][r] ELSE repos'[r]
        BY <4>1 DEF EmptyTable
      <4>5. pc'[c] = "loading"
        BY <2>10, <3>1 DEF LoadRead
      <4>6. QED
        BY <2>10, <4>2, <4>3, <4>4, <4>5 DEF LoadRead
    <3>2. CASE ~allowFile.readable
      BY <2>10, <3>2 DEF LoadRead, LoadersOnTrack
    <3>3. QED
      BY <3>1, <3>2
  <2>11. CASE LoadBind(c)
    BY <2>11 DEF LoadBind, LoadersOnTrack
  <2>12. CASE LoadStore(c)
    <3> SUFFICES ASSUME alone, phase # "down" PROVE LoneReload'
      BY <2>12 DEF LoadStore
    <3>1. \A d \in Conns : pc'[d] \in {"reloading", "loading"} => d = c
      BY <2>12 DEF LoadStore
    <3>2. orphans = {} /\ pc[c] = "loading" /\ bound[c] \in Repos
      BY <2>12 DEF LoadStore
    <3>3. /\ repos' = [repos EXCEPT ![bound[c]] = snap[c][bound[c]]]
          /\ snap'[c] = [snap[c] EXCEPT ![bound[c]] = NoEntry]
      BY <2>12, <3>2 DEF LoadStore
    <3>4. ASSUME NEW r \in Repos
          PROVE  (IF snap[c][r] # NoEntry THEN snap[c][r] ELSE repos[r])
                   = (IF snap'[c][r] # NoEntry THEN snap'[c][r] ELSE repos'[r])
      <4>1. CASE r = bound[c]
        BY <3>2, <3>3, <4>1 DEF Tables, LoadersOnTrack
      <4>2. CASE r # bound[c]
        BY <3>2, <3>3, <4>2 DEF Tables
      <4>3. QED
        BY <4>1, <4>2
    <3>5. Contents(allowFile)' = Contents(allowFile) /\ edited' = edited
      BY <2>12 DEF LoadStore, Contents
    <3>6. QED
      BY <2>12, <3>1, <3>2, <3>4, <3>5 DEF LoadStore
  <2>13. CASE LoadDone(c)
    BY <2>13 DEF LoadDone
  <2>14. CASE RefuseGet(c)
    BY <2>14 DEF RefuseGet
  <2>15. CASE BeginGet(c)
    BY <2>15 DEF BeginGet
  <2>16. CASE ChooseDb(c)
    BY <2>16 DEF ChooseDb
  <2>17. CASE CheckPermitted(c)
    BY <2>17 DEF CheckPermitted
  <2>18. CASE SnapshotPassword(c)
    BY <2>18 DEF SnapshotPassword
  <2>19. CASE ResolveSubVault(c)
    BY <2>19 DEF ResolveSubVault
  <2>20. CASE ShowEntry(c)
    BY <2>20 DEF ShowEntry
  <2>21. CASE AppendAudit(c)
    BY <2>21 DEF AppendAudit
  <2>22. CASE SendReply(c)
    BY <2>22 DEF SendReply
  <2>23. QED
    BY <1>2, <2>1, <2>2, <2>3, <2>4, <2>5, <2>6, <2>7, <2>8, <2>9, <2>10, <2>11, <2>12,
       <2>13, <2>14, <2>15, <2>16, <2>17, <2>18, <2>19, <2>20, <2>21, <2>22 DEF HandlerStep
<1>3. CASE EditAllowlist
  BY <1>3 DEF EditAllowlist
<1>4. CASE Shutdown
  BY <1>4 DEF Shutdown
<1>5. ASSUME EndProcess PROVE LoneReload'
  BY <1>5 DEF EndProcess, LoadersOnTrack
<1>6. CASE Start
  BY <1>6 DEF Start, LoadersOnTrack, Quiet
<1>7. CASE UNCHANGED vars
  BY <1>7 DEF vars
<1>8. QED
  BY <1>1, <1>2, <1>3, <1>4, <1>5, <1>6, <1>7 DEF Next, Exit, Crash

\* The last step of a lone reload leaves the file's policy in memory.
LEMMA SettledStep ==
  TypeOK /\ LoadersOnTrack /\ LoneReload /\ SettledPolicy /\ [Next]_vars => SettledPolicy'
<1> SUFFICES ASSUME TypeOK, LoadersOnTrack, LoneReload, SettledPolicy, [Next]_vars
             PROVE  SettledPolicy'
  OBVIOUS
<1> USE DEF TypeOK, SettledPolicy, Loaders, Goto, Answer, Received,
            tableVars, getVars, auditVars
<1>1. ASSUME NEW c \in Conns, Connect(c) PROVE SettledPolicy'
  BY <1>1 DEF Connect
<1>2. ASSUME NEW c \in Conns, HandlerStep(c) PROVE SettledPolicy'
  <2>1. CASE RejectRequest(c)
    BY <2>1 DEF RejectRequest
  <2>2. CASE HandleStatus(c)
    BY <2>2 DEF HandleStatus
  <2>3. CASE HandleLock(c)
    BY <2>3 DEF HandleLock
  <2>4. CASE RejectEmptyPassword(c)
    BY <2>4 DEF RejectEmptyPassword
  <2>5. CASE BeginUnlock(c)
    BY <2>5 DEF BeginUnlock
  <2>6. CASE Validate(c)
    BY <2>6 DEF Validate
  <2>7. CASE StorePassword(c)
    BY <2>7 DEF StorePassword
  <2>8. CASE AdminContext(c)
    BY <2>8 DEF AdminContext
  <2>9. CASE ReloadReset(c)
    BY <2>9 DEF ReloadReset
  <2>10. CASE LoadRead(c)
    BY <2>10 DEF LoadRead, LoneReload, Contents
  <2>11. CASE LoadBind(c)
    BY <2>11 DEF LoadBind
  <2>12. CASE LoadStore(c)
    BY <2>12 DEF LoadStore
  <2>13. CASE LoadDone(c)
    <3> SUFFICES ASSUME phase # "down", Loaders' = {}, alone, ~edited
                 PROVE  repos = Contents(allowFile)
      BY <2>13 DEF LoadDone, Contents
    <3>1. \A r \in Repos : snap[c][r] = NoEntry
      BY <2>13 DEF LoadDone, EmptyTable
    <3>2. \A r \in Repos : Contents(allowFile)[r] = repos[r]
      BY <2>13, <3>1 DEF LoadDone, LoneReload
    <3>3. repos \in Tables /\ Contents(allowFile) \in Tables
      BY BlankTypes
    <3>4. QED
      BY <3>2, <3>3 DEF Tables
  <2>14. CASE RefuseGet(c)
    BY <2>14 DEF RefuseGet
  <2>15. CASE BeginGet(c)
    BY <2>15 DEF BeginGet
  <2>16. CASE ChooseDb(c)
    BY <2>16 DEF ChooseDb
  <2>17. CASE CheckPermitted(c)
    BY <2>17 DEF CheckPermitted
  <2>18. CASE SnapshotPassword(c)
    BY <2>18 DEF SnapshotPassword
  <2>19. CASE ResolveSubVault(c)
    BY <2>19 DEF ResolveSubVault
  <2>20. CASE ShowEntry(c)
    BY <2>20 DEF ShowEntry
  <2>21. CASE AppendAudit(c)
    BY <2>21 DEF AppendAudit
  <2>22. CASE SendReply(c)
    BY <2>22 DEF SendReply
  <2>23. QED
    BY <1>2, <2>1, <2>2, <2>3, <2>4, <2>5, <2>6, <2>7, <2>8, <2>9, <2>10, <2>11, <2>12,
       <2>13, <2>14, <2>15, <2>16, <2>17, <2>18, <2>19, <2>20, <2>21, <2>22 DEF HandlerStep
<1>3. CASE EditAllowlist
  BY <1>3 DEF EditAllowlist
<1>4. CASE Shutdown
  BY <1>4 DEF Shutdown
<1>5. ASSUME EndProcess PROVE SettledPolicy'
  BY <1>5 DEF EndProcess
<1>6. CASE Start
  BY <1>6 DEF Start, Contents
<1>7. CASE UNCHANGED vars
  BY <1>7 DEF vars
<1>8. QED
  BY <1>1, <1>2, <1>3, <1>4, <1>5, <1>6, <1>7 DEF Next, Exit, Crash

-----------------------------------------------------------------------------
(* The theorems.                                                            *)

\* The daemon starts in the invariant.
LEMMA IndInit == Init => IndInv
<1> SUFFICES ASSUME Init PROVE IndInv
  OBVIOUS
<1>1. TypeOK
  BY TypeInit
<1>2. HandlersOnTrack
  BY DEF Init, HandlersOnTrack, GetSteps, DecidedSteps
<1>3. LoadersOnTrack
  BY DEF Init, LoadersOnTrack
<1>4. OnlyMasterKeyHeld /\ AuditedBeforeRelease
  BY DEF Init, OnlyMasterKeyHeld, AuditedBeforeRelease
<1>5. LoneReload /\ SettledPolicy
  BY DEF Init, LoneReload, SettledPolicy, Loaders, Contents
<1>6. QED
  BY <1>1, <1>2, <1>3, <1>4, <1>5 DEF IndInv

\* Every step of the daemon keeps the invariant.
LEMMA IndStep == IndInv /\ [Next]_vars => IndInv'
BY TypeStep, HandlersStep, LoadersStep, KeyStep, AuditStep, LoneStep, SettledStep DEF IndInv

\* Every reachable state of the daemon satisfies the inductive invariant.
THEOREM Invariance == Spec => []IndInv
BY IndInit, IndStep, PTL DEF Spec

\* Every reachable state of the daemon is well typed.
THEOREM TypeCorrect == Spec => []TypeOK
<1>1. IndInv => TypeOK
  BY DEF IndInv
<1>2. QED
  BY <1>1, Invariance, PTL

\* However unlock, lock and get handlers interleave, no password but the one
\* keepassxc-cli accepted is ever held by unlock or used by a get.
THEOREM MasterKeyOnly == Spec => []OnlyMasterKeyHeld
<1>1. IndInv => OnlyMasterKeyHeld
  BY DEF IndInv
<1>2. QED
  BY <1>1, Invariance, PTL

\* _handle_get releases no value before its record was appended or the append
\* failed, and the log records nothing but such releases.
THEOREM ReleasesAudited == Spec => []AuditedBeforeRelease
<1>1. IndInv => AuditedBeforeRelease
  BY DEF IndInv
<1>2. QED
  BY <1>1, Invariance, PTL

\* After a reload that ran alone, with the file untouched since it was read,
\* the allowlist in memory is the file's, however many entries both have.
THEOREM PolicySettles == Spec => []SettledPolicy
<1>1. IndInv => SettledPolicy
  BY DEF IndInv
<1>2. QED
  BY <1>1, Invariance, PTL

-----------------------------------------------------------------------------
(* The daemon implements CredentialService.                                 *)

\* A step of one handler leaves what the service shows of the others alone.
LEMMA OtherHandlers ==
  ASSUME NEW c \in Conns,
         \A d \in Conns \ {c} : /\ pc'[d] = pc[d] /\ reply'[d] = reply[d]
                               /\ req'[d] = req[d] /\ db'[d] = db[d]
  PROVE  \A d \in Conns \ {c} :
           Gate(d)' = Gate(d) /\ Holds(d)' = Holds(d) /\ GrantUsed(d)' = GrantUsed(d)
BY DEF Gate, Holds, GrantUsed

\* The grants in play depend on the table, the file and the running loads only.
LEMMA SamePolicy ==
  ASSUME UNCHANGED <<repos, allowFile, snap>>
  PROVE  UNCHANGED <<GrantsOf(Contents(allowFile)), GrantsInPlay>>
BY DEF GrantsOf, GrantsInPlay, Contents

\* An answer without a secret, from wherever a handler may give one.
LEMMA PlainAnswer ==
  ASSUME TypeOK, HandlersOnTrack, NEW c \in Conns,
         NEW what \in {"error", "internal", "ok"},
         Answer(c, what),
         pc[c] \notin {"idle", "replying", "closed", "dead"},
         UNCHANGED <<repos, allowFile, snap, req, db, audit, auditFailed>>
  PROVE  Service!Plain(c)
<1>1. \A d \in Conns \ {c} :
        Gate(d)' = Gate(d) /\ Holds(d)' = Holds(d) /\ GrantUsed(d)' = GrantUsed(d)
  BY OtherHandlers DEF TypeOK, Answer, Goto
<1>2. Gate(c) \in {"asked", "permitted", "authorized"}
  BY DEF TypeOK, PcValues, Gate
<1>3. pc'[c] = "replying" /\ reply'[c] = what
  BY DEF TypeOK, Answer, Goto
<1>4. Gate(c)' = "answered" /\ Holds(c)' = "plain" /\ GrantUsed(c)' = None
  BY <1>3 DEF Gate, Holds, GrantUsed
<1>5. UNCHANGED <<GrantsOf(Contents(allowFile)), GrantsInPlay>>
  BY SamePolicy
<1>6. QED
  BY <1>1, <1>2, <1>4, <1>5 DEF Service!Plain

\* A step inside one gate: the service sees nothing.
LEMMA Unseen ==
  ASSUME TypeOK, HandlersOnTrack, NEW c \in Conns, NEW l \in PcValues,
         Goto(c, l),
         \/ /\ pc[c] \in {"received", "validating", "reloading", "choosing"}
            /\ l \in {"validating", "validated", "loading", "choosing", "checking"}
         \/ pc[c] \in {"resolving", "showing"} /\ l \in {"showing", "shown"},
         \A d \in Conns : d # c \/ pc[c] \notin {"choosing"} => db'[d] = db[d],
         UNCHANGED <<dbPassword, repos, allowFile, reply, req, audit, auditFailed>>,
         UNCHANGED GrantsInPlay
  PROVE  UNCHANGED Service!avars
<1>1. \A d \in Conns \ {c} :
        Gate(d)' = Gate(d) /\ Holds(d)' = Holds(d) /\ GrantUsed(d)' = GrantUsed(d)
  BY OtherHandlers DEF TypeOK, Goto
<1>2. pc'[c] = l
  BY DEF TypeOK, Goto
<1>3. reply'[c] = reply[c] /\ reply[c] = "none"
  BY DEF HandlersOnTrack
<1>4. Gate(c)' = Gate(c) /\ Holds(c)' = Holds(c) /\ GrantUsed(c)' = GrantUsed(c)
  BY <1>2, <1>3 DEF Gate, Holds, GrantUsed
<1>5. UNCHANGED GrantsOf(Contents(allowFile))
  BY DEF GrantsOf, Contents
<1>6. QED
  BY <1>1, <1>4, <1>5 DEF Service!avars

\* The daemon starts as the service does.
LEMMA ServiceInit == Init => Service!AInit
<1> SUFFICES ASSUME Init PROVE Service!AInit
  OBVIOUS
<1>1. Contents(allowFile) = repos
  BY DEF Init, Contents
<1>2. \A c \in Conns : GrantsOf(snap[c]) = {}
  BY DEF Init, GrantsOf, EmptyTable, NoEntry
<1>3. GrantsInPlay = GrantsOf(Contents(allowFile))
  BY <1>1, <1>2 DEF GrantsInPlay
<1>4. GrantsOf(Contents(allowFile)) \in SUBSET (Repos \X DBs \X Paths)
  BY DEF GrantsOf
<1>5. \A c \in Conns : Gate(c) = "idle" /\ Holds(c) = "nothing" /\ GrantUsed(c) = None
  BY DEF Init, Gate, Holds, GrantUsed
<1>6. QED
  BY <1>3, <1>4, <1>5 DEF Init, Service!AInit, Service!Grants

\* A step of a handler is a step of the service or invisible to it.
LEMMA ServiceHandler ==
  ASSUME IndInv, IndInv', NEW c \in Conns, HandlerStep(c)
  PROVE  [Service!ANext]_(Service!avars)
<1> USE DEF IndInv
<1> SUFFICES Service!AStep(c) \/ Service!Forget \/ UNCHANGED Service!avars
  BY DEF Service!ANext
<1> USE DEF Service!AStep
<1>1. CASE RejectRequest(c)
  BY <1>1, PlainAnswer DEF RejectRequest, tableVars, getVars, auditVars, Service!Refuse
<1>2. CASE HandleStatus(c)
  BY <1>2, PlainAnswer DEF HandleStatus, Received, tableVars, getVars, auditVars, Service!Refuse
<1>3. CASE HandleLock(c)
  BY <1>3, PlainAnswer DEF HandleLock, Received, tableVars, getVars, auditVars, Service!Lock
<1>4. CASE RejectEmptyPassword(c)
  BY <1>4, PlainAnswer DEF RejectEmptyPassword, Received, tableVars, getVars, auditVars, Service!Refuse
<1>5. CASE BeginUnlock(c)
  BY <1>5, Unseen, SamePolicy DEF BeginUnlock, Received, PcValues, tableVars, getVars, auditVars
<1>6. CASE Validate(c)
  <2>1. CASE Goto(c, "validated") /\ UNCHANGED reply
    BY <1>6, <2>1, Unseen, SamePolicy DEF Validate, PcValues, tableVars, getVars, auditVars
  <2>2. CASE Answer(c, "error")
    BY <1>6, <2>2, PlainAnswer DEF Validate, tableVars, getVars, auditVars, Service!Refuse
  <2>3. QED
    BY <1>6, <2>1, <2>2 DEF Validate
<1>7. CASE StorePassword(c)
  <2>1. Service!Plain(c)
    BY <1>7, PlainAnswer DEF StorePassword, tableVars, getVars, auditVars
  <2>2. req[c].owner /\ req[c].op = "unlock" /\ req[c].password = MasterKey
    BY <1>7 DEF StorePassword, HandlersOnTrack, OnlyMasterKeyHeld
  <2>3. dbPassword' # None
    BY <1>7, <2>2 DEF StorePassword
  <2>4. QED
    BY <2>1, <2>2, <2>3 DEF Service!Unlock
<1>8. CASE AdminContext(c)
  <2>1. CASE dbPassword = None
    BY <1>8, <2>1, PlainAnswer DEF AdminContext, Received, tableVars, getVars, auditVars, Service!Refuse
  <2>2. CASE dbPassword # None
    <3>1. Answer(c, "context") /\ Gate(c) = "asked" /\ GrantUsed(c) = None
      BY <1>8, <2>2 DEF AdminContext, Received, Gate, GrantUsed, HandlersOnTrack
    <3>2. Gate(c)' = "answered" /\ Holds(c)' = "key" /\ GrantUsed(c)' = None
      BY <3>1 DEF Answer, Goto, TypeOK, Gate, Holds, GrantUsed
    <3>3. \A d \in Conns \ {c} :
            Gate(d)' = Gate(d) /\ Holds(d)' = Holds(d) /\ GrantUsed(d)' = GrantUsed(d)
      BY <1>8, <3>1, OtherHandlers DEF AdminContext, TypeOK, Answer, Goto, getVars
    <3>4. UNCHANGED <<GrantsOf(Contents(allowFile)), GrantsInPlay>>
      BY <1>8, SamePolicy DEF AdminContext, tableVars
    <3>5. QED
      BY <1>8, <2>2, <3>1, <3>2, <3>3, <3>4
         DEF AdminContext, Received, tableVars, getVars, auditVars, Service!HandKey
  <2>3. QED
    BY <2>1, <2>2
<1>9. CASE ReloadReset(c)
  <2>1. \A d \in Conns : Gate(d)' = Gate(d) /\ Holds(d)' = Holds(d) /\ GrantUsed(d)' = GrantUsed(d)
    BY <1>9 DEF ReloadReset, Received, Goto, TypeOK, getVars, Gate, Holds, GrantUsed
  <2>2. GrantsOf(EmptyTable) = {}
    BY DEF GrantsOf, EmptyTable, NoEntry
  <2>3. /\ UNCHANGED GrantsOf(Contents(allowFile))
        /\ GrantsInPlay' \in SUBSET GrantsInPlay
        /\ GrantsOf(Contents(allowFile)) \subseteq GrantsInPlay'
    BY <1>9, <2>2 DEF ReloadReset, GrantsInPlay, GrantsOf, Contents
  <2>4. QED
    BY <1>9, <2>1, <2>3 DEF ReloadReset, getVars, auditVars, Service!Forget
<1>10. CASE LoadRead(c)
  <2>1. CASE ~allowFile.readable
    BY <1>10, <2>1, PlainAnswer DEF LoadRead, getVars, auditVars, Service!Refuse
  <2>2. CASE allowFile.readable
    <3>1. GrantsOf(snap[c]) = {}
      BY <1>10 DEF LoadRead, LoadersOnTrack, GrantsOf, EmptyTable, NoEntry
    <3>2. GrantsOf(snap[c])' = GrantsOf(Contents(allowFile))
      BY <1>10, <2>2 DEF LoadRead, TypeOK, Contents, GrantsOf
    <3>3. \A d \in Conns \ {c} : GrantsOf(snap[d])' = GrantsOf(snap[d])
      BY <1>10, <2>2 DEF LoadRead, TypeOK, GrantsOf
    <3>4. GrantsOf(repos)' = GrantsOf(repos)
          /\ GrantsOf(Contents(allowFile))' = GrantsOf(Contents(allowFile))
      BY <1>10 DEF LoadRead, GrantsOf, Contents
    <3>5. UNCHANGED GrantsInPlay
      BY <3>1, <3>2, <3>3, <3>4 DEF GrantsInPlay
    <3>6. QED
      BY <1>10, <2>2, <3>5, Unseen DEF LoadRead, PcValues, getVars, auditVars
  <2>3. QED
    BY <2>1, <2>2
<1>11. CASE LoadBind(c)
  <2>1. UNCHANGED <<GrantsOf(Contents(allowFile)), GrantsInPlay>>
    BY <1>11, SamePolicy DEF LoadBind
  <2>2. \A d \in Conns : Gate(d)' = Gate(d) /\ Holds(d)' = Holds(d) /\ GrantUsed(d)' = GrantUsed(d)
    BY <1>11 DEF LoadBind, getVars, Gate, Holds, GrantUsed
  <2>3. QED
    BY <1>11, <2>1, <2>2 DEF LoadBind, getVars, auditVars, Service!avars
<1>12. CASE LoadStore(c)
  <2>1. \A d \in Conns : Gate(d)' = Gate(d) /\ Holds(d)' = Holds(d) /\ GrantUsed(d)' = GrantUsed(d)
    BY <1>12 DEF LoadStore, getVars, Gate, Holds, GrantUsed
  <2>2. UNCHANGED GrantsOf(Contents(allowFile))
    BY <1>12 DEF LoadStore, GrantsOf, Contents
  <2>3. GrantsOf(repos)' \subseteq GrantsOf(repos) \cup GrantsOf(snap[c])
    BY <1>12 DEF LoadStore, GrantsOf, TypeOK, Tables
  <2>4. \A d \in Conns : GrantsOf(snap[d])' \subseteq GrantsOf(snap[d])
    BY <1>12 DEF LoadStore, GrantsOf, TypeOK, Tables, NoEntry
  <2>5. GrantsInPlay' \in SUBSET GrantsInPlay
    BY <2>2, <2>3, <2>4 DEF GrantsInPlay
  <2>6. GrantsOf(Contents(allowFile)) \subseteq GrantsInPlay'
    BY <2>2 DEF GrantsInPlay
  <2>7. QED
    BY <1>12, <2>1, <2>2, <2>5, <2>6 DEF LoadStore, getVars, auditVars, Service!Forget
<1>13. CASE LoadDone(c)
  BY <1>13, PlainAnswer DEF LoadDone, tableVars, getVars, auditVars, Service!Refuse
<1>14. CASE RefuseGet(c)
  BY <1>14, PlainAnswer DEF RefuseGet, Received, tableVars, getVars, auditVars, Service!Refuse
<1>15. CASE BeginGet(c)
  BY <1>15, Unseen, SamePolicy DEF BeginGet, Received, PcValues, tableVars, getVars, auditVars
<1>16. CASE ChooseDb(c)
  <2>1. CASE DbFor(c) = None
    BY <1>16, <2>1, PlainAnswer DEF ChooseDb, tableVars, auditVars, Service!Refuse
  <2>2. CASE DbFor(c) # None
    <3>1. \A d \in Conns \ {c} : db'[d] = db[d]
      BY <1>16, <2>2 DEF ChooseDb, TypeOK
    <3>2. QED
      BY <1>16, <2>2, <3>1, Unseen, SamePolicy DEF ChooseDb, PcValues, tableVars, auditVars
  <2>3. QED
    BY <2>1, <2>2
<1>17. CASE CheckPermitted(c)
  <2>1. CASE ~Permitted(c)
    BY <1>17, <2>1, PlainAnswer DEF CheckPermitted, tableVars, getVars, auditVars, Service!Refuse
  <2>2. CASE Permitted(c)
    <3> DEFINE g == <<req[c].repo, db[c], req[c].path>>
    <3>1. /\ req[c].owner /\ req[c].op = "get" /\ req[c].repo \in Repos
          /\ req[c].path \in Paths /\ db[c] \in DBs /\ req[c].db \in {None, db[c]}
      BY <1>17 DEF CheckPermitted, HandlersOnTrack, GetSteps, DecidedSteps
    <3>2. g \in GrantsInPlay /\ Service!Covers(g, c)
      BY <2>2, <3>1 DEF Permitted, GrantsOf, GrantsInPlay, Service!Covers
    <3>3. Gate(c) = "asked" /\ Gate(c)' = "permitted" /\ Holds(c)' = Holds(c) /\ GrantUsed(c)' = g
      BY <1>17, <2>2 DEF CheckPermitted, Goto, TypeOK, Gate, Holds, GrantUsed, getVars
    <3>4. \A d \in Conns \ {c} :
            Gate(d)' = Gate(d) /\ Holds(d)' = Holds(d) /\ GrantUsed(d)' = GrantUsed(d)
      BY <1>17, <2>2, OtherHandlers DEF CheckPermitted, TypeOK, Goto, getVars
    <3>5. UNCHANGED <<GrantsOf(Contents(allowFile)), GrantsInPlay>>
      BY <1>17, SamePolicy DEF CheckPermitted, tableVars
    <3>6. Service!Permit(c)
      BY <1>17, <3>1, <3>2, <3>3, <3>4, <3>5 DEF CheckPermitted, getVars, auditVars, Service!Permit
    <3>7. QED
      BY <3>6
  <2>3. QED
    BY <2>1, <2>2
<1>18. CASE SnapshotPassword(c)
  <2>1. CASE dbPassword = None
    BY <1>18, <2>1, PlainAnswer DEF SnapshotPassword, tableVars, auditVars, Service!Refuse
  <2>2. CASE dbPassword # None
    <3>1. pc'[c] \in {"showing", "resolving"}
      BY <1>18, <2>2 DEF SnapshotPassword, Goto, TypeOK
    <3>2. /\ Gate(c) = "permitted" /\ Gate(c)' = "authorized"
          /\ Holds(c)' = Holds(c) /\ GrantUsed(c)' = GrantUsed(c)
      BY <1>18, <2>2, <3>1 DEF SnapshotPassword, Gate, Holds, GrantUsed
    <3>3. \A d \in Conns \ {c} :
            Gate(d)' = Gate(d) /\ Holds(d)' = Holds(d) /\ GrantUsed(d)' = GrantUsed(d)
      BY <1>18, <2>2, OtherHandlers DEF SnapshotPassword, TypeOK, Goto
    <3>4. UNCHANGED <<GrantsOf(Contents(allowFile)), GrantsInPlay>>
      BY <1>18, SamePolicy DEF SnapshotPassword, tableVars
    <3>5. Service!Authorize(c)
      BY <1>18, <2>2, <3>2, <3>3, <3>4 DEF SnapshotPassword, auditVars, Service!Authorize
    <3>6. QED
      BY <3>5
  <2>3. QED
    BY <2>1, <2>2
<1>19. CASE ResolveSubVault(c)
  <2>1. CASE Goto(c, "showing") /\ UNCHANGED reply
    BY <1>19, <2>1, Unseen, SamePolicy DEF ResolveSubVault, PcValues, tableVars, auditVars
  <2>2. CASE Answer(c, "error")
    BY <1>19, <2>2, PlainAnswer DEF ResolveSubVault, tableVars, auditVars, Service!Refuse
  <2>3. QED
    BY <1>19, <2>1, <2>2 DEF ResolveSubVault
<1>20. CASE ShowEntry(c)
  <2>1. CASE Goto(c, "shown") /\ UNCHANGED reply
    BY <1>20, <2>1, Unseen, SamePolicy DEF ShowEntry, PcValues, tableVars, auditVars
  <2>2. CASE Answer(c, "error")
    BY <1>20, <2>2, PlainAnswer DEF ShowEntry, tableVars, auditVars, Service!Refuse
  <2>3. QED
    BY <1>20, <2>1, <2>2 DEF ShowEntry
<1>21. CASE AppendAudit(c)
  <2> DEFINE g == <<req[c].repo, db[c], req[c].path>>
             Entry(a) == <<a.conn, <<a.repo, a.db, a.path>>>>
             Ledger == {Entry(a) : a \in audit}
  <2>1. Gate(c) = "authorized" /\ GrantUsed(c) = g
    BY <1>21 DEF AppendAudit, Gate, GrantUsed
  <2>2. Gate(c)' = "answered" /\ Holds(c)' = "secret" /\ GrantUsed(c)' = g
    BY <1>21 DEF AppendAudit, Answer, Goto, TypeOK, Gate, Holds, GrantUsed, getVars
  <2>3. \A d \in Conns \ {c} :
          Gate(d)' = Gate(d) /\ Holds(d)' = Holds(d) /\ GrantUsed(d)' = GrantUsed(d)
    BY <1>21, OtherHandlers DEF AppendAudit, Answer, TypeOK, Goto, getVars
  <2>4. UNCHANGED <<GrantsOf(Contents(allowFile)), GrantsInPlay>>
    BY <1>21, SamePolicy DEF AppendAudit, tableVars
  <2>5. audit' = audit \cup {AuditRecord(c)} => Ledger' = Ledger \cup {<<c, g>>}
    <3>1. Entry(AuditRecord(c)) = <<c, g>>
      BY DEF AuditRecord
    <3> HIDE DEF Entry
    <3>2. {Entry(a) : a \in audit \cup {AuditRecord(c)}} = Ledger \cup {Entry(AuditRecord(c))}
      OBVIOUS
    <3>3. SUFFICES ASSUME audit' = audit \cup {AuditRecord(c)}
                   PROVE  Ledger' = Ledger \cup {<<c, g>>}
      OBVIOUS
    <3>4. Ledger' = {Entry(a) : a \in audit'}
      BY DEF Entry
    <3>5. QED
      BY <3>1, <3>2, <3>3, <3>4
  <2>6. \/ Ledger' = Ledger \cup {<<c, g>>} /\ UNCHANGED auditFailed
        \/ auditFailed' = auditFailed \cup {c} /\ Ledger' = Ledger
    BY <1>21, <2>5 DEF AppendAudit
  <2>7. Service!Release(c)
    BY <1>21, <2>1, <2>2, <2>3, <2>4, <2>6 DEF AppendAudit, Service!Release
  <2>8. QED
    BY <2>7
<1>22. CASE SendReply(c)
  <2>1. Gate(c) = "answered" /\ Gate(c)' = "closed"
    BY <1>22 DEF SendReply, Goto, TypeOK, Gate
  <2>2. \A d \in Conns \ {c} :
          Gate(d)' = Gate(d) /\ Holds(d)' = Holds(d) /\ GrantUsed(d)' = GrantUsed(d)
    BY <1>22, OtherHandlers DEF SendReply, TypeOK, Goto, getVars
  <2>3. \/ Holds(c)' = Holds(c) /\ GrantUsed(c)' = GrantUsed(c)
        \/ Holds(c)' = "nothing" /\ GrantUsed(c)' = None
    BY <1>22 DEF SendReply, TypeOK, Goto, Holds, GrantUsed, getVars
  <2>4. UNCHANGED <<GrantsOf(Contents(allowFile)), GrantsInPlay>>
    BY <1>22, SamePolicy DEF SendReply, tableVars
  <2>5. Service!Deliver(c)
    BY <1>22, <2>1, <2>2, <2>3, <2>4 DEF SendReply, auditVars, Service!Deliver
  <2>6. QED
    BY <2>5
<1>23. QED
  BY <1>1, <1>2, <1>3, <1>4, <1>5, <1>6, <1>7, <1>8, <1>9, <1>10, <1>11, <1>12,
     <1>13, <1>14, <1>15, <1>16, <1>17, <1>18, <1>19, <1>20, <1>21, <1>22 DEF HandlerStep

\* So is every step of the daemon, its callers and the user's editor.
LEMMA ServiceStep ==
  IndInv /\ IndInv' /\ [Next]_vars => [Service!ANext]_(Service!avars)
<1> SUFFICES ASSUME IndInv, IndInv', [Next]_vars
             PROVE  [Service!ANext]_(Service!avars)
  OBVIOUS
<1> USE DEF IndInv
<1>1. ASSUME NEW c \in Conns, HandlerStep(c) PROVE [Service!ANext]_(Service!avars)
  BY <1>1, ServiceHandler
<1>2. ASSUME NEW c \in Conns, Connect(c) PROVE Service!Ask(c)
  <2>1. reply[c] = "none" /\ reply' = reply /\ pc'[c] = "received"
    BY <1>2 DEF Connect, HandlersOnTrack, Goto, TypeOK
  <2>2. /\ Gate(c) = "idle" /\ Gate(c)' = "asked" /\ Holds(c)' = Holds(c)
        /\ GrantUsed(c)' = GrantUsed(c)
    BY <1>2, <2>1 DEF Connect, Gate, Holds, GrantUsed
  <2>3. \A d \in Conns \ {c} :
          Gate(d)' = Gate(d) /\ Holds(d)' = Holds(d) /\ GrantUsed(d)' = GrantUsed(d)
    BY <1>2, OtherHandlers DEF Connect, TypeOK, Goto, getVars
  <2>4. UNCHANGED <<GrantsOf(Contents(allowFile)), GrantsInPlay>>
    BY <1>2, SamePolicy DEF Connect, tableVars
  <2>5. QED
    BY <1>2, <2>2, <2>3, <2>4 DEF Connect, auditVars, Service!Ask
<1>3. ASSUME EditAllowlist PROVE Service!Edit
  <2>1. \A c \in Conns : Gate(c)' = Gate(c) /\ Holds(c)' = Holds(c) /\ GrantUsed(c)' = GrantUsed(c)
    BY <1>3 DEF EditAllowlist, getVars, Gate, Holds, GrantUsed
  <2>2. GrantsOf(Contents(allowFile))' \in SUBSET Service!Grants
    BY DEF GrantsOf, Service!Grants
  <2>3. UNCHANGED GrantsOf(repos) /\ \A c \in Conns : UNCHANGED GrantsOf(snap[c])
    BY <1>3 DEF EditAllowlist, tableVars, GrantsOf
  <2>4. /\ GrantsInPlay' \in SUBSET (GrantsInPlay \cup GrantsOf(Contents(allowFile))')
        /\ GrantsOf(Contents(allowFile))' \subseteq GrantsInPlay'
    BY <2>3 DEF GrantsInPlay
  <2>5. QED
    BY <1>3, <2>1, <2>2, <2>4 DEF EditAllowlist, getVars, auditVars, Service!Edit
<1>4. ASSUME Shutdown PROVE Service!Close
  <2>1. \A c \in Conns : Gate(c)' = Gate(c) /\ Holds(c)' = Holds(c) /\ GrantUsed(c)' = GrantUsed(c)
    BY <1>4 DEF Shutdown, getVars, Gate, Holds, GrantUsed
  <2>2. UNCHANGED <<GrantsOf(Contents(allowFile)), GrantsInPlay>>
    BY <1>4, SamePolicy DEF Shutdown, tableVars
  <2>3. QED
    BY <1>4, <2>1, <2>2 DEF Shutdown, auditVars, Service!Close
<1>5. ASSUME EndProcess PROVE Service!Stop
  <2>1. \A c \in Conns :
          /\ Gate(c)' = IF Gate(c) \in {"idle", "closed"} THEN Gate(c) ELSE "dropped"
          /\ Holds(c)' = IF Gate(c)' = "dropped" THEN "nothing" ELSE Holds(c)
          /\ GrantUsed(c)' = IF Gate(c)' = "dropped" THEN None ELSE GrantUsed(c)
    BY <1>5 DEF EndProcess, TypeOK, HandlersOnTrack, PcValues, Quiet, Gate, Holds, GrantUsed
  <2>2. GrantsOf(repos)' = {} /\ \A c \in Conns : GrantsOf(snap[c])' = {}
    BY <1>5 DEF EndProcess, GrantsOf, EmptyTable, NoEntry
  <2>3. UNCHANGED GrantsOf(Contents(allowFile))
    BY <1>5 DEF EndProcess, GrantsOf, Contents
  <2>4. GrantsInPlay' = GrantsOf(Contents(allowFile))
    BY <2>2, <2>3 DEF GrantsInPlay
  <2>5. QED
    BY <1>5, <2>1, <2>3, <2>4 DEF EndProcess, auditVars, Service!Stop
<1>6. ASSUME Start PROVE Service!Forget
  <2>1. \A c \in Conns : Gate(c)' = Gate(c) /\ Holds(c)' = Holds(c) /\ GrantUsed(c)' = GrantUsed(c)
    BY <1>6 DEF Start, getVars, Gate, Holds, GrantUsed
  <2>2. UNCHANGED GrantsOf(Contents(allowFile)) /\ \A c \in Conns : UNCHANGED GrantsOf(snap[c])
    BY <1>6 DEF Start, GrantsOf, Contents
  <2>3. GrantsOf(repos)' = GrantsOf(Contents(allowFile))
    BY <1>6 DEF Start, Contents, GrantsOf
  <2>4. /\ GrantsInPlay' \in SUBSET GrantsInPlay
        /\ GrantsOf(Contents(allowFile)) \subseteq GrantsInPlay'
    BY <2>2, <2>3 DEF GrantsInPlay
  <2>5. QED
    BY <1>6, <2>1, <2>2, <2>4 DEF Start, getVars, auditVars, Service!Forget
<1>7. ASSUME UNCHANGED vars PROVE UNCHANGED Service!avars
  <2>1. \A c \in Conns : Gate(c)' = Gate(c) /\ Holds(c)' = Holds(c) /\ GrantUsed(c)' = GrantUsed(c)
    BY <1>7 DEF vars, getVars, Gate, Holds, GrantUsed
  <2>2. UNCHANGED <<GrantsOf(Contents(allowFile)), GrantsInPlay>>
    BY <1>7, SamePolicy DEF vars, tableVars
  <2>3. QED
    BY <1>7, <2>1, <2>2 DEF vars, auditVars, Service!avars
<1>8. QED
  BY <1>1, <1>2, <1>3, <1>4, <1>5, <1>6, <1>7
     DEF Next, Exit, Crash, Service!ANext, Service!AStep

\* Every behaviour of the daemon is one CredentialService allows: a value is
\* released only after a grant in play, an unlocked vault and an audit attempt,
\* whatever the interleaving of handlers, reloads, edits, crashes and restarts.
THEOREM DaemonImplementsService == Spec => ImplementsService
<1>1. Init => Service!AInit
  BY ServiceInit
<1>2. IndInv /\ IndInv' /\ [Next]_vars => [Service!ANext]_(Service!avars)
  BY ServiceStep
<1>3. QED
  BY <1>1, <1>2, Invariance, PTL DEF Spec, ImplementsService, Service!ASpec
=============================================================================
