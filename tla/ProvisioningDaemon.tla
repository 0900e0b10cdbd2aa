------------------------ MODULE ProvisioningDaemon ------------------------
(***************************************************************************)
(* The provisioning daemon: a Unix-socket server that answers one request  *)
(* per connection, each connection in a thread of its own                  *)
(* (server.py), with the allowlist those threads share (allowlist.py).     *)
(*                                                                         *)
(* The only lock protects the stored master password, for the instant of   *)
(* one read or one write.  Every point where a handler may be overtaken by *)
(* another thread is a program counter value; an action is what happens    *)
(* between two such points.  keepassxc-cli is a child process: each call   *)
(* is a step of its own that may fail.                                     *)
(***************************************************************************)
EXTENDS Naturals, FiniteSets

CONSTANTS
  Conns,      \* connections; each carries one request
  Repos,      \* repositories the callers may belong to
  DBs,        \* database aliases of the index
  Master,     \* the alias of the master vault
  Paths,      \* entry paths
  Passwords,  \* passwords a caller may present
  MasterKey,  \* the password that opens the master vault
  None,       \* the absent or empty value
  Requests,   \* the requests callers send
  Files       \* the contents the allowlist file may have

Ops == {"status", "reload", "lock", "unlock", "get", "admin_context"}

\* An entry of the allowlist as is_permitted and repo_default_db read it: the
\* database used when the request names none, and the pairs of database and
\* path the globs match.  A repository without an entry has NoEntry.
Entries == [default : DBs \cup {None}, grants : SUBSET (DBs \X Paths)]
NoEntry == [default |-> None, grants |-> {}]
Tables == [Repos -> Entries]
EmptyTable == [r \in Repos |-> NoEntry]

\* A request.  op is outside Ops for an unknown operation and for text that is
\* not JSON; owner says whether the peer's uid is the daemon's; repo is the
\* repository of the peer's working directory.
RequestRecords ==
  [op : Ops \cup {"unknown"}, owner : BOOLEAN, password : Passwords \cup {None},
   repo : Repos \cup {None}, db : DBs \cup {None}, path : Paths \cup {None}]
NoRequest ==
  [op |-> "unknown", owner |-> FALSE, password |-> None,
   repo |-> None, db |-> None, path |-> None]

\* The domains of the constants.  Files holds what a load may find: a file that
\* does not exist or is cut short before its first table reads as EmptyTable,
\* malformed TOML is not readable.
ASSUME ConstantsAssumption ==
  /\ Master \in DBs
  /\ MasterKey \in Passwords
  /\ None \notin Passwords \cup Repos \cup DBs \cup Paths
  /\ Requests \subseteq RequestRecords
  /\ Files \subseteq [readable : BOOLEAN, table : Tables]

VARIABLES
  phase,       \* "down", "up" or "stopping" (between the signal and the exit)
  dbPassword,  \* the master password in memory, or None while locked
  repos,       \* the allowlist in memory
  allowFile,   \* the allowlist on disk
  pc,          \* where each connection's handler stands
  req,         \* the request of each connection
  db,          \* the database a get was decided for
  pw,          \* the copy of the master password a get works with
  snap,        \* the entries a reload has read and not yet stored
  bound,       \* the repository whose entry a reload is about to store
  orphans,     \* the reloads about to store into a table no longer in use
  reply,       \* what the answer carries
  audit,       \* the audit log
  auditFailed, \* the connections whose audit record could not be written
  alone,       \* history: no reload ran beside the latest one
  edited       \* history: the file changed after it was last read

tableVars == <<repos, snap, bound, orphans, alone>>
getVars == <<db, pw>>
auditVars == <<audit, auditFailed>>
vars == <<phase, dbPassword, allowFile, pc, req, reply, edited,
          tableVars, getVars, auditVars>>

-----------------------------------------------------------------------------
PcValues ==
  {"idle",        \* not connected            -> Connect
   "received",    \* request read             -> dispatch by op
   "validating",  \* unlock: CLI is running   -> Validate
   "validated",   \* unlock: CLI accepted     -> StorePassword
   "reloading",   \* reload: table emptied    -> LoadRead
   "loading",     \* reload: storing entries  -> LoadBind, LoadStore, LoadDone
   "choosing",    \* get: choose the database -> ChooseDb
   "checking",    \* get: ask the allowlist   -> CheckPermitted
   "permitted",   \* get: copy the password   -> SnapshotPassword
   "resolving",   \* get: sub-vault password  -> ResolveSubVault
   "showing",     \* get: CLI is running      -> ShowEntry
   "shown",       \* get: value in hand       -> AppendAudit
   "replying",    \* answer ready             -> SendReply
   "closed",      \* connection closed
   "dead"}        \* cut off by the end of the process

Replies == {"none", "error", "internal", "ok", "value", "context", "lost"}

\* Finished connections and connections that never started.
Quiet == {"idle", "closed", "dead"}

Loaders == {c \in Conns : pc[c] \in {"reloading", "loading"}}

\* What a load of the file would put in memory.
Contents(file) == IF file.readable THEN file.table ELSE EmptyTable

\* Mutant of AuditRecord: the record does not say which vault was read.
AuditRecordWithoutVault(c) == [conn |-> c, repo |-> req[c].repo, path |-> req[c].path]

AuditRecord(c) == [conn |-> c, repo |-> req[c].repo, db |-> db[c], path |-> req[c].path]

\* Type correctness of the whole state.
TypeOK ==
  /\ phase \in {"down", "up", "stopping"}
  /\ dbPassword \in Passwords \cup {None}
  /\ repos \in Tables
  /\ allowFile \in Files
  /\ pc \in [Conns -> PcValues]
  /\ req \in [Conns -> Requests \cup {NoRequest}]
  /\ db \in [Conns -> DBs \cup {None}]
  /\ pw \in [Conns -> Passwords \cup {None}]
  /\ snap \in [Conns -> Tables]
  /\ bound \in [Conns -> Repos \cup {None}]
  /\ orphans \in SUBSET Conns
  /\ reply \in [Conns -> Replies]
  /\ audit \in SUBSET [conn : Conns, repo : Repos \cup {None},
                       db : DBs \cup {None}, path : Paths \cup {None}]
  /\ auditFailed \in SUBSET Conns
  /\ alone \in BOOLEAN
  /\ edited \in BOOLEAN

\* The constructor loads the allowlist and the daemon starts locked.
Init ==
  /\ phase = "up"
  /\ dbPassword = None
  /\ allowFile \in {f \in Files : f.readable}
  /\ repos = allowFile.table
  /\ pc = [c \in Conns |-> "idle"]
  /\ req = [c \in Conns |-> NoRequest]
  /\ db = [c \in Conns |-> None]
  /\ pw = [c \in Conns |-> None]
  /\ snap = [c \in Conns |-> EmptyTable]
  /\ bound = [c \in Conns |-> None]
  /\ orphans = {}
  /\ reply = [c \in Conns |-> "none"]
  /\ audit = {}
  /\ auditFailed = {}
  /\ alone = TRUE
  /\ edited = FALSE

-----------------------------------------------------------------------------
(* Steps shared by the handlers.                                            *)

Goto(c, label) == pc' = [pc EXCEPT ![c] = label]

Answer(c, what) ==
  /\ Goto(c, "replying")
  /\ reply' = [reply EXCEPT ![c] = what]

\* The dispatcher has a request of the owner for this operation.
Received(c, op) ==
  /\ pc[c] = "received"
  /\ req[c].owner
  /\ req[c].op = op

-----------------------------------------------------------------------------
(* The outside: callers and the user's editor.                              *)

\* A caller connects and sends its request.
Connect(c) ==
  /\ phase = "up"
  /\ pc[c] = "idle"
  /\ \E q \in Requests : req' = [req EXCEPT ![c] = q]
  /\ Goto(c, "received")
  /\ UNCHANGED <<phase, dbPassword, allowFile, reply, edited, tableVars, getVars, auditVars>>

\* The user, the web console or an editor rewrites the allowlist file.
EditAllowlist ==
  /\ allowFile' \in Files \ {allowFile}
  /\ edited' = TRUE
  /\ UNCHANGED <<phase, dbPassword, pc, req, reply, tableVars, getVars, auditVars>>

-----------------------------------------------------------------------------
(* handle_request: status, lock, unlock, admin_context.                     *)

\* Another user's process, an unknown operation, or text that is not JSON.
RejectRequest(c) ==
  /\ pc[c] = "received"
  /\ ~req[c].owner \/ req[c].op \notin Ops
  /\ Answer(c, "error")
  /\ UNCHANGED <<phase, dbPassword, allowFile, req, edited, tableVars, getVars, auditVars>>

HandleStatus(c) ==
  /\ Received(c, "status")
  /\ Answer(c, "ok")
  /\ UNCHANGED <<phase, dbPassword, allowFile, req, edited, tableVars, getVars, auditVars>>

HandleLock(c) ==
  /\ Received(c, "lock")
  /\ dbPassword' = None
  /\ Answer(c, "ok")
  /\ UNCHANGED <<phase, allowFile, req, edited, tableVars, getVars, auditVars>>

RejectEmptyPassword(c) ==
  /\ Received(c, "unlock")
  /\ req[c].password = None
  /\ Answer(c, "error")
  /\ UNCHANGED <<phase, dbPassword, allowFile, req, edited, tableVars, getVars, auditVars>>

\* Mutant of BeginUnlock: the password is stored first and validated then.
BeginUnlockStoring(c) ==
  /\ Received(c, "unlock")
  /\ req[c].password # None
  /\ dbPassword' = req[c].password
  /\ Goto(c, "validating")
  /\ UNCHANGED <<phase, allowFile, req, reply, edited, tableVars, getVars, auditVars>>

BeginUnlock(c) ==
  /\ Received(c, "unlock")
  /\ req[c].password # None
  /\ Goto(c, "validating")
  /\ UNCHANGED <<phase, dbPassword, allowFile, req, reply, edited, tableVars, getVars, auditVars>>

\* The CLI accepts the master password only; it may also time out on it.
Validate(c) ==
  /\ pc[c] = "validating"
  /\ \/ /\ req[c].password = MasterKey
        /\ Goto(c, "validated")
        /\ UNCHANGED reply
     \/ Answer(c, "error")
  /\ UNCHANGED <<phase, dbPassword, allowFile, req, edited, tableVars, getVars, auditVars>>

StorePassword(c) ==
  /\ pc[c] = "validated"
  /\ dbPassword' = req[c].password
  /\ Answer(c, "ok")
  /\ UNCHANGED <<phase, allowFile, req, edited, tableVars, getVars, auditVars>>

AdminContext(c) ==
  /\ Received(c, "admin_context")
  /\ Answer(c, IF dbPassword = None THEN "error" ELSE "context")
  /\ UNCHANGED <<phase, dbPassword, allowFile, req, edited, tableVars, getVars, auditVars>>

-----------------------------------------------------------------------------
(* reload: the table is replaced by an empty one, the file is read, and the *)
(* entries are stored one by one into whatever table is current then.       *)

\* Mutant of ReloadReset: the file is loaded over the old table.
ReloadResetMerging(c) ==
  /\ Received(c, "reload")
  /\ alone' = (Loaders = {})
  /\ Goto(c, "reloading")
  /\ UNCHANGED <<phase, dbPassword, allowFile, req, reply, edited,
                 repos, snap, bound, orphans, getVars, auditVars>>

\* A reload that had fetched the old table for its next store is left with it.
ReloadReset(c) ==
  /\ Received(c, "reload")
  /\ repos' = EmptyTable
  /\ orphans' = orphans \cup {d \in Conns : bound[d] # None}
  /\ alone' = (Loaders = {})
  /\ Goto(c, "reloading")
  /\ UNCHANGED <<phase, dbPassword, allowFile, req, reply, edited, snap, bound, getVars, auditVars>>

\* Mutant of LoadRead: nobody catches the exception malformed TOML raises.
LoadReadUncaught(c) ==
  /\ pc[c] = "reloading"
  /\ allowFile.readable
  /\ edited' = FALSE
  /\ snap' = [snap EXCEPT ![c] = allowFile.table]
  /\ Goto(c, "loading")
  /\ UNCHANGED <<phase, dbPassword, allowFile, req, reply, repos, bound, orphans, alone,
                 getVars, auditVars>>

LoadRead(c) ==
  /\ pc[c] = "reloading"
  /\ edited' = FALSE
  /\ \/ /\ allowFile.readable
        /\ snap' = [snap EXCEPT ![c] = allowFile.table]
        /\ Goto(c, "loading")
        /\ UNCHANGED reply
     \/ /\ ~allowFile.readable
        /\ Answer(c, "internal")
        /\ UNCHANGED snap
  /\ UNCHANGED <<phase, dbPassword, allowFile, req, repos, bound, orphans, alone, getVars, auditVars>>

\* The store fetches self._repos before it converts the key and stores.
LoadBind(c) ==
  /\ pc[c] = "loading"
  /\ bound[c] = None
  /\ \E r \in Repos :
       /\ snap[c][r] # NoEntry
       /\ bound' = [bound EXCEPT ![c] = r]
  /\ UNCHANGED <<phase, dbPassword, allowFile, pc, req, reply, edited,
                 repos, snap, orphans, alone, getVars, auditVars>>

LoadStore(c) ==
  /\ pc[c] = "loading"
  /\ bound[c] # None
  /\ repos' = IF c \in orphans THEN repos
              ELSE [repos EXCEPT ![bound[c]] = snap[c][bound[c]]]
  /\ snap' = [snap EXCEPT ![c] = [@ EXCEPT ![bound[c]] = NoEntry]]
  /\ bound' = [bound EXCEPT ![c] = None]
  /\ orphans' = orphans \ {c}
  /\ UNCHANGED <<phase, dbPassword, allowFile, pc, req, reply, edited, alone, getVars, auditVars>>

LoadDone(c) ==
  /\ pc[c] = "loading"
  /\ bound[c] = None
  /\ snap[c] = EmptyTable
  /\ Answer(c, "ok")
  /\ UNCHANGED <<phase, dbPassword, allowFile, req, edited, tableVars, getVars, auditVars>>

-----------------------------------------------------------------------------
(* _handle_get                                                              *)

RefuseGet(c) ==
  /\ Received(c, "get")
  /\ dbPassword = None \/ req[c].path = None \/ req[c].repo = None
  /\ Answer(c, "error")
  /\ UNCHANGED <<phase, dbPassword, allowFile, req, edited, tableVars, getVars, auditVars>>

BeginGet(c) ==
  /\ Received(c, "get")
  /\ dbPassword # None
  /\ req[c].path # None
  /\ req[c].repo # None
  /\ Goto(c, "choosing")
  /\ UNCHANGED <<phase, dbPassword, allowFile, req, reply, edited, tableVars, getVars, auditVars>>

\* The database of the request, or else the default of the repository's entry.
DbFor(c) == IF req[c].db # None THEN req[c].db ELSE repos[req[c].repo].default

ChooseDb(c) ==
  /\ pc[c] = "choosing"
  /\ \/ /\ DbFor(c) # None
        /\ db' = [db EXCEPT ![c] = DbFor(c)]
        /\ Goto(c, "checking")
        /\ UNCHANGED reply
     \/ /\ DbFor(c) = None
        /\ Answer(c, "error")
        /\ UNCHANGED db
  /\ UNCHANGED <<phase, dbPassword, allowFile, req, edited, pw, tableVars, auditVars>>

\* Mutant of Permitted: a grant of any repository will do.
PermittedToAnyone(c) == \E r \in Repos : <<db[c], req[c].path>> \in repos[r].grants

Permitted(c) == <<db[c], req[c].path>> \in repos[req[c].repo].grants

CheckPermitted(c) ==
  /\ pc[c] = "checking"
  /\ \/ /\ Permitted(c)
        /\ Goto(c, "permitted")
        /\ UNCHANGED reply
     \/ /\ ~Permitted(c)
        /\ Answer(c, "error")
  /\ UNCHANGED <<phase, dbPassword, allowFile, req, edited, tableVars, getVars, auditVars>>

\* The daemon may have been locked since BeginGet looked.
SnapshotPassword(c) ==
  /\ pc[c] = "permitted"
  /\ \/ /\ dbPassword # None
        /\ pw' = [pw EXCEPT ![c] = dbPassword]
        /\ Goto(c, IF db[c] = Master THEN "showing" ELSE "resolving")
        /\ UNCHANGED reply
     \/ /\ dbPassword = None
        /\ Answer(c, "error")
        /\ UNCHANGED pw
  /\ UNCHANGED <<phase, dbPassword, allowFile, req, edited, db, tableVars, auditVars>>

\* The index and the master vault give the password of a sub-vault, or an error.
ResolveSubVault(c) ==
  /\ pc[c] = "resolving"
  /\ \/ /\ pw[c] = MasterKey
        /\ Goto(c, "showing")
        /\ UNCHANGED <<reply, pw>>
     \/ /\ Answer(c, "error")
        /\ pw' = [pw EXCEPT ![c] = None]
  /\ UNCHANGED <<phase, dbPassword, allowFile, req, edited, db, tableVars, auditVars>>

\* Mutant of ShowEntry: the value is answered before the record is appended.
ShowEntryAnswering(c) ==
  /\ pc[c] = "showing"
  /\ IF pw[c] = MasterKey THEN Answer(c, "value") ELSE Answer(c, "error")
  /\ pw' = [pw EXCEPT ![c] = None]
  /\ UNCHANGED <<phase, dbPassword, allowFile, req, edited, db, tableVars, auditVars>>

ShowEntry(c) ==
  /\ pc[c] = "showing"
  /\ \/ /\ pw[c] = MasterKey
        /\ Goto(c, "shown")
        /\ UNCHANGED reply
     \/ Answer(c, "error")
  /\ pw' = [pw EXCEPT ![c] = None]
  /\ UNCHANGED <<phase, dbPassword, allowFile, req, edited, db, tableVars, auditVars>>

\* An OSError of the append is swallowed.
AppendAudit(c) ==
  /\ pc[c] = "shown"
  /\ \/ /\ audit' = audit \cup {AuditRecord(c)}
        /\ UNCHANGED auditFailed
     \/ /\ auditFailed' = auditFailed \cup {c}
        /\ UNCHANGED audit
  /\ Answer(c, "value")
  /\ UNCHANGED <<phase, dbPassword, allowFile, req, edited, tableVars, getVars>>

-----------------------------------------------------------------------------
(* The connection and the process.                                          *)

\* The caller may be gone when the answer is sent.
SendReply(c) ==
  /\ pc[c] = "replying"
  /\ Goto(c, "closed")
  /\ reply' \in {reply, [reply EXCEPT ![c] = "lost"]}
  /\ UNCHANGED <<phase, dbPassword, allowFile, req, edited, tableVars, getVars, auditVars>>

\* SIGTERM or SIGINT: lock, close the socket, leave the accept loop.
Shutdown ==
  /\ phase = "up"
  /\ phase' = "stopping"
  /\ dbPassword' = None
  /\ UNCHANGED <<allowFile, pc, req, reply, edited, tableVars, getVars, auditVars>>

\* The memory is gone and the daemon threads die where they stand.
EndProcess ==
  /\ phase' = "down"
  /\ dbPassword' = None
  /\ repos' = EmptyTable
  /\ pc' = [c \in Conns |-> IF pc[c] \in Quiet THEN pc[c] ELSE "dead"]
  /\ reply' = [c \in Conns |-> IF pc[c] \in Quiet THEN reply[c] ELSE "lost"]
  /\ pw' = [c \in Conns |-> None]
  /\ snap' = [c \in Conns |-> EmptyTable]
  /\ bound' = [c \in Conns |-> None]
  /\ orphans' = {}
  /\ UNCHANGED <<allowFile, req, edited, db, alone, auditVars>>

\* The main thread returns after a shutdown.
Exit == phase = "stopping" /\ EndProcess

\* The process is killed.
Crash == phase = "up" /\ EndProcess

\* A start with malformed TOML raises in the constructor and leaves it down.
Start ==
  /\ phase = "down"
  /\ allowFile.readable
  /\ phase' = "up"
  /\ repos' = allowFile.table
  /\ alone' = TRUE
  /\ edited' = FALSE
  /\ UNCHANGED <<dbPassword, allowFile, pc, req, reply, snap, bound, orphans, getVars, auditVars>>

-----------------------------------------------------------------------------
HandlerStep(c) ==
  \/ RejectRequest(c) \/ HandleStatus(c) \/ HandleLock(c)
  \/ RejectEmptyPassword(c) \/ BeginUnlock(c) \/ Validate(c) \/ StorePassword(c)
  \/ AdminContext(c)
  \/ ReloadReset(c) \/ LoadRead(c) \/ LoadBind(c) \/ LoadStore(c) \/ LoadDone(c)
  \/ RefuseGet(c) \/ BeginGet(c) \/ ChooseDb(c) \/ CheckPermitted(c)
  \/ SnapshotPassword(c) \/ ResolveSubVault(c) \/ ShowEntry(c) \/ AppendAudit(c)
  \/ SendReply(c)

Next ==
  \/ \E c \in Conns : Connect(c) \/ HandlerStep(c)
  \/ EditAllowlist \/ Shutdown \/ Exit \/ Crash \/ Start

\* The scheduler runs every thread, and every keepassxc-cli call returns.
Fairness == \A c \in Conns : WF_vars(HandlerStep(c))

Spec == Init /\ [][Next]_vars

FairSpec == Spec /\ Fairness

-----------------------------------------------------------------------------
(* Properties.                                                              *)

\* Whatever unlock, lock and get requests are interleaved, the password in
\* memory, the one an unlock is about to store and every copy a get works with
\* are the password the CLI accepted (unlock, _resolve_db_credentials).
OnlyMasterKeyHeld ==
  /\ dbPassword \in {None, MasterKey}
  /\ \A c \in Conns : pw[c] \in {None, MasterKey}
  /\ \A c \in Conns : pc[c] = "validated" => req[c].password = MasterKey

\* A value reaches a caller only after a record of exactly that release was
\* written or the write was attempted and failed, and no record names a request
\* that got past neither gate (_handle_get, _append_audit).
AuditedBeforeRelease ==
  /\ \A c \in Conns : reply[c] = "value" => AuditRecord(c) \in audit \/ c \in auditFailed
  /\ \A a \in audit : a = AuditRecord(a.conn) /\ req[a.conn].op = "get"
                      /\ a.db # None /\ req[a.conn].db \in {None, a.db}
                      /\ pc[a.conn] \in {"replying", "closed", "dead"}

\* When no reload is running, the latest one ran alone and the file has not
\* changed since it was read, the daemon decides by the file: nothing of an
\* earlier version is left and nothing of this one is missing (reload, _load).
SettledPolicy ==
  phase # "down" /\ Loaders = {} /\ alone /\ ~edited => repos = Contents(allowFile)

\* The same without the condition that reloads do not overlap, which is what
\* "Re-read the allowlist file from disk." says of every reload.
ReloadReflectsFile ==
  phase # "down" /\ Loaders = {} /\ ~edited => repos = Contents(allowFile)

\* A connection whose request was read is answered and closed, or cut off by
\* the end of the process: no handler waits for another one for ever.
AllAnswered ==
  \A c \in Conns : pc[c] = "received" ~> pc[c] \in {"closed", "dead"}

-----------------------------------------------------------------------------
(* The inductive invariant behind the properties.                           *)

GetSteps == {"choosing", "checking", "permitted", "resolving", "showing", "shown"}
DecidedSteps == GetSteps \ {"choosing"}

\* A handler stands only where its own request leads, and has no answer before
\* it has finished.
HandlersOnTrack ==
  \A c \in Conns :
    /\ pc[c] \notin {"replying", "closed", "dead"} => reply[c] = "none"
    /\ pc[c] = "dead" => reply[c] = "lost"
    /\ pc[c] \in {"replying", "closed"} => reply[c] # "none"
    /\ pc[c] \in GetSteps \/ reply[c] = "value" =>
         req[c].owner /\ req[c].op = "get" /\ req[c].repo \in Repos /\ req[c].path \in Paths
    /\ pc[c] \in DecidedSteps \/ reply[c] = "value" =>
         db[c] \in DBs /\ req[c].db \in {None, db[c]}
    /\ pc[c] \in {"validating", "validated"} => req[c].owner /\ req[c].op = "unlock"

\* Only a running load holds entries, and only one about to store can be left
\* with a table that is no longer in use.  Nothing runs in a stopped process.
LoadersOnTrack ==
  /\ \A c \in Conns :
       /\ pc[c] # "loading" => bound[c] = None /\ snap[c] = EmptyTable
       /\ bound[c] # None => snap[c][bound[c]] # NoEntry
  /\ \A c \in orphans : bound[c] # None
  /\ phase = "down" => \A c \in Conns : pc[c] \in Quiet

\* A reload that runs alone has put in memory all but what it still holds.
LoneReload ==
  alone /\ phase # "down" =>
    /\ orphans = {}
    /\ \A c, d \in Loaders : c = d
    /\ \A c \in Conns : pc[c] = "reloading" => repos = EmptyTable
    /\ ~edited => \A c \in Conns : pc[c] = "loading" =>
         \A r \in Repos :
           Contents(allowFile)[r] = IF snap[c][r] # NoEntry THEN snap[c][r] ELSE repos[r]

\* The daemon's invariant: every reachable state satisfies it, and every step
\* keeps it.
IndInv ==
  /\ TypeOK
  /\ HandlersOnTrack
  /\ LoadersOnTrack
  /\ OnlyMasterKeyHeld
  /\ AuditedBeforeRelease
  /\ LoneReload
  /\ SettledPolicy

-----------------------------------------------------------------------------
(* The promise the daemon keeps: CredentialService.                         *)

GrantsOf(table) ==
  {g \in Repos \X DBs \X Paths : <<g[2], g[3]>> \in table[g[1]].grants}

GrantsInPlay ==
  GrantsOf(repos) \cup GrantsOf(Contents(allowFile)) \cup UNION {GrantsOf(snap[c]) : c \in Conns}

Gate(c) ==
  CASE pc[c] = "idle" -> "idle"
    [] pc[c] = "permitted" -> "permitted"
    [] pc[c] \in {"resolving", "showing", "shown"} -> "authorized"
    [] pc[c] = "replying" -> "answered"
    [] pc[c] = "closed" -> "closed"
    [] pc[c] = "dead" -> "dropped"
    [] OTHER -> "asked"

Holds(c) ==
  CASE reply[c] = "value" -> "secret"
    [] reply[c] = "context" -> "key"
    [] reply[c] \in {"none", "lost"} -> "nothing"
    [] OTHER -> "plain"

GrantUsed(c) ==
  IF pc[c] \in {"permitted", "resolving", "showing", "shown"} \/ reply[c] = "value"
  THEN <<req[c].repo, db[c], req[c].path>> ELSE None

Service == INSTANCE CredentialService WITH
  Claims <- Requests,
  NoClaim <- NoRequest,
  open <- dbPassword # None,
  onFile <- GrantsOf(Contents(allowFile)),
  inPlay <- GrantsInPlay,
  gate <- [c \in Conns |-> Gate(c)],
  claim <- req,
  grant <- [c \in Conns |-> GrantUsed(c)],
  holds <- [c \in Conns |-> Holds(c)],
  ledger <- {<<a.conn, <<a.repo, a.db, a.path>>>> : a \in audit},
  unlogged <- auditFailed

\* However the handlers interleave, what callers get is what CredentialService
\* allows: each gate is passed at an instant when it stands open.
ImplementsService == Service!ASpec
=============================================================================
