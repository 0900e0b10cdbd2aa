------------------------ MODULE CredentialService ------------------------
(***************************************************************************)
(* What the provisioning daemon promises the user, independently of how    *)
(* its handler threads are interleaved:                                    *)
(*   - a secret leaves the daemon only after passing three gates in order: *)
(*     a grant of the user's allowlist, an unlocked master vault, and an   *)
(*     audit record (or a failed attempt to write one);                    *)
(*   - a grant counts only if it stands in a version of the allowlist file *)
(*     the daemon has not forgotten: what is forgotten comes back through  *)
(*     an edit of the file and in no other way;                            *)
(*   - only a caller who presents the master password opens the daemon.    *)
(***************************************************************************)
EXTENDS FiniteSets

CONSTANTS
  Conns,      \* connections to the daemon's socket
  Repos,      \* repositories callers belong to
  DBs,        \* database aliases
  Paths,      \* entry paths
  Claims,     \* what a caller may ask for
  NoClaim,    \* the claim of a connection that does not exist yet
  MasterKey,  \* the password of the master vault
  None        \* the absent value

VARIABLES
  open,     \* the daemon holds the master password
  onFile,   \* the grants the allowlist file gives now
  inPlay,   \* the grants the daemon may still decide by
  gate,     \* how far each connection has come
  claim,    \* what each connection asked for
  grant,    \* the grant a connection was permitted by
  holds,    \* what the answer of a connection carries
  ledger,   \* the releases recorded in the audit log
  unlogged  \* the connections whose audit record could not be written

avars == <<open, onFile, inPlay, gate, claim, grant, holds, ledger, unlogged>>

Grants == Repos \X DBs \X Paths
Gates == {"idle", "asked", "permitted", "authorized", "answered", "closed", "dropped"}

AInit ==
  /\ open = FALSE
  /\ onFile \in SUBSET Grants
  /\ inPlay = onFile
  /\ gate = [c \in Conns |-> "idle"]
  /\ claim = [c \in Conns |-> NoClaim]
  /\ grant = [c \in Conns |-> None]
  /\ holds = [c \in Conns |-> "nothing"]
  /\ ledger = {}
  /\ unlogged = {}

\* The user edits the allowlist: the new grants come into play, and grants that
\* only the old file held may be forgotten with it.
Edit ==
  /\ onFile' \in SUBSET Grants
  /\ inPlay' \in SUBSET (inPlay \cup onFile')
  /\ onFile' \subseteq inPlay'
  /\ UNCHANGED <<open, gate, claim, grant, holds, ledger, unlogged>>

\* The daemon drops grants that are no longer on file.
Forget ==
  /\ inPlay' \in SUBSET inPlay
  /\ onFile \subseteq inPlay'
  /\ UNCHANGED <<open, onFile, gate, claim, grant, holds, ledger, unlogged>>

\* A caller connects and asks for something.
Ask(c) ==
  /\ gate[c] = "idle"
  /\ gate' = [gate EXCEPT ![c] = "asked"]
  /\ claim' \in {[claim EXCEPT ![c] = q] : q \in Claims}
  /\ UNCHANGED <<open, onFile, inPlay, grant, holds, ledger, unlogged>>

\* The grant g covers the claim of connection c.
Covers(g, c) ==
  /\ g[1] = claim[c].repo
  /\ claim[c].db \in {None, g[2]}
  /\ g[3] = claim[c].path

\* The first gate: a grant in play covers the claim of a caller of the user.
Permit(c) ==
  /\ gate[c] = "asked"
  /\ claim[c].owner
  /\ claim[c].op = "get"
  /\ \E g \in inPlay :
       /\ Covers(g, c)
       /\ grant' = [grant EXCEPT ![c] = g]
  /\ gate' = [gate EXCEPT ![c] = "permitted"]
  /\ UNCHANGED <<open, onFile, inPlay, claim, holds, ledger, unlogged>>

\* The second gate: the daemon is open when the credentials are resolved.
Authorize(c) ==
  /\ gate[c] = "permitted"
  /\ open
  /\ gate' = [gate EXCEPT ![c] = "authorized"]
  /\ UNCHANGED <<open, onFile, inPlay, claim, grant, holds, ledger, unlogged>>

\* The third gate: the release is recorded, or the record cannot be written.
Release(c) ==
  /\ gate[c] = "authorized"
  /\ gate' = [gate EXCEPT ![c] = "answered"]
  /\ holds' = [holds EXCEPT ![c] = "secret"]
  /\ \/ /\ ledger' = ledger \cup {<<c, grant[c]>>}
        /\ UNCHANGED unlogged
     \/ /\ unlogged' = unlogged \cup {c}
        /\ UNCHANGED ledger
  /\ UNCHANGED <<open, onFile, inPlay, claim, grant>>

\* The local administration of the user gets the master password of an open
\* daemon.
HandKey(c) ==
  /\ gate[c] = "asked"
  /\ claim[c].owner
  /\ claim[c].op = "admin_context"
  /\ open
  /\ gate' = [gate EXCEPT ![c] = "answered"]
  /\ holds' = [holds EXCEPT ![c] = "key"]
  /\ UNCHANGED <<open, onFile, inPlay, claim, grant, ledger, unlogged>>

\* Any request may be answered without a secret, at any gate.
Plain(c) ==
  /\ gate[c] \in {"asked", "permitted", "authorized"}
  /\ gate' = [gate EXCEPT ![c] = "answered"]
  /\ holds' = [holds EXCEPT ![c] = "plain"]
  /\ grant' = [grant EXCEPT ![c] = None]
  /\ UNCHANGED <<onFile, inPlay, claim, ledger, unlogged>>

Refuse(c) == Plain(c) /\ UNCHANGED open

\* Presenting the master password opens the daemon.
Unlock(c) ==
  /\ claim[c].owner
  /\ claim[c].op = "unlock"
  /\ claim[c].password = MasterKey
  /\ open' = TRUE
  /\ Plain(c)

Lock(c) ==
  /\ claim[c].owner
  /\ claim[c].op = "lock"
  /\ open' = FALSE
  /\ Plain(c)

\* The answer reaches the caller, or is lost with the connection.
Deliver(c) ==
  /\ gate[c] = "answered"
  /\ gate' = [gate EXCEPT ![c] = "closed"]
  /\ \/ UNCHANGED <<holds, grant>>
     \/ /\ holds' = [holds EXCEPT ![c] = "nothing"]
        /\ grant' = [grant EXCEPT ![c] = None]
  /\ UNCHANGED <<open, onFile, inPlay, claim, ledger, unlogged>>

\* The daemon begins to stop: it locks.
Close ==
  /\ open' = FALSE
  /\ UNCHANGED <<onFile, inPlay, gate, claim, grant, holds, ledger, unlogged>>

\* The process ends: the master password, every grant that is not on file and
\* every connection in progress are gone.
Stop ==
  /\ open' = FALSE
  /\ inPlay' = onFile
  /\ gate' = [c \in Conns |->
                IF gate[c] \in {"idle", "closed"} THEN gate[c] ELSE "dropped"]
  /\ holds' = [c \in Conns |-> IF gate'[c] = "dropped" THEN "nothing" ELSE holds[c]]
  /\ grant' = [c \in Conns |-> IF gate'[c] = "dropped" THEN None ELSE grant[c]]
  /\ UNCHANGED <<onFile, claim, ledger, unlogged>>

AStep(c) ==
  \/ Ask(c) \/ Permit(c) \/ Authorize(c) \/ Release(c) \/ HandKey(c)
  \/ Refuse(c) \/ Unlock(c) \/ Lock(c) \/ Deliver(c)

ANext == Edit \/ Forget \/ Close \/ Stop \/ \E c \in Conns : AStep(c)

ASpec == AInit /\ [][ANext]_avars
=============================================================================
