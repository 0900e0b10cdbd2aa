---------------------- MODULE SocketLifecycleProofs ----------------------
(***************************************************************************)
(* Theorems about SocketLifecycle, for any number of daemons and commands  *)
(* and whatever the commands ask for.                                      *)
(***************************************************************************)
EXTENDS SocketLifecycle, TLAPS

\* Daemons, the stale socket and the absent value are told apart.
LEMMA Distinct == Stale \notin Daemons /\ Nothing \notin Daemons /\ Nothing # Stale
BY SocketAssumption DEF SocketAssumption

USE Distinct DEF Requests, Talking

\* A command is connected to a daemon or to none.
LEMMA ConnType ==
  ASSUME TypeOK, NEW c \in Commands, conn[c] # Nothing
  PROVE  conn[c] \in Daemons
BY DEF TypeOK

-----------------------------------------------------------------------------
(* Type correctness.                                                        *)

\* Nothing has happened at the socket at first: the state is well typed.
LEMMA TypeInit == Init => TypeOK
<1> SUFFICES ASSUME Init PROVE TypeOK
  OBVIOUS
<1>1. /\ pc \in [Daemons -> Alive \cup {"off", "failed"}]
      /\ unlocked \in [Daemons -> BOOLEAN]
      /\ met \in [Daemons -> BOOLEAN]
  BY DEF Init
<1>2. /\ cmd \in [Commands -> Talking \cup {"idle", "prompt", "traceback"}]
      /\ conn \in [Commands -> Daemons \cup {Nothing}]
      /\ reply \in [Commands -> {"", "ok", "refused", "cut", "reset"}]
  BY DEF Init
<1>3. /\ accepted \in [Commands -> BOOLEAN]
      /\ disturbed \in [Commands -> BOOLEAN]
  BY DEF Init
<1>4. QED
  BY <1>1, <1>2, <1>3 DEF Init, TypeOK

\* The steps of a daemon keep the state well typed.
LEMMA TypeDaemon ==
  ASSUME TypeOK, NEW d \in Daemons, Start(d) \/ DaemonStep(d) \/ Signal(d) \/ Kill(d)
  PROVE  TypeOK'
<1>1. CASE Start(d)
  BY <1>1 DEF TypeOK, Start, Goto, Others, Alive, talk
<1>2. CASE CheckPath(d)
  BY <1>2 DEF TypeOK, CheckPath, Goto, Alive, talk
<1>3. CASE UnlinkPath(d)
  BY <1>3 DEF TypeOK, UnlinkPath, Goto, Alive, talk, Disturb
<1>4. CASE Bind(d)
  BY <1>4 DEF TypeOK, Bind, Goto, Alive, talk
<1>5. CASE Listen(d)
  BY <1>5 DEF TypeOK, Listen, Goto, Alive, talk
<1>6. CASE CloseSocket(d)
  BY <1>6 DEF TypeOK, CloseSocket, Goto, Alive, Disturb, Abandoned
<1>7. CASE RemovePath(d)
  BY <1>7 DEF TypeOK, RemovePath, Goto, Alive, talk, Disturb
<1>8. CASE Die(d)
  <2>1. /\ pc' = [pc EXCEPT ![d] = "off"]
        /\ path' \in {path, Stale}
        /\ UNCHANGED <<cmd, conn, accepted, lastWord>>
    BY <1>8 DEF Die, Goto, Abandoned
  <2>2. /\ met' \in [Daemons -> BOOLEAN]
        /\ unlocked' \in [Daemons -> BOOLEAN]
        /\ disturbed' \in [Commands -> BOOLEAN]
    BY <1>8 DEF TypeOK, Die, Disturb
  <2>3. PICK how \in {"cut", "reset"} :
          reply' = [c \in Commands |-> IF conn[c] = d /\ reply[c] = "" THEN how ELSE reply[c]]
    BY <1>8 DEF Die
  <2>4. /\ reply' \in [Commands -> {"", "ok", "refused", "cut", "reset"}]
        /\ \A c \in Commands : conn[c] = Nothing => reply'[c] = ""
    BY <2>3 DEF TypeOK
  <2>5. QED
    BY <2>1, <2>2, <2>4 DEF TypeOK
<1>9. CASE Signal(d)
  BY <1>9 DEF TypeOK, Signal, Goto, Alive, talk
<1>10. QED
  BY <1>1, <1>2, <1>3, <1>4, <1>5, <1>6, <1>7, <1>8, <1>9 DEF DaemonStep, EndServe, Kill

\* The steps of a command keep the state well typed.
LEMMA TypeCommand ==
  ASSUME TypeOK, NEW c \in Commands, BeginCommand(c) \/ CommandStep(c)
  PROVE  TypeOK'
<1>1. CASE BeginCommand(c)
  <2>1. PICK call \in Requests :
          cmd' = [cmd EXCEPT ![c] = IF call = "unlock" THEN "probe" ELSE call]
    BY <1>1, SocketAssumption DEF BeginCommand, SocketAssumption
  <2>2. /\ cmd' \in [Commands -> Talking \cup {"idle", "prompt", "traceback"}]
        /\ \A b \in Commands : cmd[b] \in Talking => cmd'[b] \in Talking
    BY <2>1 DEF TypeOK
  <2>3. disturbed' \in [Commands -> BOOLEAN]
    BY <1>1 DEF TypeOK, BeginCommand
  <2>4. QED
    BY <1>1, <2>2, <2>3 DEF TypeOK, BeginCommand, daemonVars, talk
<1>2. CASE Connect(c)
  <2>1. ASSUME NEW d \in Daemons, conn' = [conn EXCEPT ![c] = d], UNCHANGED <<cmd, disturbed>>
        PROVE  TypeOK'
    <3>1. /\ conn' \in [Commands -> Daemons \cup {Nothing}]
          /\ \A b \in Commands \ {c} : conn'[b] = conn[b]
          /\ cmd[c] \in Talking
      BY <1>2, <2>1 DEF TypeOK, Connect
    <3>2. UNCHANGED <<daemonVars, unlocked, accepted, reply, lastWord>>
      BY <1>2 DEF Connect
    <3>3. conn[c] = Nothing
      BY <1>2 DEF Connect
    <3>4. \A b \in Commands :
            /\ conn'[b] # Nothing => cmd'[b] \in Talking
            /\ conn'[b] = Nothing => ~accepted'[b] /\ reply'[b] = ""
      BY <2>1, <3>1, <3>2, <3>3 DEF TypeOK
    <3>5. QED
      BY <2>1, <3>1, <3>2, <3>4 DEF TypeOK, daemonVars
  <2>2. CASE EndCommand(c, OnOSError(c)) /\ UNCHANGED conn
    <3>1. /\ cmd' \in [Commands -> Talking \cup {"idle", "prompt", "traceback"}]
          /\ disturbed' \in [Commands -> BOOLEAN]
          /\ \A b \in Commands \ {c} : cmd'[b] = cmd[b]
      BY <2>2 DEF TypeOK, EndCommand, OnOSError
    <3>2. QED
      BY <1>2, <2>2, <3>1 DEF TypeOK, Connect, daemonVars
  <2>3. QED
    BY <1>2, <2>1, <2>2 DEF Connect
<1>3. CASE Accept(c)
  BY <1>3 DEF TypeOK, Accept, daemonVars
<1>4. CASE Handle(c)
  <2>1. PICK answer \in {"ok", "refused"} : reply' = [reply EXCEPT ![c] = answer]
    BY <1>4 DEF Handle, Does
  <2>2. UNCHANGED unlocked \/ \E flag \in BOOLEAN : unlocked' = [unlocked EXCEPT ![conn[c]] = flag]
    BY <1>4, (cmd[c] = "unlock") \in BOOLEAN DEF Handle
  <2>3. unlocked' \in [Daemons -> BOOLEAN]
    BY <2>2 DEF TypeOK
  <2>4. lastWord' \in {"", "lock", "unlock"} /\ conn[c] # Nothing
    BY <1>4 DEF TypeOK, Handle
  <2>5. UNCHANGED <<daemonVars, cmd, conn, accepted, disturbed>>
    BY <1>4 DEF Handle
  <2>6. QED
    BY <2>1, <2>3, <2>4, <2>5 DEF TypeOK, daemonVars
<1>5. CASE Receive(c)
  BY <1>5 DEF TypeOK, Receive, HangUp, EndCommand, OnOSError, daemonVars
<1>6. CASE Prompt(c)
  BY <1>6 DEF TypeOK, Prompt, EndCommand, daemonVars, talk
<1>7. QED
  BY <1>1, <1>2, <1>3, <1>4, <1>5, <1>6 DEF CommandStep

\* Every step keeps the state well typed.
LEMMA TypeNext == TypeOK /\ [Next]_vars => TypeOK'
<1> SUFFICES ASSUME TypeOK, [Next]_vars PROVE TypeOK'
  OBVIOUS
<1>1. CASE UNCHANGED vars
  BY <1>1 DEF TypeOK, vars, daemonVars, talk
<1>2. CASE Next
  BY <1>2, TypeDaemon, TypeCommand DEF Next
<1>3. QED
  BY <1>1, <1>2

\* A command has a connection only while it talks, and an answer or a thread of
\* the daemon only with it (serve, _send).
THEOREM TypeCorrect == Spec => []TypeOK
BY TypeInit, TypeNext, PTL DEF Spec

-----------------------------------------------------------------------------
(* Daemons that have met another, and what a lone one finds at the path.    *)

\* Of two daemons that are alive each has met the other.
Overlap ==
  \A d, e \in Daemons : d # e /\ pc[d] \in Alive /\ pc[e] \in Alive => met[d]

\* A daemon that has met no other finds the path as it has left it.
LonePath(d) ==
  ~met[d] =>
    /\ pc[d] = "unlink" => path # Nothing
    /\ pc[d] = "bind" => path = Nothing
    /\ pc[d] \in {"listen", "serving", "closing"} => path = d

PathInv ==
  /\ Overlap
  /\ \A d \in Daemons : LonePath(d)
  /\ FailsOnlyByOverlap

\* The step of a living daemon cannot disturb another that has met none.
LEMMA OneDaemonMoves ==
  ASSUME TypeOK, PathInv, NEW d \in Daemons, pc[d] \in Alive,
         \A e \in Daemons \ {d} : pc'[e] = pc[e] /\ met'[e] = met[e],
         pc'[d] \in Alive \cup {"failed"} => met'[d] = met[d],
         LonePath(d)', pc'[d] = "failed" => met[d]
  PROVE  PathInv'
<1>1. Overlap'
  BY DEF PathInv, Overlap, Alive
<1>2. \A e \in Daemons : LonePath(e)'
  <2> SUFFICES ASSUME NEW e \in Daemons \ {d} PROVE LonePath(e)'
    OBVIOUS
  <2>1. pc[e] \in Alive => met'[e]
    BY DEF PathInv, Overlap
  <2>2. QED
    BY <2>1 DEF LonePath, Alive
<1>3. FailsOnlyByOverlap'
  BY DEF PathInv, FailsOnlyByOverlap, Alive
<1>4. QED
  BY <1>1, <1>2, <1>3 DEF PathInv

\* A step of a command moves no daemon.
LEMMA PathCommand ==
  ASSUME PathInv, UNCHANGED daemonVars
  PROVE  PathInv'
BY DEF PathInv, Overlap, LonePath, FailsOnlyByOverlap, daemonVars

\* The steps of a daemon keep the invariant: only the start of another daemon,
\* which both then know of, can come between it and the path.
LEMMA PathDaemon ==
  ASSUME TypeOK, PathInv, NEW d \in Daemons, Start(d) \/ DaemonStep(d) \/ Signal(d) \/ Kill(d)
  PROVE  PathInv'
<1>1. CASE Start(d)
  <2>1. /\ pc' = [pc EXCEPT ![d] = "check"]
        /\ met' = [e \in Daemons |-> IF e = d THEN Others(d) # {} ELSE met[e] \/ e \in Others(d)]
        /\ path' = path
    BY <1>1 DEF Start, Goto
  <2>2. Overlap'
    <3> SUFFICES ASSUME NEW e \in Daemons, NEW f \in Daemons, e # f,
                        pc'[e] \in Alive, pc'[f] \in Alive
                 PROVE  met'[e]
      BY DEF Overlap
    <3>1. CASE e = d
      BY <2>1, <3>1 DEF TypeOK, Others
    <3>2. CASE f = d
      BY <2>1, <3>2 DEF TypeOK, Others
    <3>3. CASE e # d /\ f # d
      BY <2>1, <3>3 DEF TypeOK, PathInv, Overlap
    <3>4. QED
      BY <3>1, <3>2, <3>3
  <2>3. \A e \in Daemons : LonePath(e)'
    BY <2>1 DEF TypeOK, PathInv, LonePath
  <2>4. FailsOnlyByOverlap'
    BY <2>1 DEF TypeOK, PathInv, FailsOnlyByOverlap
  <2>5. QED
    BY <2>2, <2>3, <2>4 DEF PathInv
<1>2. CASE CheckPath(d)
  BY <1>2, OneDaemonMoves DEF TypeOK, CheckPath, Goto, Alive, LonePath
<1>3. CASE UnlinkPath(d)
  BY <1>3, OneDaemonMoves DEF TypeOK, PathInv, UnlinkPath, Goto, Alive, LonePath
<1>4. CASE Bind(d)
  BY <1>4, OneDaemonMoves DEF TypeOK, PathInv, Bind, Goto, Alive, LonePath
<1>5. CASE Listen(d)
  BY <1>5, OneDaemonMoves DEF TypeOK, PathInv, Listen, Goto, Alive, LonePath
<1>6. CASE CloseSocket(d)
  BY <1>6, OneDaemonMoves DEF TypeOK, CloseSocket, Goto, Alive, LonePath
<1>7. CASE RemovePath(d)
  BY <1>7, OneDaemonMoves DEF TypeOK, RemovePath, Goto, Alive, LonePath
<1>8. CASE pc[d] \in Alive /\ Die(d)
  BY <1>8, OneDaemonMoves DEF TypeOK, Die, Goto, Alive, LonePath
<1>9. CASE Signal(d)
  BY <1>9, OneDaemonMoves DEF TypeOK, PathInv, Signal, Goto, Alive, LonePath
<1>10. QED
  BY <1>1, <1>2, <1>3, <1>4, <1>5, <1>6, <1>7, <1>8, <1>9 DEF DaemonStep, EndServe, Kill, Alive

\* Every step keeps the invariant.
LEMMA PathNext == TypeOK /\ PathInv /\ [Next]_vars => PathInv'
<1> SUFFICES ASSUME TypeOK, PathInv, [Next]_vars PROVE PathInv'
  OBVIOUS
<1>1. CASE UNCHANGED vars
  BY <1>1, PathCommand DEF vars
<1>2. ASSUME NEW c \in Commands, BeginCommand(c) \/ CommandStep(c)
      PROVE  PathInv'
  BY <1>2, PathCommand DEF CommandStep, BeginCommand, Connect, Accept, Handle, Receive, Prompt
<1>3. QED
  BY <1>1, <1>2, PathDaemon DEF Next

\* No daemon is alive at first.
LEMMA PathInit == Init => PathInv
BY DEF Init, PathInv, Overlap, LonePath, FailsOnlyByOverlap, Alive

\* At all times a daemon that has met no other owns the path from bind to close.
LEMMA PathAlways == Spec => [](TypeOK /\ PathInv)
<1>1. TypeOK /\ PathInv /\ [Next]_vars => (TypeOK /\ PathInv)'
  BY TypeNext, PathNext
<1>2. Init => TypeOK /\ PathInv
  BY TypeInit, PathInit
<1>3. QED
  BY <1>1, <1>2, PTL DEF Spec

\* A daemon that serves where no command reaches it has met another: stale
\* sockets, crashes and signals alone never make one unreachable (serve).
THEOREM ReachableAlone == Spec => []UnreachableOnlyByOverlap
<1>1. PathInv => UnreachableOnlyByOverlap
  BY DEF PathInv, LonePath, UnreachableOnlyByOverlap
<1>2. QED
  BY <1>1, PathAlways, PTL

\* A daemon fails to start only if it has met another: what a killed one has left
\* at the path is no obstacle (serve).
THEOREM RestartableAlone == Spec => []FailsOnlyByOverlap
<1>1. PathInv => FailsOnlyByOverlap
  BY DEF PathInv
<1>2. QED
  BY <1>1, PathAlways, PTL

-----------------------------------------------------------------------------
(* What lock reaches.                                                       *)

Up == {"serving", "closing", "unlinking", "ending"}

\* A request is unanswered only as long as its daemon is up.
Session(c) == conn[c] # Nothing /\ reply[c] = "" => pc[conn[c]] \in Up

\* Only a daemon that is up holds the master password.
LockInv ==
  /\ \A c \in Commands : Session(c)
  /\ \A d \in Daemons : unlocked[d] => pc[d] \in Up
  /\ LockReachesAll

\* A daemon that comes up or goes on keeps it.
LEMMA LockKept ==
  ASSUME TypeOK, LockInv, UNCHANGED <<conn, lastWord>>,
         \A c \in Commands : reply'[c] = "" => reply[c] = "",
         \A d \in Daemons : pc[d] \in Up => pc'[d] \in Up,
         \A d \in Daemons : unlocked'[d] => unlocked[d],
         \A d \in Daemons : unlocked[d] /\ met[d] => met'[d]
  PROVE  LockInv'
<1>1. \A c \in Commands : Session(c)'
  <2> SUFFICES ASSUME NEW c \in Commands, conn[c] # Nothing, reply'[c] = ""
               PROVE  pc'[conn[c]] \in Up
    BY DEF Session
  <2>1. conn[c] \in Daemons /\ pc[conn[c]] \in Up
    BY DEF TypeOK, LockInv, Session
  <2>2. QED
    BY <2>1
<1>2. \A d \in Daemons : unlocked'[d] => pc'[d] \in Up
  BY DEF LockInv
<1>3. LockReachesAll'
  BY DEF LockInv, LockReachesAll
<1>4. QED
  BY <1>1, <1>2, <1>3 DEF LockInv

\* Steps of a daemon keep it: the master password is forgotten when it ends, and
\* its connections get an answer.
LEMMA LockDaemon ==
  ASSUME TypeOK, PathInv, LockInv, NEW d \in Daemons,
         Start(d) \/ DaemonStep(d) \/ Signal(d) \/ Kill(d)
  PROVE  LockInv'
<1>1. CASE Start(d)
  <2>1. ~unlocked[d]
    BY <1>1 DEF LockInv, Start, Up
  <2>2. \A e \in Daemons : unlocked[e] /\ met[e] => met'[e]
    BY <1>1, <2>1 DEF Start
  <2>3. QED
    BY <1>1, <2>2, LockKept DEF TypeOK, Start, Goto, talk, Up
<1>2. CASE CheckPath(d)
  <2>1. \E label \in {"bind", "unlink"} : pc' = [pc EXCEPT ![d] = label]
    BY <1>2 DEF CheckPath, Goto
  <2>2. \A e \in Daemons : pc[e] \in Up => pc'[e] \in Up
    BY <1>2, <2>1 DEF TypeOK, CheckPath, Up
  <2>3. QED
    BY <1>2, <2>2, LockKept DEF CheckPath, talk
<1>3. CASE UnlinkPath(d)
  BY <1>3, LockKept DEF TypeOK, UnlinkPath, Goto, talk, Up
<1>4. CASE Bind(d)
  BY <1>4, LockKept DEF TypeOK, Bind, Goto, talk, Up
<1>5. CASE Listen(d)
  BY <1>5, LockKept DEF TypeOK, Listen, Goto, talk, Up
<1>6. CASE CloseSocket(d)
  <2>1. \A c \in Commands : reply'[c] = "" => reply[c] = ""
    BY <1>6 DEF TypeOK, CloseSocket
  <2>2. QED
    BY <1>6, <2>1, LockKept DEF TypeOK, CloseSocket, Goto, Up
<1>7. CASE RemovePath(d)
  BY <1>7, LockKept DEF TypeOK, RemovePath, Goto, talk, Up
<1>8. CASE Die(d)
  <2>1. /\ pc' = [pc EXCEPT ![d] = "off"]
        /\ met' = [met EXCEPT ![d] = FALSE]
        /\ unlocked' = [unlocked EXCEPT ![d] = FALSE]
        /\ UNCHANGED <<conn, lastWord>>
    BY <1>8 DEF Die, Goto
  <2>2. PICK how \in {"cut", "reset"} :
          reply' = [c \in Commands |-> IF conn[c] = d /\ reply[c] = "" THEN how ELSE reply[c]]
    BY <1>8 DEF Die
  <2>3. \A c \in Commands : Session(c)'
    BY <2>1, <2>2 DEF TypeOK, LockInv, Session
  <2>4. \A e \in Daemons : unlocked'[e] =>
          e # d /\ unlocked[e] /\ met'[e] = met[e] /\ pc'[e] = pc[e]
    BY <2>1 DEF TypeOK
  <2>5. QED
    BY <2>1, <2>3, <2>4 DEF LockInv, LockReachesAll
<1>9. CASE Signal(d)
  <2>1. \A e \in Daemons : unlocked'[e] => unlocked[e]
    BY <1>9 DEF TypeOK, Signal
  <2>2. QED
    BY <1>9, <2>1, LockKept DEF TypeOK, Signal, Goto, talk, Up
<1>10. QED
  BY <1>1, <1>2, <1>3, <1>4, <1>5, <1>6, <1>7, <1>8, <1>9 DEF DaemonStep, EndServe, Kill

\* Steps of a command keep it: the daemon that does a lock forgets the password,
\* and any other that holds one is alive with it.
LEMMA LockCommand ==
  ASSUME TypeOK, PathInv, LockInv, NEW c \in Commands, BeginCommand(c) \/ CommandStep(c)
  PROVE  LockInv'
<1> USE DEF LockInv, Session, LockReachesAll, Up
<1>1. CASE BeginCommand(c) \/ Prompt(c)
  BY <1>1 DEF BeginCommand, Prompt, daemonVars, talk
<1>2. CASE Connect(c)
  <2>1. /\ UNCHANGED <<daemonVars, unlocked, reply, lastWord>>
        /\ \A b \in Commands : conn'[b] = conn[b] \/ conn'[b] = Nothing \/ pc[conn'[b]] \in Up
    <3>1. CASE UNCHANGED conn
      BY <1>2, <3>1 DEF Connect
    <3>2. CASE \E d \in Daemons : pc[d] \in {"serving", "closing"} /\ conn' = [conn EXCEPT ![c] = d]
      <4>1. \A b \in Commands : conn'[b] = conn[b] \/ pc[conn'[b]] \in Up
        BY <3>2 DEF TypeOK
      <4>2. QED
        BY <1>2, <4>1 DEF Connect
    <3>3. QED
      BY <1>2, <3>1, <3>2 DEF Connect
  <2>2. QED
    BY <2>1 DEF daemonVars
<1>3. CASE Accept(c)
  BY <1>3 DEF Accept, daemonVars
<1>4. CASE Handle(c)
  <2>1. /\ UNCHANGED <<daemonVars, conn>>
        /\ conn[c] \in Daemons
        /\ pc[conn[c]] \in Up
    <3>1. UNCHANGED <<daemonVars, conn>> /\ conn[c] # Nothing /\ reply[c] = ""
      BY <1>4 DEF Handle
    <3>2. conn[c] \in Daemons
      BY <3>1, ConnType
    <3>3. pc[conn[c]] \in Up
      BY <3>1
    <3>4. QED
      BY <3>1, <3>2, <3>3
  <2> \A b \in Commands : reply'[b] = "" => reply[b] = ""
    <3>1. \E answer \in {"ok", "refused"} : reply' = [reply EXCEPT ![c] = answer]
      BY <1>4 DEF Handle, Does
    <3>2. QED
      BY <3>1 DEF TypeOK
  <2>2. CASE unlocked' = [unlocked EXCEPT ![conn[c]] = (cmd[c] = "unlock")] /\ lastWord' = cmd[c]
    <3>1. \A d \in Daemons : unlocked'[d] => pc'[d] \in Up
      BY <2>1, <2>2 DEF TypeOK, daemonVars
    <3>2. LockReachesAll'
      <4> SUFFICES ASSUME cmd[c] = "lock", NEW d \in Daemons, unlocked'[d] PROVE met'[d]
        BY <2>2
      <4>1. d # conn[c] /\ unlocked[d]
        BY <2>2 DEF TypeOK
      <4>2. pc[d] \in Alive /\ pc[conn[c]] \in Alive
        BY <2>1, <4>1 DEF Alive
      <4>3. QED
        BY <2>1, <4>1, <4>2 DEF PathInv, Overlap, daemonVars
    <3>3. QED
      BY <2>1, <3>1, <3>2 DEF daemonVars
  <2>3. CASE UNCHANGED <<unlocked, lastWord>>
    BY <2>1, <2>3 DEF daemonVars
  <2>4. QED
    BY <1>4, <2>2, <2>3 DEF Handle
<1>5. CASE Receive(c)
  <2>1. /\ UNCHANGED <<daemonVars, unlocked, lastWord>>
        /\ conn' = [conn EXCEPT ![c] = Nothing]
        /\ reply' = [reply EXCEPT ![c] = ""]
    BY <1>5 DEF Receive, HangUp
  <2>2. QED
    BY <2>1 DEF TypeOK, daemonVars
<1>6. QED
  BY <1>1, <1>2, <1>3, <1>4, <1>5 DEF CommandStep

\* After a lock no daemon holds the master password but one that has met another
\* (handle_request).
THEOREM LockForgets == Spec => []LockReachesAll
<1>1. Init => LockInv
  BY DEF Init, LockInv, Session, LockReachesAll
<1>2. TypeOK /\ PathInv /\ LockInv /\ [Next]_vars => LockInv'
  <2> SUFFICES ASSUME TypeOK, PathInv, LockInv, [Next]_vars PROVE LockInv'
    OBVIOUS
  <2>1. CASE UNCHANGED vars
    BY <2>1 DEF LockInv, Session, LockReachesAll, vars, daemonVars, talk
  <2>2. CASE Next
    BY <2>2, LockDaemon, LockCommand DEF Next
  <2>3. QED
    BY <2>1, <2>2
<1>3. LockInv => LockReachesAll
  BY DEF LockInv
<1>4. QED
  BY <1>1, <1>2, <1>3, PathAlways, PTL DEF Spec

-----------------------------------------------------------------------------
(* Tracebacks.                                                              *)

Reachable(d) == path = d /\ pc[d] \in {"serving", "closing"}

\* A command during which no daemon has ended nor the socket has been removed can
\* reach the daemon it has talked to; other commands end without a traceback.
Undisturbed(c) ==
  ~disturbed[c] =>
    /\ cmd[c] # "traceback"
    /\ reply[c] \notin {"cut", "reset"}
    /\ conn[c] # Nothing => Reachable(conn[c])
    /\ cmd[c] \in {"prompt", "unlock"} => \E d \in Daemons : Reachable(d)

TalkInv == \A c \in Commands : Undisturbed(c)

\* A step that disturbs all that talk, and cuts or resets some of them.
LEMMA TalkDisturbed ==
  ASSUME TypeOK, TalkInv, Disturb, UNCHANGED <<cmd, conn>>,
         \A c \in Commands : reply'[c] = reply[c] \/ conn[c] # Nothing
  PROVE  TalkInv'
<1> SUFFICES ASSUME NEW c \in Commands, ~disturbed'[c] PROVE Undisturbed(c)'
  BY DEF TalkInv, Undisturbed
<1>1. ~disturbed[c] /\ cmd[c] \in Ended
  BY DEF Disturb
<1>2. cmd[c] = "idle" /\ conn[c] = Nothing /\ reply'[c] = reply[c]
  BY <1>1 DEF TalkInv, Undisturbed, Ended, TypeOK
<1>3. QED
  BY <1>1, <1>2 DEF TalkInv, Undisturbed

\* A step of a daemon that neither ends it nor removes a socket.
LEMMA TalkKept ==
  ASSUME TypeOK, TalkInv, UNCHANGED <<cmd, conn, reply, disturbed>>,
         \A d \in Daemons : Reachable(d) => Reachable(d)'
  PROVE  TalkInv'
BY DEF TypeOK, TalkInv, Undisturbed

\* Steps of a daemon keep it.
LEMMA TalkDaemon ==
  ASSUME TypeOK, TalkInv, NEW d \in Daemons, Start(d) \/ DaemonStep(d) \/ Signal(d) \/ Kill(d)
  PROVE  TalkInv'
<1>1. CASE Start(d)
  BY <1>1, TalkKept DEF TypeOK, Start, Goto, talk, Reachable
<1>2. CASE CheckPath(d)
  <2>1. \A e \in Daemons \ {d} : pc'[e] = pc[e]
    BY <1>2 DEF TypeOK, CheckPath, Goto
  <2>2. QED
    BY <1>2, <2>1, TalkKept DEF CheckPath, talk, Reachable
<1>3. CASE UnlinkPath(d)
  BY <1>3, TalkDisturbed DEF UnlinkPath, talk
<1>4. CASE Bind(d)
  <2>1. \A e \in Daemons : Reachable(e) => Reachable(e)'
    <3> SUFFICES ASSUME NEW e \in Daemons, Reachable(e) PROVE Reachable(e)'
      OBVIOUS
    <3>1. path # Nothing /\ e # d
      BY <1>4 DEF Bind, Reachable
    <3>2. pc'[e] = pc[e] /\ path' = path
      BY <1>4, <3>1 DEF TypeOK, Bind, Goto
    <3>3. QED
      BY <3>2 DEF Reachable
  <2>2. QED
    BY <1>4, <2>1, TalkKept DEF Bind, talk
<1>5. CASE Listen(d)
  <2>1. \A e \in Daemons \ {d} : pc'[e] = pc[e]
    BY <1>5 DEF TypeOK, Listen, Goto
  <2>2. QED
    BY <1>5, <2>1, TalkKept DEF Listen, talk, Reachable
<1>6. CASE CloseSocket(d)
  BY <1>6, TalkDisturbed DEF CloseSocket
<1>7. CASE RemovePath(d)
  BY <1>7, TalkDisturbed DEF RemovePath, talk
<1>8. CASE Die(d)
  <2>1. \A c \in Commands : reply'[c] = reply[c] \/ conn[c] # Nothing
    <3>1. PICK how \in {"cut", "reset"} :
            reply' = [c \in Commands |-> IF conn[c] = d /\ reply[c] = "" THEN how ELSE reply[c]]
      BY <1>8 DEF Die
    <3>2. QED
      BY <3>1
  <2>2. QED
    BY <1>8, <2>1, TalkDisturbed DEF Die
<1>9. CASE Signal(d)
  BY <1>9, TalkKept DEF TypeOK, Signal, Goto, talk, Reachable
<1>10. QED
  BY <1>1, <1>2, <1>3, <1>4, <1>5, <1>6, <1>7, <1>8, <1>9 DEF DaemonStep, EndServe, Kill

\* The end of a command.
LEMMA TalkEnd ==
  ASSUME TypeOK, TalkInv, NEW c \in Commands, UNCHANGED daemonVars,
         NEW how \in Ended, EndCommand(c, how), how = "traceback" => disturbed[c],
         conn'[c] = Nothing, reply'[c] = "",
         \A b \in Commands \ {c} : conn'[b] = conn[b] /\ reply'[b] = reply[b]
  PROVE  TalkInv'
<1> SUFFICES ASSUME NEW b \in Commands PROVE Undisturbed(b)'
  BY DEF TalkInv
<1>1. /\ cmd' = [cmd EXCEPT ![c] = how]
      /\ disturbed' = [disturbed EXCEPT ![c] = @ /\ how = "traceback"]
  BY DEF EndCommand
<1>2. CASE b = c
  <2>1. cmd'[c] = how
    BY <1>1 DEF TypeOK
  <2>2. how = "traceback" => disturbed'[c]
    BY <1>1 DEF TypeOK
  <2>3. QED
    BY <1>2, <2>1, <2>2 DEF Undisturbed, Ended
<1>3. CASE b # c
  <2>1. cmd'[b] = cmd[b] /\ disturbed'[b] = disturbed[b]
    BY <1>1, <1>3 DEF TypeOK
  <2>2. QED
    BY <1>3, <2>1 DEF TalkInv, Undisturbed, Reachable, daemonVars
<1>4. QED
  BY <1>2, <1>3

\* Steps of a command keep it.
LEMMA TalkCommand ==
  ASSUME TypeOK, TalkInv, NEW c \in Commands, BeginCommand(c) \/ CommandStep(c)
  PROVE  TalkInv'
<1>1. CASE BeginCommand(c)
  <2>1. PICK call \in Requests :
          cmd' = [cmd EXCEPT ![c] = IF call = "unlock" THEN "probe" ELSE call]
    BY <1>1, SocketAssumption DEF BeginCommand, SocketAssumption
  <2>2. cmd'[c] \in {"probe", "lock"} /\ conn[c] = Nothing /\ reply[c] = ""
    BY <1>1, <2>1 DEF TypeOK, BeginCommand, Ended
  <2>3. \A b \in Commands \ {c} : cmd'[b] = cmd[b] /\ disturbed'[b] = disturbed[b]
    BY <1>1, <2>1 DEF TypeOK, BeginCommand
  <2>4. UNCHANGED <<daemonVars, conn, reply>>
    BY <1>1 DEF BeginCommand, talk
  <2>5. QED
    BY <2>2, <2>3, <2>4 DEF TalkInv, Undisturbed, Reachable, daemonVars
<1>2. CASE Connect(c)
  <2>1. /\ UNCHANGED <<daemonVars, reply>>
        /\ conn[c] = Nothing
        /\ cmd[c] \in Talking
    BY <1>2 DEF Connect
  <2>2. CASE /\ UNCHANGED <<cmd, disturbed>>
             /\ \E d \in Daemons : Reachable(d) /\ conn' = [conn EXCEPT ![c] = d]
    <3>1. \A b \in Commands : conn'[b] = conn[b] \/ Reachable(conn'[b])
      BY <2>2 DEF TypeOK
    <3>2. QED
      BY <2>1, <2>2, <3>1 DEF TalkInv, Undisturbed, Reachable, daemonVars
  <2>3. CASE /\ \A d \in Daemons : ~Reachable(d)
             /\ EndCommand(c, OnOSError(c))
             /\ UNCHANGED conn
    <3>1. OnOSError(c) = "traceback" => disturbed[c]
      BY <2>3 DEF TalkInv, Undisturbed, OnOSError
    <3>2. OnOSError(c) \in Ended /\ reply'[c] = ""
      BY <2>1 DEF OnOSError, Ended, TypeOK
    <3>3. QED
      BY <2>1, <2>3, <3>1, <3>2, TalkEnd
  <2>4. QED
    BY <1>2, <2>2, <2>3 DEF Connect, Reachable
<1>3. CASE Accept(c)
  BY <1>3 DEF Accept, TalkInv, Undisturbed, Reachable, daemonVars
<1>4. CASE Handle(c)
  <2>1. PICK answer \in {"ok", "refused"} : reply' = [reply EXCEPT ![c] = answer]
    BY <1>4 DEF Handle, Does
  <2>2. UNCHANGED <<daemonVars, cmd, conn, disturbed>>
    BY <1>4 DEF Handle
  <2>3. \A b \in Commands : reply'[b] \in {"cut", "reset"} => reply'[b] = reply[b]
    BY <2>1 DEF TypeOK
  <2>4. QED
    BY <2>2, <2>3 DEF TalkInv, Undisturbed, Reachable, daemonVars
<1>5. CASE Receive(c)
  <2>1. /\ UNCHANGED daemonVars
        /\ conn' = [conn EXCEPT ![c] = Nothing]
        /\ reply' = [reply EXCEPT ![c] = ""]
    BY <1>5 DEF Receive, HangUp
  <2>2. /\ conn'[c] = Nothing /\ reply'[c] = ""
        /\ \A b \in Commands \ {c} : conn'[b] = conn[b] /\ reply'[b] = reply[b]
    BY <2>1 DEF TypeOK
  <2>3. CASE cmd' = [cmd EXCEPT ![c] = "prompt"] /\ UNCHANGED disturbed /\ reply[c] = "ok"
    <3>1. conn[c] \in Daemons
      <4>1. conn[c] # Nothing
        BY <2>3 DEF TypeOK
      <4>2. QED
        BY <4>1, ConnType
    <3>2. ~disturbed[c] => Reachable(conn[c])
      BY <3>1 DEF TalkInv, Undisturbed
    <3>3. cmd'[c] = "prompt" /\ \A b \in Commands \ {c} : cmd'[b] = cmd[b]
      BY <2>3 DEF TypeOK
    <3>4. Undisturbed(c)'
      BY <2>1, <2>2, <2>3, <3>1, <3>2, <3>3 DEF TalkInv, Undisturbed, Reachable, daemonVars
    <3>5. \A b \in Commands \ {c} : Undisturbed(b)'
      BY <2>1, <2>2, <2>3, <3>3 DEF TalkInv, Undisturbed, Reachable, daemonVars
    <3>6. QED
      BY <3>4, <3>5 DEF TalkInv
  <2>4. CASE EndCommand(c, "idle")
    BY <2>1, <2>2, <2>4, TalkEnd DEF Ended
  <2>5. CASE reply[c] \in {"cut", "reset"} /\ \E how \in Ended : EndCommand(c, how)
    <3>1. disturbed[c]
      BY <2>5 DEF TalkInv, Undisturbed
    <3>2. QED
      BY <2>1, <2>2, <2>5, <3>1, TalkEnd
  <2>6. OnOSError(c) \in Ended /\ "traceback" \in Ended
    BY DEF OnOSError, Ended
  <2>7. QED
    BY <1>5, <2>3, <2>4, <2>5, <2>6 DEF Receive
<1>6. CASE Prompt(c)
  <2>1. UNCHANGED <<daemonVars, conn, reply>> /\ cmd[c] = "prompt"
    BY <1>6 DEF Prompt, talk
  <2>2. conn[c] = Nothing /\ reply[c] = ""
    BY <2>1 DEF TypeOK
  <2>3. CASE cmd' = [cmd EXCEPT ![c] = "unlock"] /\ UNCHANGED disturbed
    <3>1. \A b \in Commands : cmd'[b] = cmd[b] \/ (b = c /\ cmd'[b] = "unlock")
      BY <2>3 DEF TypeOK
    <3>2. QED
      BY <2>1, <2>3, <3>1 DEF TalkInv, Undisturbed, Reachable, daemonVars
  <2>4. CASE EndCommand(c, "idle")
    BY <2>1, <2>2, <2>4, TalkEnd DEF Ended
  <2>5. QED
    BY <1>6, <2>3, <2>4 DEF Prompt
<1>7. QED
  BY <1>1, <1>2, <1>3, <1>4, <1>5, <1>6 DEF CommandStep

\* A command ends in a traceback only if a daemon ended or the socket was removed
\* while it ran; without any daemon it reports an error (_send, _cmd_unlock,
\* _cmd_lock).
THEOREM TracebacksExplained == Spec => []TracebackOnlyWhenDisturbed
<1>1. Init => TalkInv
  BY DEF Init, TalkInv, Undisturbed
<1>2. TypeOK /\ TalkInv /\ [Next]_vars => TalkInv'
  <2> SUFFICES ASSUME TypeOK, TalkInv, [Next]_vars PROVE TalkInv'
    OBVIOUS
  <2>1. CASE UNCHANGED vars
    BY <2>1 DEF TalkInv, Undisturbed, Reachable, vars, daemonVars, talk
  <2>2. CASE Next
    BY <2>2, TalkDaemon, TalkCommand DEF Next
  <2>3. QED
    BY <2>1, <2>2
<1>3. TalkInv => TracebackOnlyWhenDisturbed
  BY DEF TalkInv, Undisturbed, TracebackOnlyWhenDisturbed
<1>4. QED
  BY <1>1, <1>2, <1>3, TypeCorrect, PTL DEF Spec
=============================================================================
