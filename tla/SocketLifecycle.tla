------------------------- MODULE SocketLifecycle -------------------------
(***************************************************************************)
(* The socket of the provisioning daemon: how daemons come to listen at    *)
(* its path and leave it (ProvisioningServer.serve), and what the commands *)
(* daemon-status, lock and unlock make of a daemon that is not there, or   *)
(* goes while they talk to it (client.py and the _cmd_ functions).         *)
(*                                                                         *)
(* Nothing keeps a second daemon from being started: it removes the socket *)
(* of the first one and binds its own, and whoever ends removes what is at *)
(* the path by then.                                                       *)
(***************************************************************************)
CONSTANTS
  Daemons,  \* the processes that may be daemons, one after the other or at the same time
  Commands, \* the commands that may run at the same time
  Calls,    \* what each of them may ask of a daemon
  Stale,    \* a socket file nobody listens at
  Nothing   \* the absent value

\* unlock first sends the status request of is_running; daemon-status sends this
\* only, and is here an unlock whose user gives up at the prompt.
Requests == {"lock", "unlock"}
Talking == Requests \cup {"probe"}

ASSUME SocketAssumption ==
  /\ Stale \notin Daemons
  /\ Nothing \notin Daemons \cup {Stale}
  /\ Calls \in [Commands -> SUBSET Requests]

VARIABLES
  path,      \* the daemon whose socket is at the path, or Stale, or Nothing
  pc,        \* where each daemon is
  unlocked,  \* whether it holds the master password
  cmd,       \* where each command is
  conn,      \* the daemon it is connected to, or Nothing
  accepted,  \* whether a thread of that daemon serves it
  reply,     \* what it will read, if anything yet
  met,       \* history: another daemon was alive during the life of this one
  disturbed, \* history: during the command a daemon ended or removed the socket
  lastWord   \* history: the last lock or unlock that a daemon did

daemonVars == <<path, pc, met>>
talk == <<conn, accepted, reply>>
vars == <<daemonVars, unlocked, cmd, talk, disturbed, lastWord>>

Alive == {"check", "unlink", "bind", "listen", "serving", "closing", "unlinking", "ending"}
TypeOK ==
  /\ path \in Daemons \cup {Stale, Nothing}
  /\ pc \in [Daemons -> Alive \cup {"off", "failed"}]
  /\ unlocked \in [Daemons -> BOOLEAN]
  /\ cmd \in [Commands -> Talking \cup {"idle", "prompt", "traceback"}]
  /\ conn \in [Commands -> Daemons \cup {Nothing}]
  /\ accepted \in [Commands -> BOOLEAN]
  /\ reply \in [Commands -> {"", "ok", "refused", "cut", "reset"}]
  /\ met \in [Daemons -> BOOLEAN]
  /\ disturbed \in [Commands -> BOOLEAN]
  /\ lastWord \in {"", "lock", "unlock"}
  /\ \A c \in Commands :
       /\ conn[c] # Nothing => cmd[c] \in Talking
       /\ conn[c] = Nothing => ~accepted[c] /\ reply[c] = ""

Init ==
  /\ path \in {Stale, Nothing}
  /\ pc = [d \in Daemons |-> "off"]
  /\ unlocked = [d \in Daemons |-> FALSE]
  /\ cmd = [c \in Commands |-> "idle"]
  /\ conn = [c \in Commands |-> Nothing]
  /\ accepted = [c \in Commands |-> FALSE]
  /\ reply = [c \in Commands |-> ""]
  /\ met = [d \in Daemons |-> FALSE]
  /\ disturbed = [c \in Commands |-> FALSE]
  /\ lastWord = ""

-----------------------------------------------------------------------------
(* The start of a daemon.                                                   *)

Goto(d, label) == pc' = [pc EXCEPT ![d] = label]

Others(d) == {e \in Daemons \ {d} : pc[e] \in Alive}

Ended == {"idle", "traceback"}

Disturb == disturbed' = [c \in Commands |-> disturbed[c] \/ cmd[c] \notin Ended]

Start(d) ==
  /\ pc[d] \in {"off", "failed"}
  /\ Goto(d, "check")
  /\ met' = [e \in Daemons |-> IF e = d THEN Others(d) # {} ELSE met[e] \/ e \in Others(d)]
  /\ UNCHANGED <<path, unlocked, cmd, talk, disturbed, lastWord>>

\* Mutant of CheckPath: the socket a killed daemon has left is not looked for.
CheckPathNever(d) ==
  /\ pc[d] = "check"
  /\ Goto(d, "bind")
  /\ UNCHANGED <<path, met, unlocked, cmd, talk, disturbed, lastWord>>

CheckPath(d) ==
  /\ pc[d] = "check"
  /\ Goto(d, IF path = Nothing THEN "bind" ELSE "unlink")
  /\ UNCHANGED <<path, met, unlocked, cmd, talk, disturbed, lastWord>>

\* unlink() raises FileNotFoundError when the socket has gone since.
UnlinkPath(d) ==
  /\ pc[d] = "unlink"
  /\ path' = Nothing
  /\ Goto(d, IF path = Nothing THEN "failed" ELSE "bind")
  /\ Disturb
  /\ UNCHANGED <<met, unlocked, cmd, talk, lastWord>>

\* bind() raises OSError when there is a socket again.
Bind(d) ==
  /\ pc[d] = "bind"
  /\ \/ path = Nothing /\ path' = d /\ Goto(d, "listen")
     \/ path # Nothing /\ Goto(d, "failed") /\ UNCHANGED path
  /\ UNCHANGED <<met, unlocked, cmd, talk, disturbed, lastWord>>

\* Mutant of Listen: what was at the path is removed only now.
ListenRemoving(d) ==
  /\ pc[d] = "listen"
  /\ path' = Nothing
  /\ Goto(d, "serving")
  /\ UNCHANGED <<met, unlocked, cmd, talk, disturbed, lastWord>>

\* chmod() of the path, which may be another's socket by now or none, and listen().
Listen(d) ==
  /\ pc[d] = "listen"
  /\ Goto(d, IF path = Nothing THEN "failed" ELSE "serving")
  /\ UNCHANGED <<path, met, unlocked, cmd, talk, disturbed, lastWord>>

-----------------------------------------------------------------------------
(* The end of a daemon.                                                     *)

\* The signal handler: the master password is forgotten.
Signal(d) ==
  /\ pc[d] = "serving"
  /\ Goto(d, "closing")
  /\ unlocked' = [unlocked EXCEPT ![d] = FALSE]
  /\ UNCHANGED <<path, met, cmd, talk, disturbed, lastWord>>

\* What is at the path when the socket of d is closed.
Abandoned(d) == IF path = d THEN Stale ELSE path

\* srv_sock.close(): connections nobody has accepted are reset.
CloseSocket(d) ==
  /\ pc[d] = "closing"
  /\ Goto(d, "unlinking")
  /\ path' = Abandoned(d)
  /\ reply' = [c \in Commands |-> IF conn[c] = d /\ ~accepted[c] THEN "reset" ELSE reply[c]]
  /\ Disturb
  /\ UNCHANGED <<met, unlocked, cmd, conn, accepted, lastWord>>

\* Whatever is at the path is removed.
RemovePath(d) ==
  /\ pc[d] = "unlinking"
  /\ Goto(d, "ending")
  /\ path' = Nothing
  /\ Disturb
  /\ UNCHANGED <<met, unlocked, cmd, talk, lastWord>>

\* The process ends, and its threads with it.  A client that has no answer reads
\* the end of the stream, or an error if its request was not read.
Die(d) ==
  /\ Goto(d, "off")
  /\ path' = Abandoned(d)
  /\ met' = [met EXCEPT ![d] = FALSE]
  /\ unlocked' = [unlocked EXCEPT ![d] = FALSE]
  /\ \E how \in {"cut", "reset"} :
       reply' = [c \in Commands |-> IF conn[c] = d /\ reply[c] = "" THEN how ELSE reply[c]]
  /\ Disturb
  /\ UNCHANGED <<cmd, conn, accepted, lastWord>>

\* accept() fails on the closed socket, and serve() returns.
EndServe(d) == pc[d] = "ending" /\ Die(d)

\* SIGKILL, or a signal before the handler is installed.
Kill(d) == pc[d] \in Alive /\ Die(d)

-----------------------------------------------------------------------------
(* The commands.                                                            *)

BeginCommand(c) ==
  /\ cmd[c] \in Ended
  /\ \E call \in Calls[c] : cmd' = [cmd EXCEPT ![c] = IF call = "unlock" THEN "probe" ELSE call]
  /\ disturbed' = [disturbed EXCEPT ![c] = FALSE]
  /\ UNCHANGED <<daemonVars, unlocked, talk, lastWord>>

\* Mutant of HangUp: the socket is not closed.
HangUpNever(c) ==
  /\ reply' = [reply EXCEPT ![c] = ""]
  /\ UNCHANGED <<conn, accepted>>

\* The finally of _send.
HangUp(c) ==
  /\ conn' = [conn EXCEPT ![c] = Nothing]
  /\ accepted' = [accepted EXCEPT ![c] = FALSE]
  /\ reply' = [reply EXCEPT ![c] = ""]

\* A command that ends is idle whatever its exit status, unless it ends in a
\* traceback.
EndCommand(c, how) ==
  /\ cmd' = [cmd EXCEPT ![c] = how]
  /\ disturbed' = [disturbed EXCEPT ![c] = @ /\ how = "traceback"]

\* Mutant of OnOSError: lock does not catch it.
OnOSErrorUncaught(c) == IF cmd[c] \in {"lock", "unlock"} THEN "traceback" ELSE "idle"

\* An OSError of the connection: is_running, daemon-status and lock catch it; the call
\* of client.unlock does not.
OnOSError(c) == IF cmd[c] = "unlock" THEN "traceback" ELSE "idle"

\* _send connects to whoever listens at the path.
Connect(c) ==
  /\ cmd[c] \in Talking
  /\ conn[c] = Nothing
  /\ \/ \E d \in Daemons :
          /\ path = d
          /\ pc[d] \in {"serving", "closing"}
          /\ conn' = [conn EXCEPT ![c] = d]
          /\ UNCHANGED <<cmd, disturbed>>
     \/ /\ \A d \in Daemons : path = d => pc[d] \notin {"serving", "closing"}
        /\ EndCommand(c, OnOSError(c))
        /\ UNCHANGED conn
  /\ UNCHANGED <<daemonVars, unlocked, accepted, reply, lastWord>>

\* The main loop accepts a connection and starts its thread.
Accept(c) ==
  /\ conn[c] # Nothing
  /\ ~accepted[c]
  /\ pc[conn[c]] = "serving"
  /\ accepted' = [accepted EXCEPT ![c] = TRUE]
  /\ UNCHANGED <<daemonVars, unlocked, cmd, conn, reply, disturbed, lastWord>>

Does(c, answer) == reply' = [reply EXCEPT ![c] = answer]

\* Mutant of Handle: lock is answered without being done.
HandleWithoutLock(c) ==
  /\ conn[c] # Nothing
  /\ accepted[c]
  /\ reply[c] = ""
  /\ pc[conn[c]] \in Alive
  /\ Does(c, "ok")
  /\ unlocked' = [unlocked EXCEPT ![conn[c]] = @ \/ cmd[c] = "unlock"]
  /\ lastWord' = IF cmd[c] \in {"lock", "unlock"} THEN cmd[c] ELSE lastWord
  /\ UNCHANGED <<daemonVars, cmd, conn, accepted, disturbed>>

\* handle_request: a right password unlocks, a wrong one is refused.
Handle(c) ==
  /\ conn[c] # Nothing
  /\ accepted[c]
  /\ reply[c] = ""
  /\ pc[conn[c]] \in Alive
  /\ \/ /\ cmd[c] \in {"lock", "unlock"}
        /\ Does(c, "ok")
        /\ unlocked' = [unlocked EXCEPT ![conn[c]] = (cmd[c] = "unlock")]
        /\ lastWord' = cmd[c]
     \/ /\ cmd[c] # "lock"
        /\ Does(c, IF cmd[c] = "unlock" THEN "refused" ELSE "ok")
        /\ UNCHANGED <<unlocked, lastWord>>
  /\ UNCHANGED <<daemonVars, cmd, conn, accepted, disturbed>>

\* Mutant of Receive: it waits for an answer that says ok or not.
ReceiveAnswerOnly(c) ==
  /\ reply[c] \in {"ok", "refused"}
  /\ HangUp(c)
  /\ EndCommand(c, "idle")
  /\ UNCHANGED <<daemonVars, unlocked, lastWord>>

\* What _send reads.  The end of the stream is no JSON, an error nobody catches;
\* a refusal is a ProvisioningClientError.  After the probe of unlock the user
\* is asked for the password.
Receive(c) ==
  /\ reply[c] # ""
  /\ HangUp(c)
  /\ \/ /\ reply[c] = "ok" /\ cmd[c] = "probe"
        /\ cmd' = [cmd EXCEPT ![c] = "prompt"]
        /\ UNCHANGED disturbed
     \/ reply[c] = "ok" /\ cmd[c] # "probe" /\ EndCommand(c, "idle")
     \/ reply[c] = "refused" /\ EndCommand(c, "idle")
     \/ reply[c] = "cut" /\ EndCommand(c, "traceback")
     \/ reply[c] = "reset" /\ EndCommand(c, OnOSError(c))
  /\ UNCHANGED <<daemonVars, unlocked, lastWord>>

\* The user enters a password, or nothing.
Prompt(c) ==
  /\ cmd[c] = "prompt"
  /\ \/ cmd' = [cmd EXCEPT ![c] = "unlock"] /\ UNCHANGED disturbed
     \/ EndCommand(c, "idle")
  /\ UNCHANGED <<daemonVars, unlocked, talk, lastWord>>

-----------------------------------------------------------------------------
DaemonStep(d) ==
  CheckPath(d) \/ UnlinkPath(d) \/ Bind(d) \/ Listen(d) \/ CloseSocket(d) \/ RemovePath(d)
    \/ EndServe(d)

CommandStep(c) == Connect(c) \/ Accept(c) \/ Handle(c) \/ Receive(c) \/ Prompt(c)

Next ==
  \/ \E d \in Daemons : Start(d) \/ DaemonStep(d) \/ Signal(d) \/ Kill(d)
  \/ \E c \in Commands : BeginCommand(c) \/ CommandStep(c)

\* Daemons run, accept connections and serve them; commands run, and their users
\* answer the prompt or give up.
Fairness ==
  /\ \A d \in Daemons : WF_vars(DaemonStep(d))
  /\ \A c \in Commands : WF_vars(CommandStep(c))

Spec == Init /\ [][Next]_vars /\ Fairness

-----------------------------------------------------------------------------
(* Properties.                                                              *)

\* A daemon that serves and is not at the path, so that no command reaches it,
\* has met another daemon: a stale socket, a crash or a signal alone never
\* makes one unreachable.
UnreachableOnlyByOverlap ==
  \A d \in Daemons : pc[d] = "serving" /\ path # d => met[d]

\* The start of a daemon fails at the socket only if it has met another: what a
\* killed daemon has left behind does not keep the next one from serving.
FailsOnlyByOverlap == \A d \in Daemons : pc[d] = "failed" => met[d]

\* When lock was the last thing a daemon was told and did, every daemon is locked
\* that has not met another; one that was taken the path from may keep the
\* master password, and no command can make it forget.
LockReachesAll ==
  lastWord = "lock" => \A d \in Daemons : unlocked[d] => met[d]

\* A command ends in a traceback only if a daemon ended, or a new one removed
\* the socket, while it ran: no daemon at all is an error it reports.
TracebackOnlyWhenDisturbed ==
  \A c \in Commands : cmd[c] = "traceback" => disturbed[c]

\* A command that runs ends, whatever becomes of the daemon it talks to.
CommandsEnd == \A c \in Commands : []<>(cmd[c] \in Ended)
=============================================================================
