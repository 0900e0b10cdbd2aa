---------------------- MODULE RetrievalNotifications ----------------------
(***************************************************************************)
(* The notifications about password retrievals (notifications.py).         *)
(*                                                                         *)
(* Every retrieval is a process of its own.  By its environment it either  *)
(* appends a record to the daily log, which `notify-summary` later sends   *)
(* as a digest and clears, or counts itself in a counter file and sends a  *)
(* notification if its number is a multiple of its every_n.  The processes *)
(* share the log, the counter file and the counter's temporary file, and   *)
(* none of the three is locked.  Every file operation and every run of a   *)
(* relay script is a step of its own; any of them may fail, and any        *)
(* process may be killed between two of them.                              *)
(***************************************************************************)
EXTENDS Naturals, FiniteSets

CONSTANTS
  Retrievals,  \* retrievals of a password with notifications switched on
  Daily,       \* those whose environment asks for the daily summary
  EveryN,      \* the every_n of each retrieval
  Summaries,   \* jobs that run notify-summary, again and again
  Channels,    \* the channels with a recipient
  None,        \* the absent file
  Cut          \* a line of the log that is no record

Jobs == Retrievals \cup Summaries

ASSUME ConstantsAssumption ==
  /\ IsFiniteSet(Retrievals)
  /\ Daily \subseteq Retrievals
  /\ EveryN \in [Retrievals -> Nat \ {0}]
  /\ Retrievals \cap Summaries = {}
  /\ Channels \subseteq {"email", "signal"}
  /\ None \notin Nat \cup Daily
  /\ Cut \notin Daily \cup {None}

VARIABLES
  log,        \* the records that can be read in the log, each named by its retrieval
  tail,       \* what its last line holds if that has no end: a record or Cut, or None
  counter,    \* the number in the counter file, 0 if there is none
  tmp,        \* the number in the temporary file (0: empty), or None
  pc,         \* the next step of each job
  number,     \* the number each retrieval gave itself
  handle,     \* the file each retrieval has open: counter and tmp move
  digest,     \* the records each summary is sending
  todo,       \* the channels it has yet to use
  errors,     \* whether a channel has failed it
  delivered,  \* the records that went out on each channel
  fired,      \* the retrievals that sent a notification of their own
  logged,     \* history: the retrievals whose append succeeded
  spoilt,     \* history: those whose record was appended to a line without end
  order,      \* history: the position of each retrieval among those counted
  disturbed,  \* history: an update of the counter overlapped or was cut short
  raced       \* history: a record was appended while a summary was running

counting == <<counter, tmp, number, handle, fired, order, disturbed>>
logging == <<log, tail, logged, spoilt, raced>>
sending == <<digest, todo, errors, delivered>>
vars == <<pc, counting, logging, sending>>

PcValues == {"start", "open", "write", "replace", "send", "done"}

\* The highest number a retrieval may get.
Position == Cardinality(Retrievals \ Daily)

TypeOK ==
  /\ log \in SUBSET Daily
  /\ tail \in Daily \cup {Cut, None}
  /\ counter \in 0..Position
  /\ tmp \in 0..Position \cup {None}
  /\ pc \in [Jobs -> PcValues]
  /\ number \in [Retrievals -> 0..Position]
  /\ handle \in [Retrievals -> {"none", "tmp", "counter", "gone"}]
  /\ digest \in [Summaries -> SUBSET Daily]
  /\ todo \in [Summaries -> SUBSET Channels]
  /\ errors \in [Summaries -> BOOLEAN]
  /\ delivered \in [Channels -> SUBSET Daily]
  /\ fired \in SUBSET (Retrievals \ Daily)
  /\ logged \in SUBSET Daily
  /\ spoilt \in SUBSET Daily
  /\ order \in [Retrievals -> 0..Position]
  /\ disturbed \in BOOLEAN
  /\ raced \in BOOLEAN

Init ==
  /\ log = {}
  /\ tail = None
  /\ counter = 0
  /\ tmp = None
  /\ pc = [j \in Jobs |-> "start"]
  /\ number = [r \in Retrievals |-> 0]
  /\ handle = [r \in Retrievals |-> "none"]
  /\ digest = [s \in Summaries |-> {}]
  /\ todo = [s \in Summaries |-> {}]
  /\ errors = [s \in Summaries |-> FALSE]
  /\ delivered = [ch \in Channels |-> {}]
  /\ fired = {}
  /\ logged = {}
  /\ spoilt = {}
  /\ order = [r \in Retrievals |-> 0]
  /\ disturbed = FALSE
  /\ raced = FALSE

-----------------------------------------------------------------------------
(* Helpers.                                                                 *)

Goto(j, label) == pc' = [pc EXCEPT ![j] = label]

\* A retrieval between the read and the replacement of the counter.
Updating(r) == pc[r] \in {"open", "write", "replace"}

\* The retrieval sends a notification of its own, on each channel.  Failures of
\* the scripts end as a warning: the value is returned all the same, and nothing
\* the jobs share depends on them.
Notify(r) ==
  /\ fired' = fired \cup {r}
  /\ Goto(r, "done")

\* Mutant of Counted: one too early.
CountedEarly(r) ==
  IF (number[r] + 1) % EveryN[r] = 0 THEN Notify(r) ELSE Goto(r, "done") /\ UNCHANGED fired

\* A retrieval is done with the counter: send, or return.
Counted(r) ==
  IF number[r] % EveryN[r] = 0 THEN Notify(r) ELSE Goto(r, "done") /\ UNCHANGED fired

\* A run of notify-summary ends; its job may start the next one.
Finish(s) ==
  /\ Goto(s, "start")
  /\ digest' = [digest EXCEPT ![s] = {}]
  /\ todo' = [todo EXCEPT ![s] = {}]
  /\ errors' = [errors EXCEPT ![s] = FALSE]

-----------------------------------------------------------------------------
(* _log_retrieval                                                           *)

\* A line without end takes up what is appended, and neither record is read.
Joined == log \ {tail}

\* The append succeeds; or an OSError, which is swallowed, or a kill cuts it short:
\* the line is left without its end, perhaps of nothing but that; or nothing is
\* written.
LogRetrieval(r) ==
  /\ r \in Daily
  /\ pc[r] = "start"
  /\ \/ /\ \/ tail = None /\ log' = log \cup {r} /\ UNCHANGED spoilt
           \/ tail # None /\ log' = Joined /\ spoilt' = spoilt \cup {r}
        /\ tail' = None
        /\ logged' = logged \cup {r}
        /\ raced' = (raced \/ \E s \in Summaries : pc[s] # "start")
     \/ /\ \/ tail = None /\ tail' = r /\ log' = log \cup {r}
           \/ tail' = Cut /\ log' = Joined
        /\ raced' = (raced \/ \E s \in Summaries : pc[s] # "start")
        /\ UNCHANGED <<logged, spoilt>>
     \/ UNCHANGED logging
  /\ Goto(r, "done")
  /\ UNCHANGED <<counting, sending>>

-----------------------------------------------------------------------------
(* _read_and_increment_counter                                              *)

\* every_n <= 1: no throttle, no count.
NotifyAlways(r) ==
  /\ r \notin Daily
  /\ EveryN[r] = 1
  /\ pc[r] = "start"
  /\ Notify(r)
  /\ UNCHANGED <<counter, tmp, number, handle, order, disturbed, logging, sending>>

\* A counter that cannot be read counts as 0.
ReadCounter(r) ==
  /\ r \notin Daily
  /\ EveryN[r] > 1
  /\ pc[r] = "start"
  /\ \/ /\ number' = [number EXCEPT ![r] = counter + 1]
        /\ disturbed' = (disturbed \/ \E q \in Retrievals : Updating(q))
     \/ /\ number' = [number EXCEPT ![r] = 1]
        /\ disturbed' = TRUE
  /\ order' = [order EXCEPT ![r] = Cardinality({q \in Retrievals : order[q] # 0}) + 1]
  /\ Goto(r, "open")
  /\ UNCHANGED <<counter, tmp, handle, fired, logging, sending>>

\* Opening the temporary file for writing creates or truncates it.
OpenTmp(r) ==
  /\ pc[r] = "open"
  /\ tmp' = 0
  /\ handle' = [handle EXCEPT ![r] = "tmp"]
  /\ Goto(r, "write")
  /\ UNCHANGED <<counter, number, fired, order, disturbed, logging, sending>>

\* Mutant of WriteTmp: the number is not in the file yet when the file is moved.
WriteTmpUnflushed(r) ==
  /\ pc[r] = "write"
  /\ handle' = [handle EXCEPT ![r] = "none"]
  /\ Goto(r, "replace")
  /\ UNCHANGED <<counter, tmp, number, fired, order, disturbed, logging, sending>>

\* The number goes into the file that was opened, which another process may
\* have moved to the counter's path meanwhile, or replaced there.
WriteTmp(r) ==
  /\ pc[r] = "write"
  /\ tmp' = IF handle[r] = "tmp" THEN number[r] ELSE tmp
  /\ counter' = IF handle[r] = "counter" THEN number[r] ELSE counter
  /\ handle' = [handle EXCEPT ![r] = "none"]
  /\ Goto(r, "replace")
  /\ UNCHANGED <<number, fired, order, disturbed, logging, sending>>

\* Mutant of ReplaceCounter: the retrieval is counted once more.
ReplaceCounterAgain(r) ==
  /\ pc[r] = "replace"
  /\ tmp # None
  /\ counter' = tmp + 1
  /\ tmp' = None
  /\ Counted(r)
  /\ UNCHANGED <<number, handle, order, disturbed, logging, sending>>

\* The temporary file replaces the counter; that another process has already
\* moved it is an OSError, which is swallowed.
ReplaceCounter(r) ==
  /\ pc[r] = "replace"
  /\ \/ /\ tmp # None
        /\ counter' = tmp
        /\ tmp' = None
        /\ handle' = [q \in Retrievals |->
             CASE handle[q] = "tmp" -> "counter"
               [] handle[q] = "counter" -> "gone"
               [] OTHER -> handle[q]]
     \/ /\ tmp = None
        /\ UNCHANGED <<counter, tmp, handle>>
  /\ Counted(r)
  /\ UNCHANGED <<number, order, disturbed, logging, sending>>

\* Any of the three file operations may fail; the retrieval goes on uncounted.
CounterFails(r) ==
  /\ Updating(r)
  /\ disturbed' = TRUE
  /\ handle' = [handle EXCEPT ![r] = "none"]
  /\ Counted(r)
  /\ UNCHANGED <<counter, tmp, number, order, logging, sending>>

-----------------------------------------------------------------------------
(* send_daily_summary                                                       *)

\* An empty log is no error: nothing is sent.
ReadLog(s) ==
  /\ pc[s] = "start"
  /\ log # {}
  /\ digest' = [digest EXCEPT ![s] = log]
  /\ todo' = [todo EXCEPT ![s] = Channels]
  /\ Goto(s, "send")
  /\ UNCHANGED <<errors, delivered, counting, logging>>

\* Email goes first.
Channel(s) == IF "email" \in todo[s] THEN "email" ELSE "signal"

\* Mutant of RunRelay: the success of one channel hides the failure of another.
RunRelayForgetting(s) ==
  /\ pc[s] = "send"
  /\ todo[s] # {}
  /\ \/ /\ delivered' = [delivered EXCEPT ![Channel(s)] = @ \cup digest[s]]
        /\ errors' = [errors EXCEPT ![s] = FALSE]
     \/ /\ errors' = [errors EXCEPT ![s] = TRUE]
        /\ UNCHANGED delivered
  /\ todo' = [todo EXCEPT ![s] = @ \ {Channel(s)}]
  /\ UNCHANGED <<pc, digest, counting, logging>>

\* A script that fails may have sent the digest all the same; its error does not
\* keep the summary from the other channel.
RunRelay(s) ==
  /\ pc[s] = "send"
  /\ todo[s] # {}
  /\ \/ /\ delivered' = [delivered EXCEPT ![Channel(s)] = @ \cup digest[s]]
        /\ errors' \in {errors, [errors EXCEPT ![s] = TRUE]}
     \/ /\ errors' = [errors EXCEPT ![s] = TRUE]
        /\ UNCHANGED delivered
  /\ todo' = [todo EXCEPT ![s] = @ \ {Channel(s)}]
  /\ UNCHANGED <<pc, digest, counting, logging>>

\* Mutant of ClearLog: the log is truncated whatever the channels said.
ClearLogAnyway(s) ==
  /\ pc[s] = "send"
  /\ todo[s] = {}
  /\ \/ log' = {} /\ tail' = None
     \/ UNCHANGED <<log, tail>>
  /\ Finish(s)
  /\ UNCHANGED <<logged, spoilt, raced, delivered, counting>>

\* All channels are used: without errors the log is truncated, where an OSError
\* is swallowed; otherwise the errors are reported and the log stays.
ClearLog(s) ==
  /\ pc[s] = "send"
  /\ todo[s] = {}
  /\ ~errors[s]
  /\ \/ log' = {} /\ tail' = None
     \/ UNCHANGED <<log, tail>>
  /\ Finish(s)
  /\ UNCHANGED <<logged, spoilt, raced, delivered, counting>>

ReportErrors(s) ==
  /\ pc[s] = "send"
  /\ todo[s] = {}
  /\ errors[s]
  /\ Finish(s)
  /\ UNCHANGED <<delivered, counting, logging>>

\* The summary is killed, or it has no recipient or no shock-relay checkout.
KillSummary(s) ==
  /\ pc[s] = "send"
  /\ Finish(s)
  /\ UNCHANGED <<delivered, counting, logging>>

\* A retrieval is killed during its update of the counter.
KillRetrieval(r) ==
  /\ Updating(r)
  /\ disturbed' = TRUE
  /\ handle' = [handle EXCEPT ![r] = "none"]
  /\ Goto(r, "done")
  /\ UNCHANGED <<counter, tmp, number, fired, order, logging, sending>>

-----------------------------------------------------------------------------
Next ==
  \/ \E r \in Retrievals :
       \/ LogRetrieval(r) \/ NotifyAlways(r)
       \/ ReadCounter(r) \/ OpenTmp(r) \/ WriteTmp(r) \/ ReplaceCounter(r)
       \/ CounterFails(r) \/ KillRetrieval(r)
  \/ \E s \in Summaries :
       ReadLog(s) \/ RunRelay(s) \/ ClearLog(s) \/ ReportErrors(s) \/ KillSummary(s)

Spec == Init /\ [][Next]_vars

-----------------------------------------------------------------------------
(* Properties.                                                              *)

Reported(r) == \A ch \in Channels : r \in delivered[ch]

\* The window in which a record can be lost is no wider than one summary: what a
\* clearing removes has gone out on every channel, also if several summaries
\* overlap and some fail half-way, or was appended after this summary read the
\* log; apart from that only the record of a line that an append cut short left
\* without end is lost, when the next one joins it (send_daily_summary,
\* _log_retrieval).
ClearedAfterDelivery ==
  [][\A r \in log \ log' :
       \/ Reported(r)
       \/ r = tail /\ r \notin logged
       \/ \E s \in Summaries : pc[s] = "send" /\ pc'[s] = "start" /\ r \notin digest[s]]_vars

\* While no record is appended during a summary, every record written is in the
\* log or has gone out on every channel, whatever fails or is killed, but for one
\* that was appended to a line without end.
NothingLostUnraced ==
  ~raced => \A r \in logged \ spoilt : r \in log \/ Reported(r)

\* The same without the condition: "Send a digest of all logged retrievals and
\* clear the log."
NoRetrievalLost ==
  \A r \in logged \ spoilt : r \in log \/ Reported(r)

\* Once updates of the counter overlap, numbers are given twice and the counter
\* may fall back, but no retrieval gets a number beyond its position, so none
\* sends before every_n retrievals have been counted.
NeverEarly ==
  \A r \in Retrievals :
    /\ number[r] <= order[r]
    /\ EveryN[r] > 1 /\ r \in fired => order[r] >= EveryN[r]

\* While updates neither overlap nor fail, exactly every every_n-th retrieval
\* counted sends a notification: "Fires on every every_n-th retrieval".
FiresOnEveryNth ==
  ~disturbed => \A r \in Retrievals :
    pc[r] = "done" /\ order[r] # 0 => (r \in fired <=> order[r] % EveryN[r] = 0)
=============================================================================
