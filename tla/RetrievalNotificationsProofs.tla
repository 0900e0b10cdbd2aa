------------------- MODULE RetrievalNotificationsProofs -------------------
(***************************************************************************)
(* Theorems about the daily log of RetrievalNotifications, for every set   *)
(* of retrievals, summary jobs and channels: what a summary clears it has  *)
(* delivered, and nothing is lost outside the window between its read and  *)
(* its truncation.                                                         *)
(***************************************************************************)
EXTENDS RetrievalNotifications, TLAPS

\* The types of what a summary works with.
SummaryTypes ==
  /\ DOMAIN pc = Jobs
  /\ log \subseteq Daily
  /\ tail \in Daily \cup {Cut, None}
  /\ digest \in [Summaries -> SUBSET Daily]
  /\ todo \in [Summaries -> SUBSET Channels]
  /\ errors \in [Summaries -> BOOLEAN]
  /\ delivered \in [Channels -> SUBSET Daily]
  /\ logged \subseteq Daily
  /\ spoilt \subseteq Daily
  /\ raced \in BOOLEAN

\* A summary that has met no error has delivered its digest on every channel it
\* has used.
DigestDelivered ==
  \A s \in Summaries : pc[s] = "send" /\ ~errors[s] =>
    \A ch \in Channels \ todo[s] : digest[s] \subseteq delivered[ch]

\* Without a race the digest of a running summary covers the log.
DigestCoversLog ==
  ~raced => \A s \in Summaries : pc[s] # "start" => pc[s] = "send" /\ log \subseteq digest[s]

\* A retrieval logs once, and an append that left a line without end has failed.
TailFailed ==
  /\ \A r \in logged : pc[r] # "start"
  /\ tail \notin logged
  /\ tail \in Daily => pc[tail] # "start"

\* The inductive invariant of the daily log.
LogInv ==
  /\ SummaryTypes
  /\ TailFailed
  /\ DigestDelivered
  /\ DigestCoversLog
  /\ NothingLostUnraced

-----------------------------------------------------------------------------
\* Initially nothing is logged and no summary runs.
LEMMA LogInit == Init => LogInv
<1> SUFFICES ASSUME Init PROVE LogInv
  OBVIOUS
<1>1. SummaryTypes
  BY DEF Init, SummaryTypes
<1>2. \A s \in Summaries : pc[s] = "start"
  BY DEF Init, Jobs
<1>3. DigestDelivered /\ DigestCoversLog
  BY <1>2 DEF DigestDelivered, DigestCoversLog
<1>4. NothingLostUnraced
  BY DEF Init, NothingLostUnraced
<1>5. TailFailed
  BY ConstantsAssumption DEF Init, TailFailed, ConstantsAssumption
<1> QED
  BY <1>1, <1>3, <1>4, <1>5 DEF LogInv

\* A step of a retrieval that leaves the log alone leaves the summaries alone.
LEMMA RetrievalStep ==
  ASSUME LogInv, NEW r \in Retrievals, DOMAIN pc' = Jobs,
         \A j \in Jobs \ {r} : pc'[j] = pc[j], pc'[r] # "start",
         UNCHANGED <<logging, sending>>
  PROVE  LogInv'
<1>1. \A s \in Summaries : pc'[s] = pc[s]
  BY ConstantsAssumption DEF ConstantsAssumption, Jobs
<1>2. TailFailed'
  BY ConstantsAssumption DEF LogInv, SummaryTypes, TailFailed, logging, Jobs, ConstantsAssumption
<1>3. SummaryTypes' /\ DigestDelivered' /\ DigestCoversLog' /\ NothingLostUnraced'
  BY <1>1 DEF LogInv, SummaryTypes, DigestDelivered, DigestCoversLog, NothingLostUnraced,
              Reported, sending, logging
<1> QED
  BY <1>2, <1>3 DEF LogInv

\* A step of a summary that adds no record leaves what has failed alone.
LEMMA SummaryFrame ==
  ASSUME LogInv, NEW s \in Summaries, UNCHANGED logged, tail' \in {tail, None},
         \A j \in Jobs \ {s} : pc'[j] = pc[j]
  PROVE  TailFailed'
<1>1. Daily \subseteq Jobs \ {s} /\ None \notin Daily
  BY ConstantsAssumption DEF ConstantsAssumption, Jobs
<1> QED
  BY <1>1 DEF LogInv, SummaryTypes, TailFailed

\* The end of a run of notify-summary that leaves the log alone.
LEMMA FinishStep ==
  ASSUME LogInv, NEW s \in Summaries, Finish(s), UNCHANGED <<delivered, counting, logging>>
  PROVE  LogInv'
<1>1. SummaryTypes'
  BY DEF LogInv, SummaryTypes, Finish, Goto, logging, Jobs
<1>2. \A t \in Summaries \ {s} :
        pc'[t] = pc[t] /\ digest'[t] = digest[t] /\ errors'[t] = errors[t] /\ todo'[t] = todo[t]
  BY DEF LogInv, SummaryTypes, Finish, Goto, Jobs
<1>3. pc'[s] = "start"
  BY DEF LogInv, SummaryTypes, Finish, Goto, Jobs
<1>4. UNCHANGED <<log, tail, logged, spoilt, raced, delivered>>
  BY DEF logging
<1>5. TailFailed'
  <2>1. \A j \in Jobs \ {s} : pc'[j] = pc[j]
    BY DEF LogInv, SummaryTypes, Finish, Goto
  <2> QED
    BY <1>4, <2>1, SummaryFrame
<1> QED
  BY <1>1, <1>2, <1>3, <1>4, <1>5
     DEF LogInv, DigestDelivered, DigestCoversLog, NothingLostUnraced, Reported

\* Every step of retrievals and summaries keeps the invariant.
LEMMA LogStep == LogInv /\ [Next]_vars => LogInv'
<1> SUFFICES ASSUME LogInv, [Next]_vars PROVE LogInv'
  OBVIOUS
<1> USE ConstantsAssumption
<1>1. ASSUME NEW r \in Retrievals, LogRetrieval(r) PROVE LogInv'
  <2>1. /\ DOMAIN pc' = Jobs /\ pc[r] = "start" /\ pc'[r] = "done" /\ r \in Daily
        /\ \A j \in Jobs \ {r} : pc'[j] = pc[j]
    BY <1>1 DEF LogRetrieval, Goto, LogInv, SummaryTypes, Jobs
  <2>2. \A s \in Summaries : pc'[s] = pc[s]
    BY <2>1 DEF Jobs
  <2>3. UNCHANGED <<digest, todo, errors, delivered>>
    BY <1>1 DEF LogRetrieval, sending
  <2>4. CASE UNCHANGED logging
    BY <1>1, <2>1, <2>4, RetrievalStep DEF LogRetrieval
  <2>5. CASE ~UNCHANGED logging
    <3>1. /\ tail' \in {None, r, Cut} /\ (tail' = r => UNCHANGED logged)
          /\ log' \subseteq log \cup {r} /\ log \ {tail} \subseteq log'
          /\ logged' \subseteq logged \cup {r} /\ (r \in logged' \ spoilt' => r \in logged \/ r \in log')
          /\ spoilt \subseteq spoilt' /\ spoilt' \subseteq Daily
          /\ raced' = (raced \/ \E s \in Summaries : pc[s] # "start")
      BY <1>1, <2>5 DEF LogRetrieval, Joined, LogInv, SummaryTypes
    <3>2. SummaryTypes'
      BY <2>1, <2>3, <3>1 DEF LogInv, SummaryTypes
    <3>3. DigestDelivered'
      BY <2>2, <2>3 DEF LogInv, DigestDelivered
    <3>4. r \notin logged
      BY <2>1 DEF LogInv, TailFailed
    <3>5. TailFailed'
      <4>1. \A q \in logged' : pc'[q] # "start"
        BY <2>1, <3>1 DEF LogInv, SummaryTypes, TailFailed, Jobs
      <4>2. tail' \notin logged'
        BY <3>1, <3>2, <3>4 DEF SummaryTypes
      <4> QED
        BY <2>1, <3>1, <4>1, <4>2 DEF TailFailed
    <3>6. DigestCoversLog'
      BY <2>2, <2>3, <3>1 DEF LogInv, DigestCoversLog
    <3>7. NothingLostUnraced'
      BY <2>3, <3>1, <3>4 DEF LogInv, TailFailed, NothingLostUnraced, Reported
    <3> QED
      BY <3>2, <3>3, <3>5, <3>6, <3>7 DEF LogInv
  <2> QED
    BY <2>4, <2>5
<1>2. ASSUME NEW r \in Retrievals,
             \/ NotifyAlways(r) \/ ReadCounter(r) \/ OpenTmp(r) \/ WriteTmp(r)
             \/ ReplaceCounter(r) \/ CounterFails(r) \/ KillRetrieval(r)
      PROVE  LogInv'
  <2>1. UNCHANGED <<logging, sending>>
    BY <1>2 DEF NotifyAlways, ReadCounter, OpenTmp, WriteTmp, ReplaceCounter, CounterFails,
                KillRetrieval
  <2>2. \E label \in PcValues \ {"start"} : Goto(r, label)
    BY <1>2 DEF NotifyAlways, ReadCounter, OpenTmp, WriteTmp, ReplaceCounter, CounterFails,
                KillRetrieval, Counted, Notify, PcValues
  <2>3. DOMAIN pc' = Jobs /\ pc'[r] # "start" /\ \A j \in Jobs \ {r} : pc'[j] = pc[j]
    BY <2>2 DEF Goto, LogInv, SummaryTypes, Jobs
  <2> QED
    BY <2>1, <2>3, RetrievalStep
<1>3. ASSUME NEW s \in Summaries, ReadLog(s) PROVE LogInv'
  <2>1. SummaryTypes'
    BY <1>3 DEF ReadLog, Goto, LogInv, SummaryTypes, logging
  <2>2. /\ pc'[s] = "send" /\ digest'[s] = log /\ todo'[s] = Channels
        /\ \A t \in Summaries \ {s} :
             pc'[t] = pc[t] /\ digest'[t] = digest[t] /\ todo'[t] = todo[t]
        /\ UNCHANGED <<log, tail, logged, spoilt, raced, delivered, errors>>
        /\ \A j \in Jobs \ {s} : pc'[j] = pc[j]
    BY <1>3 DEF ReadLog, Goto, LogInv, SummaryTypes, Jobs, logging
  <2>3. DigestDelivered'
    BY <2>2 DEF LogInv, DigestDelivered
  <2>4. DigestCoversLog' /\ NothingLostUnraced'
    BY <2>2 DEF LogInv, DigestCoversLog, NothingLostUnraced, Reported
  <2>5. TailFailed'
    BY <2>2, SummaryFrame
  <2> QED
    BY <2>1, <2>3, <2>4, <2>5 DEF LogInv
<1>4. ASSUME NEW s \in Summaries, RunRelay(s) PROVE LogInv'
  <2>1. Channel(s) \in Channels
    <3>1. todo[s] \subseteq Channels /\ todo[s] # {}
      BY <1>4 DEF RunRelay, LogInv, SummaryTypes
    <3> QED
      BY <3>1, ConstantsAssumption DEF Channel
  <2>2. SummaryTypes'
    <3>1. /\ UNCHANGED <<pc, log, tail, logged, spoilt, raced, digest>>
          /\ todo' = [todo EXCEPT ![s] = @ \ {Channel(s)}]
          /\ errors' \in {errors, [errors EXCEPT ![s] = TRUE]}
          /\ delivered' \in {delivered, [delivered EXCEPT ![Channel(s)] = @ \cup digest[s]]}
      BY <1>4 DEF RunRelay, logging
    <3>2. todo' \in [Summaries -> SUBSET Channels]
      BY <3>1 DEF LogInv, SummaryTypes
    <3>3. errors' \in [Summaries -> BOOLEAN]
      BY <3>1 DEF LogInv, SummaryTypes
    <3>4. delivered' \in [Channels -> SUBSET Daily]
      <4>1. digest[s] \subseteq Daily
        BY DEF LogInv, SummaryTypes
      <4> QED
        BY <3>1, <4>1, <2>1 DEF LogInv, SummaryTypes
    <3> QED
      BY <3>1, <3>2, <3>3, <3>4 DEF LogInv, SummaryTypes
  <2>3. /\ UNCHANGED <<log, tail, logged, spoilt, raced, pc, digest>>
        /\ \A t \in Summaries \ {s} : todo'[t] = todo[t] /\ errors'[t] = errors[t]
        /\ todo'[s] = todo[s] \ {Channel(s)}
        /\ ~errors'[s] => ~errors[s] /\ digest[s] \subseteq delivered'[Channel(s)]
        /\ \A ch \in Channels : delivered[ch] \subseteq delivered'[ch]
    BY <1>4, <2>1 DEF RunRelay, LogInv, SummaryTypes, logging
  <2>4. DigestDelivered'
    <3> SUFFICES ASSUME NEW t \in Summaries, pc[t] = "send", ~errors'[t],
                        NEW ch \in Channels \ todo'[t]
                 PROVE  digest[t] \subseteq delivered'[ch]
      BY <2>3 DEF DigestDelivered
    <3>1. CASE ch \notin todo[t]
      BY <2>3, <3>1 DEF LogInv, DigestDelivered
    <3>2. CASE ch \in todo[t]
      BY <2>3, <3>2
    <3> QED
      BY <3>1, <3>2
  <2>5. DigestCoversLog'
    BY <2>3 DEF LogInv, DigestCoversLog
  <2>6. NothingLostUnraced'
    BY <2>3 DEF LogInv, NothingLostUnraced, Reported
  <2>7. TailFailed'
    BY <2>3, SummaryFrame
  <2> QED
    BY <2>2, <2>4, <2>5, <2>6, <2>7 DEF LogInv
<1>5. ASSUME NEW s \in Summaries, ClearLog(s) PROVE LogInv'
  <2>1. SummaryTypes'
    BY <1>5 DEF ClearLog, Finish, Goto, LogInv, SummaryTypes
  <2>2. /\ pc'[s] = "start"
        /\ \A t \in Summaries \ {s} :
             pc'[t] = pc[t] /\ digest'[t] = digest[t] /\ todo'[t] = todo[t] /\ errors'[t] = errors[t]
        /\ \A j \in Jobs \ {s} : pc'[j] = pc[j]
        /\ UNCHANGED <<logged, spoilt, raced, delivered>>
        /\ log' \in {log, {}} /\ tail' \in {tail, None}
    BY <1>5 DEF ClearLog, Finish, Goto, LogInv, SummaryTypes, Jobs
  <2>3. \A ch \in Channels : digest[s] \subseteq delivered[ch]
    BY <1>5 DEF ClearLog, LogInv, DigestDelivered
  <2>4. ~raced => log \subseteq digest[s]
    BY <1>5 DEF ClearLog, LogInv, DigestCoversLog
  <2>5. DigestDelivered' /\ DigestCoversLog'
    BY <2>2 DEF LogInv, DigestDelivered, DigestCoversLog
  <2>6. NothingLostUnraced'
    BY <2>2, <2>3, <2>4 DEF LogInv, NothingLostUnraced, Reported
  <2>7. TailFailed'
    BY <2>2, SummaryFrame
  <2> QED
    BY <2>1, <2>5, <2>6, <2>7 DEF LogInv
<1>6. ASSUME NEW s \in Summaries, ReportErrors(s) \/ KillSummary(s) PROVE LogInv'
  BY <1>6, FinishStep DEF ReportErrors, KillSummary
<1>7. CASE UNCHANGED vars
  BY <1>7 DEF vars, counting, logging, sending, LogInv, SummaryTypes, TailFailed,
              DigestDelivered, DigestCoversLog, NothingLostUnraced, Reported
<1> QED
  BY <1>1, <1>2, <1>3, <1>4, <1>5, <1>6, <1>7 DEF Next

\* Only a clearing takes records out of the log, and it has delivered its digest;
\* or an append that joins a record whose own append had failed.
LEMMA ClearingStep ==
  ASSUME LogInv, [Next]_vars, NEW r \in log \ log'
  PROVE  \/ Reported(r)
         \/ r = tail /\ r \notin logged
         \/ \E s \in Summaries : pc[s] = "send" /\ pc'[s] = "start" /\ r \notin digest[s]
<1>1. CASE \E q \in Retrievals : LogRetrieval(q)
  <2>1. r = tail
    BY <1>1 DEF LogRetrieval, Joined, logging
  <2> QED
    BY <2>1 DEF LogInv, TailFailed
<1>2. CASE \E s \in Summaries : ClearLog(s)
  <2>1. PICK s \in Summaries : ClearLog(s)
    BY <1>2
  <2>2. pc[s] = "send" /\ pc'[s] = "start"
    BY <2>1 DEF ClearLog, Finish, Goto, LogInv, SummaryTypes, Jobs
  <2>3. \A ch \in Channels : digest[s] \subseteq delivered[ch]
    BY <2>1 DEF ClearLog, LogInv, DigestDelivered
  <2> QED
    BY <2>2, <2>3 DEF Reported
<1> QED
  BY <1>1, <1>2 DEF Next, vars, counting, logging, NotifyAlways, ReadCounter, OpenTmp,
         WriteTmp, ReplaceCounter, CounterFails, KillRetrieval, ReadLog, RunRelay,
         ReportErrors, KillSummary

-----------------------------------------------------------------------------
\* Every reachable state satisfies the invariant of the daily log.
THEOREM LogInvariance == Spec => []LogInv
BY LogInit, LogStep, PTL DEF Spec

\* While no record is appended during a run of send_daily_summary, no record
\* written by _log_retrieval is lost, whatever fails, is killed or overlaps, but for
\* one that was appended to a line without end.
THEOREM UnracedLogKept == Spec => []NothingLostUnraced
<1>1. LogInv => NothingLostUnraced
  BY DEF LogInv
<1> QED
  BY <1>1, LogInvariance, PTL

\* What send_daily_summary removes from the log has gone out on every channel,
\* or came after it had read the log; nothing else removes a record, but an append
\* to a line that an earlier one has left without end.
THEOREM ClearedDelivered == Spec => ClearedAfterDelivery
<1>1. LogInv /\ [Next]_vars =>
        [\A r \in log \ log' :
           \/ Reported(r)
           \/ r = tail /\ r \notin logged
           \/ \E s \in Summaries : pc[s] = "send" /\ pc'[s] = "start" /\ r \notin digest[s]]_vars
  BY ClearingStep
<1> QED
  BY <1>1, LogInvariance, PTL DEF Spec, ClearedAfterDelivery
=============================================================================
