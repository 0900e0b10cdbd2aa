---------------------- MODULE RetrievalCounterProofs ----------------------
(***************************************************************************)
(* Theorems about the counter of RetrievalNotifications, for any finite    *)
(* set of retrievals and any every_n of each.                              *)
(***************************************************************************)
EXTENDS RetrievalNotificationsProofs, FiniteSetTheorems

\* The retrievals that have been counted.
Ordered == {q \in Retrievals : order[q] # 0}
Count == Cardinality(Ordered)

CounterTypes ==
  /\ counter \in Nat
  /\ tmp \in Nat \cup {None}
  /\ pc \in [Jobs -> PcValues]
  /\ number \in [Retrievals -> Nat]
  /\ order \in [Retrievals -> Nat]
  /\ handle \in [Retrievals -> {"none", "tmp", "counter", "gone"}]
  /\ fired \in SUBSET (Retrievals \ Daily)
  /\ disturbed \in BOOLEAN

\* What each retrieval has, by where it is.
Counting ==
  \A r \in Retrievals :
    /\ pc[r] # "send"
    /\ pc[r] = "start" => order[r] = 0
    /\ order[r] # 0 => EveryN[r] > 1 /\ r \notin Daily
    /\ Updating(r) => number[r] # 0 /\ order[r] # 0
    /\ pc[r] # "done" => r \notin fired
    /\ EveryN[r] > 1 /\ r \in fired => order[r] >= EveryN[r]

\* No number is above those of the retrievals counted.
Bounded ==
  /\ counter <= Count
  /\ tmp # None => tmp <= Count
  /\ \A r \in Retrievals : number[r] <= order[r] /\ order[r] <= Count

\* Without a disturbance each retrieval gets its own position, and the counter
\* is moved forward by one retrieval at a time.
Undisturbed ==
  ~disturbed =>
    /\ \A r, q \in Retrievals : Updating(r) /\ Updating(q) => r = q
    /\ (\A r \in Retrievals : ~Updating(r)) => counter = Count
    /\ \A r \in Retrievals :
         /\ order[r] # 0 => number[r] = order[r]
         /\ Updating(r) => number[r] = Count
         /\ pc[r] = "write" => handle[r] = "tmp"
         /\ pc[r] = "replace" => tmp = number[r]
         /\ pc[r] = "done" /\ order[r] # 0 => (r \in fired <=> order[r] % EveryN[r] = 0)

CountInv == CounterTypes /\ Counting /\ Bounded /\ Undisturbed

-----------------------------------------------------------------------------
\* Who is counted is finite.
LEMMA CountFinite == IsFiniteSet(Retrievals) /\ IsFiniteSet(Ordered) /\ Count \in Nat
<1>1. IsFiniteSet(Retrievals)
  BY ConstantsAssumption DEF ConstantsAssumption
<1>2. Ordered \subseteq Retrievals
  BY DEF Ordered
<1>3. QED
  BY <1>1, <1>2, FS_Subset, FS_CardinalityType DEF Count

\* A multiple of every_n that is not 0 is no smaller.
LEMMA Multiple ==
  ASSUME NEW n \in Nat, NEW e \in Nat, n # 0, e > 1, n % e = 0
  PROVE  n >= e
OBVIOUS

\* No daily summary touches the counter, no retrieval a job that is not its own.
LEMMA CountFrame ==
  ASSUME CountInv, UNCHANGED counting, pc' \in [Jobs -> PcValues],
         \A r \in Retrievals :
           pc'[r] = pc[r] \/ (order[r] = 0 /\ r \notin fired /\ ~Updating(r) /\ pc'[r] = "done")
  PROVE  CountInv'
<1>1. UNCHANGED <<counter, tmp, number, handle, fired, order, disturbed>>
  BY DEF counting
<1>2. \A r \in Retrievals : Updating(r)' <=> Updating(r)
  BY DEF Updating
<1>3. Count' = Count
  BY <1>1 DEF Count, Ordered
<1>4. CounterTypes' /\ Counting' /\ Bounded' /\ Undisturbed'
  <2>1. CounterTypes'
    BY <1>1 DEF CountInv, CounterTypes
  <2>2. Counting'
    BY <1>1, <1>2 DEF CountInv, Counting
  <2>3. Bounded'
    BY <1>1, <1>3 DEF CountInv, Bounded
  <2>4. Undisturbed'
    BY <1>1, <1>2, <1>3 DEF CountInv, Undisturbed
  <2>5. QED
    BY <2>1, <2>2, <2>3, <2>4
<1>5. QED
  BY <1>4 DEF CountInv

\* Where a job goes next.
LEMMA GotoType ==
  ASSUME CounterTypes, NEW j \in Jobs, NEW label \in PcValues, Goto(j, label)
  PROVE  /\ pc' \in [Jobs -> PcValues]
         /\ pc'[j] = label
         /\ \A i \in Jobs \ {j} : pc'[i] = pc[i]
BY DEF CounterTypes, Goto

\* The steps of a summary.
LEMMA CountSummary ==
  ASSUME CountInv, NEW s \in Summaries,
         ReadLog(s) \/ RunRelay(s) \/ ClearLog(s) \/ ReportErrors(s) \/ KillSummary(s)
  PROVE  CountInv'
<1>1. UNCHANGED counting
  BY DEF ReadLog, RunRelay, ClearLog, ReportErrors, KillSummary
<1>2. s \in Jobs /\ \A r \in Retrievals : r \in Jobs /\ r # s
  BY ConstantsAssumption DEF ConstantsAssumption, Jobs
<1>3. UNCHANGED pc \/ \E label \in PcValues : Goto(s, label)
  BY DEF ReadLog, RunRelay, ClearLog, ReportErrors, KillSummary, Finish, PcValues
<1>4. pc' \in [Jobs -> PcValues] /\ \A r \in Retrievals : pc'[r] = pc[r]
  BY <1>2, <1>3, GotoType DEF CountInv, CounterTypes
<1>5. QED
  BY <1>1, <1>4, CountFrame

\* A retrieval reads the counter: it is the next one in order.
LEMMA CountRead ==
  ASSUME CountInv, NEW r \in Retrievals, ReadCounter(r)
  PROVE  CountInv'
<1>1. /\ r \notin Daily /\ EveryN[r] > 1 /\ pc[r] = "start" /\ order[r] = 0 /\ ~Updating(r)
      /\ r \notin fired
  BY DEF ReadCounter, CountInv, Counting, Updating
<1>2. r \in Jobs /\ Retrievals \subseteq Jobs
  BY DEF Jobs
<1>3. pc' \in [Jobs -> PcValues] /\ pc'[r] = "open" /\ \A q \in Retrievals \ {r} : pc'[q] = pc[q]
  BY <1>2, GotoType DEF ReadCounter, CountInv, PcValues
<1>4. UNCHANGED <<counter, tmp, handle, fired>>
  BY DEF ReadCounter
<1>5. order' = [order EXCEPT ![r] = Count + 1]
  BY DEF ReadCounter, Count, Ordered
<1>6. Count' = Count + 1
  <2>1. Ordered' = Ordered \cup {r} /\ r \notin Ordered
    BY <1>1, <1>5, CountFinite DEF Ordered, CountInv, CounterTypes
  <2>2. QED
    BY <2>1, CountFinite, FS_AddElement DEF Count
<1>7. PICK n \in Nat : /\ number' = [number EXCEPT ![r] = n] /\ n # 0 /\ n <= Count + 1
                       /\ ~disturbed' => /\ n = counter + 1 /\ ~disturbed
                                         /\ \A q \in Retrievals : ~Updating(q)
  <2>1. CASE /\ number' = [number EXCEPT ![r] = counter + 1]
             /\ disturbed' = (disturbed \/ \E q \in Retrievals : Updating(q))
    <3>1. counter \in Nat /\ counter <= Count /\ Count \in Nat
      BY CountFinite DEF CountInv, CounterTypes, Bounded
    <3>2. counter + 1 \in Nat /\ counter + 1 # 0 /\ counter + 1 <= Count + 1
      BY <3>1
    <3>3. ~disturbed' => ~disturbed /\ \A q \in Retrievals : ~Updating(q)
      BY <2>1
    <3>4. QED
      BY <2>1, <3>2, <3>3
  <2>2. CASE number' = [number EXCEPT ![r] = 1] /\ disturbed' = TRUE
    <3>1. 1 \in Nat /\ 1 # 0 /\ 1 <= Count + 1
      BY CountFinite
    <3>2. disturbed'
      BY <2>2
    <3>3. QED
      BY <2>2, <3>1, <3>2
  <2>3. QED
    BY <2>1, <2>2 DEF ReadCounter
<1>8. disturbed' \in BOOLEAN
  <2>1. (disturbed \/ \E q \in Retrievals : Updating(q)) \in BOOLEAN
    OBVIOUS
  <2>2. QED
    BY <2>1 DEF ReadCounter
<1>9. /\ order'[r] = Count + 1 /\ number'[r] = n
      /\ \A q \in Retrievals \ {r} : order'[q] = order[q] /\ number'[q] = number[q]
  BY <1>5, <1>7, CountFinite DEF CountInv, CounterTypes
<1>10. \A q \in Retrievals \ {r} : Updating(q)' <=> Updating(q)
  BY <1>3 DEF Updating
<1>11. CounterTypes'
  BY <1>3, <1>4, <1>5, <1>7, <1>8, CountFinite DEF CountInv, CounterTypes
<1>12. Counting'
  BY <1>1, <1>3, <1>4, <1>7, <1>9, <1>10, CountFinite DEF CountInv, Counting
<1>13. Bounded'
  BY <1>4, <1>6, <1>7, <1>9, CountFinite DEF CountInv, Bounded, CounterTypes
<1>14. Undisturbed'
  <2> SUFFICES ASSUME ~disturbed' PROVE Undisturbed'
    BY DEF Undisturbed
  <2>1. n = counter + 1 /\ ~disturbed /\ \A q \in Retrievals : ~Updating(q)
    BY <1>7
  <2>2. counter = Count /\ n = Count + 1
    BY <2>1 DEF CountInv, Undisturbed
  <2>3. Updating(r)' /\ \A q \in Retrievals \ {r} : ~Updating(q)'
    BY <1>3, <1>10, <2>1 DEF Updating
  <2>4. \A q \in Retrievals \ {r} : pc'[q] \notin {"write", "replace"}
    BY <2>3 DEF Updating
  <2>5. QED
    BY <1>3, <1>4, <1>6, <1>9, <2>1, <2>2, <2>3, <2>4 DEF CountInv, Undisturbed
<1>15. QED
  BY <1>11, <1>12, <1>13, <1>14 DEF CountInv

\* What Counted does: the retrieval sends exactly when its number is a multiple.
LEMMA CountedStep ==
  ASSUME CountInv, NEW r \in Retrievals, Updating(r), Counted(r)
  PROVE  /\ pc' \in [Jobs -> PcValues] /\ pc'[r] = "done"
         /\ \A q \in Retrievals \ {r} : pc'[q] = pc[q]
         /\ fired' \in SUBSET (Retrievals \ Daily)
         /\ \A q \in Retrievals \ {r} : q \in fired' <=> q \in fired
         /\ r \in fired' <=> number[r] % EveryN[r] = 0
         /\ r \in fired' => order[r] >= EveryN[r]
<1>1. Goto(r, "done") /\ r \in Jobs /\ Retrievals \subseteq Jobs /\ "done" \in PcValues
  BY DEF Counted, Notify, Jobs, PcValues
<1>2. /\ pc' \in [Jobs -> PcValues] /\ pc'[r] = "done"
      /\ \A q \in Retrievals \ {r} : pc'[q] = pc[q]
  BY <1>1, GotoType DEF CountInv
<1>3. /\ r \notin Daily /\ r \notin fired /\ EveryN[r] > 1
      /\ number[r] # 0 /\ number[r] <= order[r]
  BY DEF CountInv, Counting, Bounded, Updating
<1>4. fired' = IF number[r] % EveryN[r] = 0 THEN fired \cup {r} ELSE fired
  BY DEF Counted, Notify
<1>5. number[r] % EveryN[r] = 0 => order[r] >= EveryN[r]
  <2>1. number[r] \in Nat /\ order[r] \in Nat /\ EveryN[r] \in Nat
    BY ConstantsAssumption DEF ConstantsAssumption, CountInv, CounterTypes
  <2>2. number[r] % EveryN[r] = 0 => number[r] >= EveryN[r]
    BY <1>3, <2>1, Multiple
  <2>3. QED
    BY <1>3, <2>1, <2>2
<1>6. /\ fired' \in SUBSET (Retrievals \ Daily)
      /\ \A q \in Retrievals \ {r} : q \in fired' <=> q \in fired
      /\ r \in fired' <=> number[r] % EveryN[r] = 0
  BY <1>3, <1>4 DEF CountInv, CounterTypes
<1>7. QED
  BY <1>2, <1>5, <1>6

\* The parts that a step between the read of the counter and the end keeps, if
\* no number is written that was not given.
LEMMA CountKeeps ==
  ASSUME CountInv, NEW r \in Retrievals, Updating(r), UNCHANGED <<number, order>>,
         pc' \in [Jobs -> PcValues], pc'[r] \in {"write", "replace", "done"},
         \A q \in Retrievals \ {r} : pc'[q] = pc[q],
         fired' \in SUBSET (Retrievals \ Daily),
         \A q \in Retrievals \ {r} : q \in fired' <=> q \in fired,
         pc'[r] # "done" => r \notin fired',
         r \in fired' => order[r] >= EveryN[r],
         counter' \in Nat, counter' <= Count, tmp' \in Nat \cup {None}, tmp' # None => tmp' <= Count,
         handle' \in [Retrievals -> {"none", "tmp", "counter", "gone"}], disturbed' \in BOOLEAN
  PROVE  CounterTypes' /\ Counting' /\ Bounded' /\ Count' = Count
<1>1. CounterTypes'
  BY DEF CountInv, CounterTypes
<1>2. Count' = Count
  BY DEF Count, Ordered
<1>3. Bounded'
  BY <1>2 DEF CountInv, Bounded
<1>4. ASSUME NEW q \in Retrievals \ {r}
      PROVE  (Updating(q)' <=> Updating(q)) /\ pc'[q] = pc[q] /\ (q \in fired' <=> q \in fired)
  BY DEF Updating
<1>5. number[r] # 0 /\ order[r] # 0
  BY DEF CountInv, Counting
<1>6. Counting'
  BY <1>4, <1>5 DEF CountInv, Counting
<1>7. QED
  BY <1>1, <1>2, <1>3, <1>6

\* The temporary file is opened and written.
LEMMA CountWrite ==
  ASSUME CountInv, NEW r \in Retrievals, OpenTmp(r) \/ WriteTmp(r)
  PROVE  CountInv'
<1>1. Updating(r) /\ UNCHANGED <<number, order, fired, disturbed>> /\ r \notin fired
  BY DEF OpenTmp, WriteTmp, Updating, CountInv, Counting
<1>2. PICK label \in {"write", "replace"} :
        /\ Goto(r, label)
        /\ label = "write" => OpenTmp(r)
        /\ label = "replace" => WriteTmp(r)
  BY DEF OpenTmp, WriteTmp
<1>3. /\ pc' \in [Jobs -> PcValues] /\ pc'[r] = label
      /\ \A q \in Retrievals \ {r} : pc'[q] = pc[q]
  BY <1>2, GotoType DEF CountInv, Jobs, PcValues
<1>4. number[r] \in Nat /\ number[r] <= Count /\ Count \in Nat
  BY CountFinite DEF CountInv, CounterTypes, Bounded
<1>5. /\ counter' \in Nat /\ counter' <= Count
      /\ tmp' \in Nat \cup {None} /\ (tmp' # None => tmp' <= Count)
  BY <1>4 DEF OpenTmp, WriteTmp, CountInv, CounterTypes, Bounded
<1>6. handle' \in [Retrievals -> {"none", "tmp", "counter", "gone"}]
  BY DEF OpenTmp, WriteTmp, CountInv, CounterTypes
<1>7. CounterTypes' /\ Counting' /\ Bounded' /\ Count' = Count
  <2>1. disturbed' \in BOOLEAN /\ fired' \in SUBSET (Retrievals \ Daily)
    BY <1>1 DEF CountInv, CounterTypes
  <2>2. QED
    BY <1>1, <1>2, <1>3, <1>5, <1>6, <2>1, CountKeeps
<1>8. Undisturbed'
  <2> SUFFICES ASSUME ~disturbed' PROVE Undisturbed'
    BY DEF Undisturbed
  <2>1. \A q \in Retrievals : Updating(q) => q = r
    BY <1>1 DEF CountInv, Undisturbed
  <2>2. Updating(r)' /\ \A q \in Retrievals \ {r} : ~Updating(q)'
    BY <1>3, <2>1 DEF Updating
  <2>3. number[r] = Count
    BY <1>1 DEF CountInv, Undisturbed
  <2>4. /\ pc'[r] = "write" => handle'[r] = "tmp"
        /\ pc'[r] = "replace" => tmp' = number[r]
    <3>1. CASE OpenTmp(r)
      BY <1>3, <3>1, GotoType DEF OpenTmp, CountInv, CounterTypes, PcValues, Jobs
    <3>2. CASE WriteTmp(r)
      <4>1. handle[r] = "tmp"
        BY <1>1, <3>2 DEF WriteTmp, CountInv, Undisturbed
      <4>2. pc'[r] = "replace"
        BY <3>2, GotoType DEF WriteTmp, CountInv, PcValues, Jobs
      <4>3. QED
        BY <3>2, <4>1, <4>2 DEF WriteTmp
    <3>3. QED
      BY <3>1, <3>2
  <2>5. \A q \in Retrievals \ {r} : pc'[q] \notin {"write", "replace"}
    BY <2>2 DEF Updating
  <2>6. QED
    BY <1>1, <1>3, <1>7, <2>2, <2>3, <2>4, <2>5 DEF CountInv, Undisturbed
<1>9. QED
  BY <1>7, <1>8 DEF CountInv

\* The temporary file replaces the counter.
LEMMA CountReplace ==
  ASSUME CountInv, NEW r \in Retrievals, ReplaceCounter(r)
  PROVE  CountInv'
<1>1. Updating(r) /\ pc[r] = "replace" /\ UNCHANGED <<number, order, disturbed>> /\ Counted(r)
  BY DEF ReplaceCounter, Updating
<1>2. /\ pc' \in [Jobs -> PcValues] /\ pc'[r] = "done"
      /\ \A q \in Retrievals \ {r} : pc'[q] = pc[q]
      /\ fired' \in SUBSET (Retrievals \ Daily)
      /\ \A q \in Retrievals \ {r} : q \in fired' <=> q \in fired
      /\ r \in fired' <=> number[r] % EveryN[r] = 0
      /\ r \in fired' => order[r] >= EveryN[r]
  BY <1>1, CountedStep
<1>3. /\ counter' \in Nat /\ counter' <= Count
      /\ tmp' \in Nat \cup {None} /\ (tmp' # None => tmp' <= Count)
  BY DEF ReplaceCounter, CountInv, CounterTypes, Bounded
<1>4. handle' \in [Retrievals -> {"none", "tmp", "counter", "gone"}]
  BY DEF ReplaceCounter, CountInv, CounterTypes
<1>5. CounterTypes' /\ Counting' /\ Bounded' /\ Count' = Count
  <2>1. disturbed' \in BOOLEAN
    BY <1>1 DEF CountInv, CounterTypes
  <2>2. QED
    BY <1>1, <1>2, <1>3, <1>4, <2>1, CountKeeps
<1>6. Undisturbed'
  <2> SUFFICES ASSUME ~disturbed' PROVE Undisturbed'
    BY DEF Undisturbed
  <2>1. \A q \in Retrievals : Updating(q) => q = r
    BY <1>1 DEF CountInv, Undisturbed
  <2>2. \A q \in Retrievals : ~Updating(q)'
    BY <1>2, <2>1 DEF Updating
  <2>3. number[r] = Count /\ tmp = number[r] /\ (order[r] # 0 => number[r] = order[r])
    BY <1>1 DEF CountInv, Undisturbed
  <2>4. counter' = Count
    <3>1. tmp # None
      BY <2>3, ConstantsAssumption DEF ConstantsAssumption, CountInv, CounterTypes
    <3>2. QED
      BY <2>3, <3>1 DEF ReplaceCounter
  <2>5. \A q \in Retrievals : pc'[q] \notin {"write", "replace"}
    BY <2>2 DEF Updating
  <2>6. \A q \in Retrievals :
          pc'[q] = "done" /\ order'[q] # 0 => (q \in fired' <=> order'[q] % EveryN[q] = 0)
    BY <1>1, <1>2, <2>3 DEF CountInv, Undisturbed
  <2>7. QED
    BY <1>1, <1>5, <2>2, <2>4, <2>5, <2>6 DEF CountInv, Undisturbed
<1>7. QED
  BY <1>5, <1>6 DEF CountInv

\* A retrieval whose update fails, or that is killed, is a disturbance.
LEMMA CountFail ==
  ASSUME CountInv, NEW r \in Retrievals, CounterFails(r) \/ KillRetrieval(r)
  PROVE  CountInv'
<1>1. Updating(r) /\ UNCHANGED <<number, order, counter, tmp>> /\ disturbed' = TRUE
  BY DEF CounterFails, KillRetrieval
<1>2. /\ pc' \in [Jobs -> PcValues] /\ pc'[r] = "done"
      /\ \A q \in Retrievals \ {r} : pc'[q] = pc[q]
      /\ fired' \in SUBSET (Retrievals \ Daily)
      /\ \A q \in Retrievals \ {r} : q \in fired' <=> q \in fired
      /\ r \in fired' => order[r] >= EveryN[r]
  <2>1. CASE CounterFails(r)
    BY <1>1, <2>1, CountedStep DEF CounterFails
  <2>2. CASE KillRetrieval(r)
    <3>1. UNCHANGED fired /\ r \notin fired
      BY <1>1, <2>2 DEF KillRetrieval, CountInv, Counting, Updating
    <3>2. /\ pc' \in [Jobs -> PcValues] /\ pc'[r] = "done"
          /\ \A q \in Retrievals \ {r} : pc'[q] = pc[q]
      BY <2>2, GotoType DEF KillRetrieval, CountInv, Jobs, PcValues
    <3>3. QED
      BY <3>1, <3>2 DEF CountInv, CounterTypes
  <2>3. QED
    BY <2>1, <2>2
<1>3. handle' \in [Retrievals -> {"none", "tmp", "counter", "gone"}]
  BY DEF CounterFails, KillRetrieval, CountInv, CounterTypes
<1>4. /\ counter' \in Nat /\ counter' <= Count
      /\ tmp' \in Nat \cup {None} /\ (tmp' # None => tmp' <= Count)
  BY <1>1 DEF CountInv, CounterTypes, Bounded
<1>5. CounterTypes' /\ Counting' /\ Bounded'
  BY <1>1, <1>2, <1>3, <1>4, CountKeeps
<1>6. Undisturbed'
  BY <1>1 DEF Undisturbed
<1>7. QED
  BY <1>5, <1>6 DEF CountInv

\* A retrieval without a throttle sends, and one for the daily log does not count.
LEMMA CountOther ==
  ASSUME CountInv, NEW r \in Retrievals, LogRetrieval(r) \/ NotifyAlways(r)
  PROVE  CountInv'
<1>1. pc[r] = "start" /\ order[r] = 0 /\ ~Updating(r) /\ r \notin fired
  BY DEF LogRetrieval, NotifyAlways, CountInv, Counting, Updating
<1>2. /\ pc' \in [Jobs -> PcValues] /\ pc'[r] = "done"
      /\ \A q \in Retrievals \ {r} : pc'[q] = pc[q]
  BY GotoType DEF LogRetrieval, NotifyAlways, Notify, CountInv, Jobs, PcValues
<1>3. CASE LogRetrieval(r)
  BY <1>1, <1>2, <1>3, CountFrame DEF LogRetrieval
<1>4. CASE NotifyAlways(r)
  <2>1. /\ UNCHANGED <<counter, tmp, number, handle, order, disturbed>>
        /\ fired' = fired \cup {r} /\ r \notin Daily /\ EveryN[r] = 1
    BY <1>4 DEF NotifyAlways, Notify
  <2>2. \A q \in Retrievals : Updating(q)' <=> Updating(q)
    BY <1>1, <1>2 DEF Updating
  <2>3. Count' = Count
    BY <2>1 DEF Count, Ordered
  <2>4. CounterTypes'
    BY <1>2, <2>1 DEF CountInv, CounterTypes
  <2>5. Counting'
    BY <1>1, <1>2, <2>1, <2>2 DEF CountInv, Counting
  <2>6. Bounded'
    BY <2>1, <2>3 DEF CountInv, Bounded
  <2>7. Undisturbed'
    BY <1>1, <1>2, <2>1, <2>2, <2>3 DEF CountInv, Undisturbed
  <2>8. QED
    BY <2>4, <2>5, <2>6, <2>7 DEF CountInv
<1>5. QED
  BY <1>3, <1>4

\* Initially no retrieval is counted.
LEMMA CountInit == Init => CountInv
<1> SUFFICES ASSUME Init PROVE CountInv
  OBVIOUS
<1>1. \A r \in Retrievals : pc[r] = "start" /\ ~Updating(r)
  BY DEF Init, Jobs, Updating
<1>2. Ordered = {}
  BY DEF Init, Ordered
<1>3. Count = 0
  BY <1>2, FS_EmptySet DEF Count
<1>4. CounterTypes
  BY DEF Init, CounterTypes, PcValues
<1>5. Counting
  BY <1>1 DEF Init, Counting
<1>6. Bounded
  BY <1>3, ConstantsAssumption DEF Init, Bounded
<1>7. Undisturbed
  BY <1>1, <1>3 DEF Init, Undisturbed
<1>8. QED
  BY <1>4, <1>5, <1>6, <1>7 DEF CountInv

\* The invariant of the counter holds in every reachable state.
LEMMA CountAlways == Spec => []CountInv
<1>1. CountInv /\ [Next]_vars => CountInv'
  <2> SUFFICES ASSUME CountInv, [Next]_vars PROVE CountInv'
    OBVIOUS
  <2>1. CASE UNCHANGED vars
    <3>1. UNCHANGED counting /\ UNCHANGED pc
      BY <2>1 DEF vars
    <3>2. QED
      BY <3>1, CountFrame DEF CountInv, CounterTypes
  <2>2. QED
    BY <2>1, CountOther, CountRead, CountWrite, CountReplace, CountFail, CountSummary DEF Next
<1>2. QED
  BY <1>1, CountInit, PTL DEF Spec

-----------------------------------------------------------------------------
\* However updates overlap, fail and are killed, no retrieval is notified of
\* before every_n have been counted (_read_and_increment_counter).
THEOREM CountedNeverEarly == Spec => []NeverEarly
<1>1. CountInv => NeverEarly
  BY DEF CountInv, Counting, Bounded, NeverEarly
<1>2. QED
  BY <1>1, CountAlways, PTL

\* "Fires on every every_n-th retrieval", while updates neither overlap nor fail
\* (_read_and_increment_counter).
THEOREM EveryNthFires == Spec => []FiresOnEveryNth
<1>1. CountInv => FiresOnEveryNth
  BY DEF CountInv, Undisturbed, FiresOnEveryNth
<1>2. QED
  BY <1>1, CountAlways, PTL

\* Every variable keeps its type, and no number is beyond the last position.
THEOREM TypeCorrect == Spec => []TypeOK
<1>1. LogInv /\ CountInv => TypeOK
  <2> SUFFICES ASSUME LogInv, CountInv PROVE TypeOK
    OBVIOUS
  <2>1. Count <= Position /\ Position \in Nat
    <3>1. Ordered \subseteq Retrievals \ Daily
      BY DEF Ordered, CountInv, Counting
    <3>2. IsFiniteSet(Retrievals \ Daily)
      BY CountFinite, FS_Subset
    <3>3. QED
      BY <3>1, <3>2, FS_Subset, FS_CardinalityType DEF Count, Position
  <2>2. counter \in 0..Position /\ tmp \in 0..Position \cup {None}
    BY <2>1, CountFinite DEF CountInv, CounterTypes, Bounded
  <2>3. number \in [Retrievals -> 0..Position] /\ order \in [Retrievals -> 0..Position]
    BY <2>1, CountFinite DEF CountInv, CounterTypes, Bounded
  <2>4. QED
    BY <2>2, <2>3 DEF LogInv, SummaryTypes, CountInv, CounterTypes, TypeOK
<1>2. QED
  BY <1>1, LogInvariance, CountAlways, PTL
=============================================================================
