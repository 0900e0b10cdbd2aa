--------------------- MODULE MCRetrievalNotifications ---------------------
(* Small instances of RetrievalNotifications for TLC. *)
EXTENDS RetrievalNotifications, TLC

CONSTANTS d1, d2, c1, c2, c3, a1, s1, s2

\* Retrieval a1 has no throttle, the counted ones send every second time.
OneInTwo == [r \in Retrievals |-> IF r = a1 THEN 1 ELSE 2]

\* The daily, the counted retrievals and the summary jobs are alike.
Alike == Permutations({d1, d2}) \cup Permutations({c1, c2, c3}) \cup Permutations({s1, s2})
=============================================================================
