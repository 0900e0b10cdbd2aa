----------------------- MODULE MCRotationWorkflow -----------------------
(* Small instances of RotationWorkflow for TLC.                             *)
EXTENDS RotationWorkflow, TLC

CONSTANTS o1, o2, p1, p2, p3, p4, strict, plain

OneOperator == {o1}
TwoOperators == {o1, o2}
ThreePasswords == {p1, p2, p3}
FourPasswords == {p1, p2, p3, p4}
OnePolicy == {plain}
TwoPolicies == {strict, plain}
Generated == (p1 :> plain @@ p2 :> strict @@ p3 :> plain @@ p4 :> strict)
AlwaysPlain == [p \in FourPasswords |-> plain]
SomeAlwaysPlain == [p \in ThreePasswords |-> plain]
SomeAlwaysStrict == [p \in ThreePasswords |-> strict]

\* The operators are alike. So are the passwords to come, where one policy generates
\* all of them: a registry gets the other one from infer.
Alike == Permutations(TwoOperators) \cup Permutations({p2, p3})
=============================================================================
