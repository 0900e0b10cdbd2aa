-------------------------- MODULE MCRotationTodo --------------------------
(* A small instance of RotationTodo for TLC.                                *)
EXTENDS RotationTodo, TLC

CONSTANTS
  bank, mail,  \* accounts
  s1, s2,      \* syncs
  none,        \* no other category in the file
  plain, extra \* other categories, without and with keys a sync does not keep

TwoAccounts == {bank, mail}
Alphabetical == (bank :> 1 @@ mail :> 2)
TwoSyncs == {s1, s2}
OneDay == {1}
SomeOthers == {none, plain, extra}
KeptOthers == (none :> none @@ plain :> plain @@ extra :> plain)
NoSkew == {0}

Updated(at, interval) ==
  [layout |-> "inline", updated |-> at, interval |-> interval, trust |-> "verified"]

\* The account of the bank has a registry that is overdue, is due, or was written
\* half a day ahead of this clock, one with blank Notes, or none; that of the mail
\* becomes due while the model runs.
FirstRegistries ==
  (bank :> {Updated(-4, 1), Updated(-1, 1), Updated(1, 1), Nothing,
            [layout |-> "blank", updated |-> Nothing, interval |-> Nothing,
             trust |-> "unknown"]}
   @@ mail :> {Updated(-3, 3)})
=============================================================================
