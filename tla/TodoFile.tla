----------------------------- MODULE TodoFile -----------------------------
(***************************************************************************)
(* What sync-todo promises the server and the user of the to-do file: in   *)
(* one step the list of the managed category is replaced by a new one, and *)
(* of everything else only what a sync does not know is left out.  The     *)
(* promise ends when a sync writes what it has read before another write,  *)
(* or stops between truncation and write, until the server writes again.   *)
(***************************************************************************)
EXTENDS Integers, Sequences

CONSTANTS
  Items,  \* the lines a list may have, each with an account, a timing and a done mark
  Others, \* what the file may hold besides the list
  Kept,   \* what a sync keeps of each
  Fresh   \* what a new file holds

VARIABLES
  items,  \* the list of the managed category
  others, \* the rest of the file
  broken  \* the promise has ended

avars == <<items, others, broken>>

AInit ==
  /\ items = <<>>
  /\ others = Fresh
  /\ broken = FALSE

\* A list as a sync makes it: nothing is done, each account comes once, and
\* nothing that is due earlier comes later.
IsNew(list) ==
  /\ list \in Seq(Items)
  /\ \A i \in DOMAIN list : ~list[i].done
  /\ \A i, j \in DOMAIN list : i < j =>
       list[i].account # list[j].account /\ list[i].timing <= list[j].timing

Sync ==
  /\ ~broken
  /\ IsNew(items')
  /\ others' = Kept[others]
  /\ UNCHANGED broken

\* The server marks lines as done and changes the rest, or begins a new file.
Serve ==
  /\ \/ items' = <<>>
     \/ \E done \in BOOLEAN :
          items' = [i \in DOMAIN items |-> [items[i] EXCEPT !.done = @ \/ done]]
  /\ others' \in Others
  /\ broken' = FALSE

\* Nothing is promised any more.
Break ==
  /\ broken' = TRUE
  /\ items' \in Seq(Items)
  /\ others' \in Others

ANext == Break \/ Serve \/ Sync

ASpec == AInit /\ [][ANext]_avars
=============================================================================
