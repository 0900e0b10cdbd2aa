------------------------ MODULE MCSocketLifecycle ------------------------
(* A small instance of SocketLifecycle for TLC: daemons and commands that    *)
(* come and go without end, two at a time.                                  *)
EXTENDS SocketLifecycle, TLC

CONSTANTS
  d1, d2, \* daemons
  c1, c2  \* commands

TwoDaemons == {d1, d2}
TwoCommands == {c1, c2}

\* One user unlocks a daemon while another locks one.
TwoCalls == (c1 :> {"unlock"} @@ c2 :> {"lock"})
=============================================================================
