---------------------- MODULE MCProvisioningDaemon ----------------------
(* Small instances of ProvisioningDaemon for TLC.                           *)
EXTENDS ProvisioningDaemon, TLC

CONSTANTS
  c1, c2, c3,   \* connections
  r1, r2,       \* repositories
  m, s,         \* the master vault and a sub-vault
  p,            \* an entry path
  good, bad     \* the master password and another one

TwoConns == {c1, c2}
ThreeConns == {c1, c2, c3}
Callers == {r1, r2}
Vaults == {m, s}
EntryPaths == {p}
Keys == {good, bad}
Symmetry == Permutations(ThreeConns)

Request(op) ==
  [op |-> op, owner |-> TRUE, password |-> None, repo |-> None, db |-> None, path |-> None]
UnlockWith(k) == [Request("unlock") EXCEPT !.password = k]
Get(r, d) == [Request("get") EXCEPT !.repo = r, !.db = d, !.path = p]

\* One vault by default, and the multi-vault form without a default.
OneVault(d) == [default |-> d, grants |-> {<<d, p>>}]
TwoVaults == [default |-> None, grants |-> {<<m, p>>, <<s, p>>}]

OldFile == [readable |-> TRUE, table |-> (r1 :> OneVault(m) @@ r2 :> TwoVaults)]
NewFile == [readable |-> TRUE, table |-> (r1 :> OneVault(s) @@ r2 :> NoEntry)]
CutFile == [readable |-> TRUE, table |-> EmptyTable]
BadFile == [readable |-> FALSE, table |-> EmptyTable]

AllRequests ==
  {Request("status"), Request("lock"), Request("reload"), Request("admin_context"),
   Request("unknown"), [Request("lock") EXCEPT !.owner = FALSE],
   UnlockWith(good), UnlockWith(bad), UnlockWith(None),
   Get(r1, None), Get(r2, s), Get(r2, None), Get(None, m), [Get(r1, m) EXCEPT !.path = None]}
CoreRequests ==
  {Request("lock"), Request("reload"), UnlockWith(good), Get(r1, None), Get(r2, s)}
Reloads == {Request("reload")}

AllFiles == {OldFile, NewFile, CutFile, BadFile}
GoodFiles == {OldFile, NewFile}
=============================================================================
