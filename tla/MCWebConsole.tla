--------------------------- MODULE MCWebConsole ---------------------------
(* A small instance of WebConsole for TLC.                                  *)
EXTENDS WebConsole, TLC

CONSTANTS
  r1, r2, r3,     \* requests
  n1, n2,         \* repositories
  a1, a2,         \* names of vaults
  g,              \* a grant
  v1, v2,         \* vaults
  k1, k2,         \* passwords
  kf, pkf         \* key files

NoNames == {}
NoNormalized == [n \in NoNames |-> Nothing]
TwoVaults == {v1, v2}
TwoKeys == {k1, k2}
TwoKeyFiles == {kf, pkf}
ThreeRequests == {r1, r2, r3}
TwoRepos == {n1, n2}
TwoAliases == {a1, a2}
OneGrant == {g}

\* One repository with several vaults, and a db the console does not keep.
Table(n, v, x) == [repo |-> n, vault |-> v, grant |-> x]
OneDraft == {{Table(n1, Own, Unlisted), Table(n1, a1, g), Table(n1, a2, g)}}

\* A daemon with a key file, and one without.
TwoMasters ==
  {[path |-> v1, password |-> k1, key |-> kf], [path |-> v2, password |-> k2, key |-> Nothing]}

\* The console was started with a path, and a key file for compatibility.
BaseSettings == [path |-> v1, password |-> Nothing, key |-> Nothing]
CompatSettings == [path |-> Nothing, password |-> Nothing, key |-> pkf]

Do(kind) == [kind |-> kind]
Upsert(n) == [kind |-> "upsert", repo |-> n, grant |-> g]
Delete(n) == [kind |-> "delete", repo |-> n]

\* Two entries, two edits, or an edit and a reload at a time, and the control of the daemon.
SomeCalls ==
  (r1 :> {Do("set"), Upsert(n2)} @@
   r2 :> {Do("get"), Delete(n1), Do("reload")} @@
   r3 :> {Do("lock"), Do("unlock")})
=============================================================================
