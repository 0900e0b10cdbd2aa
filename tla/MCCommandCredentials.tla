---------------------- MODULE MCCommandCredentials ----------------------
(* A small instance of CommandCredentials for TLC.                          *)
EXTENDS CommandCredentials, TLC

CONSTANTS
  p1, p2,      \* processes
  v1, v2,      \* vaults
  k1, k2,      \* passwords
  kf,          \* a key file
  work, home,  \* profiles
  nw, nh, nb   \* names for them, and one that is blank once normalized

TwoProcesses == {p1, p2}
TwoVaults == {v1, v2}
TwoKeys == {k1, k2}
OneKeyFile == {kf}
TwoProfiles == {work, home}
ThreeNames == {nw, nh, nb}
NamedProfiles == (nw :> work @@ nh :> home @@ nb :> Nothing)

Setting(v, k, f) == [path |-> v, password |-> k, key |-> f]
Env(own, pf, w, h, active) ==
  [own |-> own, pf |-> pf, profiles |-> (work :> w @@ home :> h), active |-> active]

\* Shells that export nothing, a profile's name, or all settings of their own;
\* the first also the compatibility variables, the second the settings of home.
Bare == Env(NoSettings, NoSettings, NoSettings, NoSettings, Nothing)
Compatible == Env(NoSettings, Setting(v2, k2, kf), NoSettings, NoSettings, Nothing)
AtHome == Env(NoSettings, Setting(v1, Nothing, Nothing), NoSettings, Setting(v2, Nothing, Nothing), nh)
Own == Env(Setting(v1, k1, Nothing), NoSettings, NoSettings, NoSettings, nb)

\* Env files with both profiles, one of them active; the first also sets values
\* of its own.
WithOwn == Env(Setting(v2, Nothing, kf), NoSettings, Setting(v1, k2, Nothing), Setting(v2, k1, Nothing), nh)
WithProfiles == Env(NoSettings, NoSettings, Setting(v1, Nothing, kf), Setting(v1, k2, Nothing), nw)

\* p1 is called in many ways, p2 at a terminal with either vault.
Calls ==
  (p1 :> [shell : {Compatible, AtHome, Own}, file : {WithOwn, WithProfiles, Nothing},
          option : {Nothing, nw, Empty}, tty : {TRUE}, allow : {FALSE}]
      \cup [shell : {Bare}, file : {WithProfiles, Malformed, Bare}, option : {nh, nb},
            tty : {FALSE}, allow : {FALSE}]) @@
  (p2 :> [shell : {Env(Setting(v, Nothing, Nothing), NoSettings, NoSettings, NoSettings, Nothing) : v \in TwoVaults},
          file : {Nothing}, option : {Nothing}, tty : {TRUE}, allow : {TRUE}])

\* An env file with a path of its own and a shell that exports another one for
\* the profile home.
WithPath == Env(Setting(v1, Nothing, Nothing), NoSettings, NoSettings, NoSettings, Nothing)
ExportedProfile == Env(NoSettings, NoSettings, NoSettings, Setting(v2, Nothing, Nothing), nh)
ExportedCall ==
  (p1 :> [shell : {ExportedProfile}, file : {WithPath}, option : {Nothing}, tty : {TRUE}, allow : {FALSE}])
    @@ (p2 :> {})
=============================================================================
