------------------------ MODULE KeepassEnvironment ------------------------
(***************************************************************************)
(* Where a command finds its vault, its password and its key file          *)
(* (envfile.py, and the _resolve_ functions of keepassxc.py).              *)
(*                                                                         *)
(* Of the process environment only the variables that decide this are      *)
(* kept: AUTO_PASS_KEEPASSXC_* (own), PF_KEEPASSXC_* (pf), the profiles'    *)
(* AUTO_PASS_PROFILE_<p>_KEEPASSXC_* and AUTO_PASS_PROFILE (active).  The   *)
(* code reads a variable that is unset, empty or only blanks in the same    *)
(* way: it is Nothing here.  An env file assigns the same variables.        *)
(***************************************************************************)

CONSTANTS
  Vaults,     \* paths of databases
  Keys,       \* database passwords
  KeyFiles,   \* paths of key files
  Profiles,   \* normalized profile names
  Names,      \* profile names as they are written
  Normalized, \* the profile each name is normalized to, or Nothing
  Nothing     \* the absent value

Fields == {"path", "password", "key"}

Settings ==
  [path : Vaults \cup {Nothing}, password : Keys \cup {Nothing}, key : KeyFiles \cup {Nothing}]
NoSettings == [path |-> Nothing, password |-> Nothing, key |-> Nothing]

Environments ==
  [own : Settings, pf : Settings, profiles : [Profiles -> Settings], active : Names \cup {Nothing}]

ASSUME EnvironmentAssumption ==
  /\ Normalized \in [Names -> Profiles \cup {Nothing}]
  /\ Nothing \notin Vaults \cup Keys \cup KeyFiles \cup Profiles \cup Names

\* A variable that is set stays; one that is not takes the other value.
Over(first, second) == [f \in Fields |-> IF first[f] # Nothing THEN first[f] ELSE second[f]]

\* load_env_file without override.
LoadFile(env, file) ==
  [own |-> Over(env.own, file.own),
   pf |-> Over(env.pf, file.pf),
   profiles |-> [p \in Profiles |-> Over(env.profiles[p], file.profiles[p])],
   active |-> IF env.active # Nothing THEN env.active ELSE file.active]

\* get_active_keepass_profile.
ProfileOf(name) == IF name = Nothing THEN Nothing ELSE Normalized[name]

\* activate_keepass_profile, for a name that is not blank once normalized.
Activate(env, name) == [env EXCEPT !.active = name]

\* Mutant of ApplyProfile: the profile overrides what is set.
ApplyProfileOverriding(env) ==
  IF ProfileOf(env.active) = Nothing THEN env
  ELSE [env EXCEPT !.own = Over(env.profiles[ProfileOf(env.active)], env.own)]

\* apply_keepass_profile_environment without override.
ApplyProfile(env) ==
  IF ProfileOf(env.active) = Nothing THEN env
  ELSE [env EXCEPT !.own = Over(env.own, env.profiles[ProfileOf(env.active)])]

\* load_config_environment, after the checks of the file and of the profile.
LoadConfig(env, file, option) ==
  LET loaded == LoadFile(env, file)
  IN ApplyProfile(IF option = Nothing THEN loaded ELSE Activate(loaded, option))

\* What main() makes of the environment; file is Nothing for --no-env-file.
Prepare(env, file, option) ==
  IF file # Nothing THEN LoadConfig(env, file, option)
  ELSE IF option # Nothing THEN ApplyProfile(Activate(env, option))
  ELSE env

\* _resolve_db_path, _resolve_env_value and _resolve_key_file.
Resolve(env) == Over(env.own, env.pf)
=============================================================================
