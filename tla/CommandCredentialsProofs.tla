---------------------- MODULE CommandCredentialsProofs ----------------------
(***************************************************************************)
(* Theorems about CommandCredentials, for any number of commands, any      *)
(* calls, shells and env files, and any vaults, passwords and profiles.    *)
(***************************************************************************)
EXTENDS CommandCredentials, TLAPS

-----------------------------------------------------------------------------
(* The environment.                                                         *)

\* The absent value is no vault, password, key file, profile or name, and no
\* environment or cache file.
LEMMA Distinct ==
  /\ Nothing \notin Vaults /\ Nothing \notin Keys /\ Nothing \notin KeyFiles
  /\ Nothing \notin Profiles /\ Nothing \notin Names
  /\ Nothing \notin Environments /\ Malformed \notin Environments /\ Nothing # Malformed
  /\ Torn \notin Keys
BY EnvironmentAssumption, CommandAssumption DEF EnvironmentAssumption, CommandAssumption

\* One set of settings over another gives settings, field by field.
LEMMA OverType ==
  ASSUME NEW a \in Settings, NEW b \in Settings
  PROVE  /\ Over(a, b) \in Settings
         /\ \A f \in Fields : Over(a, b)[f] = IF a[f] # Nothing THEN a[f] ELSE b[f]
<1>1. \A f \in Fields : Over(a, b)[f] = IF a[f] # Nothing THEN a[f] ELSE b[f]
  BY DEF Over
<1>2. Over(a, b) = [path |-> IF a.path # Nothing THEN a.path ELSE b.path,
                    password |-> IF a.password # Nothing THEN a.password ELSE b.password,
                    key |-> IF a.key # Nothing THEN a.key ELSE b.key]
  BY DEF Over, Fields
<1>3. QED
  BY <1>1, <1>2 DEF Settings

\* No settings are settings.
LEMMA NoSettingsType == NoSettings \in Settings
BY DEF NoSettings, Settings

\* The value before which none is set is the first one.
LEMMA FirstAt ==
  ASSUME NEW s, DOMAIN s \subseteq Nat, NEW i \in DOMAIN s, s[i] # Nothing,
         \A j \in DOMAIN s : j < i => s[j] = Nothing
  PROVE  First(s) = s[i]
<1> DEFINE at(k) == s[k] # Nothing /\ \A j \in DOMAIN s : j < k => s[j] = Nothing
<1>1. First(s) = s[CHOOSE k \in DOMAIN s : at(k)]
  BY DEF First
<1>2. PICK k \in DOMAIN s : k = (CHOOSE j \in DOMAIN s : at(j)) /\ at(k)
  OBVIOUS
<1>3. k = i
  BY <1>2
<1>4. QED
  BY <1>1, <1>2, <1>3

\* The first value of three, and of six, that is set.
LEMMA FirstOfThree ==
  ASSUME NEW a, NEW b, NEW c
  PROVE  First(<<a, b, c>>) = IF a # Nothing THEN a ELSE IF b # Nothing THEN b ELSE c
<1>1. CASE a = Nothing /\ b = Nothing /\ c = Nothing
  BY <1>1 DEF First
<1>2. CASE a # Nothing
  <2>1. First(<<a, b, c>>) = <<a, b, c>>[1]
    BY <1>2, FirstAt
  <2>2. QED
    BY <1>2, <2>1
<1>3. CASE a = Nothing /\ b # Nothing
  <2>1. First(<<a, b, c>>) = <<a, b, c>>[2]
    BY <1>3, FirstAt
  <2>2. QED
    BY <1>3, <2>1
<1>4. CASE a = Nothing /\ b = Nothing /\ c # Nothing
  <2>1. First(<<a, b, c>>) = <<a, b, c>>[3]
    BY <1>4, FirstAt
  <2>2. QED
    BY <1>4, <2>1
<1>5. QED
  BY <1>1, <1>2, <1>3, <1>4

LEMMA FirstOfSix ==
  ASSUME NEW a, NEW b, NEW c, NEW d, NEW e, NEW f
  PROVE  First(<<a, b, c, d, e, f>>) =
           IF a # Nothing THEN a ELSE IF b # Nothing THEN b ELSE IF c # Nothing THEN c
           ELSE IF d # Nothing THEN d ELSE IF e # Nothing THEN e ELSE f
<1> DEFINE s == <<a, b, c, d, e, f>>
<1>1. DOMAIN s = {1, 2, 3, 4, 5, 6} /\ DOMAIN s \subseteq Nat
  OBVIOUS
<1>2. s[1] = a /\ s[2] = b /\ s[3] = c /\ s[4] = d /\ s[5] = e /\ s[6] = f
  OBVIOUS
<1>3. CASE \A i \in DOMAIN s : s[i] = Nothing
  BY <1>1, <1>2, <1>3 DEF First
<1>4. CASE \E i \in DOMAIN s : s[i] # Nothing
  <2> HIDE DEF s
  <2>1. PICK i \in DOMAIN s : s[i] # Nothing /\ \A j \in DOMAIN s : j < i => s[j] = Nothing
    BY <1>1, <1>4
  <2>2. First(s) = s[i]
    BY <1>1, <2>1, FirstAt
  <2>3. QED
    BY <1>1, <1>2, <2>1, <2>2 DEF s
<1>5. QED
  BY <1>3, <1>4

\* The settings, variables and profiles of an environment.
LEMMA EnvironmentTypes ==
  ASSUME NEW env \in Environments
  PROVE  /\ env.own \in Settings /\ env.pf \in Settings
         /\ \A p \in Profiles : env.profiles[p] \in Settings
         /\ env.active \in Names \cup {Nothing}
BY DEF Environments

\* The profile of a name.
LEMMA ProfileType ==
  ASSUME NEW name \in Names \cup {Nothing}
  PROVE  ProfileOf(name) \in Profiles \cup {Nothing}
BY EnvironmentAssumption DEF ProfileOf, EnvironmentAssumption

\* Functions of the three settings that agree on them are equal.
LEMMA SameSettings ==
  ASSUME NEW a, NEW b, a = [f \in Fields |-> a[f]], b = [f \in Fields |-> b[f]],
         \A f \in Fields : a[f] = b[f]
  PROVE  a = b
OBVIOUS

\* The order main() looks in: what the shell exports and what the env file sets,
\* kind by kind, and without an env file a profile only if --profile names it.
ProfileTaken(i) ==
  ProfileOf(IF i.file = Nothing THEN OptionOf(i)
            ELSE First(<<OptionOf(i), i.shell.active, i.file.active>>))

Taken(i) ==
  [f \in Fields |->
     First(<<i.shell.own[f], FromFile(i.file, "own", f),
             FromProfile(i.shell, ProfileTaken(i), f), FromProfile(i.file, ProfileTaken(i), f),
             i.shell.pf[f], FromFile(i.file, "pf", f)>>)]

\* An option that is taken names a profile.
LEMMA OptionType ==
  ASSUME NEW i \in InvocationType, Accepted(i)
  PROVE  /\ OptionOf(i) \in Names \cup {Nothing}
         /\ OptionOf(i) # Nothing => ProfileOf(OptionOf(i)) # Nothing
BY DEF Accepted, Blank, ProfileOf

\* What main() makes of the environment is what it takes in this order.
LEMMA TakenIsFound ==
  ASSUME NEW i \in InvocationType, Accepted(i)
  PROVE  Taken(i) = Found(i) /\ Taken(i) \in Settings
<1> DEFINE profile == ProfileTaken(i)
           prepared == Prepare(i.shell, i.file, OptionOf(i))
<1>0. Found(i) = Resolve(prepared)
  BY DEF Found
<1>1. /\ i.shell \in Environments /\ OptionOf(i) \in Names \cup {Nothing}
      /\ i.file \in Environments \cup {Nothing}
      /\ OptionOf(i) # Nothing => ProfileOf(OptionOf(i)) # Nothing
  BY OptionType DEF InvocationType, Accepted
<1>2. /\ i.shell.own \in Settings /\ i.shell.pf \in Settings
      /\ \A p \in Profiles : i.shell.profiles[p] \in Settings
      /\ i.shell.active \in Names \cup {Nothing}
  BY <1>1, EnvironmentTypes
<1>3. CASE i.file = Nothing
  <2>1. profile = ProfileOf(OptionOf(i)) /\ profile \in Profiles \cup {Nothing}
    BY <1>1, <1>3, ProfileType DEF ProfileTaken
  <2>2. prepared.pf = i.shell.pf
    BY <1>1, <1>3 DEF Prepare, ApplyProfile, Activate, Environments
  <2>3. CASE profile = Nothing
    <3>1. OptionOf(i) = Nothing
      BY <1>1, <2>1, <2>3
    <3>2. prepared = i.shell
      BY <1>3, <3>1 DEF Prepare
    <3>3. Resolve(prepared) = Over(i.shell.own, i.shell.pf)
      BY <3>2 DEF Resolve
    <3>4. \A f \in Fields : Taken(i)[f] = Over(i.shell.own, i.shell.pf)[f]
      <4>1. ASSUME NEW f \in Fields
            PROVE  Taken(i)[f] = First(<<i.shell.own[f], Nothing, Nothing, Nothing, i.shell.pf[f], Nothing>>)
        BY <1>3, <2>3, Distinct DEF Taken, FromFile, FromProfile
      <4>2. ASSUME NEW f \in Fields
            PROVE  Taken(i)[f] = IF i.shell.own[f] # Nothing THEN i.shell.own[f] ELSE i.shell.pf[f]
        <5> DEFINE a == i.shell.own[f]
                   e == i.shell.pf[f]
        <5>1. Taken(i)[f] = First(<<a, Nothing, Nothing, Nothing, e, Nothing>>)
          BY <4>1
        <5> HIDE DEF a, e
        <5>2. First(<<a, Nothing, Nothing, Nothing, e, Nothing>>) = IF a # Nothing THEN a ELSE e
          BY FirstOfSix
        <5>3. QED
          BY <5>1, <5>2 DEF a, e
      <4>3. QED
        BY <4>2 DEF Over
    <3>5. QED
      BY <1>0, <1>2, <3>3, <3>4, OverType DEF Taken, Over
  <2>4. CASE profile # Nothing
    <3>1. OptionOf(i) # Nothing
      BY <2>1, <2>4 DEF ProfileOf
    <3>2. prepared.own = Over(i.shell.own, i.shell.profiles[profile])
      BY <1>1, <1>3, <2>1, <2>4, <3>1 DEF Prepare, ApplyProfile, Activate, Environments
    <3> DEFINE own == Over(i.shell.own, i.shell.profiles[profile])
    <3>3. own \in Settings
      BY <1>2, <2>1, <2>4, OverType
    <3>4. Resolve(prepared) = Over(own, i.shell.pf)
      BY <2>2, <3>2 DEF Resolve
    <3>5. ASSUME NEW f \in Fields PROVE Taken(i)[f] = Over(own, i.shell.pf)[f]
      <4>1. Taken(i)[f] = First(<<i.shell.own[f], Nothing, i.shell.profiles[profile][f], Nothing,
                                  i.shell.pf[f], Nothing>>)
        BY <1>1, <1>3, <2>4, Distinct DEF Taken, FromFile, FromProfile
      <4>2. QED
        BY <4>1, FirstOfSix DEF Over
    <3>6. QED
      BY <1>0, <1>2, <3>3, <3>4, <3>5, OverType DEF Taken, Over
  <2>5. QED
    BY <2>3, <2>4
<1>4. CASE i.file \in Environments
  <2> DEFINE loaded == LoadFile(i.shell, i.file)
             named == IF OptionOf(i) # Nothing THEN OptionOf(i) ELSE loaded.active
  <2>1. /\ i.file.own \in Settings /\ i.file.pf \in Settings
        /\ \A p \in Profiles : i.file.profiles[p] \in Settings
        /\ i.file.active \in Names \cup {Nothing}
        /\ i.file # Nothing
    BY <1>4, EnvironmentTypes, Distinct
  <2>2. /\ loaded.own = Over(i.shell.own, i.file.own) /\ loaded.own \in Settings
        /\ loaded.pf = Over(i.shell.pf, i.file.pf) /\ loaded.pf \in Settings
        /\ \A p \in Profiles : /\ loaded.profiles[p] = Over(i.shell.profiles[p], i.file.profiles[p])
                               /\ loaded.profiles[p] \in Settings
        /\ loaded.active = IF i.shell.active # Nothing THEN i.shell.active ELSE i.file.active
    BY <1>2, <2>1, OverType DEF LoadFile
  <2>3. profile = ProfileOf(named) /\ profile \in Profiles \cup {Nothing}
    <3>1. First(<<OptionOf(i), i.shell.active, i.file.active>>) = named
      BY <2>2, FirstOfThree
    <3>2. named \in Names \cup {Nothing}
      BY <1>1, <1>2, <2>1, <2>2
    <3>3. QED
      BY <2>1, <3>1, <3>2, ProfileType DEF ProfileTaken
  <2> DEFINE set == IF OptionOf(i) = Nothing THEN loaded ELSE Activate(loaded, OptionOf(i))
  <2>4. /\ prepared = ApplyProfile(set)
        /\ set.own = loaded.own /\ set.pf = loaded.pf /\ set.profiles = loaded.profiles
        /\ set.active = named
    BY <2>1 DEF Prepare, LoadConfig, Activate, LoadFile
  <2> DEFINE own == IF profile = Nothing THEN loaded.own ELSE Over(loaded.own, loaded.profiles[profile])
  <2>5. prepared.own = own /\ prepared.pf = loaded.pf
    <3>1. set = [own |-> set.own, pf |-> set.pf, profiles |-> set.profiles, active |-> set.active]
      BY DEF LoadFile, Activate
    <3> HIDE DEF set
    <3>2. QED
      BY <2>3, <2>4, <3>1 DEF ApplyProfile
  <2>6. own \in Settings
    BY <2>2, <2>3, OverType
  <2>7. Resolve(prepared) = Over(own, loaded.pf)
    BY <2>5 DEF Resolve
  <2>8. ASSUME NEW f \in Fields PROVE Taken(i)[f] = Over(own, loaded.pf)[f]
    <3>1. Taken(i)[f] = First(<<i.shell.own[f], i.file.own[f], FromProfile(i.shell, profile, f),
                                FromProfile(i.file, profile, f), i.shell.pf[f], i.file.pf[f]>>)
      BY <2>1 DEF Taken, FromFile
    <3>2. /\ loaded.own[f] = IF i.shell.own[f] # Nothing THEN i.shell.own[f] ELSE i.file.own[f]
          /\ loaded.pf[f] = IF i.shell.pf[f] # Nothing THEN i.shell.pf[f] ELSE i.file.pf[f]
      BY <2>2 DEF Over
    <3>3. Over(own, loaded.pf)[f] = IF own[f] # Nothing THEN own[f] ELSE loaded.pf[f]
      BY DEF Over
    <3>4. CASE profile = Nothing
      <4>1. FromProfile(i.shell, profile, f) = Nothing /\ FromProfile(i.file, profile, f) = Nothing
        BY <3>4 DEF FromProfile
      <4>2. own[f] = loaded.own[f]
        BY <3>4
      <4> HIDE DEF own, loaded, profile
      <4>3. QED
        BY <3>1, <3>2, <3>3, <4>1, <4>2, FirstOfSix
    <3>5. CASE profile # Nothing
      <4>1. /\ FromProfile(i.shell, profile, f) = i.shell.profiles[profile][f]
            /\ FromProfile(i.file, profile, f) = i.file.profiles[profile][f]
        BY <1>1, <2>1, <3>5, Distinct DEF FromProfile
      <4>2. own[f] = IF loaded.own[f] # Nothing THEN loaded.own[f] ELSE loaded.profiles[profile][f]
        BY <3>5 DEF Over
      <4>3. loaded.profiles[profile][f] = IF i.shell.profiles[profile][f] # Nothing
                                          THEN i.shell.profiles[profile][f]
                                          ELSE i.file.profiles[profile][f]
        <5>1. loaded.profiles[profile] = Over(i.shell.profiles[profile], i.file.profiles[profile])
          BY <2>2, <2>3, <3>5
        <5>2. QED
          BY <5>1 DEF Over
      <4> HIDE DEF own, loaded, profile
      <4>4. QED
        BY <3>1, <3>2, <3>3, <4>1, <4>2, <4>3, FirstOfSix
    <3>6. QED
      BY <3>4, <3>5
  <2> HIDE DEF own
  <2>9. QED
    BY <1>0, <2>2, <2>6, <2>7, <2>8, OverType DEF Taken, Over
<1>5. QED
  BY <1>0, <1>1, <1>3, <1>4

\* That is what the call asks for by the documented order, but for the settings in
\* which the env file overrules the shell.
LEMMA AskedIsFound ==
  ASSUME NEW i \in InvocationType, Accepted(i)
  PROVE  /\ Asked(i) \in Settings /\ Found(i) \in Settings
         /\ \A f \in Fields \ Overruled(i) : Asked(i)[f] = Found(i)[f]
<1> DEFINE profile == ProfileAsked(i)
<1>1. /\ i.shell \in Environments /\ OptionOf(i) \in Names \cup {Nothing}
      /\ i.file \in Environments \cup {Nothing}
  BY OptionType DEF InvocationType, Accepted
<1>2. /\ i.shell.own \in Settings /\ i.shell.pf \in Settings
      /\ \A p \in Profiles : i.shell.profiles[p] \in Settings
      /\ i.shell.active \in Names \cup {Nothing}
  BY <1>1, EnvironmentTypes
<1>3. i.file # Nothing =>
        /\ i.file.own \in Settings /\ i.file.pf \in Settings
        /\ \A p \in Profiles : i.file.profiles[p] \in Settings
        /\ i.file.active \in Names \cup {Nothing}
  BY <1>1, EnvironmentTypes
<1> DEFINE active == IF i.file = Nothing THEN Nothing ELSE i.file.active
<1>4. active \in Names \cup {Nothing}
  BY <1>3
<1>5. profile = ProfileOf(IF OptionOf(i) # Nothing THEN OptionOf(i)
                          ELSE IF i.shell.active # Nothing THEN i.shell.active ELSE active)
  <2> HIDE DEF active
  <2>1. First(<<OptionOf(i), i.shell.active, active>>) =
          IF OptionOf(i) # Nothing THEN OptionOf(i)
          ELSE IF i.shell.active # Nothing THEN i.shell.active ELSE active
    BY FirstOfThree
  <2>2. QED
    BY <2>1 DEF ProfileAsked, active
<1>6. profile \in Profiles \cup {Nothing}
  BY <1>1, <1>2, <1>4, <1>5, ProfileType
<1> DEFINE shellProfile == IF profile = Nothing THEN NoSettings ELSE i.shell.profiles[profile]
           fileOwn == IF i.file = Nothing THEN NoSettings ELSE i.file.own
           filePf == IF i.file = Nothing THEN NoSettings ELSE i.file.pf
           fileProfile == IF i.file = Nothing \/ profile = Nothing THEN NoSettings
                          ELSE i.file.profiles[profile]
           exported == Over(Over(i.shell.own, shellProfile), i.shell.pf)
           filed == Over(Over(fileOwn, fileProfile), filePf)
<1>7. /\ shellProfile \in Settings /\ fileOwn \in Settings
      /\ filePf \in Settings /\ fileProfile \in Settings
  BY <1>2, <1>3, <1>6, NoSettingsType
<1>8. ASSUME NEW f \in Fields
      PROVE  /\ FromProfile(i.shell, profile, f) = shellProfile[f]
             /\ FromFile(i.file, "own", f) = fileOwn[f]
             /\ FromFile(i.file, "pf", f) = filePf[f]
             /\ FromProfile(i.file, profile, f) = fileProfile[f]
  <2>1. NoSettings[f] = Nothing
    BY DEF NoSettings, Fields
  <2>2. i.shell # Nothing
    BY <1>1, Distinct
  <2> HIDE DEF profile
  <2>3. QED
    BY <2>1, <2>2 DEF FromProfile, FromFile
<1> HIDE DEF profile, shellProfile, fileOwn, filePf, fileProfile
<1>9. ASSUME NEW f \in Fields
      PROVE  Asked(i)[f] = Over(exported, filed)[f]
  <2>1. Asked(i)[f] = First(<<i.shell.own[f], shellProfile[f], i.shell.pf[f],
                              fileOwn[f], fileProfile[f], filePf[f]>>)
    BY <1>8 DEF Asked, profile
  <2>2. QED
    BY <2>1, FirstOfSix DEF Over
<1>10. Asked(i) \in Settings
  <2>1. Over(exported, filed) \in Settings
    BY <1>2, <1>7, OverType
  <2>2. Asked(i) = Over(exported, filed)
    BY <1>9 DEF Asked, Over
  <2>3. QED
    BY <2>1, <2>2
<1>11. ASSUME NEW f \in Fields \ Overruled(i)
       PROVE  Asked(i)[f] = Taken(i)[f]
  <2> DEFINE a == i.shell.own[f]
             b == shellProfile[f]
             c == i.shell.pf[f]
             d == fileOwn[f]
             e == fileProfile[f]
             g == filePf[f]
  <2>1. Asked(i)[f] = First(<<a, b, c, d, e, g>>)
    BY <1>8 DEF Asked, profile
  <2>2. \/ a # Nothing
        \/ /\ b # Nothing => d = Nothing /\ ~(i.file = Nothing /\ OptionOf(i) = Nothing)
           /\ b = Nothing /\ c # Nothing => d = Nothing /\ e = Nothing
    BY <1>8 DEF Overruled, profile
  <2>3. CASE ~(i.file = Nothing /\ OptionOf(i) = Nothing)
    <3>1. ProfileTaken(i) = profile
      <4>1. CASE i.file = Nothing
        BY <1>5, <2>3, <4>1 DEF ProfileTaken
      <4>2. CASE i.file # Nothing
        BY <4>2 DEF ProfileTaken, ProfileAsked, profile
      <4>3. QED
        BY <4>1, <4>2
    <3>2. Taken(i)[f] = First(<<a, d, b, e, c, g>>)
      BY <1>8, <3>1 DEF Taken
    <3> HIDE DEF a, b, c, d, e, g
    <3>3. QED
      BY <2>1, <2>2, <3>2, FirstOfSix
  <2>4. CASE i.file = Nothing /\ OptionOf(i) = Nothing
    <3>1. ProfileTaken(i) = Nothing
      BY <2>4 DEF ProfileTaken, ProfileOf
    <3>2. Taken(i)[f] = First(<<a, Nothing, Nothing, Nothing, c, Nothing>>)
      <4>1. /\ FromProfile(i.shell, Nothing, f) = Nothing /\ FromProfile(i.file, Nothing, f) = Nothing
            /\ FromFile(i.file, "own", f) = Nothing /\ FromFile(i.file, "pf", f) = Nothing
        BY <2>4 DEF FromProfile, FromFile
      <4>2. QED
        BY <3>1, <4>1 DEF Taken
    <3>3. d = Nothing /\ e = Nothing /\ g = Nothing
      BY <1>8, <2>4 DEF FromFile, FromProfile
    <3> HIDE DEF a, b, c, d, e, g
    <3>4. QED
      BY <2>1, <2>2, <2>4, <3>2, <3>3, FirstOfSix
  <2>5. QED
    BY <2>3, <2>4
<1>12. QED
  BY <1>10, <1>11, TakenIsFound

-----------------------------------------------------------------------------
(* Type correctness.                                                        *)

\* The variables of a command, but for where it is.
CallTypes ==
  /\ settings \in [Processes -> Settings]
  /\ tty \in [Processes -> BOOLEAN]
  /\ allow \in [Processes -> BOOLEAN]
  /\ entered \in [Processes -> Keys \cup {Nothing}]
  /\ linked \in [Processes -> BOOLEAN]
  /\ outcome \in [Processes -> Outcomes]
  /\ expected \in [Processes -> Settings]
  /\ overruled \in [Processes -> SUBSET Fields]

SharedTypes ==
  /\ cache \in [Vaults -> CacheFiles \cup {Nothing}]
  /\ typed \in [Vaults -> SUBSET Keys]
  /\ pc \in [Processes -> PcValues]

\* A command that has begun has a path; one with a cache file open has a password
\* to write into it.
PathInv ==
  \A p \in Processes :
    /\ pc[p] # "idle" => CacheOf(p) \in Vaults
    /\ pc[p] \in {"open", "write"} => entered[p] \in Keys

TypeInv == SharedTypes /\ CallTypes /\ PathInv

\* Where a command goes next changes no other one.
LEMMA GotoType ==
  ASSUME SharedTypes, NEW p \in Processes, NEW label \in PcValues, Goto(p, label)
  PROVE  /\ pc' \in [Processes -> PcValues]
         /\ pc'[p] = label
         /\ \A q \in Processes \ {p} : pc'[q] = pc[q]
BY DEF SharedTypes, Goto

\* The end of a command keeps the types.
LEMMA TypeEnd ==
  ASSUME TypeInv, NEW p \in Processes, NEW how \in Outcomes, End(p, how), UNCHANGED <<cache, typed>>
  PROVE  TypeInv'
<1>1. SharedTypes' /\ pc'[p] = "idle" /\ \A q \in Processes \ {p} : pc'[q] = pc[q]
  BY GotoType DEF TypeInv, End, SharedTypes, PcValues
<1>2. CallTypes'
  BY NoSettingsType DEF TypeInv, CallTypes, End
<1>3. PathInv'
  BY <1>1 DEF TypeInv, CallTypes, PathInv, End, CacheOf
<1>4. QED
  BY <1>1, <1>2, <1>3 DEF TypeInv

\* So does its start.
LEMMA TypeBegin ==
  ASSUME TypeInv, NEW p \in Processes, CannotBegin(p) \/ Begin(p)
  PROVE  TypeInv'
<1>1. CASE CannotBegin(p)
  <2>1. PICK how \in Outcomes : End(p, how)
    BY <1>1 DEF CannotBegin, Outcomes
  <2>2. QED
    BY <1>1, <2>1, TypeEnd DEF CannotBegin
<1>2. CASE Begin(p)
  <2>1. PICK i \in Invocations[p] :
          /\ Accepted(i)
          /\ settings' = [settings EXCEPT ![p] = Found(i)]
          /\ settings'[p].path # Nothing
          /\ Goto(p, IF settings'[p].password # Nothing THEN "run" ELSE "check")
          /\ expected' = [expected EXCEPT ![p] = Asked(i)]
          /\ overruled' = [overruled EXCEPT ![p] = Overruled(i)]
          /\ tty' = [tty EXCEPT ![p] = i.tty]
          /\ allow' = [allow EXCEPT ![p] = i.allow]
    BY <1>2 DEF Begin
  <2>2. i \in InvocationType /\ i.tty \in BOOLEAN /\ i.allow \in BOOLEAN
    BY CommandAssumption DEF CommandAssumption, InvocationType
  <2>3. Asked(i) \in Settings /\ Found(i) \in Settings /\ Overruled(i) \subseteq Fields
    BY <2>1, <2>2, AskedIsFound DEF Overruled
  <2>4. CallTypes'
    <3>1. /\ settings' \in [Processes -> Settings] /\ expected' \in [Processes -> Settings]
          /\ overruled' \in [Processes -> SUBSET Fields]
      BY <2>1, <2>3 DEF TypeInv, CallTypes
    <3>2. tty' \in [Processes -> BOOLEAN] /\ allow' \in [Processes -> BOOLEAN]
      BY <2>1, <2>2 DEF TypeInv, CallTypes
    <3>3. outcome' \in [Processes -> Outcomes] /\ UNCHANGED <<entered, linked>>
      BY <1>2 DEF TypeInv, CallTypes, Begin, Outcomes
    <3>4. QED
      BY <3>1, <3>2, <3>3 DEF TypeInv, CallTypes
  <2>5. /\ SharedTypes' /\ pc'[p] \in {"run", "check"}
        /\ \A q \in Processes \ {p} : pc'[q] = pc[q]
    BY <1>2, <2>1, GotoType DEF TypeInv, SharedTypes, Begin, PcValues
  <2>6. PathInv'
    <3>1. CacheOf(p)' \in Vaults
      BY <2>1, <2>4 DEF CacheOf, CallTypes, Settings
    <3>2. \A q \in Processes \ {p} : settings'[q] = settings[q] /\ entered'[q] = entered[q]
      BY <1>2, <2>1 DEF Begin, TypeInv, CallTypes
    <3>3. QED
      BY <2>5, <3>1, <3>2 DEF TypeInv, PathInv, CacheOf
  <2>7. QED
    BY <2>4, <2>5, <2>6 DEF TypeInv
<1>3. QED
  BY <1>1, <1>2

\* A step of a command changes the password of its settings at most.
SamePaths ==
  \A q \in Processes :
    settings'[q].path = settings[q].path /\ settings'[q].key = settings[q].key

\* So do the steps of a command that has begun.
LEMMA TypeStep ==
  ASSUME TypeInv, NEW p \in Processes, CommandStep(p)
  PROVE  TypeInv'
<1> DEFINE file == cache[CacheOf(p)]
<1>1. CacheOf(p) \in Vaults /\ file \in CacheFiles \cup {Nothing}
  BY DEF CommandStep, CheckCache, UnlinkCache, ReadCache, Prompt, OpenCache, WriteCache, Run,
         TypeInv, PathInv, SharedTypes
<1>2. CASE Run(p)
  <2>1. PICK how \in Outcomes : End(p, how)
    BY <1>2 DEF Run, Outcomes
  <2>2. QED
    BY <1>2, <2>1, TypeEnd DEF Run
<1>3. CASE CheckCache(p) \/ UnlinkCache(p) \/ ReadCache(p) \/ Prompt(p) \/ OpenCache(p) \/ WriteCache(p)
  <2>1. PICK label \in {"prompt", "run", "unlink", "read", "open", "write"} :
          /\ Goto(p, label)
          /\ label = "write" => pc[p] = "open"
          /\ label = "open" => entered'[p] \in Keys
    <3>1. CASE Prompt(p)
      BY <1>3, <3>1 DEF Prompt, TypeInv, CallTypes
    <3>2. QED
      BY <1>3, <3>1 DEF CheckCache, UnlinkCache, ReadCache, OpenCache, WriteCache, AskNext
  <2>2. /\ pc' \in [Processes -> PcValues] /\ pc'[p] = label
        /\ \A q \in Processes \ {p} : pc'[q] = pc[q]
    BY <2>1, GotoType DEF TypeInv, PcValues
  <2>3. UNCHANGED <<tty, allow, expected, overruled, outcome>>
    BY <1>3 DEF CheckCache, UnlinkCache, ReadCache, Prompt, OpenCache, WriteCache, local, call
  <2>4. UNCHANGED settings \/ \E k \in Keys : settings' = [settings EXCEPT ![p].password = k]
    <3>1. CASE ReadCache(p) /\ Readable(file)
      <4>1. file.body \in Keys
        BY <1>1, <3>1 DEF Readable, CacheFiles
      <4>2. QED
        BY <3>1, <4>1 DEF ReadCache
    <3>2. QED
      BY <1>3, <3>1 DEF CheckCache, UnlinkCache, ReadCache, Prompt, OpenCache, WriteCache
  <2>5. settings' \in [Processes -> Settings] /\ SamePaths
    <3>1. ASSUME NEW k \in Keys, settings' = [settings EXCEPT ![p].password = k]
          PROVE  settings' \in [Processes -> Settings] /\ SamePaths
      <4>1. settings[p] \in Settings /\ settings \in [Processes -> Settings]
        BY DEF TypeInv, CallTypes
      <4>2. [settings[p] EXCEPT !.password = k] =
              [path |-> settings[p].path, password |-> k, key |-> settings[p].key]
        BY <4>1 DEF Settings
      <4>3. settings' = [settings EXCEPT ![p] = [path |-> settings[p].path, password |-> k,
                                                 key |-> settings[p].key]]
        BY <3>1, <4>2
      <4>4. [path |-> settings[p].path, password |-> k, key |-> settings[p].key] \in Settings
        BY <4>1 DEF Settings
      <4>5. QED
        BY <4>1, <4>3, <4>4 DEF SamePaths
    <3>2. QED
      BY <2>4, <3>1 DEF SamePaths, TypeInv, CallTypes
  <2>6. /\ entered' \in [Processes -> Keys \cup {Nothing}]
        /\ \A q \in Processes \ {p} : entered'[q] = entered[q]
        /\ pc[p] = "open" => entered'[p] = entered[p]
    BY <1>3 DEF CheckCache, UnlinkCache, ReadCache, Prompt, OpenCache, WriteCache, local, TypeInv, CallTypes
  <2>7. linked' \in [Processes -> BOOLEAN]
    <3>1. CASE UnlinkCache(p)
      <4>1. \A q \in Processes : (linked[q] /\ CacheOf(q) # CacheOf(p)) \in BOOLEAN
        OBVIOUS
      <4>2. QED
        BY <3>1, <4>1 DEF UnlinkCache
    <3>2. QED
      BY <1>3, <3>1 DEF CheckCache, ReadCache, Prompt, OpenCache, WriteCache, local, TypeInv, CallTypes
  <2>8. typed' \in [Vaults -> SUBSET Keys]
    BY <1>1, <1>3 DEF CheckCache, UnlinkCache, ReadCache, Prompt, OpenCache, WriteCache, TypeInv, SharedTypes
  <2>9. cache' \in [Vaults -> CacheFiles \cup {Nothing}]
    <3>1. CASE WriteCache(p)
      <4>1. entered[p] \in Keys
        BY <3>1 DEF WriteCache, TypeInv, PathInv
      <4>2. \/ UNCHANGED cache
            \/ \E b \in {entered[p], Torn} :
                 cache' = [cache EXCEPT ![CacheOf(p)] = [body |-> b, expired |-> FALSE]]
        BY <3>1 DEF WriteCache
      <4>3. \A b \in {entered[p], Torn} : [body |-> b, expired |-> FALSE] \in CacheFiles
        BY <4>1 DEF CacheFiles
      <4>4. QED
        BY <4>2, <4>3 DEF TypeInv, SharedTypes
    <3>2. CASE OpenCache(p)
      <4>1. [body |-> Torn, expired |-> FALSE] \in CacheFiles
        BY DEF CacheFiles
      <4>2. QED
        BY <3>2, <4>1 DEF OpenCache, TypeInv, SharedTypes
    <3>3. CASE UnlinkCache(p)
      BY <3>3 DEF UnlinkCache, TypeInv, SharedTypes
    <3>4. QED
      BY <1>3, <3>1, <3>2, <3>3 DEF CheckCache, ReadCache, Prompt, TypeInv, SharedTypes
  <2>10. PathInv'
    BY <1>1, <2>1, <2>2, <2>5, <2>6 DEF SamePaths, TypeInv, PathInv, CacheOf
  <2>11. QED
    BY <2>2, <2>3, <2>5, <2>6, <2>7, <2>8, <2>9, <2>10 DEF TypeInv, SharedTypes, CallTypes
<1>4. QED
  BY <1>2, <1>3 DEF CommandStep

\* Every variable keeps its type, and a command that has begun its path
\* (seed_keepass_password_env_for_tty, _resolve_context).
LEMMA TypeAlways == Spec => []TypeInv
<1>1. Init => TypeInv
  <2> SUFFICES ASSUME Init PROVE TypeInv
    OBVIOUS
  <2>1. SharedTypes
    BY DEF Init, SharedTypes, PcValues
  <2>2. /\ settings \in [Processes -> Settings] /\ expected \in [Processes -> Settings]
        /\ overruled \in [Processes -> SUBSET Fields]
    BY NoSettingsType DEF Init
  <2>3. /\ tty \in [Processes -> BOOLEAN] /\ allow \in [Processes -> BOOLEAN]
        /\ linked \in [Processes -> BOOLEAN]
        /\ entered \in [Processes -> Keys \cup {Nothing}]
    BY DEF Init
  <2>4. outcome \in [Processes -> Outcomes]
    BY DEF Init, Outcomes
  <2>5. PathInv
    BY DEF Init, PathInv
  <2>6. QED
    BY <2>1, <2>2, <2>3, <2>4, <2>5 DEF TypeInv, CallTypes
<1>2. TypeInv /\ [Next]_vars => TypeInv'
  <2> SUFFICES ASSUME TypeInv, [Next]_vars PROVE TypeInv'
    OBVIOUS
  <2>1. ASSUME NEW p \in Processes, Kill(p) PROVE TypeInv'
    BY <2>1, TypeEnd DEF Kill, Outcomes
  <2>2. ASSUME NEW v \in Vaults, Expire(v) PROVE TypeInv'
    BY <2>2 DEF Expire, TypeInv, SharedTypes, CallTypes, PathInv, CacheOf, CacheFiles, local, call
  <2>3. CASE UNCHANGED vars
    BY <2>3 DEF vars, local, call, TypeInv, SharedTypes, CallTypes, PathInv, CacheOf
  <2>4. QED
    BY <2>1, <2>2, <2>3, TypeBegin, TypeStep DEF Next
<1>3. QED
  BY <1>1, <1>2, PTL DEF Spec

\* The type invariant (KeepassEnvironment's settings, and the cache files of
\* seed_keepass_password_env_for_tty).
THEOREM TypeCorrect == Spec => []TypeOK
<1>1. TypeInv => TypeOK
  BY DEF TypeInv, SharedTypes, CallTypes, TypeOK
<1>2. QED
  BY <1>1, TypeAlways, PTL

-----------------------------------------------------------------------------
(* The cache.                                                               *)

\* The file a command has open is the one of its vault, and it writes what its
\* user has entered for that vault.
CacheInv ==
  /\ CacheHoldsTyped
  /\ \A p \in Processes : pc[p] \in {"open", "write"} => entered[p] \in typed[CacheOf(p)]

\* A step that changes no cache file but one, and no password entered.
LEMMA CacheFrame ==
  ASSUME TypeInv, CacheInv, NEW p \in Processes, UNCHANGED typed,
         \A q \in Processes \ {p} :
           pc'[q] = pc[q] /\ settings'[q] = settings[q] /\ entered'[q] = entered[q],
         pc'[p] \in {"open", "write"} =>
           pc[p] \in {"open", "write"} /\ CacheOf(p)' = CacheOf(p) /\ entered'[p] = entered[p],
         \A v \in Vaults : cache'[v] # Nothing =>
           \/ cache[v] # Nothing /\ cache'[v].body = cache[v].body
           \/ cache'[v].body \in typed[v] \cup {Torn}
  PROVE  CacheInv'
BY DEF CacheInv, CacheHoldsTyped, CacheOf

\* The steps of a command keep the cache clean.
LEMMA CacheStep ==
  ASSUME TypeInv, CacheInv, NEW p \in Processes, CommandStep(p)
  PROVE  CacheInv'
<1>1. \A q \in Processes \ {p} :
         pc'[q] = pc[q] /\ settings'[q] = settings[q] /\ entered'[q] = entered[q]
  BY DEF CommandStep, CheckCache, UnlinkCache, ReadCache, Prompt, OpenCache, WriteCache, Run, End,
         AskNext, Goto, local, call, TypeInv, CallTypes, SharedTypes
<1>2. CacheOf(p) \in Vaults
  BY DEF CommandStep, CheckCache, UnlinkCache, ReadCache, Prompt, OpenCache, WriteCache, Run,
         TypeInv, PathInv
<1>3. CASE Prompt(p)
  <2>1. CASE \E k \in Keys : /\ entered' = [entered EXCEPT ![p] = k]
                             /\ settings' = [settings EXCEPT ![p].password = k]
                             /\ typed' = [typed EXCEPT ![CacheOf(p)] = @ \cup {k}]
                             /\ Goto(p, "open")
    <3>1. PICK k \in Keys : /\ entered' = [entered EXCEPT ![p] = k]
                            /\ settings' = [settings EXCEPT ![p].password = k]
                            /\ typed' = [typed EXCEPT ![CacheOf(p)] = @ \cup {k}]
      BY <2>1
    <3>2. \A v \in Vaults : typed[v] \subseteq typed'[v]
      BY <3>1 DEF TypeInv, SharedTypes
    <3>3. UNCHANGED cache
      BY <1>3 DEF Prompt
    <3>4. CacheHoldsTyped'
      BY <3>2, <3>3 DEF CacheInv, CacheHoldsTyped
    <3>5. CacheOf(p)' = CacheOf(p) /\ entered'[p] = k
      BY <3>1 DEF CacheOf, TypeInv, CallTypes, Settings
    <3>6. entered'[p] \in typed'[CacheOf(p)']
      BY <1>2, <3>1, <3>5 DEF TypeInv, SharedTypes
    <3>7. ASSUME NEW q \in Processes \ {p}, pc'[q] \in {"open", "write"}
          PROVE  entered'[q] \in typed'[CacheOf(q)']
      <4>1. CacheOf(q)' = CacheOf(q) /\ CacheOf(q) \in Vaults /\ entered[q] \in typed[CacheOf(q)]
        BY <1>1, <3>7 DEF CacheOf, TypeInv, PathInv, CacheInv
      <4>2. QED
        BY <1>1, <3>2, <4>1
    <3>8. QED
      BY <3>4, <3>6, <3>7 DEF CacheInv
  <2>2. CASE Goto(p, "run") /\ UNCHANGED <<entered, settings, typed>>
    <3>1. pc'[p] = "run"
      BY <2>2, GotoType DEF TypeInv, PcValues
    <3>2. UNCHANGED <<cache, typed>>
      BY <1>3, <2>2 DEF Prompt
    <3>3. QED
      BY <1>1, <3>1, <3>2, CacheFrame
  <2>3. QED
    BY <1>3, <2>1, <2>2 DEF Prompt
<1>4. CASE CheckCache(p) \/ UnlinkCache(p) \/ ReadCache(p) \/ Run(p)
  <2>1. PICK label \in {"prompt", "run", "unlink", "read", "idle"} : Goto(p, label)
    BY <1>4 DEF CheckCache, UnlinkCache, ReadCache, Run, End, AskNext
  <2>2. pc'[p] \notin {"open", "write"}
    BY <2>1, GotoType DEF TypeInv, PcValues
  <2>3. /\ UNCHANGED typed
        /\ \A v \in Vaults : cache'[v] # Nothing => cache'[v] = cache[v]
    BY <1>4 DEF CheckCache, UnlinkCache, ReadCache, Run, TypeInv, SharedTypes
  <2>4. QED
    BY <1>1, <2>2, <2>3, CacheFrame
<1>5. CASE OpenCache(p)
  <2>1. /\ pc[p] = "open" /\ UNCHANGED <<typed, settings, entered>>
        /\ \A v \in Vaults : cache'[v] = cache[v] \/ cache'[v].body = Torn
    BY <1>5 DEF OpenCache, TypeInv, SharedTypes
  <2>2. CacheOf(p)' = CacheOf(p)
    BY <2>1 DEF CacheOf
  <2>3. QED
    BY <1>1, <2>1, <2>2, CacheFrame
<1>6. CASE WriteCache(p)
  <2>1. pc[p] = "write" /\ pc'[p] = "run" /\ UNCHANGED typed
    BY <1>6, GotoType DEF WriteCache, TypeInv, PcValues
  <2>2. \/ UNCHANGED cache
        \/ \E b \in {entered[p], Torn} :
             cache' = [cache EXCEPT ![CacheOf(p)] = [body |-> b, expired |-> FALSE]]
    BY <1>6 DEF WriteCache
  <2>3. entered[p] \in typed[CacheOf(p)]
    BY <2>1 DEF CacheInv
  <2>4. \A v \in Vaults : cache'[v] = cache[v] \/ cache'[v].body \in typed[v] \cup {Torn}
    BY <1>2, <2>2, <2>3 DEF TypeInv, SharedTypes
  <2>5. QED
    BY <1>1, <2>1, <2>4, CacheFrame
<1>7. QED
  BY <1>3, <1>4, <1>5, <1>6 DEF CommandStep

\* What a command that begins or ends leaves alone.
LEMMA Around ==
  ASSUME TypeInv, NEW p \in Processes, CannotBegin(p) \/ Begin(p) \/ Kill(p)
  PROVE  /\ UNCHANGED <<cache, typed>>
         /\ pc'[p] \in {"idle", "run", "check"}
         /\ \A q \in Processes \ {p} : /\ pc'[q] = pc[q] /\ settings'[q] = settings[q]
                                       /\ entered'[q] = entered[q] /\ expected'[q] = expected[q]
                                       /\ overruled'[q] = overruled[q]
<1>1. PICK label \in {"idle", "run", "check"} : Goto(p, label)
  BY DEF CannotBegin, Begin, Kill, End
<1>2. /\ pc'[p] \in {"idle", "run", "check"}
      /\ \A q \in Processes \ {p} : pc'[q] = pc[q]
  BY <1>1, GotoType DEF TypeInv, PcValues
<1>3. \A q \in Processes \ {p} :
         /\ settings'[q] = settings[q] /\ entered'[q] = entered[q] /\ expected'[q] = expected[q]
         /\ overruled'[q] = overruled[q]
  BY DEF CannotBegin, Begin, Kill, End, TypeInv, CallTypes
<1>4. UNCHANGED <<cache, typed>>
  BY DEF CannotBegin, Begin, Kill
<1>5. QED
  BY <1>2, <1>3, <1>4

\* The passage of time changes no password.
LEMMA CacheExpire ==
  ASSUME TypeInv, CacheInv, NEW v \in Vaults, Expire(v)
  PROVE  CacheInv'
<1>1. UNCHANGED <<pc, settings, entered, typed>>
  BY DEF Expire, local
<1>2. cache[v] \in CacheFiles /\ cache' = [cache EXCEPT ![v] = [cache[v] EXCEPT !.expired = TRUE]]
  BY DEF Expire, TypeInv, SharedTypes
<1>3. [cache[v] EXCEPT !.expired = TRUE].body = cache[v].body
  BY <1>2 DEF CacheFiles
<1>4. \A u \in Vaults : cache'[u] # Nothing => cache[u] # Nothing /\ cache'[u].body = cache[u].body
  <2>1. cache[v] # Nothing
    BY DEF Expire
  <2>2. QED
    BY <1>2, <1>3, <2>1 DEF TypeInv, SharedTypes
<1>5. CacheHoldsTyped'
  BY <1>1, <1>4 DEF CacheInv, CacheHoldsTyped
<1>6. QED
  BY <1>1, <1>5 DEF CacheInv, CacheOf

\* The cache inductively.
LEMMA CacheAlways == Spec => []CacheInv
<1>1. Init => CacheInv
  BY DEF Init, CacheInv, CacheHoldsTyped
<1>2. TypeInv /\ CacheInv /\ [Next]_vars => CacheInv'
  <2> SUFFICES ASSUME TypeInv, CacheInv, [Next]_vars PROVE CacheInv'
    OBVIOUS
  <2>1. ASSUME NEW p \in Processes, CannotBegin(p) \/ Begin(p) \/ Kill(p) PROVE CacheInv'
    BY <2>1, Around, CacheFrame
  <2>2. CASE UNCHANGED vars
    BY <2>2 DEF vars, local, call, CacheInv, CacheHoldsTyped, CacheOf
  <2>3. QED
    BY <2>1, <2>2, CacheStep, CacheExpire DEF Next
<1>3. QED
  BY <1>1, <1>2, TypeAlways, PTL DEF Spec

\* A cache file holds a password that was entered at a prompt for its own vault,
\* or nothing that parses (seed_keepass_password_env_for_tty).
THEOREM CacheClean == Spec => []CacheHoldsTyped
<1>1. CacheInv => CacheHoldsTyped
  BY DEF CacheInv
<1>2. QED
  BY <1>1, CacheAlways, PTL

-----------------------------------------------------------------------------
(* What a command runs on.                                                  *)

\* One command runs on what its call asks for, but where the env file overrules.
CommandAsAsked(p) == \A f \in Fields \ overruled[p] : AsAsked(p, f)

\* As long as it looks for a password it has none.
AskedInv ==
  \A p \in Processes :
    /\ pc[p] # "idle" => CommandAsAsked(p)
    /\ pc[p] \in {"check", "unlink", "read", "prompt"} => settings[p].password = Nothing

\* A command that begins.
LEMMA AskedBegin ==
  ASSUME TypeInv, AskedInv, NEW p \in Processes, Begin(p)
  PROVE  AskedInv'
<1>1. PICK i \in Invocations[p] :
        /\ Accepted(i)
        /\ settings' = [settings EXCEPT ![p] = Found(i)]
        /\ Goto(p, IF settings'[p].password # Nothing THEN "run" ELSE "check")
        /\ expected' = [expected EXCEPT ![p] = Asked(i)]
        /\ overruled' = [overruled EXCEPT ![p] = Overruled(i)]
  BY DEF Begin
<1>2. /\ settings'[p] = Found(i) /\ expected'[p] = Asked(i) /\ overruled'[p] = Overruled(i)
      /\ \A f \in Fields \ Overruled(i) : Asked(i)[f] = Found(i)[f]
  <2>1. i \in InvocationType
    BY CommandAssumption DEF CommandAssumption
  <2>2. QED
    BY <1>1, <2>1, AskedIsFound DEF TypeInv, CallTypes
<1>3. CommandAsAsked(p)'
  BY <1>2 DEF CommandAsAsked, AsAsked, Fields
<1>4. pc'[p] = IF settings'[p].password # Nothing THEN "run" ELSE "check"
  BY <1>1, GotoType DEF TypeInv, PcValues
<1>5. /\ UNCHANGED typed
      /\ \A q \in Processes \ {p} : /\ pc'[q] = pc[q] /\ settings'[q] = settings[q]
                                    /\ expected'[q] = expected[q] /\ overruled'[q] = overruled[q]
  BY Around
<1>6. QED
  BY <1>3, <1>4, <1>5 DEF AskedInv, CommandAsAsked, AsAsked

\* A step that changes one command at most, and forgets no password entered.
LEMMA AskedFrame ==
  ASSUME TypeInv, AskedInv, NEW p \in Processes,
         \A v \in Vaults : typed[v] \subseteq typed'[v],
         \A q \in Processes \ {p} :
           /\ pc'[q] = pc[q] /\ settings'[q] = settings[q] /\ expected'[q] = expected[q]
           /\ overruled'[q] = overruled[q],
         pc'[p] # "idle" => CommandAsAsked(p)',
         pc'[p] \in {"check", "unlink", "read", "prompt"} => settings'[p].password = Nothing
  PROVE  AskedInv'
<1>1. ASSUME NEW q \in Processes \ {p}, pc'[q] # "idle"
      PROVE  CommandAsAsked(q)'
  <2>1. CommandAsAsked(q) /\ settings[q].path \in Vaults
    BY <1>1 DEF AskedInv, TypeInv, PathInv, CacheOf
  <2>2. typed[settings[q].path] \subseteq typed'[settings[q].path]
    BY <2>1
  <2>3. QED
    BY <2>1, <2>2 DEF CommandAsAsked, AsAsked
<1>2. QED
  BY <1>1 DEF AskedInv

\* The steps of a command that has begun.
LEMMA AskedStep ==
  ASSUME TypeInv, CacheInv, AskedInv, NEW p \in Processes, CommandStep(p)
  PROVE  AskedInv'
<1>1. \A q \in Processes \ {p} :
         /\ pc'[q] = pc[q] /\ settings'[q] = settings[q] /\ expected'[q] = expected[q]
         /\ overruled'[q] = overruled[q]
  BY DEF CommandStep, CheckCache, UnlinkCache, ReadCache, Prompt, OpenCache, WriteCache, Run, End,
         AskNext, Goto, local, call, TypeInv, CallTypes, SharedTypes
<1>2. pc[p] # "idle" /\ CacheOf(p) \in Vaults /\ CommandAsAsked(p) /\ settings[p] \in Settings
  BY DEF CommandStep, CheckCache, UnlinkCache, ReadCache, Prompt, OpenCache, WriteCache, Run,
         TypeInv, PathInv, CallTypes, AskedInv
<1>3. CASE Run(p)
  <2>1. pc'[p] = "idle" /\ UNCHANGED typed
    BY <1>3, GotoType DEF Run, End, TypeInv, PcValues
  <2>2. QED
    BY <1>1, <2>1, AskedFrame
<1>4. CASE UNCHANGED settings /\ ~Run(p)
  <2>1. UNCHANGED <<typed, expected, overruled>>
    <3>1. CASE Prompt(p)
      <4>1. ASSUME NEW k \in Keys, settings' = [settings EXCEPT ![p].password = k] PROVE FALSE
        <5>1. settings'[p].password = k
          BY <4>1 DEF TypeInv, CallTypes, Settings
        <5>2. settings[p].password = Nothing
          BY <3>1 DEF Prompt, AskedInv
        <5>3. QED
          BY <1>4, <5>1, <5>2, Distinct
      <4>2. QED
        BY <3>1, <4>1 DEF Prompt, local, call
    <3>2. QED
      BY <1>4, <3>1 DEF CommandStep, CheckCache, UnlinkCache, ReadCache, OpenCache, WriteCache, local, call
  <2>2. CommandAsAsked(p)' /\ settings'[p] = settings[p]
    BY <1>2, <1>4, <2>1 DEF CommandAsAsked, AsAsked
  <2>3. PICK label \in PcValues :
          /\ Goto(p, label)
          /\ label \in {"check", "unlink", "read", "prompt"} => pc[p] \in {"check", "unlink", "read"}
    BY <1>4 DEF CommandStep, CheckCache, UnlinkCache, ReadCache, Prompt, OpenCache, WriteCache, AskNext,
       PcValues
  <2>4. pc'[p] = label
    BY <2>3, GotoType DEF TypeInv
  <2>5. pc'[p] \in {"check", "unlink", "read", "prompt"} => settings'[p].password = Nothing
    BY <2>2, <2>3, <2>4 DEF AskedInv
  <2>6. QED
    BY <1>1, <2>1, <2>2, <2>5, AskedFrame
<1>5. ASSUME NEW k \in Keys, settings' = [settings EXCEPT ![p].password = k], UNCHANGED <<expected, overruled>>,
             k \in typed'[CacheOf(p)], \A v \in Vaults : typed[v] \subseteq typed'[v],
             settings[p].password = Nothing, pc'[p] \in {"open", "run"}
      PROVE  AskedInv'
  <2>1. /\ settings'[p].path = settings[p].path /\ settings'[p].key = settings[p].key
        /\ settings'[p].password = k
    BY <1>5 DEF TypeInv, CallTypes, Settings
  <2>2. ASSUME NEW f \in Fields \ overruled'[p]
        PROVE  AsAsked(p, f)'
    <3>1. AsAsked(p, f)
      BY <1>2, <1>5, <2>2 DEF CommandAsAsked
    <3>2. CASE f = "password"
      <4>1. expected[p].password = Nothing
        BY <1>5, <3>1, <3>2 DEF AsAsked
      <4>2. QED
        BY <1>2, <1>5, <2>1, <3>2, <4>1 DEF AsAsked, CacheOf
    <3>3. CASE f # "password"
      BY <1>5, <2>1, <3>1, <3>3 DEF AsAsked, Fields
    <3>4. QED
      BY <3>2, <3>3
  <2>3. CommandAsAsked(p)'
    BY <2>2 DEF CommandAsAsked
  <2>4. QED
    BY <1>1, <1>5, <2>3, AskedFrame
<1>6. CASE ReadCache(p) /\ ~UNCHANGED settings
  <2> DEFINE k == cache[CacheOf(p)].body
  <2>1. /\ Readable(cache[CacheOf(p)]) /\ settings' = [settings EXCEPT ![p].password = k]
        /\ UNCHANGED <<expected, overruled, typed>> /\ settings[p].password = Nothing
    BY <1>6 DEF ReadCache, local, call, AskedInv
  <2>2. k \in Keys /\ k \in typed[CacheOf(p)]
    BY <1>2, <2>1 DEF Readable, CacheInv, CacheHoldsTyped, TypeInv, SharedTypes, CacheFiles
  <2>3. pc'[p] = "run"
    BY <1>6, GotoType DEF ReadCache, TypeInv, PcValues
  <2>4. QED
    BY <1>5, <2>1, <2>2, <2>3
<1>7. CASE Prompt(p) /\ ~UNCHANGED settings
  <2>1. PICK k \in Keys : /\ settings' = [settings EXCEPT ![p].password = k]
                          /\ typed' = [typed EXCEPT ![CacheOf(p)] = @ \cup {k}]
                          /\ Goto(p, "open")
    BY <1>7 DEF Prompt
  <2>2. UNCHANGED <<expected, overruled>> /\ settings[p].password = Nothing
    BY <1>7 DEF Prompt, local, call, AskedInv
  <2>3. k \in typed'[CacheOf(p)] /\ \A v \in Vaults : typed[v] \subseteq typed'[v]
    BY <1>2, <2>1 DEF TypeInv, SharedTypes
  <2>4. pc'[p] = "open"
    BY <2>1, GotoType DEF TypeInv, PcValues
  <2>5. QED
    BY <1>5, <2>1, <2>2, <2>3, <2>4
<1>8. QED
  BY <1>3, <1>4, <1>6, <1>7 DEF CommandStep, CheckCache, UnlinkCache, OpenCache, WriteCache

\* A command runs on the path, password and key file that its call, its shell and
\* its env file ask for, but for the settings in which the env file overrules the
\* shell; a password they do not give was entered for the same path (main,
\* load_config_environment, seed_keepass_password_env_for_tty).
THEOREM AlwaysAsAsked == Spec => []RunsAsAsked
<1>1. Init => AskedInv
  BY DEF Init, AskedInv
<1>2. TypeInv /\ CacheInv /\ AskedInv /\ [Next]_vars => AskedInv'
  <2> SUFFICES ASSUME TypeInv, CacheInv, AskedInv, [Next]_vars PROVE AskedInv'
    OBVIOUS
  <2>1. ASSUME NEW p \in Processes, CannotBegin(p) \/ Kill(p) PROVE AskedInv'
    <3>1. pc'[p] = "idle"
      <4>1. Goto(p, "idle")
        BY <2>1 DEF CannotBegin, Kill, End
      <4>2. QED
        BY <4>1, GotoType DEF TypeInv, PcValues
    <3>2. QED
      BY <2>1, <3>1, Around, AskedFrame
  <2>2. ASSUME NEW v \in Vaults, Expire(v) PROVE AskedInv'
    BY <2>2 DEF Expire, local, call, AskedInv, CommandAsAsked, AsAsked
  <2>3. CASE UNCHANGED vars
    BY <2>3 DEF vars, local, call, AskedInv, CommandAsAsked, AsAsked
  <2>4. QED
    BY <2>1, <2>2, <2>3, AskedBegin, AskedStep DEF Next
<1>3. AskedInv => RunsAsAsked
  BY DEF AskedInv, CommandAsAsked, RunsAsAsked
<1>4. QED
  BY <1>1, <1>2, <1>3, TypeAlways, CacheAlways, PTL DEF Spec
=============================================================================
