-------------------------- MODULE PasswordChange --------------------------
(***************************************************************************)
(* What the rotation of an account's password promises the user: however   *)
(* many calls its commands make, and wherever they stop, the change goes   *)
(* from one password to the next in four steps.  A new candidate is kept   *)
(* beside the password in use, the user takes it to the provider, the      *)
(* vault takes it over, and only then is it dropped as a candidate.  The   *)
(* promise ends when somebody drops a candidate that another is using.     *)
(***************************************************************************)
CONSTANTS
  Passwords, \* passwords the account may get
  Initial,   \* the password it has in the beginning
  None       \* the absent value

VARIABLES
  real,      \* the password the vault holds for the account
  candidate, \* the password that may replace it, or None
  provider,  \* the password the provider accepts
  broken     \* the promise has ended

avars == <<real, candidate, provider, broken>>

AInit ==
  /\ real = Initial
  /\ candidate = None
  /\ provider = Initial
  /\ broken = FALSE

\* A new candidate takes the place of one that is not in use.
Prepare ==
  /\ provider = real
  /\ candidate' \in Passwords \ {real}
  /\ UNCHANGED <<real, provider>>

\* The user changes the password at the provider.
Change ==
  /\ candidate # None
  /\ provider' = candidate
  /\ UNCHANGED <<real, candidate>>

\* The vault takes over a candidate that is in use.
Store ==
  /\ candidate # None
  /\ provider = candidate
  /\ real' = candidate
  /\ UNCHANGED <<candidate, provider>>

\* A candidate is dropped when the password in use is in the vault without it.
Drop ==
  /\ provider = real
  /\ candidate' = None
  /\ UNCHANGED <<real, provider>>

\* Nothing is promised any more.
Break ==
  /\ broken' = TRUE
  /\ {real, provider}' \subseteq Passwords
  /\ candidate' \in Passwords \cup {None}

ANext ==
  \/ ~broken /\ broken' = FALSE /\ (Prepare \/ Change \/ Store \/ Drop)
  \/ Break

ASpec == AInit /\ [][ANext]_avars
=============================================================================
