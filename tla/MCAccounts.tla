----------------------------- MODULE MCAccounts -----------------------------
(***************************************************************************)
(* TLC instance of the accounts: profiles, sessions, one-time codes,       *)
(* enrolment by a fleet, the grants of administrators and the deletion of  *)
(* records.  A behaviour is of the one component it chooses as its         *)
(* subject; the others stay in one initial state.                          *)
(***************************************************************************)
EXTENDS Profiles, Sessions, OneTimeCodes, Enrolment, RecordDeletion, TLC

CONSTANTS
  Part,                     \* the components checked
  Name                      \* symmetric, as Caller

VARIABLES
  subject,
  admin, grants, trusted, page, change

grantVars == <<admin, grants, trusted, page, change>>
accountsVars == <<subject, profileVars, sessionVars, codesVars, deletionVars, enrolmentVars, grantVars>>

Grant == INSTANCE AdminGrants WITH
  Admin <- {"admin"}, Boss <- Caller, Permission <- {"edit"}, MaxVersion <- 2, job <- change

ASSUME AccountsAssumption == Grant!GrantsAssumption

\* What the one component whose start is open starts with when it is not the subject.
Pinned ==
  subject # "profiles" =>
    account = CHOOSE a \in [User -> [contact : Contact, verified : {FALSE}, deleted : {FALSE}]] :
                \A u, w \in User : u # w => a[u].contact # a[w].contact

AccountsInit ==
  /\ subject \in Part
  /\ Pinned
  /\ ProfilesInit /\ SessionsInit /\ CodesInit /\ DeletionInit
  /\ EnrolmentInit /\ Grant!AdminGrantsInit

OthersRest ==
  /\ UNCHANGED subject
  /\ subject # "profiles" => UNCHANGED profileVars
  /\ subject # "sessions" => UNCHANGED sessionVars
  /\ subject # "codes" => UNCHANGED codesVars
  /\ subject # "deletion" => UNCHANGED deletionVars
  /\ subject # "enrolment" => UNCHANGED enrolmentVars
  /\ subject # "grants" => UNCHANGED grantVars

AccountsNext ==
  /\ OthersRest
  /\ \/ subject = "profiles" /\ ProfilesNext
     \/ subject = "sessions" /\ SessionsNext
     \/ subject = "codes" /\ CodesNext
     \/ subject = "deletion" /\ DeletionNext
     \/ subject = "enrolment" /\ EnrolmentNext
     \/ subject = "grants" /\ Grant!AdminGrantsNext

AccountsSpec == AccountsInit /\ [][AccountsNext]_accountsVars

(* Bounds.  Tokens are issued in order; one row of a code lapses or may be  *)
(* sent again, and one is guessed wrong or sent again while it is the only  *)
(* row; a crash takes the place of a second deletion; a second invitation   *)
(* is issued to a driver without approval; and the users edit contacts,     *)
(* addresses or preferences.                                                *)
Fresh(m) == desk[m] # NoRow => ~desk[m].lapsed /\ ~desk[m].cooled
Alone(m) == \A n \in Name \ {m} : desk[n] = NoRow
SmallWorld ==
  /\ \A t \in issued : t = 1 \/ t - 1 \in issued
  /\ \E m \in Name : Fresh(m)
  /\ \A m \in Name : Alone(m) \/ (misses[m] = 0 /\ (code[m] # NoRow => code[m].right = 1))
  /\ crashes + asked <= 2
  /\ inv[2] # NoOne => approved = {}
  /\ \E topic \in {{"edit", "verify"}, {"address"}, {"patch"}} :
       /\ \A j \in Job : job[j].does \in topic \cup {"nothing"}
       /\ "edit" \in topic \/ \A u \in User : ~account[u].verified
       /\ "address" \in topic \/ \A u \in User : addresses[u] = {}
       /\ "patch" \in topic \/ \A u \in User : prefs[u] = Preference

\* The one driver has one way to be reached.
SomeContact == [d \in Drivers |-> "phone"]

Symmetry ==
  Permutations(Caller) \cup Permutations(Name)

-----------------------------------------------------------------------------
\* Every component's state stays of its type.
AccountsTypeOK ==
  CASE subject = "profiles" -> ProfilesTypeOK
    [] subject = "sessions" -> SessionsTypeOK
    [] subject = "codes" -> CodesTypeOK
    [] subject = "deletion" -> DeletionTypeOK
    [] subject = "enrolment" -> EnrolmentTypeOK
    [] subject = "grants" -> Grant!AdminGrantsTypeOK

\* No session comes back to life, a deletion is authored by who was allowed to ask, patches of
\* preferences merge, an administrator changes what the page showed, and enrolment holds.
AccountStepsHold ==
  /\ NoRevival /\ DeletionsAreAuthored /\ PatchesMerge
  /\ Grant!ChangesAreOfWhatWasShown /\ EnrolmentHolds
=============================================================================
