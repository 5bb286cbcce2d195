------------------------------ MODULE Enrolment ------------------------------
(***************************************************************************)
(* Provider accounts and who may manage a driver: the role chosen after a  *)
(* social signup and its upgrade (RoleEnrolmentRepository), invitations    *)
(* and onboarding codes, a driver's consent (FleetInvitationRepository)    *)
(* and a fleet's provisioning, editing and submission of a driver's        *)
(* profile (ManagedDriverRepository).                                      *)
(*                                                                         *)
(* Managing an existing driver and consenting to a fleet are transactions  *)
(* of several statements that take the driver's users row and the advisory *)
(* lock 'managed_driver_user' in opposite orders; every other operation    *)
(* is one step.                                                            *)
(***************************************************************************)
EXTENDS Naturals, FiniteSets

CONSTANTS Fleets,      \* approved businesses of active owners
          Drivers,     \* provider accounts, existing or not yet
          ContactOf,   \* the e-mail address or phone of each account
          Invitations, \* identifiers, in the order they are issued
          NoOne

Roles == {"driver", "both", "owner"}
Kinds == {"verification", "association"}
Candidate == [role : Roles, pending : BOOLEAN]
Invitation == [fleet : Fleets, driver : Drivers, status : {"ACTIVE", "CONSUMED", "REVOKED"},
               late : BOOLEAN, code : BOOLEAN]
Management == [fleet : Fleets, active : BOOLEAN]

ASSUME EnrolmentAssumption ==
  /\ NoOne \notin Fleets \cup Drivers \cup Invitations
  /\ NoOne \notin Candidate \cup Invitation \cup Management
  /\ Fleets \cap Drivers = {} /\ Fleets \cap {"none", "own"} = {}
  /\ Invitations \subseteq Nat

VARIABLES
  candidate, \* NoOne, or the role of the account and whether it is provisional
  inv,       \* driver_onboarding_invitations
  managed,   \* fleet_managed_driver_accounts: one row per driver at most
  member,    \* ACTIVE rows of partner_drivers
  approved,  \* drivers whose profile is approved
  review,    \* the PENDING approval request of each kind, by its fleet
  writer,    \* the fleet that last saved the driver's profile
  agreed,    \* fleets a driver was provisioned by, consented to or joined
  enrolling, \* the open transaction of each fleet
  consent    \* the open transaction of each driver

enrolmentVars == <<candidate, inv, managed, member, approved, review, writer, agreed,
                   enrolling, consent>>

NoJob == [at |-> "idle", driver |-> NoOne]
NoConsent == [at |-> "idle", inv |-> NoOne]
Unasked == [k \in Kinds |-> "none"]

Has(d) == candidate[d] # NoOne
IsDriver(d) == Has(d) /\ candidate[d].role \in {"driver", "both"}

\* The unique indexes on (role, e-mail) and (role, phone).
RoleFree(d, r) == \A e \in Drivers \ {d} :
  Has(e) /\ ContactOf[e] = ContactOf[d] => candidate[e].role # r

UserLocked(d) == \E f \in Fleets : /\ enrolling[f].driver = d
                                   /\ enrolling[f].at \in {"user", "advised", "allowed"}
AdviceLocked(d) ==
  \/ \E f \in Fleets : /\ enrolling[f].driver = d
                       /\ enrolling[f].at \in {"advised", "allowed"}
  \/ consent[d].at # "idle"

InvitationLocked(i) == \E d \in Drivers : /\ consent[d].at = "granted"
                                          /\ consent[d].inv = i

EnrolmentInit ==
  /\ candidate = [d \in Drivers |-> NoOne]
  /\ inv = [i \in Invitations |-> NoOne]
  /\ managed = [d \in Drivers |-> NoOne]
  /\ member = {} /\ approved = {}
  /\ review = [d \in Drivers |-> Unasked]
  /\ writer = [d \in Drivers |-> NoOne]
  /\ agreed = {}
  /\ enrolling = [f \in Fleets |-> NoJob]
  /\ consent = [d \in Drivers |-> NoConsent]

---------------------------------------------------------------------------
\* A driver signs up with Google and has yet to choose a provider role.
SignUp(d) ==
  /\ ~Has(d) /\ RoleFree(d, "driver")
  /\ candidate' = [candidate EXCEPT ![d] = [role |-> "driver", pending |-> TRUE]]
  /\ UNCHANGED <<inv, managed, member, approved, review, writer, agreed, enrolling,
                 consent>>

SelectRole(d, r) ==
  /\ Has(d) /\ candidate[d].pending
  /\ ~UserLocked(d) /\ RoleFree(d, r)
  /\ candidate' = [candidate EXCEPT ![d] = [role |-> r, pending |-> FALSE]]
  /\ UNCHANGED <<inv, managed, member, approved, review, writer, agreed, enrolling,
                 consent>>

\* upgradeCapabilities does not read whether the role is still provisional.
Upgrade(d) ==
  /\ Has(d) /\ ~UserLocked(d) /\ RoleFree(d, "both")
  /\ candidate' = [candidate EXCEPT ![d].role = "both"]
  /\ UNCHANGED <<inv, managed, member, approved, review, writer, agreed, enrolling,
                 consent>>

---------------------------------------------------------------------------
\* addDriver: the previous active invitation is revoked, and an approved
\* driver's association is put before the reviewers.
Superseded(f, d) == {i \in Invitations : /\ inv[i] # NoOne
                                         /\ inv[i].fleet = f /\ inv[i].driver = d
                                         /\ inv[i].status = "ACTIVE"}
NextInvitation(i) == /\ inv[i] = NoOne
                     /\ \A j \in Invitations : j < i => inv[j] # NoOne
Invite(f, d, i) ==
  /\ IsDriver(d) /\ ~UserLocked(d) /\ NextInvitation(i)
  /\ \A j \in Superseded(f, d) : ~InvitationLocked(j)
  /\ inv' = [j \in Invitations |->
       IF j = i THEN [fleet |-> f, driver |-> d, status |-> "ACTIVE",
                      late |-> FALSE,
                      code |-> candidate[d].role = "driver"]
       ELSE IF j \in Superseded(f, d) THEN [inv[j] EXCEPT !.status = "REVOKED"]
       ELSE inv[j]]
  /\ review' = IF d \in approved /\ review[d]["association"] = "none"
                THEN [review EXCEPT ![d]["association"] = f] ELSE review
  /\ UNCHANGED <<candidate, managed, member, approved, writer, agreed, enrolling,
                 consent>>

ExpireInvitation(i) ==
  /\ inv[i] # NoOne /\ ~inv[i].late
  /\ inv' = [inv EXCEPT ![i].late = TRUE]
  /\ UNCHANGED <<candidate, managed, member, approved, review, writer, agreed,
                 enrolling, consent>>

\* Mutant of Open: a revoked invitation still counts.
OpenThoughRevoked(i) == inv[i] # NoOne /\ ~inv[i].late

Open(i) == inv[i] # NoOne /\ ~inv[i].late /\ inv[i].status # "REVOKED"

\* verifyCode: the driver types the code the fleet gave them.
VerifyCode(i) ==
  LET d == inv[i].driver
  IN /\ Open(i) /\ inv[i].code /\ ~InvitationLocked(i)
     /\ candidate[d].role = "driver" /\ ~UserLocked(d)
     /\ inv' = [inv EXCEPT ![i].status = "CONSUMED"]
     /\ agreed' = agreed \cup {<<inv[i].fleet, d>>}
     /\ UNCHANGED <<candidate, managed, member, approved, review, writer, enrolling,
                    consent>>

\* accept: the advisory lock, then the invitation and the accounts' rows,
\* then the authority, then the commit.
BeginConsent(i) ==
  /\ inv[i] # NoOne /\ ~AdviceLocked(inv[i].driver)
  /\ consent' = [consent EXCEPT ![inv[i].driver] = [at |-> "advised", inv |-> i]]
  /\ UNCHANGED <<candidate, inv, managed, member, approved, review, writer,
                 agreed, enrolling>>

Manages(f, d) == managed[d] # NoOne /\ managed[d] = [fleet |-> f, active |-> TRUE]
Unclaimed(f, d) == managed[d] = NoOne \/ Manages(f, d)

GrantConsent(d) ==
  LET i == consent[d].inv
  IN /\ consent[d].at = "advised"
     /\ ~UserLocked(d)
     /\ consent' = [consent EXCEPT ![d] =
          IF Open(i) /\ IsDriver(d) /\ Unclaimed(inv[i].fleet, d)
          THEN [at |-> "granted", inv |-> i] ELSE NoConsent]
     /\ UNCHANGED <<candidate, inv, managed, member, approved, review, writer,
                    agreed, enrolling>>

\* INSERT ... ON CONFLICT (driver_user_id) DO NOTHING.
Manage(f, d) == [managed EXCEPT ![d] =
                   IF @ = NoOne THEN [fleet |-> f, active |-> TRUE] ELSE @]

CommitConsent(d) ==
  LET i == consent[d].inv
  IN /\ consent[d].at = "granted"
     /\ managed' = Manage(inv[i].fleet, d)
     /\ inv' = [inv EXCEPT ![i].status = "CONSUMED"]
     /\ agreed' = agreed \cup {<<inv[i].fleet, d>>}
     /\ consent' = [consent EXCEPT ![d] = NoConsent]
     /\ UNCHANGED <<candidate, member, approved, review, writer, enrolling>>

FailConsent(d) ==
  /\ consent[d].at # "idle"
  /\ consent' = [consent EXCEPT ![d] = NoConsent]
  /\ UNCHANGED <<candidate, inv, managed, member, approved, review, writer,
                 agreed, enrolling>>

---------------------------------------------------------------------------
Work(f, at, d) == enrolling' = [enrolling EXCEPT ![f] = [at |-> at, driver |-> d]]
EndJob(f) == enrolling' = [enrolling EXCEPT ![f] = NoJob]

\* create for contacts no driver has: the fleet provisions the account.
Provision(f, d) ==
  /\ enrolling[f].at = "idle" /\ ~Has(d)
  /\ \A e \in Drivers : IsDriver(e) => ContactOf[e] # ContactOf[d]
  /\ RoleFree(d, "driver")
  /\ candidate' = [candidate EXCEPT ![d] = [role |-> "driver", pending |-> FALSE]]
  /\ managed' = [managed EXCEPT ![d] = [fleet |-> f, active |-> TRUE]]
  /\ writer' = [writer EXCEPT ![d] = f]
  /\ agreed' = agreed \cup {<<f, d>>}
  /\ UNCHANGED <<inv, member, approved, review, enrolling, consent>>

\* create for an existing driver: SELECT ... FOR UPDATE of the candidates.
LockCandidate(f, d) ==
  /\ enrolling[f].at = "idle" /\ IsDriver(d)
  /\ ~UserLocked(d) /\ consent[d].at # "granted"
  /\ Work(f, "user", d)
  /\ UNCHANGED <<candidate, inv, managed, member, approved, review, writer,
                 agreed, consent>>

LockAdvice(f) ==
  /\ enrolling[f].at = "user" /\ ~AdviceLocked(enrolling[f].driver)
  /\ Work(f, "advised", enrolling[f].driver)
  /\ UNCHANGED <<candidate, inv, managed, member, approved, review, writer,
                 agreed, consent>>

\* Mutant of Permitted: an invitation is enough, consent is not awaited.
PermittedOnInvitation(f, d) ==
  \/ Manages(f, d) \/ <<f, d>> \in member
  \/ \E i \in Invitations : /\ inv[i] # NoOne
                            /\ inv[i].fleet = f /\ inv[i].driver = d

Permitted(f, d) ==
  \/ Manages(f, d)
  \/ <<f, d>> \in member
  \/ \E i \in Invitations : /\ inv[i] # NoOne /\ inv[i].status = "CONSUMED"
                            /\ inv[i].fleet = f /\ inv[i].driver = d

CheckConsent(f) ==
  LET d == enrolling[f].driver
  IN /\ enrolling[f].at = "advised"
     /\ IF Permitted(f, d) /\ Unclaimed(f, d)
        THEN Work(f, "allowed", d) ELSE EndJob(f)
     /\ UNCHANGED <<candidate, inv, managed, member, approved, review, writer,
                    agreed, consent>>

SaveManaged(f) ==
  /\ enrolling[f].at = "allowed"
  /\ managed' = Manage(f, enrolling[f].driver)
  /\ writer' = [writer EXCEPT ![enrolling[f].driver] = f]
  /\ EndJob(f)
  /\ UNCHANGED <<candidate, inv, member, approved, review, agreed, consent>>

\* update and submit start with authorizedProfile, which locks nothing.
Authorize(f, d) ==
  /\ enrolling[f].at = "idle" /\ Has(d) /\ Manages(f, d)
  /\ Work(f, "authorized", d)
  /\ UNCHANGED <<candidate, inv, managed, member, approved, review, writer,
                 agreed, consent>>

SaveEdit(f) ==
  /\ enrolling[f].at = "authorized"
  /\ writer' = [writer EXCEPT ![enrolling[f].driver] = f]
  /\ EndJob(f)
  /\ UNCHANGED <<candidate, inv, managed, member, approved, review, agreed,
                 consent>>

\* Mutant of MayTake: the upsert has no WHERE clause.
MayTakeAny(f, d, k) == TRUE

\* A request the driver sent alone is taken over; another fleet's is not.
MayTake(f, d, k) == review[d][k] \in {"none", "own", f}

SubmitManaged(f) ==
  LET d == enrolling[f].driver
      k == IF d \in approved THEN "association" ELSE "verification"
  IN /\ enrolling[f].at = "authorized"
     /\ review' = IF (<<f, d>> \in member /\ d \in approved) \/ ~MayTake(f, d, k)
                   THEN review ELSE [review EXCEPT ![d][k] = f]
     /\ EndJob(f)
     /\ UNCHANGED <<candidate, inv, managed, member, approved, writer, agreed,
                    consent>>

FailJob(f) ==
  /\ enrolling[f].at # "idle"
  /\ EndJob(f)
  /\ UNCHANGED <<candidate, inv, managed, member, approved, review, writer,
                 agreed, consent>>

---------------------------------------------------------------------------
\* The driver asks for the review of a profile, and the reviewers decide.
AskReview(d) ==
  /\ IsDriver(d) /\ review[d]["verification"] = "none" /\ d \notin approved
  /\ review' = [review EXCEPT ![d]["verification"] = "own"]
  /\ UNCHANGED <<candidate, inv, managed, member, approved, writer, agreed, enrolling,
                 consent>>

DecideVerification(d) ==
  /\ review[d]["verification"] # "none"
  /\ review' = [review EXCEPT ![d]["verification"] = "none"]
  /\ \/ approved' = approved \cup {d}
     \/ approved' = approved
  /\ UNCHANGED <<candidate, inv, managed, member, writer, agreed, enrolling, consent>>

DecideAssociation(d) ==
  LET f == review[d]["association"]
  IN /\ f # "none"
     /\ review' = [review EXCEPT ![d]["association"] = "none"]
     /\ \/ /\ member' = member \cup {<<f, d>>}
           /\ agreed' = agreed \cup {<<f, d>>}
        \/ UNCHANGED <<member, agreed>>
     /\ UNCHANGED <<candidate, inv, managed, approved, writer, enrolling, consent>>

DeactivateMembership(f, d) ==
  /\ <<f, d>> \in member
  /\ member' = member \ {<<f, d>>}
  /\ managed' = IF Manages(f, d)
                THEN [managed EXCEPT ![d].active = FALSE] ELSE managed
  /\ UNCHANGED <<candidate, inv, approved, review, writer, agreed, enrolling, consent>>

EnrolmentNext ==
  \/ \E d \in Drivers :
       \/ SignUp(d) \/ Upgrade(d) \/ \E r \in Roles : SelectRole(d, r)
       \/ GrantConsent(d) \/ CommitConsent(d) \/ FailConsent(d)
       \/ AskReview(d) \/ DecideVerification(d) \/ DecideAssociation(d)
  \/ \E i \in Invitations :
       \/ ExpireInvitation(i)
       \/ inv[i] # NoOne /\ (VerifyCode(i) \/ BeginConsent(i))
       \/ \E f \in Fleets, d \in Drivers : Invite(f, d, i)
  \/ \E f \in Fleets :
       \/ LockAdvice(f) \/ CheckConsent(f) \/ SaveManaged(f) \/ SaveEdit(f)
       \/ SubmitManaged(f) \/ FailJob(f)
       \/ \E d \in Drivers : \/ Provision(f, d) \/ LockCandidate(f, d)
                             \/ Authorize(f, d) \/ DeactivateMembership(f, d)

EnrolmentSpec == EnrolmentInit /\ [][EnrolmentNext]_enrolmentVars

---------------------------------------------------------------------------
EnrolmentTypeOK ==
  /\ candidate \in [Drivers -> Candidate \cup {NoOne}]
  /\ inv \in [Invitations -> Invitation \cup {NoOne}]
  /\ managed \in [Drivers -> Management \cup {NoOne}]
  /\ member \subseteq Fleets \X Drivers /\ agreed \subseteq Fleets \X Drivers
  /\ approved \subseteq Drivers
  /\ review \in [Drivers -> [Kinds -> Fleets \cup {"none", "own"}]]
  /\ \A d \in Drivers : review[d]["association"] # "own"
  /\ writer \in [Drivers -> Fleets \cup {NoOne}]
  /\ enrolling \in [Fleets -> [at : {"idle", "user", "advised", "allowed", "authorized"},
                              driver : Drivers \cup {NoOne}]]
  /\ consent \in [Drivers -> [at : {"idle", "advised", "granted"},
                              inv : Invitations \cup {NoOne}]]

\* A fleet that saved a driver's profile is the one that manages the driver,
\* and the driver was provisioned by it, consented to it or joined it, however
\* two fleets' attempts and the driver's consent overlap.
WriterIsTheManager ==
  \A d \in Drivers : writer[d] # NoOne =>
    /\ managed[d] # NoOne /\ managed[d].fleet = writer[d]
    /\ <<writer[d], d>> \in agreed

\* A driver's management never passes to another fleet or back to active, a
\* fleet's pending request is never taken by another, and an invitation that
\* was consumed or revoked stays so.
EnrolmentStep ==
  \A d \in Drivers :
    /\ managed[d] # NoOne => managed'[d] \in {managed[d], [managed[d] EXCEPT !.active = FALSE]}
    /\ \A k \in Kinds : review[d][k] \in Fleets =>
         review'[d][k] \in {review[d][k], "none"}
    /\ \A i \in Invitations :
         inv[i] # NoOne /\ inv[i].status # "ACTIVE" =>
           inv'[i].status = inv[i].status
EnrolmentHolds == [][EnrolmentStep]_enrolmentVars
=============================================================================
