------------------------- MODULE DriverApplications -------------------------
(***************************************************************************)
(* Drivers who ask to join a fleet: the rows of `driver_applications`, the *)
(* verification of the driver's profile and the memberships in             *)
(* `partner_drivers`.  A request to create reads three times and then      *)
(* inserts, a review reads and then updates; nothing is locked between,    *)
(* so requests interleave.  The triggers of migration 061 run with the     *)
(* update.                                                                 *)
(*                                                                         *)
(* Abstractions.  Reasons, sectors and time stamps are left out.  What     *)
(* other parts change (a fleet's approval, a driver's licence and account, *)
(* an administrator's role, the end of a membership) changes at any time.  *)
(***************************************************************************)
EXTENDS Naturals, Sequences, FiniteSets

CONSTANTS
  Partners, Drivers,
  Users,         \* people who are not administrators
  PartnerOf,     \* the fleet a user owns, NoOne if none
  DriverOf,      \* the driver profile a user owns, NoOne if none
  Admins,
  Handlers,      \* requests that may run at the same time
  MaxApplications,
  NoOne, NoRequest

VARIABLES
  application,   \* the rows, in the order of their insertion
  approved,      \* fleets that are approved
  eligible,      \* drivers with a valid licence and an active account
  staff,         \* administrators in office
  verification,  \* of each driver's profile
  membership,    \* active pairs of a fleet and a driver
  request        \* what each handler is doing

applicationVars == <<application, approved, eligible, staff, verification, membership, request>>

Reviewable == {"PENDING", "CHANGES_REQUESTED"}
Verdicts == {"APPROVED", "REJECTED", "CHANGES_REQUESTED"}
Final == {"APPROVED", "REJECTED"}

ApplicationsTypeOK ==
  /\ application \in Seq([partner : Partners, driver : Drivers, status : Reviewable \cup Final])
  /\ Len(application) <= MaxApplications
  /\ approved \subseteq Partners /\ eligible \subseteq Drivers /\ staff \subseteq Admins
  /\ verification \in [Drivers -> {"pending", "approved", "rejected"}]
  /\ membership \subseteq Partners \X Drivers
  /\ request \in [Handlers ->
       [does : {"pair", "latest", "insert"}, partner : Partners, driver : Drivers]
       \cup [does : {"update"}, row : 1..MaxApplications, verdict : Verdicts, by : Admins]
       \cup {NoRequest}]

ApplicationsInit ==
  /\ application = << >>
  /\ approved = Partners /\ eligible = Drivers /\ staff = Admins
  /\ verification = [d \in Drivers |-> "pending"]
  /\ membership = {}
  /\ request = [h \in Handlers |-> NoRequest]

Others == UNCHANGED <<approved, eligible, staff>>
Busy(h, what) == request[h] # NoRequest /\ request[h].does = what
Proceed(h, what) == request' = [request EXCEPT ![h].does = what]
Done(h) == request' = [request EXCEPT ![h] = NoRequest]

Live(i) == application[i].status \in Reviewable
OfDriver(d) == {i \in DOMAIN application : application[i].driver = d}
OfPair(p, d) == {i \in OfDriver(d) : application[i].partner = p}

----------------------------------------------------------------------------
(* create: the fleet has to be approved when it is read.                   *)
Create(h, u, p, d) ==
  /\ request[h] = NoRequest
  /\ PartnerOf[u] = p \/ DriverOf[u] = d
  /\ p \in approved
  /\ request' = [request EXCEPT ![h] = [does |-> "pair", partner |-> p, driver |-> d]]
  /\ Others /\ UNCHANGED <<application, verification, membership>>

FindActiveByPartnerAndDriver(h) ==
  /\ Busy(h, "pair")
  /\ IF \E i \in OfPair(request[h].partner, request[h].driver) : Live(i)
     THEN Done(h) ELSE Proceed(h, "latest")
  /\ Others /\ UNCHANGED <<application, verification, membership>>

\* Only the driver's newest application is looked at.
LatestIsLive(d) ==
  \E i \in OfDriver(d) : Live(i) /\ \A j \in OfDriver(d) : j <= i

FindByDriverProfileId(h) ==
  /\ Busy(h, "latest")
  /\ IF LatestIsLive(request[h].driver) THEN Done(h) ELSE Proceed(h, "insert")
  /\ Others /\ UNCHANGED <<application, verification, membership>>

\* The unique index on live pairs refuses the row, or it is inserted.
Insert(h) ==
  LET p == request[h].partner
      d == request[h].driver
  IN /\ Busy(h, "insert")
     /\ Len(application) < MaxApplications
     /\ application' = IF \E i \in OfPair(p, d) : Live(i) THEN application
                       ELSE Append(application, [partner |-> p, driver |-> d, status |-> "PENDING"])
     /\ Done(h)
     /\ Others /\ UNCHANGED <<verification, membership>>

----------------------------------------------------------------------------
(* review: the status is read, then written if the row is reviewable.      *)
Review(h, a, i, v) ==
  /\ request[h] = NoRequest
  /\ i \in DOMAIN application /\ Live(i) /\ a \in staff
  /\ request' = [request EXCEPT ![h] = [does |-> "update", row |-> i, verdict |-> v, by |-> a]]
  /\ Others /\ UNCHANGED <<application, verification, membership>>

\* Mutant: the update trusts the status that was read.
StillReviewableAsRead(i) == i \in DOMAIN application
StillReviewable(i) == Live(i)

\* Mutant: the trigger does not look at the fleet.
ActsOnAnyFleet(r) ==
  r.verdict = application[r.row].status
  \/ (r.by \in staff /\ (r.verdict = "APPROVED" => application[r.row].driver \in eligible))
\* The triggers raise nothing: a write that does not change the status is
\* not looked at, an approval needs the fleet and the driver to be in order.
TriggersAccept(r) ==
  \/ r.verdict = application[r.row].status
  \/ /\ r.by \in staff
     /\ r.verdict = "APPROVED" => /\ application[r.row].driver \in eligible
                                  /\ application[r.row].partner \in approved

\* synchronize_driver_application_review
Synchronize(r) ==
  LET p == application[r.row].partner
      d == application[r.row].driver
  IN /\ verification' = CASE r.verdict = "APPROVED" -> [verification EXCEPT ![d] = "approved"]
                          [] r.verdict = "REJECTED" -> [verification EXCEPT ![d] = "rejected"]
                          [] OTHER -> verification
     /\ membership' = IF r.verdict = "APPROVED" THEN membership \cup {<<p, d>>} ELSE membership

UpdateStatus(h) ==
  LET r == request[h]
  IN /\ Busy(h, "update")
     /\ IF StillReviewable(r.row) /\ TriggersAccept(r)
        THEN /\ application' = [application EXCEPT ![r.row].status = r.verdict]
             /\ Synchronize(r)
        ELSE UNCHANGED <<application, verification, membership>>
     /\ Done(h) /\ Others

----------------------------------------------------------------------------
(* What the other parts of the system do meanwhile.                        *)
Flip(S, x) == IF x \in S THEN S \ {x} ELSE S \cup {x}
Elsewhere ==
  /\ \/ \E p \in Partners : approved' = Flip(approved, p)
                            /\ UNCHANGED <<eligible, staff, verification, membership>>
     \/ \E d \in Drivers : eligible' = Flip(eligible, d)
                            /\ UNCHANGED <<approved, staff, verification, membership>>
     \/ \E a \in Admins : staff' = Flip(staff, a)
                            /\ UNCHANGED <<approved, eligible, verification, membership>>
     \/ \E d \in Drivers : verification' = [verification EXCEPT ![d] = "pending"]
                            /\ UNCHANGED <<approved, eligible, staff, membership>>
     \/ \E m \in membership : membership' = membership \ {m}
                            /\ UNCHANGED <<approved, eligible, staff, verification>>
  /\ UNCHANGED <<application, request>>

ApplicationsNext ==
  \/ \E h \in Handlers :
       \/ \E u \in Users, p \in Partners, d \in Drivers : Create(h, u, p, d)
       \/ FindActiveByPartnerAndDriver(h)
       \/ FindByDriverProfileId(h)
       \/ Insert(h)
       \/ \E a \in Admins, i \in 1..MaxApplications, v \in Verdicts : Review(h, a, i, v)
       \/ UpdateStatus(h)
  \/ Elsewhere

ApplicationsSpec == ApplicationsInit /\ [][ApplicationsNext]_applicationVars

----------------------------------------------------------------------------
(* What a user who is not an administrator is shown: one application by    *)
(* its id, or the list under a filter (NoOne: the filter is not set).      *)
Accessible(u) ==
  {i \in DOMAIN application : application[i].partner = PartnerOf[u]
                              \/ application[i].driver = DriverOf[u]}

\* Mutant: a filter that the caller sets is not overwritten.
ScopedByCaller(u, f) ==
  [partner |-> IF f.partner = NoOne THEN PartnerOf[u] ELSE f.partner,
   driver |-> IF f.driver = NoOne /\ PartnerOf[u] = NoOne THEN DriverOf[u] ELSE f.driver]
\* The caller's own fleet comes first and replaces the filter on drivers too.
Scoped(u, f) ==
  IF PartnerOf[u] # NoOne THEN [partner |-> PartnerOf[u], driver |-> NoOne]
  ELSE [partner |-> NoOne, driver |-> DriverOf[u]]

Listed(u, f) ==
  LET g == Scoped(u, f)
  IN {i \in DOMAIN application : /\ g.partner \in {NoOne, application[i].partner}
                                 /\ g.driver \in {NoOne, application[i].driver}}

\* Whatever filter a user sends, the list shows no application that the
\* user could not open (DriverApplicationService.list, getById).
ListsAreScoped ==
  \A u \in Users, p \in Partners \cup {NoOne}, d \in Drivers \cup {NoOne} :
     Listed(u, [partner |-> p, driver |-> d]) \subseteq Accessible(u)

(* A verdict is given once, however many administrators review at the same *)
(* time; a membership begins only with an approval, by an administrator in *)
(* office, of an eligible driver for an approved fleet, and the profile is *)
(* approved with it.                                                       *)
Began(i) == application'[i].status = "APPROVED" /\ application[i].status # "APPROVED"
VerdictsStand ==
  [][/\ \A i \in DOMAIN application :
          application[i].status \in Final => application'[i] = application[i]
     /\ \A m \in membership' \ membership :
          /\ \E i \in OfPair(m[1], m[2]) : Began(i)
          /\ m[1] \in approved /\ m[2] \in eligible
          /\ verification'[m[2]] = "approved"]_applicationVars

\* "A Driver should not have multiple active onboarding applications at the
\* same time" (DriverApplicationService.create): the reads before the insert
\* do not see what another request is about to insert for another fleet.
OneOnboarding ==
  \A d \in Drivers : Cardinality({i \in OfDriver(d) : Live(i)}) <= 1
=============================================================================
