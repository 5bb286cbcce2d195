---------------------------- MODULE AccountsProofs ----------------------------
(***************************************************************************)
(* Proofs about accounts, for any users, contacts, statements in progress, *)
(* sessions, fleets, drivers, invitations, requests and limits: Profiles,  *)
(* Sessions, Enrolment, OneTimeCodes and RecordDeletion.                   *)
(***************************************************************************)
EXTENDS Profiles, Sessions, Enrolment, OneTimeCodes, RecordDeletion, FiniteSetTheorems, TLAPS

-----------------------------------------------------------------------------
(* Profiles.  The unique indexes are judged where a write commits, so the  *)
(* invariant needs nothing about what a statement read.                    *)

Edit == [does : {"edit"}, user : User, to : Contact, read : AccountRow]
Verification == [does : {"verify"}, user : User, sent : Contact]
AddressWrite == [does : {"address"}, user : Settler, address : Address, default : BOOLEAN]
Patch == [does : {"patch"}, user : Settler, on : SUBSET Preference, off : SUBSET Preference,
          read : SUBSET Preference]

\* What a statement in progress is about.
JobType == job \in [Job -> {Idle} \cup Edit \cup Verification \cup AddressWrite \cup Patch]

ContactsVerified == \A u \in User : account[u].verified => account[u].contact = proven[u]
OneContactEach ==
  \A u, w \in User : u # w /\ ~account[u].deleted /\ ~account[w].deleted
                     => account[u].contact # account[w].contact
OneDefaultEach == \A u \in User : \A a, b \in default[u] : a = b

ProfilesInv ==
  ProfilesTypeOK /\ JobType /\ ContactsVerified /\ OneContactEach /\ OneDefaultEach

LEMMA InitProfiles == ProfilesInit => ProfilesInv
<1> SUFFICES ASSUME ProfilesInit PROVE ProfilesInv
  OBVIOUS
<1>1. /\ account \in [User -> AccountRow]
      /\ \A u \in User : ~account[u].verified
      /\ \A u, w \in User : u # w => account[u].contact # account[w].contact
  BY DEF ProfilesInit, AccountRow
<1>2. ProfilesTypeOK /\ JobType
  BY <1>1 DEF ProfilesInit, ProfilesTypeOK, JobType, Idle
<1> QED
  BY <1>1, <1>2 DEF ProfilesInit, ProfilesInv, ContactsVerified, OneContactEach, OneDefaultEach

-----------------------------------------------------------------------------
(* What a commit finds in its statement. *)

LEMMA JobKinds ==
  ASSUME JobType, NEW j \in Job
  PROVE  /\ job[j].does = "edit" => job[j] \in Edit
         /\ job[j].does = "verify" => job[j] \in Verification
         /\ job[j].does = "address" => job[j] \in AddressWrite
         /\ job[j].does = "patch" => job[j] \in Patch
<1>1. job[j] \in {Idle} \cup Edit \cup Verification \cup AddressWrite \cup Patch
  BY DEF JobType
<1>2. Idle.does = "nothing"
  BY DEF Idle
<1>3. \A x \in Edit : x.does = "edit"
  BY DEF Edit
<1>4. \A x \in Verification : x.does = "verify"
  BY DEF Verification
<1>5. \A x \in AddressWrite : x.does = "address"
  BY DEF AddressWrite
<1>6. \A x \in Patch : x.does = "patch"
  BY DEF Patch
<1> QED
  BY <1>1, <1>2, <1>3, <1>4, <1>5, <1>6

\* A statement that has ended leaves its job idle.
LEMMA DoneStep ==
  ASSUME JobType, \A j \in Job : job[j].does \in {"nothing", "edit", "verify", "address", "patch"},
         NEW j \in Job, Done(j)
  PROVE  /\ JobType'
         /\ \A k \in Job : job'[k].does \in {"nothing", "edit", "verify", "address", "patch"}
<1>1. job' = [job EXCEPT ![j] = Idle]
  BY DEF Done
<1>2. \A k \in Job : job'[k] = IF k = j THEN Idle ELSE job[k]
  BY <1>1 DEF JobType
<1>3. JobType'
  BY <1>1 DEF JobType
<1> QED
  BY <1>2, <1>3 DEF Idle

\* Starting a statement changes no row.
LEMMA StartStep ==
  ASSUME ProfilesInv, NEW j \in Job, NEW what, Starts(j, what),
         what \in Edit \cup Verification \cup AddressWrite \cup Patch,
         what.does \in {"edit", "verify", "address", "patch"}
  PROVE  ProfilesInv'
<1>1. job' = [job EXCEPT ![j] = what] /\ UNCHANGED <<account, proven, addresses, default, prefs>>
  BY DEF Starts
<1>2. JobType'
  BY <1>1 DEF ProfilesInv, JobType
<1>3. \A k \in Job : job'[k] = IF k = j THEN what ELSE job[k]
  BY <1>1 DEF ProfilesInv, JobType
<1>4. ProfilesTypeOK'
  BY <1>1, <1>3 DEF ProfilesInv, ProfilesTypeOK
<1> QED
  BY <1>1, <1>2, <1>4 DEF ProfilesInv, ContactsVerified, OneContactEach, OneDefaultEach

-----------------------------------------------------------------------------
(* One lemma per write. *)

LEMMA EditStep ==
  ASSUME ProfilesInv, NEW j \in Job, CommitEdit(j)
  PROVE  ProfilesInv'
<1> DEFINE u == job[j].user
           c == job[j].to
<1>1. u \in User /\ c \in Contact
  BY JobKinds DEF ProfilesInv, CommitEdit, Is, Edit
<1>2. Done(j) /\ UNCHANGED <<proven, addresses, default, prefs>>
  BY DEF CommitEdit
<1>3. JobType' /\ \A k \in Job : job'[k].does \in {"nothing", "edit", "verify", "address", "patch"}
  BY <1>2, DoneStep DEF ProfilesInv, ProfilesTypeOK
<1>4. CASE UNCHANGED account
  BY <1>2, <1>3, <1>4 DEF ProfilesInv, ProfilesTypeOK, ContactsVerified, OneContactEach, OneDefaultEach
<1>5. CASE /\ StillEditable(j) /\ ContactFree(u, c)
           /\ account' = [account EXCEPT ![u].contact = c]
  <2>1. account'[u] = [account[u] EXCEPT !.contact = c]
    BY <1>1, <1>5 DEF ProfilesInv, ProfilesTypeOK
  <2>2. \A w \in User : w # u => account'[w] = account[w]
    BY <1>1, <1>5 DEF ProfilesInv, ProfilesTypeOK
  <2>3. account[u] \in AccountRow /\ account' \in [User -> AccountRow]
    BY <1>1, <1>5 DEF ProfilesInv, ProfilesTypeOK, AccountRow
  <2>4. account[u].verified => account[u].contact = c
    BY <1>5 DEF StillEditable, Editable
  <2>5. /\ account'[u].contact = c /\ account'[u].verified = account[u].verified
        /\ account'[u].deleted = account[u].deleted
    BY <2>1, <2>3 DEF AccountRow
  <2>6. ProfilesTypeOK'
    BY <1>2, <1>3, <2>3 DEF ProfilesInv, ProfilesTypeOK
  <2>7. ContactsVerified'
    BY <1>1, <1>2, <2>2, <2>4, <2>5 DEF ProfilesInv, ContactsVerified
  <2>8. OneContactEach'
    BY <1>1, <1>5, <2>2, <2>5 DEF ProfilesInv, OneContactEach, ContactFree
  <2> QED
    BY <1>2, <1>3, <2>6, <2>7, <2>8 DEF ProfilesInv, OneDefaultEach
<1> QED
  BY <1>4, <1>5 DEF CommitEdit

LEMMA CodeStep ==
  ASSUME ProfilesInv, NEW j \in Job, EnterCode(j)
  PROVE  ProfilesInv'
<1> DEFINE u == job[j].user
<1>1. u \in User /\ job[j].sent \in Contact
  BY JobKinds DEF ProfilesInv, EnterCode, Is, Verification
<1>2. Done(j) /\ UNCHANGED <<addresses, default, prefs>>
  BY DEF EnterCode
<1>3. JobType' /\ \A k \in Job : job'[k].does \in {"nothing", "edit", "verify", "address", "patch"}
  BY <1>2, DoneStep DEF ProfilesInv, ProfilesTypeOK
<1>4. CASE UNCHANGED <<account, proven>>
  BY <1>2, <1>3, <1>4 DEF ProfilesInv, ProfilesTypeOK, ContactsVerified, OneContactEach, OneDefaultEach
<1>5. CASE /\ SameContact(j)
           /\ account' = [account EXCEPT ![u].verified = TRUE]
           /\ proven' = [proven EXCEPT ![u] = job[j].sent]
  <2>1. account'[u] = [account[u] EXCEPT !.verified = TRUE] /\ proven'[u] = account[u].contact
    <3>1. account[u].contact = job[j].sent
      BY <1>5 DEF SameContact
    <3> QED
      BY <1>1, <1>5, <3>1 DEF ProfilesInv, ProfilesTypeOK
  <2>2. \A w \in User : w # u => account'[w] = account[w] /\ proven'[w] = proven[w]
    BY <1>1, <1>5 DEF ProfilesInv, ProfilesTypeOK
  <2>3. /\ account[u] \in AccountRow /\ account' \in [User -> AccountRow]
        /\ proven' \in [User -> Contact \cup {None}]
    BY <1>1, <1>5 DEF ProfilesInv, ProfilesTypeOK, AccountRow
  <2>4. account'[u].contact = account[u].contact /\ account'[u].deleted = account[u].deleted
    BY <2>1, <2>3 DEF AccountRow
  <2>5. ProfilesTypeOK'
    BY <1>2, <1>3, <2>3 DEF ProfilesInv, ProfilesTypeOK
  <2>6. ContactsVerified'
    <3> SUFFICES ASSUME NEW w \in User, account'[w].verified
                 PROVE  account'[w].contact = proven'[w]
      BY DEF ContactsVerified
    <3>1. CASE w = u
      BY <2>1, <2>4, <3>1
    <3>2. CASE w # u
      BY <2>2, <3>2 DEF ProfilesInv, ContactsVerified
    <3> QED
      BY <3>1, <3>2
  <2>7. OneContactEach'
    <3>1. \A w \in User : /\ account'[w].contact = account[w].contact
                          /\ account'[w].deleted = account[w].deleted
      BY <2>2, <2>4
    <3> QED
      BY <3>1 DEF ProfilesInv, OneContactEach
  <2> QED
    BY <1>2, <1>3, <2>5, <2>6, <2>7 DEF ProfilesInv, OneDefaultEach
<1> QED
  BY <1>4, <1>5 DEF EnterCode

LEMMA DeleteStep ==
  ASSUME ProfilesInv, NEW u \in User, SoftDelete(u)
  PROVE  ProfilesInv'
<1>1. account' = [account EXCEPT ![u].deleted = TRUE] /\ UNCHANGED <<proven, addresses, default, prefs, job>>
  BY DEF SoftDelete
<1>2. account[u] \in AccountRow /\ account' \in [User -> AccountRow]
  BY <1>1 DEF ProfilesInv, ProfilesTypeOK, AccountRow
<1>3. account'[u] = [account[u] EXCEPT !.deleted = TRUE] /\ \A w \in User : w # u => account'[w] = account[w]
  BY <1>1 DEF ProfilesInv, ProfilesTypeOK
<1>4. /\ account'[u].deleted /\ account'[u].contact = account[u].contact
      /\ account'[u].verified = account[u].verified
  BY <1>2, <1>3 DEF AccountRow
<1>5. ProfilesTypeOK' /\ JobType'
  BY <1>1, <1>2 DEF ProfilesInv, ProfilesTypeOK, JobType
<1> QED
  BY <1>1, <1>3, <1>4, <1>5 DEF ProfilesInv, ContactsVerified, OneContactEach, OneDefaultEach

LEMMA AddressStep ==
  ASSUME ProfilesInv, NEW j \in Job, CommitAddress(j)
  PROVE  ProfilesInv'
<1> DEFINE u == job[j].user
           a == job[j].address
<1>1. u \in User /\ a \in Address
  BY JobKinds, ProfilesAssumption DEF ProfilesInv, CommitAddress, Is, AddressWrite
<1>2. Done(j) /\ UNCHANGED <<account, proven, prefs>>
  BY DEF CommitAddress
<1>3. JobType' /\ \A k \in Job : job'[k].does \in {"nothing", "edit", "verify", "address", "patch"}
  BY <1>2, DoneStep DEF ProfilesInv, ProfilesTypeOK
<1>4. CASE UNCHANGED <<addresses, default>>
  BY <1>2, <1>3, <1>4 DEF ProfilesInv, ProfilesTypeOK, ContactsVerified, OneContactEach, OneDefaultEach
<1>5. CASE /\ job[j].default => OneDefault(u, a)
           /\ addresses' = [addresses EXCEPT ![u] = @ \cup {a}]
           /\ default' = [default EXCEPT ![u] = IF job[j].default THEN @ \cup {a} ELSE @ \ {a}]
  <2>1. addresses'[u] = addresses[u] \cup {a} /\ \A w \in User : w # u => addresses'[w] = addresses[w]
    BY <1>1, <1>5 DEF ProfilesInv, ProfilesTypeOK
  <2>2. /\ default'[u] = IF job[j].default THEN default[u] \cup {a} ELSE default[u] \ {a}
        /\ \A w \in User : w # u => default'[w] = default[w]
    BY <1>1, <1>5 DEF ProfilesInv, ProfilesTypeOK
  <2>3. addresses' \in [User -> SUBSET Address] /\ default' \in [User -> SUBSET Address]
    BY <1>1, <1>5 DEF ProfilesInv, ProfilesTypeOK
  <2>4. default[u] \subseteq addresses[u] /\ \A w \in User : default[w] \subseteq addresses[w]
    BY <1>1 DEF ProfilesInv, ProfilesTypeOK
  <2>5. \A w \in User : default'[w] \subseteq addresses'[w]
    BY <1>1, <2>1, <2>2, <2>4
  <2>6. ProfilesTypeOK'
    BY <1>2, <1>3, <2>3, <2>5 DEF ProfilesInv, ProfilesTypeOK
  <2>7. \A b, d \in default'[u] : b = d
    BY <1>1, <1>5, <2>2 DEF ProfilesInv, OneDefaultEach, OneDefault
  <2>8. OneDefaultEach'
    BY <2>2, <2>7 DEF ProfilesInv, OneDefaultEach
  <2> QED
    BY <1>2, <1>3, <2>6, <2>8 DEF ProfilesInv, ContactsVerified, OneContactEach
<1> QED
  BY <1>4, <1>5 DEF CommitAddress

LEMMA PatchStep ==
  ASSUME ProfilesInv, NEW j \in Job, CommitPatch(j) \/ Lapse(j)
  PROVE  ProfilesInv'
<1>1. Done(j) /\ UNCHANGED <<account, proven, addresses, default>>
  BY DEF CommitPatch, Lapse
<1>2. JobType' /\ \A k \in Job : job'[k].does \in {"nothing", "edit", "verify", "address", "patch"}
  BY <1>1, DoneStep DEF ProfilesInv, ProfilesTypeOK
<1>3. prefs' \in [User -> SUBSET Preference]
  <2>1. CASE CommitPatch(j)
    <3>1. job[j] \in Patch
      BY <2>1, JobKinds DEF ProfilesInv, CommitPatch, Is
    <3>2. job[j].user \in User /\ Patched(j) \in SUBSET Preference
      BY <3>1, ProfilesAssumption DEF Patch, Patched, ProfilesInv, ProfilesTypeOK
    <3> QED
      BY <2>1, <3>2 DEF CommitPatch, ProfilesInv, ProfilesTypeOK
  <2>2. CASE Lapse(j)
    BY <2>2 DEF Lapse, ProfilesInv, ProfilesTypeOK
  <2> QED
    BY <2>1, <2>2
<1>4. ProfilesTypeOK'
  BY <1>1, <1>2, <1>3 DEF ProfilesInv, ProfilesTypeOK
<1> QED
  BY <1>1, <1>2, <1>4 DEF ProfilesInv, ContactsVerified, OneContactEach, OneDefaultEach

LEMMA BeginStep ==
  ASSUME ProfilesInv, NEW j \in Job,
         \/ \E u \in User : (\E c \in Contact : BeginEdit(j, u, c)) \/ SendCode(j, u)
         \/ \E u \in Settler :
              \/ \E a \in Address, d \in BOOLEAN : BeginAddress(j, u, a, d)
              \/ \E on, off \in SUBSET Preference : BeginPatch(j, u, on, off)
  PROVE  ProfilesInv'
<1>1. \A u \in User : account[u] \in AccountRow /\ prefs[u] \in SUBSET Preference
  BY DEF ProfilesInv, ProfilesTypeOK
<1>2. ASSUME NEW u \in User, NEW c \in Contact, BeginEdit(j, u, c) PROVE ProfilesInv'
  <2> DEFINE what == [does |-> "edit", user |-> u, to |-> c, read |-> account[u]]
  <2>1. what \in Edit /\ what.does = "edit" /\ Starts(j, what)
    BY <1>1, <1>2 DEF Edit, BeginEdit
  <2> QED
    BY <2>1, StartStep
<1>3. ASSUME NEW u \in User, SendCode(j, u) PROVE ProfilesInv'
  <2> DEFINE what == [does |-> "verify", user |-> u, sent |-> account[u].contact]
  <2>1. what \in Verification /\ what.does = "verify" /\ Starts(j, what)
    BY <1>1, <1>3 DEF Verification, SendCode, AccountRow
  <2> QED
    BY <2>1, StartStep
<1>4. ASSUME NEW u \in Settler, NEW a \in Address, NEW d \in BOOLEAN, BeginAddress(j, u, a, d)
      PROVE  ProfilesInv'
  <2> DEFINE what == [does |-> "address", user |-> u, address |-> a, default |-> d]
  <2>1. what \in AddressWrite /\ what.does = "address" /\ Starts(j, what)
    BY <1>4 DEF AddressWrite, BeginAddress
  <2> QED
    BY <2>1, StartStep
<1>5. ASSUME NEW u \in Settler, NEW on \in SUBSET Preference, NEW off \in SUBSET Preference,
             BeginPatch(j, u, on, off)
      PROVE  ProfilesInv'
  <2> DEFINE what == [does |-> "patch", user |-> u, on |-> on, off |-> off, read |-> prefs[u]]
  <2>1. what \in Patch /\ what.does = "patch" /\ Starts(j, what)
    BY <1>1, <1>5, ProfilesAssumption DEF Patch, BeginPatch
  <2> QED
    BY <2>1, StartStep
<1> QED
  BY <1>2, <1>3, <1>4, <1>5

LEMMA ProfilesStep ==
  ASSUME ProfilesInv, [ProfilesNext]_profileVars
  PROVE  ProfilesInv'
<1>1. CASE UNCHANGED profileVars
  BY <1>1 DEF profileVars, ProfilesInv, ProfilesTypeOK, JobType, ContactsVerified, OneContactEach,
              OneDefaultEach
<1>2. CASE ProfilesNext
  BY <1>2, BeginStep, EditStep, CodeStep, PatchStep, AddressStep, DeleteStep DEF ProfilesNext
<1> QED
  BY <1>1, <1>2

LEMMA ProfilesInvariance == ProfilesSpec => []ProfilesInv
<1>1. ProfilesInv /\ [ProfilesNext]_profileVars => ProfilesInv'
  BY ProfilesStep
<1> QED
  BY <1>1, InitProfiles, PTL DEF ProfilesSpec

\* A set with one element at most.
LEMMA AtMostOne ==
  ASSUME NEW S, \A a, b \in S : a = b
  PROVE  Cardinality(S) <= 1
<1>1. CASE S = {}
  BY <1>1, FS_EmptySet
<1>2. CASE S # {}
  <2>1. PICK a \in S : TRUE
    BY <1>2
  <2>2. S = {a}
    BY <2>1
  <2> QED
    BY <2>2, FS_Singleton
<1> QED
  BY <1>1, <1>2

\* Whatever edits, codes, deletions and address changes overlap: what is verified was proven,
\* no two accounts in use share a contact, nobody has two default addresses.
THEOREM ProfilesStaySound == ProfilesSpec => []ProfilesAreSound
<1>1. ProfilesInv => ProfilesAreSound
  <2> SUFFICES ASSUME ProfilesInv, NEW u \in User
               PROVE  /\ account[u].verified => account[u].contact = proven[u]
                      /\ Cardinality(default[u]) <= 1
                      /\ ~account[u].deleted =>
                           \A w \in User \ {u} :
                             account[w].deleted \/ account[w].contact # account[u].contact
    BY DEF ProfilesAreSound
  <2>1. Cardinality(default[u]) <= 1
    BY AtMostOne DEF ProfilesInv, OneDefaultEach
  <2> QED
    BY <2>1 DEF ProfilesInv, ContactsVerified, OneContactEach
<1> QED
  BY <1>1, ProfilesInvariance, PTL

\* Accounts, addresses and preferences have their types in every reachable state.
THEOREM ProfilesTypeCorrect == ProfilesSpec => []ProfilesTypeOK
<1>1. ProfilesInv => ProfilesTypeOK
  BY DEF ProfilesInv
<1> QED
  BY <1>1, ProfilesInvariance, PTL

-----------------------------------------------------------------------------
(* Preferences are written by patches only. *)

Merged(u) ==
  \E j \in Job :
    /\ Is(j, "patch") /\ job[j].user = u
    /\ prefs'[u] \ job[j].on \subseteq prefs[u]
    /\ prefs[u] \ job[j].off \subseteq prefs'[u]

LEMMA MergeStep ==
  ASSUME ProfilesInv, [ProfilesNext]_profileVars, NEW u \in User, prefs'[u] # prefs[u]
  PROVE  Merged(u)
<1>1. ASSUME NEW j \in Job, CommitPatch(j) PROVE Merged(u)
  <2>1. prefs' = [prefs EXCEPT ![job[j].user] = Patched(j)] /\ Is(j, "patch")
    BY <1>1 DEF CommitPatch
  <2>2. job[j].user = u /\ prefs'[u] = Patched(j)
    BY <2>1 DEF ProfilesInv, ProfilesTypeOK
  <2> QED
    BY <2>1, <2>2 DEF Merged, Patched
<1>2. CASE UNCHANGED prefs
  BY <1>2
<1> QED
  BY <1>1, <1>2 DEF ProfilesNext, BeginEdit, SendCode, BeginAddress, BeginPatch, Starts, CommitEdit,
                    EnterCode, Lapse, CommitAddress, SoftDelete, profileVars

\* Patches of the same user that overlap never take back each other's preferences: each
\* changes the row as it finds it, not as it read it.
THEOREM PatchesAlwaysMerge == ProfilesSpec => PatchesMerge
<1>1. ProfilesInv /\ [ProfilesNext]_profileVars =>
        [\A u \in User : prefs'[u] # prefs[u] => Merged(u)]_profileVars
  BY MergeStep
<1> QED
  BY <1>1, ProfilesInvariance, PTL DEF ProfilesSpec, PatchesMerge, Merged

-----------------------------------------------------------------------------
(* Sessions.  The invariant says what each open transaction knows because of*)
(* the rows it locked, and what a sweep may have missed: only what rotations*)
(* that committed while it waited inserted.                                *)

\* Who is in the middle of a revocation that selected the account of u FOR UPDATE.
HoldsAccount(x, u) ==
  \/ request[x].do \in {"reset", "suspend"} /\ request[x].user = u
  \/ request[x].do = "sweep" /\ request[x].why \in {"reset", "suspend"} /\ request[x].user = u

\* A family with a token belongs to somebody.
FamiliesAreOwned == \A t \in issued : owner[family[t]] # Nil

\* A token that is locked is the one its request presented: still live until a rotation
\* ends, revoked before a reuse is looked into.
LocksTell ==
  \A t \in Token, x \in Request : holder[t] = x =>
    /\ t \in issued
    /\ \/ request[x].do \in {"rotate", "reuse"} /\ request[x].token = t
       \/ request[x].do = "sweep" /\ request[x].why = "reuse" /\ t \notin live

PresentedAreLocked ==
  \A x \in Request : request[x].do \in {"rotate", "reuse"} =>
    /\ holder[request[x].token] = x
    /\ request[x].token \in live <=> request[x].do = "rotate"

AccountsAreKept ==
  \A x \in Request, u \in Principal : keeper[u] = x <=> HoldsAccount(x, u)

\* What a sweep has not seen of its families was inserted by rotations that crossed it; none
\* crosses a sweep that holds the account.
SweepsSeeAll ==
  \A x \in Request : request[x].do = "sweep" =>
    /\ \A f \in request[x].covers : Members(f) # {}
    /\ \A f \in request[x].covers \ request[x].crossed : Members(f) \cap live \subseteq request[x].seen
    /\ request[x].why \in {"reset", "suspend"} =>
         /\ request[x].covers \cap request[x].crossed = {}
         /\ \A f \in request[x].covers : owner[f] = request[x].user

EndedAreDead == \A f \in ended : Members(f) # {} /\ Members(f) \cap live = {}

\* Of two sweeps that each hold a reused token, one began after the other's token was dead.
ReusesAreOrdered ==
  \A x, y \in Request, s, t \in Token :
    /\ x # y /\ request[x].do = "sweep" /\ request[y].do = "sweep"
    /\ holder[s] = x /\ holder[t] = y
    => ~(t \in request[x].seen /\ s \in request[y].seen)

SessionsInv ==
  /\ SessionsTypeOK /\ OneLivePerFamily /\ TrailOfRotations
  /\ FamiliesAreOwned /\ LocksTell /\ PresentedAreLocked /\ AccountsAreKept
  /\ SweepsSeeAll /\ EndedAreDead /\ ReusesAreOrdered

-----------------------------------------------------------------------------
LEMMA RequestKinds ==
  ASSUME SessionsTypeOK, NEW x \in Request
  PROVE  /\ request[x].do = "login" => request[x] \in Login
         /\ request[x].do \in {"rotate", "reuse"} => request[x] \in Rotation
         /\ request[x].do \in {"logoutAll", "reset", "suspend"} => request[x] \in Revocation
         /\ request[x].do = "sweep" => request[x] \in Sweep
<1>1. request[x] \in {NoRequest} \cup Login \cup Rotation \cup Revocation \cup Sweep
  BY DEF SessionsTypeOK
<1>2. NoRequest.do = "idle"
  BY DEF NoRequest
<1>3. \A q \in Login : q.do = "login"
  BY DEF Login
<1>4. \A q \in Rotation : q.do \in {"rotate", "reuse"}
  BY DEF Rotation
<1>5. \A q \in Revocation : q.do \in {"logoutAll", "reset", "suspend"}
  BY DEF Revocation
<1>6. \A q \in Sweep : q.do = "sweep"
  BY DEF Sweep
<1> QED
  BY <1>1, <1>2, <1>3, <1>4, <1>5, <1>6

LEMMA InitSessions == SessionsInit => SessionsInv
<1> SUFFICES ASSUME SessionsInit PROVE SessionsInv
  OBVIOUS
<1>1. \A x \in Request : request[x].do = "idle"
  BY DEF SessionsInit, NoRequest
<1>2. SessionsTypeOK
  BY DEF SessionsInit, SessionsTypeOK
<1>3. LocksTell /\ PresentedAreLocked
  BY <1>1, SessionsAssumption DEF SessionsInit, LocksTell, PresentedAreLocked
<1>4. AccountsAreKept
  BY <1>1, SessionsAssumption DEF SessionsInit, AccountsAreKept, HoldsAccount
<1>5. SweepsSeeAll /\ ReusesAreOrdered
  BY <1>1 DEF SweepsSeeAll, ReusesAreOrdered
<1>6. OneLivePerFamily /\ TrailOfRotations /\ FamiliesAreOwned /\ EndedAreDead
  BY DEF SessionsInit, OneLivePerFamily, TrailOfRotations, FamiliesAreOwned, EndedAreDead
<1> QED
  BY <1>2, <1>3, <1>4, <1>5, <1>6 DEF SessionsInv

\* A request that is not one yet holds no lock.
LEMMA IdleHoldsNothing ==
  ASSUME SessionsInv, NEW x \in Request, request[x] = NoRequest
  PROVE  /\ \A t \in Token : holder[t] # x
         /\ \A u \in Principal : keeper[u] # x
         /\ request[x].do = "idle"
BY DEF SessionsInv, LocksTell, AccountsAreKept, HoldsAccount, NoRequest

\* What holds of the rows whatever the requests are about.
RowsInv == OneLivePerFamily /\ TrailOfRotations /\ FamiliesAreOwned /\ EndedAreDead

LEMMA SameRows ==
  ASSUME RowsInv, UNCHANGED <<rows, ended>>
  PROVE  RowsInv' /\ \A f \in Family : Members(f)' = Members(f)
BY DEF RowsInv, OneLivePerFamily, TrailOfRotations, FamiliesAreOwned, EndedAreDead, Members, rows

\* A sweep under way knows as much as before, if no token was inserted.
LEMMA SweepsStay ==
  ASSUME SessionsInv, UNCHANGED <<issued, family, owner>>, live' \subseteq live,
         \A y \in Request : request'[y].do = "sweep" => request'[y] = request[y]
  PROVE  SweepsSeeAll'
<1>1. \A f : Members(f)' = Members(f)
  BY DEF Members
<1> QED
  BY <1>1 DEF SessionsInv, SweepsSeeAll

-----------------------------------------------------------------------------
(* Requests that begin. *)

LEMMA RequestBegins ==
  ASSUME SessionsInv, NEW x \in Request, NEW begun \in Login \cup Revocation,
         begun.do \in {"login", "logoutAll"}, Begin(x, begun),
         UNCHANGED <<rows, locks, ended>>,
         userStatus' \in [Principal -> {"active", "suspended", "deleted"}]
  PROVE  SessionsInv'
<1>1. request' = [request EXCEPT ![x] = begun] /\ request[x] = NoRequest
  BY DEF Begin
<1>2. \A y \in Request : request'[y] = IF y = x THEN begun ELSE request[y]
  BY <1>1 DEF SessionsInv, SessionsTypeOK
<1>3. SessionsTypeOK'
  BY <1>1 DEF SessionsInv, SessionsTypeOK, rows, locks
<1>4. RowsInv' /\ UNCHANGED live /\ UNCHANGED issued /\ UNCHANGED owner
      /\ \A f \in Family : Members(f)' = Members(f)
  BY SameRows DEF SessionsInv, RowsInv, rows
<1>5. LocksTell'
  BY <1>1, <1>2, <1>4, IdleHoldsNothing DEF SessionsInv, LocksTell, locks
<1>6. PresentedAreLocked'
  BY <1>1, <1>2, <1>4 DEF SessionsInv, PresentedAreLocked, locks
<1>7. AccountsAreKept'
  BY <1>1, <1>2, IdleHoldsNothing DEF SessionsInv, AccountsAreKept, HoldsAccount, locks
<1>8. SweepsSeeAll'
  BY <1>1, <1>2, SweepsStay DEF rows
<1>9. ReusesAreOrdered'
  BY <1>2 DEF SessionsInv, ReusesAreOrdered, locks
<1> QED
  BY <1>3, <1>4, <1>5, <1>6, <1>7, <1>8, <1>9 DEF SessionsInv, RowsInv

LEMMA BeginLockedStep ==
  ASSUME SessionsInv, NEW x \in Request, NEW u \in Principal, NEW why \in {"reset", "suspend"},
         BeginLocked(x, u, why)
  PROVE  SessionsInv'
<1> DEFINE begun == [do |-> why, user |-> u]
<1>1. /\ request' = [request EXCEPT ![x] = begun] /\ request[x] = NoRequest
      /\ keeper[u] = Nil /\ keeper' = [keeper EXCEPT ![u] = x]
      /\ UNCHANGED <<userStatus, rows, holder, ended>>
  BY DEF BeginLocked, Begin
<1>2. \A y \in Request : request'[y] = IF y = x THEN begun ELSE request[y]
  BY <1>1 DEF SessionsInv, SessionsTypeOK
<1>3. SessionsTypeOK'
  <2>1. begun \in Revocation
    BY DEF Revocation
  <2> QED
    BY <1>1, <2>1 DEF SessionsInv, SessionsTypeOK, rows
<1>4. RowsInv' /\ UNCHANGED live /\ UNCHANGED issued /\ UNCHANGED owner
      /\ \A f \in Family : Members(f)' = Members(f)
  BY <1>1, SameRows DEF SessionsInv, RowsInv, rows
<1>5. LocksTell'
  BY <1>1, <1>2, <1>4, IdleHoldsNothing DEF SessionsInv, LocksTell
<1>6. PresentedAreLocked'
  BY <1>1, <1>2, <1>4 DEF SessionsInv, PresentedAreLocked
<1>7. AccountsAreKept'
  <2> SUFFICES ASSUME NEW y \in Request, NEW w \in Principal
               PROVE  keeper'[w] = y <=> HoldsAccount(y, w)'
    BY DEF AccountsAreKept
  <2>1. keeper'[w] = IF w = u THEN x ELSE keeper[w]
    BY <1>1 DEF SessionsInv, SessionsTypeOK
  <2>2. CASE y = x
    BY <1>1, <1>2, <2>1, <2>2, IdleHoldsNothing DEF HoldsAccount
  <2>3. CASE y # x
    BY <1>1, <1>2, <2>1, <2>3, SessionsAssumption DEF SessionsInv, AccountsAreKept, HoldsAccount
  <2> QED
    BY <2>2, <2>3
<1>8. SweepsSeeAll'
  BY <1>1, <1>2, SweepsStay DEF rows
<1>9. ReusesAreOrdered'
  BY <1>1, <1>2 DEF SessionsInv, ReusesAreOrdered
<1> QED
  BY <1>3, <1>4, <1>5, <1>6, <1>7, <1>8, <1>9 DEF SessionsInv, RowsInv

LEMMA PresentStep ==
  ASSUME SessionsInv, NEW x \in Request, NEW t \in Token, Present(x, t)
  PROVE  SessionsInv'
<1> DEFINE begun == [do |-> IF t \in live THEN "rotate" ELSE "reuse", token |-> t]
<1>1. /\ request' = [request EXCEPT ![x] = begun] /\ request[x] = NoRequest
      /\ t \in issued /\ holder[t] = Nil /\ holder' = [holder EXCEPT ![t] = x]
      /\ UNCHANGED <<userStatus, rows, keeper, ended>>
  BY DEF Present, Begin
<1>2. \A y \in Request : request'[y] = IF y = x THEN begun ELSE request[y]
  BY <1>1 DEF SessionsInv, SessionsTypeOK
<1>3. SessionsTypeOK'
  <2>1. begun \in Rotation
    BY DEF Rotation
  <2> QED
    BY <1>1, <2>1 DEF SessionsInv, SessionsTypeOK, rows
<1>4. RowsInv' /\ UNCHANGED live /\ UNCHANGED issued /\ UNCHANGED owner
      /\ \A f \in Family : Members(f)' = Members(f)
  BY <1>1, SameRows DEF SessionsInv, RowsInv, rows
<1>a. \A s \in Token : holder'[s] = IF s = t THEN x ELSE holder[s]
  BY <1>1 DEF SessionsInv, SessionsTypeOK
<1>5. LocksTell'
  BY <1>1, <1>2, <1>4, <1>a, IdleHoldsNothing DEF SessionsInv, LocksTell
<1>6. PresentedAreLocked'
  <2> SUFFICES ASSUME NEW y \in Request, request'[y].do \in {"rotate", "reuse"}
               PROVE  /\ holder'[request'[y].token] = y
                      /\ request'[y].token \in live' <=> request'[y].do = "rotate"
    BY DEF PresentedAreLocked
  <2>1. CASE y = x
    BY <1>2, <1>4, <1>a, <2>1
  <2>2. CASE y # x
    <3>1. request'[y] = request[y] /\ request[y].token \in Token
      BY <1>2, <2>2, RequestKinds DEF SessionsInv, Rotation
    <3>2. request[y].token # t
      BY <1>1, <3>1, SessionsAssumption DEF SessionsInv, PresentedAreLocked
    <3> QED
      BY <1>4, <1>a, <3>1, <3>2 DEF SessionsInv, PresentedAreLocked
  <2> QED
    BY <2>1, <2>2
<1>7. AccountsAreKept'
  BY <1>1, <1>2, IdleHoldsNothing DEF SessionsInv, AccountsAreKept, HoldsAccount
<1>8. SweepsSeeAll'
  BY <1>1, <1>2, SweepsStay DEF rows
<1>9. ReusesAreOrdered'
  BY <1>2, <1>a DEF SessionsInv, ReusesAreOrdered
<1> QED
  BY <1>3, <1>4, <1>5, <1>6, <1>7, <1>8, <1>9 DEF SessionsInv, RowsInv

-----------------------------------------------------------------------------
(* Tokens and accounts that change beside the requests. *)

LEMMA RevokeStep ==
  ASSUME SessionsInv, NEW t \in Token, Revoke(t)
  PROVE  SessionsInv'
<1>1. /\ t \in live /\ holder[t] = Nil /\ live' = live \ {t}
      /\ UNCHANGED <<userStatus, issued, family, owner, lapsed, next, locks, request, ended>>
  BY DEF Revoke
<1>2. SessionsTypeOK'
  BY <1>1 DEF SessionsInv, SessionsTypeOK, locks
<1>3. OneLivePerFamily' /\ TrailOfRotations' /\ FamiliesAreOwned' /\ EndedAreDead'
  BY <1>1 DEF SessionsInv, OneLivePerFamily, TrailOfRotations, FamiliesAreOwned, EndedAreDead,
              Members
<1>4. LocksTell' /\ AccountsAreKept' /\ ReusesAreOrdered'
  BY <1>1 DEF SessionsInv, LocksTell, AccountsAreKept, HoldsAccount, ReusesAreOrdered, locks
<1>5. PresentedAreLocked'
  BY <1>1, SessionsAssumption DEF SessionsInv, PresentedAreLocked, locks
<1>6. SweepsSeeAll'
  BY <1>1, SweepsStay
<1> QED
  BY <1>2, <1>3, <1>4, <1>5, <1>6 DEF SessionsInv

LEMMA AsideStep ==
  ASSUME SessionsInv,
         (\E t \in Token : Expire(t)) \/ (\E u \in Principal : Reactivate(u)) \/ UNCHANGED sessionVars
  PROVE  SessionsInv'
<1>1. /\ UNCHANGED <<issued, family, owner, live, next, locks, request, ended>>
      /\ lapsed' \subseteq issued
      /\ userStatus' \in [Principal -> {"active", "suspended", "deleted"}]
  BY DEF Expire, Reactivate, sessionVars, rows, locks, SessionsInv, SessionsTypeOK
<1>2. SessionsTypeOK'
  BY <1>1 DEF SessionsInv, SessionsTypeOK, locks
<1>3. OneLivePerFamily' /\ TrailOfRotations' /\ FamiliesAreOwned' /\ EndedAreDead'
  BY <1>1 DEF SessionsInv, OneLivePerFamily, TrailOfRotations, FamiliesAreOwned, EndedAreDead,
              Members
<1>4. LocksTell' /\ PresentedAreLocked' /\ AccountsAreKept' /\ ReusesAreOrdered'
  BY <1>1 DEF SessionsInv, LocksTell, PresentedAreLocked, AccountsAreKept, HoldsAccount,
              ReusesAreOrdered, locks
<1>5. SweepsSeeAll'
  BY <1>1, SweepsStay
<1> QED
  BY <1>2, <1>3, <1>4, <1>5 DEF SessionsInv

-----------------------------------------------------------------------------
(* A sweep, from the snapshot of its UPDATE to its commit. *)

LEMMA StartSweepStep ==
  ASSUME SessionsInv, NEW x \in Request, StartSweep(x)
  PROVE  SessionsInv'
<1> PICK why : why = request[x].do
  OBVIOUS
<1> PICK t : t = request[x].token
  OBVIOUS
<1> PICK u : u = IF why = "reuse" THEN OwnerOf(t) ELSE request[x].user
  OBVIOUS
<1> PICK scope : scope = IF why = "reuse" THEN Members(family[t]) ELSE {s \in issued : OwnerOf(s) = u}
  OBVIOUS
<1> PICK begun : begun = [do |-> "sweep", why |-> why, user |-> u, seen |-> scope \cap live,
                      covers |-> {family[s] : s \in scope}, crossed |-> {}]
  OBVIOUS
<1>1. /\ why \in {"reuse", "logoutAll", "reset", "suspend"}
      /\ request' = [request EXCEPT ![x] = begun]
      /\ UNCHANGED <<userStatus, rows, locks, ended>>
  BY DEF StartSweep
<1>2. \A y \in Request : request'[y] = IF y = x THEN begun ELSE request[y]
  BY <1>1 DEF SessionsInv, SessionsTypeOK
<1>3. why = "reuse" => /\ request[x] \in Rotation /\ t \in issued /\ holder[t] = x /\ t \notin live
                       /\ u \in Principal /\ family[t] \in Family
  <2> SUFFICES ASSUME why = "reuse"
               PROVE  /\ request[x] \in Rotation /\ t \in issued /\ holder[t] = x /\ t \notin live
                      /\ u \in Principal /\ family[t] \in Family
    OBVIOUS
  <2>1. request[x] \in Rotation
    BY RequestKinds DEF SessionsInv
  <2>2. t \in Token
    BY <2>1 DEF Rotation
  <2>3. holder[t] = x /\ t \notin live /\ t \in issued
    BY <2>2 DEF SessionsInv, PresentedAreLocked, LocksTell
  <2> QED
    BY <2>1, <2>3 DEF SessionsInv, SessionsTypeOK, FamiliesAreOwned, OwnerOf
<1>4. why # "reuse" => request[x] \in Revocation /\ u = request[x].user /\ u \in Principal
  BY <1>1, RequestKinds DEF SessionsInv, Revocation
<1>5. /\ begun.do = "sweep" /\ begun.why = why /\ begun.user = u /\ begun.seen = scope \cap live
      /\ begun.covers = {family[s] : s \in scope} /\ begun.crossed = {}
  OBVIOUS
<1>6. scope \subseteq issued
  BY DEF Members
<1>7. SessionsTypeOK'
  <2>1. begun \in Sweep
    BY <1>1, <1>3, <1>4, <1>6 DEF Sweep, SessionsInv, SessionsTypeOK
  <2> QED
    BY <1>1, <2>1 DEF SessionsInv, SessionsTypeOK, rows, locks
<1>8. RowsInv' /\ UNCHANGED <<live, issued, family, owner, holder, keeper>>
  BY <1>1, SameRows DEF SessionsInv, RowsInv, rows, locks
<1>9. LocksTell'
  <2> SUFFICES ASSUME NEW s \in Token, NEW y \in Request, holder[s] = y
               PROVE  /\ s \in issued
                      /\ \/ request'[y].do \in {"rotate", "reuse"} /\ request'[y].token = s
                         \/ request'[y].do = "sweep" /\ request'[y].why = "reuse" /\ s \notin live
    BY <1>8 DEF LocksTell
  <2>1. CASE y # x
    BY <1>2, <2>1 DEF SessionsInv, LocksTell
  <2>2. CASE y = x
    <3>1. why = "reuse" /\ s = t
      BY <1>1, <2>2 DEF SessionsInv, LocksTell
    <3> QED
      BY <1>2, <1>3, <1>5, <2>2, <3>1
  <2> QED
    BY <2>1, <2>2
<1>10. PresentedAreLocked'
  BY <1>2, <1>5, <1>8 DEF SessionsInv, PresentedAreLocked
<1>11. AccountsAreKept'
  <2> SUFFICES ASSUME NEW y \in Request, NEW w \in Principal
               PROVE  keeper[w] = y <=> HoldsAccount(y, w)'
    BY <1>8 DEF AccountsAreKept
  <2>1. HoldsAccount(y, w)' <=> HoldsAccount(y, w)
    <3>1. CASE y # x
      BY <1>2, <3>1 DEF HoldsAccount
    <3>2. CASE y = x
      BY <1>1, <1>2, <1>4, <1>5, <3>2 DEF HoldsAccount
    <3> QED
      BY <3>1, <3>2
  <2> QED
    BY <2>1 DEF SessionsInv, AccountsAreKept
<1>12. SweepsSeeAll'
  <2>1. \A f : Members(f)' = Members(f)
    BY <1>8 DEF Members
  <2>2. \A f \in begun.covers : Members(f) # {} /\ Members(f) \subseteq scope
    BY <1>5, <1>6 DEF Members, OwnerOf
  <2>3. why \in {"reset", "suspend"} => \A f \in begun.covers : owner[f] = u
    BY <1>5 DEF OwnerOf
  <2> SUFFICES ASSUME NEW y \in Request, request'[y].do = "sweep", y = x
               PROVE  /\ \A f \in begun.covers : Members(f) # {}
                      /\ \A f \in begun.covers \ begun.crossed : Members(f) \cap live \subseteq begun.seen
                      /\ begun.why \in {"reset", "suspend"} =>
                           /\ begun.covers \cap begun.crossed = {}
                           /\ \A f \in begun.covers : owner[f] = begun.user
    BY <1>2, <1>8, <2>1 DEF SessionsInv, SweepsSeeAll
  <2> QED
    BY <1>5, <2>2, <2>3
<1>13. ReusesAreOrdered'
  <2> SUFFICES ASSUME NEW y \in Request, NEW z \in Request, NEW r \in Token, NEW s \in Token,
                      y # z, request'[y].do = "sweep", request'[z].do = "sweep",
                      holder[r] = y, holder[s] = z
               PROVE  ~(s \in request'[y].seen /\ r \in request'[z].seen)
    BY <1>8 DEF ReusesAreOrdered
  <2>1. ASSUME NEW e \in Request, request'[e].do = "sweep", NEW v \in Token, holder[v] = e
        PROVE  v \notin live
    BY <1>8, <1>9, <2>1 DEF LocksTell
  <2>2. CASE y = x
    BY <1>2, <1>5, <2>1, <2>2
  <2>3. CASE z = x
    BY <1>2, <1>5, <2>1, <2>3
  <2>4. CASE y # x /\ z # x
    BY <1>2, <2>4 DEF SessionsInv, ReusesAreOrdered
  <2> QED
    BY <2>2, <2>3, <2>4
<1> QED
  BY <1>7, <1>8, <1>9, <1>10, <1>11, <1>12, <1>13 DEF SessionsInv, RowsInv

\* What a request that ends leaves to the others.
LEMMA Leaving ==
  ASSUME SessionsInv, NEW x \in Request, Release(x),
         \A y \in Request \ {x} : request'[y].do = "sweep" \/ request[y].do = "sweep" =>
            /\ request'[y].do = request[y].do /\ request'[y].why = request[y].why
            /\ request'[y].user = request[y].user /\ request'[y].seen = request[y].seen,
         \A y \in Request \ {x} : request[y].do # "sweep" => request'[y] = request[y],
         request'[x] = NoRequest,
         live' \cap issued \subseteq live, issued \subseteq issued',
         \A s \in live \ live' : holder[s] \in {Nil, x}
  PROVE  /\ LocksTell' /\ PresentedAreLocked' /\ AccountsAreKept' /\ ReusesAreOrdered'
         /\ holder' \in [Token -> Request \cup {Nil}] /\ keeper' \in [Principal -> Request \cup {Nil}]
<1>1. /\ \A t \in Token : holder'[t] = IF holder[t] = x THEN Nil ELSE holder[t]
      /\ \A u \in Principal : keeper'[u] = IF keeper[u] = x THEN Nil ELSE keeper[u]
      /\ holder' \in [Token -> Request \cup {Nil}] /\ keeper' \in [Principal -> Request \cup {Nil}]
  BY DEF Release, SessionsInv, SessionsTypeOK
<1>2. NoRequest.do = "idle"
  BY DEF NoRequest
<1>3. \A t \in Token, y \in Request : holder'[t] = y => y # x /\ holder[t] = y
  BY <1>1, SessionsAssumption
<1>4. LocksTell'
  <2> SUFFICES ASSUME NEW t \in Token, NEW y \in Request, holder'[t] = y
               PROVE  /\ t \in issued'
                      /\ \/ request'[y].do \in {"rotate", "reuse"} /\ request'[y].token = t
                         \/ request'[y].do = "sweep" /\ request'[y].why = "reuse" /\ t \notin live'
    BY DEF LocksTell
  <2>1. y # x /\ holder[t] = y
    BY <1>3
  <2>2. /\ t \in issued
        /\ \/ request[y].do \in {"rotate", "reuse"} /\ request[y].token = t
           \/ request[y].do = "sweep" /\ request[y].why = "reuse" /\ t \notin live
    BY <2>1 DEF SessionsInv, LocksTell
  <2> QED
    BY <2>1, <2>2
<1>5. PresentedAreLocked'
  <2> SUFFICES ASSUME NEW y \in Request, request'[y].do \in {"rotate", "reuse"}
               PROVE  /\ holder'[request'[y].token] = y
                      /\ request'[y].token \in live' <=> request'[y].do = "rotate"
    BY DEF PresentedAreLocked
  <2>1. y # x /\ request'[y] = request[y]
    BY <1>2
  <2> DEFINE t == request[y].token
  <2>2. t \in Token /\ holder[t] = y /\ t \in issued /\ (t \in live <=> request[y].do = "rotate")
    <3>1. request[y] \in Rotation
      BY <2>1, RequestKinds DEF SessionsInv
    <3> QED
      BY <2>1, <3>1 DEF Rotation, SessionsInv, PresentedAreLocked, LocksTell
  <2>3. holder'[t] = y /\ (t \in live' <=> t \in live)
    BY <1>1, <2>1, <2>2, SessionsAssumption
  <2> QED
    BY <2>1, <2>2, <2>3
<1>6. AccountsAreKept'
  <2> SUFFICES ASSUME NEW y \in Request, NEW u \in Principal
               PROVE  keeper'[u] = y <=> HoldsAccount(y, u)'
    BY DEF AccountsAreKept
  <2>1. CASE y = x
    BY <1>1, <1>2, <2>1, SessionsAssumption DEF HoldsAccount
  <2>2. CASE y # x
    <3>1. HoldsAccount(y, u)' <=> HoldsAccount(y, u)
      BY <2>2 DEF HoldsAccount
    <3>2. keeper'[u] = y <=> keeper[u] = y
      BY <1>1, <2>2, SessionsAssumption
    <3> QED
      BY <3>1, <3>2 DEF SessionsInv, AccountsAreKept
  <2> QED
    BY <2>1, <2>2
<1>7. ReusesAreOrdered'
  <2> SUFFICES ASSUME NEW y \in Request, NEW z \in Request, NEW r \in Token, NEW s \in Token,
                      y # z, request'[y].do = "sweep", request'[z].do = "sweep",
                      holder'[r] = y, holder'[s] = z
               PROVE  ~(s \in request'[y].seen /\ r \in request'[z].seen)
    BY DEF ReusesAreOrdered
  <2>1. y # x /\ z # x /\ holder[r] = y /\ holder[s] = z
    BY <1>3
  <2> QED
    BY <2>1 DEF SessionsInv, ReusesAreOrdered
<1> QED
  BY <1>1, <1>4, <1>5, <1>6, <1>7

LEMMA CommitSweepStep ==
  ASSUME SessionsInv, NEW x \in Request, CommitSweep(x)
  PROVE  SessionsInv'
<1> PICK begun : begun = request[x]
  OBVIOUS
<1>1. begun \in Sweep
  BY RequestKinds DEF CommitSweep, SessionsInv
<1>2. /\ \A t \in begun.seen : holder[t] \in {Nil, x}
      /\ live' = live \ begun.seen /\ Release(x)
      /\ request' = [request EXCEPT ![x] = NoRequest]
      /\ UNCHANGED <<issued, family, owner, lapsed, next>>
  BY DEF CommitSweep
<1>3. \A y \in Request : request'[y] = IF y = x THEN NoRequest ELSE request[y]
  BY <1>2 DEF SessionsInv, SessionsTypeOK
<1>4. /\ LocksTell' /\ PresentedAreLocked' /\ AccountsAreKept' /\ ReusesAreOrdered'
      /\ holder' \in [Token -> Request \cup {Nil}] /\ keeper' \in [Principal -> Request \cup {Nil}]
  BY <1>2, <1>3, Leaving
<1>5. ended' \subseteq ended \cup (begun.covers \ begun.crossed)
  BY <1>1 DEF CommitSweep, SessionsInv, SweepsSeeAll
<1>6. SessionsTypeOK'
  <2>1. ended' \subseteq Family
    BY <1>1, <1>5 DEF CommitSweep, Sweep, SessionsInv, SessionsTypeOK
  <2>2. userStatus' \in [Principal -> {"active", "suspended", "deleted"}]
    BY <1>1 DEF CommitSweep, Sweep, SessionsInv, SessionsTypeOK
  <2>3. request' \in [Request -> {NoRequest} \cup Login \cup Rotation \cup Revocation \cup Sweep]
    BY <1>2 DEF SessionsInv, SessionsTypeOK
  <2> QED
    BY <1>2, <1>4, <2>1, <2>2, <2>3 DEF SessionsInv, SessionsTypeOK
<1>7. OneLivePerFamily' /\ TrailOfRotations' /\ FamiliesAreOwned'
  BY <1>2 DEF SessionsInv, OneLivePerFamily, TrailOfRotations, FamiliesAreOwned
<1>8. EndedAreDead'
  <2>1. \A f \in begun.covers \ begun.crossed : Members(f) # {} /\ Members(f) \cap live \subseteq begun.seen
    BY DEF CommitSweep, SessionsInv, SweepsSeeAll
  <2>2. \A f : Members(f)' = Members(f)
    BY <1>2 DEF Members
  <2> QED
    BY <1>2, <1>5, <2>1, <2>2 DEF SessionsInv, EndedAreDead
<1>9. SweepsSeeAll'
  <2>1. \A y \in Request : request'[y].do = "sweep" => request'[y] = request[y]
    BY <1>3 DEF NoRequest
  <2> QED
    BY <1>2, <2>1, SweepsStay
<1> QED
  BY <1>4, <1>6, <1>7, <1>8, <1>9 DEF SessionsInv

LEMMA AbortStep ==
  ASSUME SessionsInv, NEW x \in Request, Abort(x)
  PROVE  SessionsInv'
<1>1. /\ Release(x) /\ request' = [request EXCEPT ![x] = NoRequest]
      /\ UNCHANGED <<userStatus, rows, ended>>
  BY DEF Abort
<1>2. \A y \in Request : request'[y] = IF y = x THEN NoRequest ELSE request[y]
  BY <1>1 DEF SessionsInv, SessionsTypeOK
<1>3. RowsInv' /\ UNCHANGED <<issued, family, owner, live>>
  BY <1>1, SameRows DEF SessionsInv, RowsInv, rows
<1>4. /\ LocksTell' /\ PresentedAreLocked' /\ AccountsAreKept' /\ ReusesAreOrdered'
      /\ holder' \in [Token -> Request \cup {Nil}] /\ keeper' \in [Principal -> Request \cup {Nil}]
  BY <1>1, <1>2, <1>3, Leaving
<1>5. SessionsTypeOK'
  BY <1>1, <1>4 DEF SessionsInv, SessionsTypeOK, rows
<1>6. SweepsSeeAll'
  <2>1. \A y \in Request : request'[y].do = "sweep" => request'[y] = request[y]
    BY <1>2 DEF NoRequest
  <2> QED
    BY <1>3, <2>1, SweepsStay
<1> QED
  BY <1>3, <1>4, <1>5, <1>6 DEF SessionsInv, RowsInv

-----------------------------------------------------------------------------
(* Tokens that are inserted. *)

\* A first token, of a family that had none.
LEMMA IssueStep ==
  ASSUME SessionsInv, NEW x \in Request, NEW t \in Token, NEW f \in Family,
         IssueAuthentication(x, t, f)
  PROVE  SessionsInv'
<1> PICK u : u = request[x].user
  OBVIOUS
<1>1. /\ request[x].do = "login" /\ t \notin issued /\ owner[f] = Nil
      /\ issued' = issued \cup {t} /\ live' = live \cup {t}
      /\ family' = [s \in issued \cup {t} |-> IF s = t THEN f ELSE family[s]]
      /\ next' = [s \in issued \cup {t} |-> IF s = t THEN Nil ELSE next[s]]
      /\ owner' = [owner EXCEPT ![f] = u]
      /\ request' = [request EXCEPT ![x] = NoRequest]
      /\ UNCHANGED <<userStatus, lapsed, locks, ended>>
  BY DEF IssueAuthentication, Insert
<1>2. u \in Principal /\ u # Nil
  BY <1>1, RequestKinds, SessionsAssumption DEF SessionsInv, Login
<1>3. \A y \in Request : request'[y] = IF y = x THEN NoRequest ELSE request[y]
  BY <1>1 DEF SessionsInv, SessionsTypeOK
<1>4. /\ \A s \in issued : family'[s] = family[s] /\ next'[s] = next[s] /\ s # t
      /\ family'[t] = f /\ next'[t] = Nil
      /\ \A g \in Family : owner'[g] = IF g = f THEN u ELSE owner[g]
      /\ \A s \in issued : family[s] \in Family /\ family[s] # f
  BY <1>1 DEF SessionsInv, SessionsTypeOK, FamiliesAreOwned
<1>5. \A g \in Family : Members(g)' = IF g = f THEN {t} ELSE Members(g)
  BY <1>1, <1>4 DEF Members
<1>6. Members(f) = {}
  BY <1>4 DEF Members
<1>7. SessionsTypeOK'
  BY <1>1, <1>2 DEF SessionsInv, SessionsTypeOK, locks
<1>8. OneLivePerFamily'
  BY <1>1, <1>4 DEF SessionsInv, SessionsTypeOK, OneLivePerFamily
<1>9. TrailOfRotations'
  BY <1>1, <1>4, SessionsAssumption DEF SessionsInv, SessionsTypeOK, TrailOfRotations
<1>10. FamiliesAreOwned'
  BY <1>1, <1>2, <1>4 DEF SessionsInv, FamiliesAreOwned
<1>11. EndedAreDead'
  BY <1>1, <1>5, <1>6 DEF SessionsInv, SessionsTypeOK, EndedAreDead, Members
<1>12. LocksTell' /\ PresentedAreLocked' /\ ReusesAreOrdered'
  <2>1. LocksTell'
    BY <1>1, <1>3 DEF SessionsInv, LocksTell, locks
  <2>2. PresentedAreLocked'
    <3>1. \A y \in Request : request[y].do \in {"rotate", "reuse"} => request[y].token \in issued
      <4> SUFFICES ASSUME NEW y \in Request, request[y].do \in {"rotate", "reuse"}
                   PROVE  request[y].token \in issued
        OBVIOUS
      <4>1. request[y].token \in Token
        BY RequestKinds DEF SessionsInv, Rotation
      <4> QED
        BY <4>1 DEF SessionsInv, PresentedAreLocked, LocksTell
    <3> QED
      BY <1>1, <1>3, <3>1 DEF SessionsInv, PresentedAreLocked, locks, NoRequest
  <2>3. ReusesAreOrdered'
    BY <1>1, <1>3 DEF SessionsInv, ReusesAreOrdered, locks, NoRequest
  <2> QED
    BY <2>1, <2>2, <2>3
<1>13. AccountsAreKept'
  BY <1>1, <1>3 DEF SessionsInv, AccountsAreKept, HoldsAccount, locks, NoRequest
<1>14. SweepsSeeAll'
  <2> SUFFICES ASSUME NEW y \in Request, request'[y].do = "sweep"
               PROVE  /\ request'[y] = request[y]
                      /\ \A g \in request[y].covers :
                           Members(g)' = Members(g) /\ owner'[g] = owner[g]
                           /\ (Members(g) \cap live)' = Members(g) \cap live
    BY DEF SessionsInv, SweepsSeeAll
  <2>1. request'[y] = request[y]
    BY <1>3 DEF NoRequest
  <2>2. request[y].covers \subseteq Family \ {f}
    BY <1>6, <2>1, RequestKinds DEF SessionsInv, SweepsSeeAll, Sweep
  <2> QED
    BY <1>1, <1>4, <1>5, <2>1, <2>2 DEF Members
<1> QED
  BY <1>7, <1>8, <1>9, <1>10, <1>11, <1>12, <1>13, <1>14 DEF SessionsInv

\* A successor: its family's only live token makes way for it, and the sweeps under way know
\* that they were crossed.
LEMMA RotateStep ==
  ASSUME SessionsInv, NEW x \in Request, NEW new \in Token, CommitRotation(x, new)
  PROVE  SessionsInv'
<1> PICK t : t = request[x].token
  OBVIOUS
<1> PICK f : f = family[t]
  OBVIOUS
<1>1. /\ request[x].do = "rotate" /\ new \notin issued /\ KeyShared(x, owner[f])
      /\ issued' = issued \cup {new} /\ live' = (live \cup {new}) \ {t}
      /\ family' = [s \in issued \cup {new} |-> IF s = new THEN f ELSE family[s]]
      /\ next' = [s \in issued \cup {new} |-> IF s = new THEN Nil ELSE IF s \in {t} THEN new ELSE next[s]]
      /\ Release(x) /\ UNCHANGED <<userStatus, owner, lapsed, ended>>
  BY DEF CommitRotation, Insert
<1>2. /\ request[x] \in Rotation /\ t \in Token /\ t \in issued /\ t \in live /\ holder[t] = x
      /\ f \in Family /\ owner[f] \in Principal
  <2>1. request[x] \in Rotation /\ t \in Token
    BY <1>1, RequestKinds DEF SessionsInv, Rotation
  <2>2. holder[t] = x /\ t \in live /\ t \in issued
    BY <1>1, <2>1 DEF SessionsInv, PresentedAreLocked, LocksTell
  <2> QED
    BY <2>1, <2>2 DEF SessionsInv, SessionsTypeOK, FamiliesAreOwned
<1>3. \A y \in Request :
        request'[y] = IF y = x THEN NoRequest
                      ELSE IF request[y].do = "sweep"
                           THEN [request[y] EXCEPT !.crossed = @ \cup {f}]
                           ELSE request[y]
  BY DEF CommitRotation
<1>4. \A y \in Request \ {x} : request[y].do = "sweep" =>
        /\ request[y] \in Sweep /\ request'[y] \in Sweep /\ request'[y].do = "sweep"
        /\ request'[y].why = request[y].why /\ request'[y].user = request[y].user
        /\ request'[y].seen = request[y].seen /\ request'[y].covers = request[y].covers
        /\ request'[y].crossed = request[y].crossed \cup {f}
  <2> SUFFICES ASSUME NEW y \in Request \ {x}, request[y].do = "sweep"
               PROVE  /\ request[y] \in Sweep /\ request'[y] \in Sweep /\ request'[y].do = "sweep"
                      /\ request'[y].why = request[y].why /\ request'[y].user = request[y].user
                      /\ request'[y].seen = request[y].seen /\ request'[y].covers = request[y].covers
                      /\ request'[y].crossed = request[y].crossed \cup {f}
    OBVIOUS
  <2>1. request[y] \in Sweep
    BY RequestKinds DEF SessionsInv
  <2>2. request'[y] = [request[y] EXCEPT !.crossed = @ \cup {f}]
    BY <1>3
  <2> QED
    BY <1>2, <2>1, <2>2 DEF Sweep
<1>5. /\ request'[x] = NoRequest /\ NoRequest.do = "idle"
      /\ \A y \in Request \ {x} : request[y].do # "sweep" => request'[y] = request[y]
  BY <1>3 DEF NoRequest
<1>6. /\ LocksTell' /\ PresentedAreLocked' /\ AccountsAreKept' /\ ReusesAreOrdered'
      /\ holder' \in [Token -> Request \cup {Nil}] /\ keeper' \in [Principal -> Request \cup {Nil}]
  BY <1>1, <1>2, <1>4, <1>5, Leaving
<1>7. SessionsTypeOK'
  <2>1. request' \in [Request -> {NoRequest} \cup Login \cup Rotation \cup Revocation \cup Sweep]
    <3>1. \A y \in Request : request'[y] \in {NoRequest} \cup Login \cup Rotation \cup Revocation \cup Sweep
      BY <1>4, <1>5 DEF SessionsInv, SessionsTypeOK
    <3>2. request' = [y \in Request |-> request'[y]]
      BY DEF CommitRotation
    <3> QED
      BY <3>1, <3>2
  <2>2. /\ issued' \subseteq Token /\ live' \subseteq issued' /\ lapsed' \subseteq issued'
        /\ family' \in [issued' -> Family] /\ next' \in [issued' -> issued' \cup {Nil}]
    BY <1>1, <1>2 DEF SessionsInv, SessionsTypeOK
  <2> QED
    BY <1>1, <1>6, <2>1, <2>2 DEF SessionsInv, SessionsTypeOK
<1>8. /\ \A s \in issued : family'[s] = family[s] /\ s # new
      /\ \A s \in issued \ {t} : next'[s] = next[s]
      /\ family'[new] = f /\ next'[new] = Nil /\ next'[t] = new /\ new # Nil /\ t # new
      /\ \A s \in issued : family[s] \in Family /\ next[s] \in issued \cup {Nil}
  BY <1>1, <1>2, SessionsAssumption DEF SessionsInv, SessionsTypeOK
<1>9. \A g \in Family : Members(g)' = IF g = f THEN Members(g) \cup {new} ELSE Members(g)
  BY <1>1, <1>8 DEF Members
<1>10. OneLivePerFamily'
  <2>1. \A s \in live \ {t} : family[s] # f
    BY <1>2 DEF SessionsInv, OneLivePerFamily
  <2> QED
    BY <1>1, <1>8, <2>1 DEF SessionsInv, SessionsTypeOK, OneLivePerFamily
<1>11. TrailOfRotations'
  <2> SUFFICES ASSUME NEW s \in issued', next'[s] # Nil
               PROVE  /\ s \notin live' /\ family'[next'[s]] = family'[s]
                      /\ \A r \in issued' : next'[r] = next'[s] => r = s
    BY DEF TrailOfRotations
  <2>1. CASE s = t
    BY <1>1, <1>2, <1>8, <2>1
  <2>2. CASE s # t
    <3>1. s \in issued /\ next'[s] = next[s] /\ next[s] \in issued
      BY <1>1, <1>8, <2>2
    <3>2. /\ s \notin live /\ family[next[s]] = family[s]
          /\ \A r \in issued : next[r] = next[s] => r = s
      BY <1>8, <2>2, <3>1 DEF SessionsInv, TrailOfRotations
    <3> QED
      BY <1>1, <1>8, <3>1, <3>2
  <2> QED
    BY <2>1, <2>2
<1>12. FamiliesAreOwned'
  BY <1>1, <1>2, <1>8, SessionsAssumption DEF SessionsInv, FamiliesAreOwned
<1>13. EndedAreDead'
  <2>1. f \notin ended
    BY <1>2 DEF SessionsInv, EndedAreDead, Members
  <2>2. ended' = ended /\ ended \subseteq Family
    BY <1>1 DEF SessionsInv, SessionsTypeOK
  <2>3. \A g \in ended : Members(g)' = Members(g)
    BY <1>9, <2>1, <2>2
  <2>4. \A g \in ended : Members(g)' \cap live' = {}
    BY <1>1, <2>3 DEF SessionsInv, EndedAreDead, Members
  <2> QED
    BY <2>2, <2>3, <2>4 DEF SessionsInv, EndedAreDead
<1>14. SweepsSeeAll'
  <2> SUFFICES ASSUME NEW y \in Request, request'[y].do = "sweep"
               PROVE  /\ \A g \in request'[y].covers : Members(g)' # {}
                      /\ \A g \in request'[y].covers \ request'[y].crossed :
                           Members(g)' \cap live' \subseteq request'[y].seen
                      /\ request'[y].why \in {"reset", "suspend"} =>
                           /\ request'[y].covers \cap request'[y].crossed = {}
                           /\ \A g \in request'[y].covers : owner'[g] = request'[y].user
    BY DEF SweepsSeeAll
  <2>1. y # x /\ request[y].do = "sweep"
    BY <1>5
  <2> PICK begun : begun = request[y]
    OBVIOUS
  <2>2. /\ begun \in Sweep /\ request'[y].covers = begun.covers /\ request'[y].seen = begun.seen
        /\ request'[y].crossed = begun.crossed \cup {f} /\ request'[y].why = begun.why
        /\ request'[y].user = begun.user /\ begun.covers \subseteq Family
    BY <1>4, <2>1 DEF Sweep
  <2>3. /\ \A g \in begun.covers : Members(g) # {}
        /\ \A g \in begun.covers \ begun.crossed : Members(g) \cap live \subseteq begun.seen
        /\ begun.why \in {"reset", "suspend"} =>
             /\ begun.covers \cap begun.crossed = {}
             /\ \A g \in begun.covers : owner[g] = begun.user
    BY <2>1 DEF SessionsInv, SweepsSeeAll
  <2>4. \A g \in begun.covers : Members(g) \subseteq Members(g)'
    BY <1>9, <2>2
  <2>5. \A g \in begun.covers \ (begun.crossed \cup {f}) : Members(g)' \cap live' \subseteq begun.seen
    BY <1>1, <1>9, <2>2, <2>3 DEF Members
  <2>6. begun.why \in {"reset", "suspend"} => owner[f] # begun.user
    <3> SUFFICES ASSUME begun.why \in {"reset", "suspend"}, owner[f] = begun.user PROVE FALSE
      OBVIOUS
    <3>1. HoldsAccount(y, owner[f])
      BY <2>1 DEF HoldsAccount
    <3>2. keeper[owner[f]] = y
      BY <1>2, <3>1 DEF SessionsInv, AccountsAreKept
    <3> QED
      BY <1>1, <2>1, <3>2, SessionsAssumption DEF KeyShared
  <2> QED
    BY <1>1, <2>2, <2>3, <2>4, <2>5, <2>6
<1> QED
  BY <1>6, <1>7, <1>10, <1>11, <1>12, <1>13, <1>14 DEF SessionsInv

-----------------------------------------------------------------------------
LEMMA SessionsStep ==
  ASSUME SessionsInv, [SessionsNext]_sessionVars
  PROVE  SessionsInv'
<1>1. ASSUME NEW x \in Request, NEW u \in Principal,
             BeginLogin(x, u) \/ BeginLogoutAll(x, u) \/ DeleteAccount(x, u)
      PROVE  SessionsInv'
  <2> DEFINE Asked(what) == [do |-> what, user |-> u]
  <2>1. PICK what \in {"login", "logoutAll"} :
          /\ Begin(x, Asked(what)) /\ UNCHANGED <<rows, locks, ended>>
          /\ userStatus' \in {userStatus, [userStatus EXCEPT ![u] = "deleted"]}
    BY <1>1 DEF BeginLogin, BeginLogoutAll, DeleteAccount
  <2>2. Asked(what) \in Login \cup Revocation /\ Asked(what).do \in {"login", "logoutAll"}
    BY DEF Login, Revocation
  <2>3. userStatus' \in [Principal -> {"active", "suspended", "deleted"}]
    BY <2>1 DEF SessionsInv, SessionsTypeOK
  <2> HIDE DEF Asked
  <2> QED
    BY <2>1, <2>2, <2>3, RequestBegins
<1>2. ASSUME NEW x \in Request, NEW u \in Principal, CompleteReset(x, u) \/ Suspend(x, u)
      PROVE  SessionsInv'
  BY <1>2, BeginLockedStep DEF CompleteReset, Suspend
<1>3. ASSUME NEW x \in Request, NEW t \in Token, Present(x, t) \/ CommitRotation(x, t)
      PROVE  SessionsInv'
  BY <1>3, PresentStep, RotateStep
<1>4. ASSUME NEW x \in Request, NEW t \in Token, NEW f \in Family, IssueAuthentication(x, t, f)
      PROVE  SessionsInv'
  BY <1>4, IssueStep
<1>5. ASSUME NEW x \in Request, StartSweep(x) \/ CommitSweep(x) \/ Abort(x) PROVE SessionsInv'
  BY <1>5, StartSweepStep, CommitSweepStep, AbortStep
<1>6. ASSUME NEW t \in Token, Revoke(t) PROVE SessionsInv'
  BY <1>6, RevokeStep
<1>7. CASE (\E t \in Token : Expire(t)) \/ (\E u \in Principal : Reactivate(u)) \/ UNCHANGED sessionVars
  BY <1>7, AsideStep
<1> QED
  BY <1>1, <1>2, <1>3, <1>4, <1>5, <1>6, <1>7 DEF SessionsNext

LEMMA SessionsInvariance == SessionsSpec => []SessionsInv
<1>1. SessionsInv /\ [SessionsNext]_sessionVars => SessionsInv'
  BY SessionsStep
<1> QED
  BY <1>1, InitSessions, PTL DEF SessionsSpec

-----------------------------------------------------------------------------
(* Two transactions that wait for each other. *)

LEMMA WaitsAreBroken ==
  ASSUME SessionsInv PROVE DeadlockNeedsAccountLock
<1> DEFINE Keeps(z) == request[z].do = "sweep" /\ request[z].why \in {"reset", "suspend"}
<1> SUFFICES ASSUME NEW x \in Request, NEW y \in Request, y \in WaitsFor(x), x \in WaitsFor(y)
             PROVE  Keeps(x) \/ Keeps(y)
  BY DEF DeadlockNeedsAccountLock
<1>1. /\ request[x].do \in {"rotate", "login", "sweep"} /\ request[y].do \in {"rotate", "login", "sweep"}
      /\ x # y
  BY DEF WaitsFor
\* Who waits for an account waits for a request that holds it.
<1>2. ASSUME NEW a \in Request, NEW b \in Request, b \in WaitsFor(a),
             request[a].do \in {"rotate", "login"}, request[b].do \in {"rotate", "login", "sweep"}
      PROVE  Keeps(b)
  <2>1. PICK u \in Principal : keeper[u] = b
    <3>1. CASE request[a].do = "rotate"
      <4>1. request[a] \in Rotation
        BY <3>1, RequestKinds DEF SessionsInv
      <4>2. request[a].token \in issued
        BY <3>1, <4>1 DEF Rotation, SessionsInv, PresentedAreLocked, LocksTell
      <4>3. OwnerOf(request[a].token) \in Principal
        BY <4>2 DEF OwnerOf, SessionsInv, SessionsTypeOK, FamiliesAreOwned
      <4> QED
        BY <1>2, <3>1, <4>3 DEF WaitsFor
    <3>2. CASE request[a].do = "login"
      BY <1>2, <3>2, RequestKinds DEF WaitsFor, SessionsInv, Login
    <3> QED
      BY <1>2, <3>1, <3>2
  <2>2. HoldsAccount(b, u)
    BY <2>1 DEF SessionsInv, AccountsAreKept
  <2> QED
    BY <1>2, <2>2 DEF HoldsAccount
<1>3. CASE request[x].do \in {"rotate", "login"}
  BY <1>1, <1>2, <1>3
<1>4. CASE request[y].do \in {"rotate", "login"}
  BY <1>1, <1>2, <1>4
<1>5. CASE request[x].do = "sweep" /\ request[y].do = "sweep"
  <2>1. request[x] \in Sweep /\ request[y] \in Sweep
    BY <1>5, RequestKinds DEF SessionsInv
  <2>2. PICK t \in request[x].seen : holder[t] = y
    BY <1>5 DEF WaitsFor
  <2>3. PICK s \in request[y].seen : holder[s] = x
    BY <1>5 DEF WaitsFor
  <2>4. t \in Token /\ s \in Token
    BY <2>1, <2>2, <2>3 DEF Sweep
  <2> QED
    BY <1>1, <1>5, <2>2, <2>3, <2>4 DEF SessionsInv, ReusesAreOrdered
<1> QED
  BY <1>1, <1>3, <1>4, <1>5

\* Sessions for any requests that overlap: one live token and one trail per family, an ended
\* session stays refused, and only a revocation that holds the account can wait in a circle.
THEOREM SessionsStaySound == SessionsSpec => []SessionsAreSound
<1>1. SessionsInv => EndedSessionsRefused
  BY DEF SessionsInv, EndedAreDead, EndedSessionsRefused, Admits
<1>2. SessionsInv => SessionsAreSound
  BY <1>1, WaitsAreBroken DEF SessionsAreSound, SessionsInv
<1> QED
  BY <1>2, SessionsInvariance, PTL

\* Rows, locks and requests have their types in every reachable state.
THEOREM SessionsTypeCorrect == SessionsSpec => []SessionsTypeOK
<1>1. SessionsInv => SessionsTypeOK
  BY DEF SessionsInv
<1> QED
  BY <1>1, SessionsInvariance, PTL

-----------------------------------------------------------------------------
(* A token is inserted only beside a live one, or into a family that had none. *)

StaysDead(f) == (Members(f) # {} /\ Members(f) \cap live = {}) => (Members(f) \cap live)' = {}

LEMMA NoRevivalStep ==
  ASSUME SessionsInv, [SessionsNext]_sessionVars, NEW f \in Family
  PROVE  StaysDead(f)
<1> SUFFICES ASSUME Members(f) # {}, Members(f) \cap live = {} PROVE (Members(f) \cap live)' = {}
  BY DEF StaysDead
<1>0. live \subseteq issued
  BY DEF SessionsInv, SessionsTypeOK
<1>1. CASE UNCHANGED <<issued, family>> /\ live' \subseteq live
  BY <1>1 DEF Members
<1>2. ASSUME NEW x \in Request, NEW t \in Token, NEW g \in Family, IssueAuthentication(x, t, g)
      PROVE  (Members(f) \cap live)' = {}
  <2>1. g # f
    BY <1>2 DEF IssueAuthentication, Members, SessionsInv, FamiliesAreOwned
  <2> QED
    BY <1>0, <1>2, <2>1 DEF IssueAuthentication, Insert, Members
<1>3. ASSUME NEW x \in Request, NEW t \in Token, CommitRotation(x, t)
      PROVE  (Members(f) \cap live)' = {}
  <2> PICK old : old = request[x].token
    OBVIOUS
  <2>1. old \in live
    BY <1>3 DEF CommitRotation, SessionsInv, PresentedAreLocked
  <2>2. family[old] # f
    BY <1>0, <2>1 DEF Members
  <2> QED
    BY <1>0, <1>3, <2>2 DEF CommitRotation, Insert, Members
<1>4. CASE /\ \A x \in Request, t \in Token, g \in Family : ~IssueAuthentication(x, t, g)
           /\ \A x \in Request, t \in Token : ~CommitRotation(x, t)
  <2>1. UNCHANGED <<issued, family>> /\ live' \subseteq live
    BY <1>4 DEF SessionsNext, BeginLogin, BeginLogoutAll, DeleteAccount, CompleteReset, Suspend,
       BeginLocked, Present, StartSweep, CommitSweep, Abort, Revoke, Expire, Reactivate, rows, sessionVars
  <2> QED
    BY <1>1, <2>1
<1> QED
  BY <1>2, <1>3, <1>4

\* Whatever rotations, sign-ins and revocations overlap, a session without a live token never
\* gets one again.
THEOREM NoSessionRevives == SessionsSpec => NoRevival
<1>1. SessionsInv /\ [SessionsNext]_sessionVars => [\A f \in Family : StaysDead(f)]_sessionVars
  BY NoRevivalStep
<1> QED
  BY <1>1, SessionsInvariance, PTL DEF SessionsSpec, NoRevival, StaysDead

-----------------------------------------------------------------------------
(* Enrolment.  What was agreed to lets a fleet manage a driver, and the    *)
(* driver's row and the advisory lock order consent and save.              *)

\* Whoever manages a driver, counts the driver a member or had a code consumed, was agreed to.
Acquainted ==
  /\ \A d \in Drivers : managed[d] # NoOne => Has(d) /\ <<managed[d].fleet, d>> \in agreed
  /\ member \subseteq agreed
  /\ \A i \in Invitations : inv[i] # NoOne /\ inv[i].status = "CONSUMED" =>
       <<inv[i].fleet, inv[i].driver>> \in agreed

\* A consent is about an invitation of the driver who gives it.  While it holds the advisory
\* lock no fleet does, and what it was granted on is not revoked.
Consenting ==
  \A d \in Drivers : consent[d].at # "idle" =>
    /\ consent[d].inv \in Invitations /\ inv[consent[d].inv] # NoOne
    /\ inv[consent[d].inv].driver = d
    /\ consent[d].at = "granted" => Has(d) /\ inv[consent[d].inv].status # "REVOKED"
    /\ \A f \in Fleets : enrolling[f].driver = d => enrolling[f].at \notin {"advised", "allowed"}

\* The driver of a fleet's transaction exists; where the fleet may save, nobody else manages.
DriverIsTheirs ==
  \A f \in Fleets : enrolling[f].at # "idle" =>
    LET d == enrolling[f].driver
    IN /\ d \in Drivers /\ Has(d)
       /\ enrolling[f].at = "allowed" =>
            (managed[d] = NoOne \/ managed[d].fleet = f) /\ <<f, d>> \in agreed
       /\ enrolling[f].at = "authorized" => managed[d] # NoOne /\ managed[d].fleet = f

\* One fleet at a time holds a driver's row.
OneHolder ==
  \A f, g \in Fleets :
    /\ enrolling[f].at \in {"user", "advised", "allowed"}
    /\ enrolling[g].at \in {"user", "advised", "allowed"}
    /\ enrolling[f].driver = enrolling[g].driver
    => f = g

EnrolmentInv ==
  EnrolmentTypeOK /\ Acquainted /\ Consenting /\ DriverIsTheirs /\ OneHolder /\ WriterIsTheManager

\* What the invariant says of one driver, one invitation and one transaction, by name.
LEMMA EnrolmentParts ==
  ASSUME EnrolmentInv
  PROVE  EnrolmentTypeOK /\ Acquainted /\ Consenting /\ DriverIsTheirs /\ OneHolder /\ WriterIsTheManager
BY DEF EnrolmentInv

LEMMA EnrolmentInitially == EnrolmentInit => EnrolmentInv
<1> SUFFICES ASSUME EnrolmentInit PROVE EnrolmentInv
  OBVIOUS
<1>1. EnrolmentTypeOK
  BY DEF EnrolmentInit, EnrolmentTypeOK, NoJob, NoConsent, Unasked, Kinds
<1>2. Acquainted /\ WriterIsTheManager
  BY DEF EnrolmentInit, Acquainted, WriterIsTheManager
<1>3. Consenting /\ DriverIsTheirs /\ OneHolder
  BY DEF EnrolmentInit, Consenting, DriverIsTheirs, OneHolder, NoJob, NoConsent
<1> QED
  BY <1>1, <1>2, <1>3 DEF EnrolmentInv

-----------------------------------------------------------------------------
(* Accounts are only added to, so what an open transaction found still is. *)

LEMMA AccountStep ==
  ASSUME EnrolmentInv, NEW d \in Drivers, NEW row \in Candidate,
         candidate' = [candidate EXCEPT ![d] = row],
         UNCHANGED <<inv, managed, member, approved, review, writer, agreed, enrolling, consent>>
  PROVE  EnrolmentInv' /\ EnrolmentStep
<1> USE EnrolmentParts
<1>1. /\ EnrolmentTypeOK'
      /\ \A e \in Drivers : Has(e) => Has(e)'
  BY EnrolmentAssumption DEF EnrolmentTypeOK, Has
<1>2. Acquainted'
  BY <1>1 DEF Acquainted
<1>3. Consenting'
  BY <1>1 DEF Consenting
<1>4. DriverIsTheirs'
  BY <1>1 DEF DriverIsTheirs, EnrolmentTypeOK
<1>5. OneHolder' /\ WriterIsTheManager'
  BY DEF OneHolder, WriterIsTheManager
<1>6. EnrolmentStep
  BY DEF EnrolmentStep
<1> QED
  BY <1>1, <1>2, <1>3, <1>4, <1>5, <1>6 DEF EnrolmentInv

LEMMA SignUpStep ==
  ASSUME EnrolmentInv, NEW d \in Drivers, SignUp(d)
  PROVE  EnrolmentInv' /\ EnrolmentStep
<1>1. [role |-> "driver", pending |-> TRUE] \in Candidate
  BY DEF Candidate, Roles
<1> QED
  BY <1>1, AccountStep DEF SignUp

LEMMA SelectRoleStep ==
  ASSUME EnrolmentInv, NEW d \in Drivers, NEW r \in Roles, SelectRole(d, r)
  PROVE  EnrolmentInv' /\ EnrolmentStep
<1>1. [role |-> r, pending |-> FALSE] \in Candidate
  BY DEF Candidate
<1> QED
  BY <1>1, AccountStep DEF SelectRole

LEMMA UpgradeStep ==
  ASSUME EnrolmentInv, NEW d \in Drivers, Upgrade(d)
  PROVE  EnrolmentInv' /\ EnrolmentStep
<1>1. candidate[d] \in Candidate /\ candidate \in [Drivers -> Candidate \cup {NoOne}]
  BY EnrolmentParts DEF Upgrade, Has, EnrolmentTypeOK
<1> DEFINE row == [candidate[d] EXCEPT !.role = "both"]
<1>2. row \in Candidate
  BY <1>1 DEF Candidate, Roles
<1>3. candidate' = [candidate EXCEPT ![d] = row]
  BY <1>1 DEF Upgrade
<1> QED
  BY <1>2, <1>3, AccountStep DEF Upgrade

-----------------------------------------------------------------------------
(* Transactions that end leave the others as they are. *)

Stages == {"idle", "user", "advised", "allowed", "authorized"}
SomeJobsEnd ==
  /\ enrolling' \in [Fleets -> [at : Stages, driver : Drivers \cup {NoOne}]]
  /\ \A f \in Fleets : enrolling'[f].at # "idle" => enrolling'[f] = enrolling[f]

LEMMA NoJobEnds ==
  ASSUME EnrolmentTypeOK, enrolling' = enrolling
  PROVE  SomeJobsEnd
BY DEF EnrolmentTypeOK, SomeJobsEnd, Stages

LEMMA JobEnds ==
  ASSUME EnrolmentTypeOK, NEW f \in Fleets, EndJob(f)
  PROVE  SomeJobsEnd /\ enrolling'[f] = NoJob
<1>1. enrolling \in [Fleets -> [at : Stages, driver : Drivers \cup {NoOne}]]
  BY DEF EnrolmentTypeOK, Stages
<1>2. NoJob \in [at : Stages, driver : Drivers \cup {NoOne}] /\ NoJob.at = "idle"
  BY DEF NoJob, Stages
<1>3. \A g \in Fleets : enrolling'[g] = IF g = f THEN NoJob ELSE enrolling[g]
  BY <1>1 DEF EndJob
<1> QED
  BY <1>1, <1>2, <1>3 DEF EndJob, SomeJobsEnd

-----------------------------------------------------------------------------
(* Reviews matter to no other row. *)

LEMMA ReviewStep ==
  ASSUME EnrolmentInv,
         review' \in [Drivers -> [Kinds -> Fleets \cup {"none", "own"}]],
         \A d \in Drivers : review'[d]["association"] # "own",
         \A d \in Drivers, k \in Kinds : review[d][k] \in Fleets => review'[d][k] \in {review[d][k], "none"},
         approved' \subseteq Drivers,
         UNCHANGED <<candidate, inv, managed, writer, consent>>,
         SomeJobsEnd,
         member' \subseteq agreed', agreed \subseteq agreed', agreed' \subseteq Fleets \X Drivers
  PROVE  EnrolmentInv' /\ EnrolmentStep
<1> USE EnrolmentParts
<1>1. EnrolmentTypeOK'
  BY DEF EnrolmentTypeOK, SomeJobsEnd, Stages
<1>2. \A f \in Fleets : enrolling'[f].at # "idle" => enrolling'[f] = enrolling[f]
  BY DEF SomeJobsEnd
<1>3. Acquainted'
  BY DEF Acquainted, Has
<1>4. Consenting'
  BY <1>2 DEF Consenting, Has
<1>5. DriverIsTheirs'
  BY <1>2 DEF DriverIsTheirs, Has
<1>6. OneHolder' /\ WriterIsTheManager'
  BY <1>2 DEF OneHolder, WriterIsTheManager
<1>7. EnrolmentStep
  BY DEF EnrolmentStep
<1> QED
  BY <1>1, <1>3, <1>4, <1>5, <1>6, <1>7 DEF EnrolmentInv

\* One request is made, taken over or decided.
LEMMA OneReview ==
  ASSUME EnrolmentTypeOK, NEW d \in Drivers, NEW k \in Kinds, NEW by \in Fleets \cup {"none", "own"},
         k = "association" => by # "own",
         review[d][k] \in {"none", "own", by} \/ by = "none",
         review' = [review EXCEPT ![d][k] = by]
  PROVE  /\ review' \in [Drivers -> [Kinds -> Fleets \cup {"none", "own"}]]
         /\ \A e \in Drivers : review'[e]["association"] # "own"
         /\ \A e \in Drivers, h \in Kinds : review[e][h] \in Fleets => review'[e][h] \in {review[e][h], "none"}
<1>1. review \in [Drivers -> [Kinds -> Fleets \cup {"none", "own"}]]
  BY DEF EnrolmentTypeOK
<1>2. /\ review' \in [Drivers -> [Kinds -> Fleets \cup {"none", "own"}]]
      /\ \A e \in Drivers, h \in Kinds :
           review'[e][h] = IF e = d /\ h = k THEN by ELSE review[e][h]
  BY <1>1
<1>3. \A e \in Drivers : review'[e]["association"] # "own"
  BY <1>2 DEF EnrolmentTypeOK, Kinds
<1> QED
  BY <1>2, <1>3, EnrolmentAssumption

LEMMA SameReviews ==
  ASSUME EnrolmentTypeOK, review' = review
  PROVE  /\ review' \in [Drivers -> [Kinds -> Fleets \cup {"none", "own"}]]
         /\ \A e \in Drivers : review'[e]["association"] # "own"
         /\ \A e \in Drivers, h \in Kinds : review[e][h] \in Fleets => review'[e][h] \in {review[e][h], "none"}
BY DEF EnrolmentTypeOK

LEMMA AskReviewStep ==
  ASSUME EnrolmentInv, NEW d \in Drivers, AskReview(d)
  PROVE  EnrolmentInv' /\ EnrolmentStep
<1>1. EnrolmentTypeOK /\ member \subseteq agreed
  BY DEF EnrolmentInv, Acquainted
<1> DEFINE k == "verification"
<1>2. k \in Kinds /\ review' = [review EXCEPT ![d][k] = "own"] /\ review[d][k] = "none"
  BY DEF AskReview, Kinds
<1>3. SomeJobsEnd
  BY <1>1, NoJobEnds DEF AskReview
<1>4. approved' \subseteq Drivers /\ member' \subseteq agreed' /\ agreed \subseteq agreed'
      /\ agreed' \subseteq Fleets \X Drivers
  BY <1>1 DEF AskReview, EnrolmentTypeOK
<1>5. k = "association" => "own" # "own"
  OBVIOUS
<1> HIDE DEF k
<1> QED
  BY <1>1, <1>2, <1>3, <1>4, <1>5, OneReview, ReviewStep DEF AskReview

LEMMA DecideVerificationStep ==
  ASSUME EnrolmentInv, NEW d \in Drivers, DecideVerification(d)
  PROVE  EnrolmentInv' /\ EnrolmentStep
<1>1. EnrolmentTypeOK /\ member \subseteq agreed
  BY DEF EnrolmentInv, Acquainted
<1> DEFINE k == "verification"
<1>2. k \in Kinds /\ review' = [review EXCEPT ![d][k] = "none"]
  BY DEF DecideVerification, Kinds
<1>3. SomeJobsEnd
  BY <1>1, NoJobEnds DEF DecideVerification
<1>4. approved' \subseteq Drivers /\ member' \subseteq agreed' /\ agreed \subseteq agreed'
      /\ agreed' \subseteq Fleets \X Drivers
  BY <1>1 DEF DecideVerification, EnrolmentTypeOK
<1> HIDE DEF k
<1> QED
  BY <1>1, <1>2, <1>3, <1>4, OneReview, ReviewStep DEF DecideVerification

LEMMA DecideAssociationStep ==
  ASSUME EnrolmentInv, NEW d \in Drivers, DecideAssociation(d)
  PROVE  EnrolmentInv' /\ EnrolmentStep
<1>1. EnrolmentTypeOK /\ member \subseteq agreed
  BY DEF EnrolmentInv, Acquainted
<1> DEFINE k == "association"
           f == review[d][k]
<1>2. k \in Kinds /\ review' = [review EXCEPT ![d][k] = "none"]
  BY DEF DecideAssociation, Kinds
<1>3. f \in Fleets
  BY <1>1 DEF EnrolmentTypeOK, DecideAssociation, Kinds
<1>4. SomeJobsEnd
  BY <1>1, NoJobEnds DEF DecideAssociation
<1>5. \/ member' = member \cup {<<f, d>>} /\ agreed' = agreed \cup {<<f, d>>}
      \/ member' = member /\ agreed' = agreed
  BY DEF DecideAssociation
<1>6. approved' \subseteq Drivers /\ member' \subseteq agreed' /\ agreed \subseteq agreed'
      /\ agreed' \subseteq Fleets \X Drivers
  BY <1>1, <1>3, <1>5 DEF DecideAssociation, EnrolmentTypeOK
<1> HIDE DEF k, f
<1> QED
  BY <1>1, <1>2, <1>4, <1>6, OneReview, ReviewStep DEF DecideAssociation

LEMMA OneJobEnds ==
  ASSUME EnrolmentInv, NEW f \in Fleets, EndJob(f),
         UNCHANGED <<candidate, inv, managed, member, approved, review, writer, agreed, consent>>
  PROVE  EnrolmentInv' /\ EnrolmentStep
<1>1. EnrolmentTypeOK /\ member \subseteq agreed
  BY DEF EnrolmentInv, Acquainted
<1>2. SomeJobsEnd
  BY <1>1, JobEnds
<1>3. approved' \subseteq Drivers /\ member' \subseteq agreed' /\ agreed \subseteq agreed'
      /\ agreed' \subseteq Fleets \X Drivers
  BY <1>1 DEF EnrolmentTypeOK
<1> QED
  BY <1>1, <1>2, <1>3, SameReviews, ReviewStep

LEMMA FailJobStep ==
  ASSUME EnrolmentInv, NEW f \in Fleets, FailJob(f)
  PROVE  EnrolmentInv' /\ EnrolmentStep
BY OneJobEnds DEF FailJob

-----------------------------------------------------------------------------
(* An invitation keeps its parties, and once it is decided, its status. *)

InvitationsKept ==
  /\ inv' \in [Invitations -> Invitation \cup {NoOne}]
  /\ \A j \in Invitations : inv[j] # NoOne =>
       /\ inv'[j] # NoOne /\ inv'[j].fleet = inv[j].fleet /\ inv'[j].driver = inv[j].driver
       /\ inv[j].status # "ACTIVE" => inv'[j].status = inv[j].status

LEMMA InvitationStep ==
  ASSUME EnrolmentInv, InvitationsKept,
         \A j \in Invitations : inv'[j] # NoOne /\ inv'[j].status = "CONSUMED" =>
           <<inv'[j].fleet, inv'[j].driver>> \in agreed',
         \A d \in Drivers : consent[d].at = "granted" => inv'[consent[d].inv].status # "REVOKED",
         review' \in [Drivers -> [Kinds -> Fleets \cup {"none", "own"}]],
         \A d \in Drivers : review'[d]["association"] # "own",
         \A d \in Drivers, k \in Kinds : review[d][k] \in Fleets => review'[d][k] = review[d][k],
         agreed \subseteq agreed', agreed' \subseteq Fleets \X Drivers,
         UNCHANGED <<candidate, managed, member, approved, writer, enrolling, consent>>
  PROVE  EnrolmentInv' /\ EnrolmentStep
<1> USE EnrolmentParts
<1>1. EnrolmentTypeOK'
  BY DEF EnrolmentTypeOK, InvitationsKept
<1>2. Acquainted'
  BY DEF Acquainted, Has
<1>3. Consenting'
  BY DEF Consenting, Has, InvitationsKept
<1>4. DriverIsTheirs'
  BY DEF DriverIsTheirs, Has
<1>5. OneHolder' /\ WriterIsTheManager'
  BY DEF OneHolder, WriterIsTheManager
<1>6. EnrolmentStep
  BY DEF EnrolmentStep, InvitationsKept
<1> QED
  BY <1>1, <1>2, <1>3, <1>4, <1>5, <1>6 DEF EnrolmentInv

LEMMA InviteStep ==
  ASSUME EnrolmentInv, NEW f \in Fleets, NEW d \in Drivers, NEW i \in Invitations, Invite(f, d, i)
  PROVE  EnrolmentInv' /\ EnrolmentStep
<1> USE EnrolmentParts
<1> DEFINE fresh == [fleet |-> f, driver |-> d, status |-> "ACTIVE", late |-> FALSE,
                     code |-> candidate[d].role = "driver"]
<1>1. fresh \in Invitation /\ fresh.status = "ACTIVE"
  BY DEF Invitation
<1>2. inv \in [Invitations -> Invitation \cup {NoOne}] /\ inv[i] = NoOne
  BY DEF EnrolmentTypeOK, Invite, NextInvitation
<1> DEFINE revoked(j) == [inv[j] EXCEPT !.status = "REVOKED"]
<1>3. \A j \in Superseded(f, d) :
        /\ j \in Invitations /\ inv[j] \in Invitation /\ inv[j].status = "ACTIVE"
        /\ revoked(j) \in Invitation /\ revoked(j).status = "REVOKED"
        /\ revoked(j).fleet = inv[j].fleet /\ revoked(j).driver = inv[j].driver
  BY <1>2 DEF Superseded, Invitation
<1>4. \A j \in Invitations :
        inv'[j] = IF j = i THEN fresh ELSE IF j \in Superseded(f, d) THEN revoked(j) ELSE inv[j]
  BY DEF Invite
<1>5. DOMAIN inv' = Invitations /\ inv' = [j \in Invitations |-> inv'[j]]
  BY DEF Invite
<1> HIDE DEF fresh, revoked
<1>6. InvitationsKept
  <2>1. \A j \in Invitations : inv'[j] \in Invitation \cup {NoOne}
    BY <1>1, <1>2, <1>3, <1>4
  <2>2. inv' \in [Invitations -> Invitation \cup {NoOne}]
    BY <2>1, <1>5
  <2>3. \A j \in Invitations : inv[j] # NoOne => j # i
    BY <1>2
  <2> QED
    BY <2>2, <2>3, <1>3, <1>4, EnrolmentAssumption DEF InvitationsKept
<1>7. \A j \in Invitations : inv'[j] # NoOne /\ inv'[j].status = "CONSUMED" =>
        <<inv'[j].fleet, inv'[j].driver>> \in agreed'
  BY <1>1, <1>3, <1>4 DEF Invite, Acquainted
<1>8. ASSUME NEW e \in Drivers, consent[e].at = "granted"
      PROVE  inv'[consent[e].inv].status # "REVOKED"
  <2>1. /\ consent[e].inv \in Invitations /\ inv[consent[e].inv] # NoOne
        /\ inv[consent[e].inv].status # "REVOKED"
    BY <1>8 DEF Consenting
  <2>2. InvitationLocked(consent[e].inv)
    BY <1>8 DEF InvitationLocked
  <2>3. consent[e].inv \notin Superseded(f, d) /\ consent[e].inv # i
    BY <2>1, <2>2, <1>2 DEF Invite
  <2> QED
    BY <2>1, <2>3, <1>4
<1>9. review \in [Drivers -> [Kinds -> Fleets \cup {"none", "own"}]]
  BY DEF EnrolmentTypeOK
<1>10. /\ review' \in [Drivers -> [Kinds -> Fleets \cup {"none", "own"}]]
       /\ \A e \in Drivers, h \in Kinds :
            \/ review'[e][h] = review[e][h]
            \/ review[e][h] = "none" /\ review'[e][h] = f
  BY <1>9 DEF Invite, Kinds
<1>11. /\ \A e \in Drivers : review'[e]["association"] # "own"
       /\ \A e \in Drivers, k \in Kinds : review[e][k] \in Fleets => review'[e][k] = review[e][k]
  BY <1>10, EnrolmentAssumption DEF EnrolmentTypeOK, Kinds
<1>12. agreed \subseteq agreed' /\ agreed' \subseteq Fleets \X Drivers
  BY DEF EnrolmentTypeOK, Invite
<1> QED
  BY <1>6, <1>7, <1>8, <1>10, <1>11, <1>12, InvitationStep DEF Invite

LEMMA ExpireInvitationStep ==
  ASSUME EnrolmentInv, NEW i \in Invitations, ExpireInvitation(i)
  PROVE  EnrolmentInv' /\ EnrolmentStep
<1> USE EnrolmentParts
<1>1. inv \in [Invitations -> Invitation \cup {NoOne}] /\ inv[i] \in Invitation
  BY DEF EnrolmentTypeOK, ExpireInvitation
<1> DEFINE late == [inv[i] EXCEPT !.late = TRUE]
<1>2. /\ late \in Invitation /\ late.fleet = inv[i].fleet /\ late.driver = inv[i].driver
      /\ late.status = inv[i].status
  BY <1>1 DEF Invitation
<1>3. inv' = [inv EXCEPT ![i] = late]
  BY DEF ExpireInvitation
<1> HIDE DEF late
<1>4. /\ \A j \in Invitations : inv'[j] = IF j = i THEN late ELSE inv[j]
      /\ inv' \in [Invitations -> Invitation \cup {NoOne}]
  BY <1>1, <1>2, <1>3
<1>5. InvitationsKept
  BY <1>1, <1>2, <1>4, EnrolmentAssumption DEF InvitationsKept
<1>6. \A j \in Invitations : inv'[j] # NoOne /\ inv'[j].status = "CONSUMED" =>
        <<inv'[j].fleet, inv'[j].driver>> \in agreed'
  BY <1>1, <1>2, <1>4, EnrolmentAssumption DEF ExpireInvitation, Acquainted
<1>7. \A e \in Drivers : consent[e].at = "granted" => inv'[consent[e].inv].status # "REVOKED"
  BY <1>2, <1>4 DEF Consenting
<1>8. /\ review' \in [Drivers -> [Kinds -> Fleets \cup {"none", "own"}]]
      /\ \A e \in Drivers : review'[e]["association"] # "own"
      /\ agreed \subseteq agreed' /\ agreed' \subseteq Fleets \X Drivers
  BY DEF EnrolmentTypeOK, ExpireInvitation
<1> QED
  BY <1>5, <1>6, <1>7, <1>8, InvitationStep DEF ExpireInvitation

\* A code or a consent is used up: the driver agreed to the fleet of the invitation.
LEMMA Consumed ==
  ASSUME EnrolmentInv, NEW i \in Invitations, inv[i] # NoOne, inv[i].status # "REVOKED",
         inv' = [inv EXCEPT ![i].status = "CONSUMED"],
         agreed' = agreed \cup {<<inv[i].fleet, inv[i].driver>>}
  PROVE  /\ InvitationsKept
         /\ \A j \in Invitations : inv'[j] # NoOne /\ inv'[j].status = "CONSUMED" =>
              <<inv'[j].fleet, inv'[j].driver>> \in agreed'
         /\ \A e \in Drivers : consent[e].at = "granted" => inv'[consent[e].inv].status # "REVOKED"
         /\ agreed \subseteq agreed' /\ agreed' \subseteq Fleets \X Drivers
<1> USE EnrolmentParts
<1>1. inv \in [Invitations -> Invitation \cup {NoOne}] /\ inv[i] \in Invitation
  BY DEF EnrolmentTypeOK
<1> DEFINE used == [inv[i] EXCEPT !.status = "CONSUMED"]
<1>2. /\ used \in Invitation /\ used.fleet = inv[i].fleet /\ used.driver = inv[i].driver
      /\ used.status = "CONSUMED"
  BY <1>1 DEF Invitation
<1>3. inv' = [inv EXCEPT ![i] = used]
  OBVIOUS
<1> HIDE DEF used
<1>4. /\ \A j \in Invitations : inv'[j] = IF j = i THEN used ELSE inv[j]
      /\ inv' \in [Invitations -> Invitation \cup {NoOne}]
  BY <1>1, <1>2, <1>3
<1>5. inv[i].status \in {"ACTIVE", "CONSUMED"} /\ inv[i].fleet \in Fleets /\ inv[i].driver \in Drivers
  BY <1>1 DEF Invitation
<1>6. InvitationsKept
  BY <1>1, <1>2, <1>4, <1>5, EnrolmentAssumption DEF InvitationsKept
<1>7. \A j \in Invitations : inv'[j] # NoOne /\ inv'[j].status = "CONSUMED" =>
        <<inv'[j].fleet, inv'[j].driver>> \in agreed'
  BY <1>2, <1>4 DEF Acquainted
<1>8. \A e \in Drivers : consent[e].at = "granted" => inv'[consent[e].inv].status # "REVOKED"
  BY <1>2, <1>4 DEF Consenting
<1> QED
  BY <1>5, <1>6, <1>7, <1>8 DEF EnrolmentTypeOK

LEMMA VerifyCodeStep ==
  ASSUME EnrolmentInv, NEW i \in Invitations, inv[i] # NoOne, VerifyCode(i)
  PROVE  EnrolmentInv' /\ EnrolmentStep
<1>1. /\ inv[i].status # "REVOKED" /\ inv' = [inv EXCEPT ![i].status = "CONSUMED"]
      /\ agreed' = agreed \cup {<<inv[i].fleet, inv[i].driver>>}
  BY DEF VerifyCode, Open
<1>2. /\ review' \in [Drivers -> [Kinds -> Fleets \cup {"none", "own"}]]
      /\ \A e \in Drivers : review'[e]["association"] # "own"
  BY EnrolmentParts DEF EnrolmentTypeOK, VerifyCode
<1> QED
  BY <1>1, <1>2, Consumed, InvitationStep DEF VerifyCode

-----------------------------------------------------------------------------
(* A driver's consent. *)

ConsentRow == [at : {"idle", "advised", "granted"}, inv : Invitations \cup {NoOne}]

LEMMA ConsentStep ==
  ASSUME EnrolmentInv, NEW d \in Drivers, NEW row \in ConsentRow,
         consent' = [consent EXCEPT ![d] = row],
         row.at # "idle" =>
           /\ row.inv \in Invitations /\ inv[row.inv] # NoOne /\ inv[row.inv].driver = d
           /\ row.at = "granted" => Has(d) /\ inv[row.inv].status # "REVOKED"
           /\ \A f \in Fleets : enrolling[f].driver = d => enrolling[f].at \notin {"advised", "allowed"},
         UNCHANGED <<candidate, inv, managed, member, approved, review, writer, agreed, enrolling>>
  PROVE  EnrolmentInv' /\ EnrolmentStep
<1> USE EnrolmentParts
<1>1. consent \in [Drivers -> ConsentRow]
  BY DEF EnrolmentTypeOK, ConsentRow
<1>2. consent' \in [Drivers -> ConsentRow] /\ \A e \in Drivers : consent'[e] = IF e = d THEN row ELSE consent[e]
  BY <1>1
<1>3. EnrolmentTypeOK'
  BY <1>2 DEF EnrolmentTypeOK, ConsentRow
<1>4. Consenting'
  BY <1>2 DEF Consenting, Has
<1>5. Acquainted' /\ DriverIsTheirs' /\ OneHolder' /\ WriterIsTheManager'
  BY DEF Acquainted, DriverIsTheirs, OneHolder, WriterIsTheManager, Has
<1>6. EnrolmentStep
  BY DEF EnrolmentStep
<1> QED
  BY <1>3, <1>4, <1>5, <1>6 DEF EnrolmentInv

LEMMA BeginConsentStep ==
  ASSUME EnrolmentInv, NEW i \in Invitations, inv[i] # NoOne, BeginConsent(i)
  PROVE  EnrolmentInv' /\ EnrolmentStep
<1> DEFINE d == inv[i].driver
           row == [at |-> "advised", inv |-> i]
<1>1. inv[i] \in Invitation
  BY EnrolmentParts DEF EnrolmentTypeOK
<1>2. d \in Drivers
  BY <1>1 DEF Invitation
<1>3. row \in ConsentRow /\ row.at = "advised" /\ row.inv = i
  BY DEF ConsentRow
<1>4. consent' = [consent EXCEPT ![d] = row]
  BY DEF BeginConsent
<1>5. \A f \in Fleets : enrolling[f].driver = d => enrolling[f].at \notin {"advised", "allowed"}
  BY DEF BeginConsent, AdviceLocked
<1>6. inv[i].driver = d
  OBVIOUS
<1> HIDE DEF d, row
<1> QED
  BY <1>2, <1>3, <1>4, <1>5, <1>6, ConsentStep DEF BeginConsent

LEMMA GrantConsentStep ==
  ASSUME EnrolmentInv, NEW d \in Drivers, GrantConsent(d)
  PROVE  EnrolmentInv' /\ EnrolmentStep
<1> USE EnrolmentParts
<1> DEFINE i == consent[d].inv
           row == IF Open(i) /\ IsDriver(d) /\ Unclaimed(inv[i].fleet, d)
                  THEN [at |-> "granted", inv |-> i] ELSE NoConsent
<1>1. /\ i \in Invitations /\ inv[i] # NoOne /\ inv[i].driver = d
      /\ \A f \in Fleets : enrolling[f].driver = d => enrolling[f].at \notin {"advised", "allowed"}
  BY DEF GrantConsent, Consenting
<1>2. row \in ConsentRow
  BY <1>1 DEF ConsentRow, NoConsent
<1>3. row.at # "idle" => row.inv = i /\ Open(i) /\ IsDriver(d)
  BY DEF NoConsent
<1>4. consent' = [consent EXCEPT ![d] = row]
  BY DEF GrantConsent
<1> HIDE DEF i, row
<1>5. row.at # "idle" => Has(d) /\ inv[i].status # "REVOKED"
  BY <1>3 DEF Open, IsDriver
<1>6. row.at # "idle" =>
        /\ row.inv \in Invitations /\ inv[row.inv] # NoOne /\ inv[row.inv].driver = d
        /\ row.at = "granted" => Has(d) /\ inv[row.inv].status # "REVOKED"
        /\ \A f \in Fleets : enrolling[f].driver = d => enrolling[f].at \notin {"advised", "allowed"}
  BY <1>1, <1>3, <1>5
<1>7. UNCHANGED <<candidate, inv, managed, member, approved, review, writer, agreed, enrolling>>
  BY DEF GrantConsent
<1> QED
  BY <1>2, <1>4, <1>6, <1>7, ConsentStep

LEMMA FailConsentStep ==
  ASSUME EnrolmentInv, NEW d \in Drivers, FailConsent(d)
  PROVE  EnrolmentInv' /\ EnrolmentStep
<1>1. NoConsent \in ConsentRow /\ NoConsent.at = "idle"
  BY DEF ConsentRow, NoConsent
<1> QED
  BY <1>1, ConsentStep DEF FailConsent

LEMMA CommitConsentStep ==
  ASSUME EnrolmentInv, NEW d \in Drivers, CommitConsent(d)
  PROVE  EnrolmentInv' /\ EnrolmentStep
<1> USE EnrolmentParts
<1> DEFINE i == consent[d].inv
           f == inv[i].fleet
           row == [fleet |-> f, active |-> TRUE]
<1>1. /\ consent[d].at = "granted" /\ i \in Invitations /\ inv[i] # NoOne /\ inv[i].driver = d
      /\ Has(d) /\ inv[i].status # "REVOKED"
      /\ \A g \in Fleets : enrolling[g].driver = d => enrolling[g].at \notin {"advised", "allowed"}
  BY DEF CommitConsent, Consenting
<1>2. /\ inv' = [inv EXCEPT ![i].status = "CONSUMED"]
      /\ agreed' = agreed \cup {<<f, d>>}
      /\ consent' = [consent EXCEPT ![d] = NoConsent]
      /\ managed' = [managed EXCEPT ![d] = IF managed[d] = NoOne THEN row ELSE managed[d]]
  BY DEF CommitConsent, Manage, EnrolmentTypeOK
<1>3. f \in Fleets
  BY <1>1 DEF EnrolmentTypeOK, Invitation
<1>4. row \in Management /\ row.fleet = f
  BY <1>3 DEF Management
<1>5. managed \in [Drivers -> Management \cup {NoOne}]
  BY DEF EnrolmentTypeOK
<1>6. consent \in [Drivers -> ConsentRow] /\ NoConsent \in ConsentRow
  BY DEF EnrolmentTypeOK, ConsentRow, NoConsent
<1>7. /\ InvitationsKept
      /\ \A j \in Invitations : inv'[j] # NoOne /\ inv'[j].status = "CONSUMED" =>
           <<inv'[j].fleet, inv'[j].driver>> \in agreed'
      /\ \A e \in Drivers : consent[e].at = "granted" => inv'[consent[e].inv].status # "REVOKED"
      /\ agreed \subseteq agreed' /\ agreed' \subseteq Fleets \X Drivers
  <2>1. agreed' = agreed \cup {<<inv[i].fleet, inv[i].driver>>}
    BY <1>1, <1>2
  <2> HIDE DEF i, f, row
  <2> QED
    BY <1>1, <1>2, <2>1, Consumed
<1> HIDE DEF i, f, row
<1>8. /\ managed' \in [Drivers -> Management \cup {NoOne}]
      /\ \A e \in Drivers : managed'[e] = IF e = d /\ managed[d] = NoOne THEN row ELSE managed[e]
  BY <1>2, <1>4, <1>5
<1>9. /\ consent' \in [Drivers -> ConsentRow]
      /\ \A e \in Drivers : consent'[e].at # "idle" => e # d /\ consent'[e] = consent[e]
  BY <1>2, <1>6 DEF NoConsent
<1>10. EnrolmentTypeOK'
  BY <1>7, <1>8, <1>9 DEF EnrolmentTypeOK, InvitationsKept, ConsentRow, CommitConsent
<1>11. Acquainted'
  <2>1. ASSUME NEW e \in Drivers, managed'[e] # NoOne
        PROVE  Has(e)' /\ <<managed'[e].fleet, e>> \in agreed'
    <3>1. CASE e = d /\ managed[d] = NoOne
      BY <3>1, <1>1, <1>2, <1>4, <1>8 DEF Has, CommitConsent
    <3>2. CASE ~(e = d /\ managed[d] = NoOne)
      BY <3>2, <2>1, <1>7, <1>8 DEF Acquainted, Has, CommitConsent
    <3> QED
      BY <3>1, <3>2
  <2> QED
    BY <2>1, <1>7 DEF Acquainted, CommitConsent
<1>12. Consenting'
  BY <1>7, <1>9 DEF Consenting, InvitationsKept, Has, CommitConsent
<1>13. ASSUME NEW g \in Fleets, enrolling[g].at # "idle", NEW e, e = enrolling[g].driver
       PROVE  /\ e \in Drivers /\ Has(e)
              /\ enrolling[g].at = "allowed" =>
                   (managed'[e] = NoOne \/ managed'[e].fleet = g) /\ <<g, e>> \in agreed
              /\ enrolling[g].at = "authorized" => managed'[e] # NoOne /\ managed'[e].fleet = g
  <2>1. /\ e \in Drivers /\ Has(e)
        /\ enrolling[g].at = "allowed" =>
             (managed[e] = NoOne \/ managed[e].fleet = g) /\ <<g, e>> \in agreed
        /\ enrolling[g].at = "authorized" => managed[e] # NoOne /\ managed[e].fleet = g
    BY <1>13 DEF DriverIsTheirs
  <2>2. enrolling[g].at \in {"allowed", "authorized"} => managed'[e] = managed[e]
    BY <1>1, <1>8, <1>13, <2>1
  <2> QED
    BY <2>1, <2>2
<1>14. UNCHANGED <<candidate, enrolling>> /\ agreed \subseteq agreed'
  BY <1>7 DEF CommitConsent
<1>15. DriverIsTheirs'
  BY <1>13, <1>14 DEF DriverIsTheirs, Has
<1>16. OneHolder'
  BY DEF OneHolder, CommitConsent
<1>17. WriterIsTheManager'
  BY <1>7, <1>8 DEF WriterIsTheManager, CommitConsent
<1>18. EnrolmentStep
  BY <1>7, <1>8 DEF EnrolmentStep, InvitationsKept, CommitConsent
<1> QED
  BY <1>10, <1>11, <1>12, <1>15, <1>16, <1>17, <1>18 DEF EnrolmentInv

-----------------------------------------------------------------------------
(* A fleet's transactions. *)

LEMMA ProvisionStep ==
  ASSUME EnrolmentInv, NEW f \in Fleets, NEW d \in Drivers, Provision(f, d)
  PROVE  EnrolmentInv' /\ EnrolmentStep
<1> USE EnrolmentParts
<1> DEFINE born == [role |-> "driver", pending |-> FALSE]
           row == [fleet |-> f, active |-> TRUE]
<1>1. born \in Candidate /\ row \in Management /\ row.fleet = f
  BY DEF Candidate, Roles, Management
<1>2. candidate[d] = NoOne /\ managed[d] = NoOne
  BY DEF Provision, Has, Acquainted
<1>3. /\ candidate' = [candidate EXCEPT ![d] = born]
      /\ managed' = [managed EXCEPT ![d] = row]
      /\ writer' = [writer EXCEPT ![d] = f]
      /\ agreed' = agreed \cup {<<f, d>>}
  BY DEF Provision
<1> HIDE DEF born, row
<1>4. /\ candidate \in [Drivers -> Candidate \cup {NoOne}]
      /\ managed \in [Drivers -> Management \cup {NoOne}]
      /\ writer \in [Drivers -> Fleets \cup {NoOne}]
  BY DEF EnrolmentTypeOK
<1>5. /\ candidate' \in [Drivers -> Candidate \cup {NoOne}]
      /\ managed' \in [Drivers -> Management \cup {NoOne}]
      /\ writer' \in [Drivers -> Fleets \cup {NoOne}]
      /\ \A e \in Drivers : /\ managed'[e] = IF e = d THEN row ELSE managed[e]
                            /\ writer'[e] = IF e = d THEN f ELSE writer[e]
                            /\ candidate'[e] = IF e = d THEN born ELSE candidate[e]
  BY <1>1, <1>3, <1>4
<1>6. \A e \in Drivers : Has(e) => Has(e)' /\ e # d
  BY <1>2, <1>5 DEF Has
<1>7. EnrolmentTypeOK'
  BY <1>3, <1>5 DEF EnrolmentTypeOK, Provision
<1>8. Acquainted'
  <2>1. ASSUME NEW e \in Drivers, managed'[e] # NoOne
        PROVE  Has(e)' /\ <<managed'[e].fleet, e>> \in agreed'
    <3>1. CASE e = d
      BY <3>1, <1>1, <1>3, <1>5, EnrolmentAssumption DEF Has
    <3>2. CASE e # d
      BY <3>2, <2>1, <1>3, <1>5, <1>6 DEF Acquainted
    <3> QED
      BY <3>1, <3>2
  <2> QED
    BY <2>1, <1>3 DEF Acquainted, Provision
<1>9. Consenting'
  BY <1>6 DEF Consenting, Provision
<1>10. DriverIsTheirs'
  BY <1>3, <1>5, <1>6 DEF DriverIsTheirs, Provision
<1>11. OneHolder'
  BY DEF OneHolder, Provision
<1>12. WriterIsTheManager'
  BY <1>1, <1>3, <1>5, EnrolmentAssumption DEF WriterIsTheManager
<1>13. EnrolmentStep
  BY <1>2, <1>5 DEF EnrolmentStep, Provision
<1> QED
  BY <1>7, <1>8, <1>9, <1>10, <1>11, <1>12, <1>13 DEF EnrolmentInv

\* A transaction moves on: what it may rely on at its next step, and whom it must not meet.
LEMMA WorkStep ==
  ASSUME EnrolmentInv, NEW f \in Fleets, NEW d \in Drivers, NEW at \in Stages \ {"idle"}, Work(f, at, d),
         Has(d),
         at = "allowed" => (managed[d] = NoOne \/ managed[d].fleet = f) /\ <<f, d>> \in agreed,
         at = "authorized" => managed[d] # NoOne /\ managed[d].fleet = f,
         at \in {"advised", "allowed"} => consent[d].at = "idle",
         at \in {"user", "advised", "allowed"} =>
           \A g \in Fleets \ {f} : enrolling[g].at \in {"user", "advised", "allowed"} =>
             enrolling[g].driver # d,
         UNCHANGED <<candidate, inv, managed, member, approved, review, writer, agreed, consent>>
  PROVE  EnrolmentInv' /\ EnrolmentStep
<1> USE EnrolmentParts
<1> DEFINE row == [at |-> at, driver |-> d]
<1>1. row \in [at : Stages, driver : Drivers \cup {NoOne}] /\ row.at = at /\ row.driver = d
  OBVIOUS
<1>2. enrolling \in [Fleets -> [at : Stages, driver : Drivers \cup {NoOne}]]
  BY DEF EnrolmentTypeOK, Stages
<1>3. enrolling' = [enrolling EXCEPT ![f] = row]
  BY DEF Work
<1> HIDE DEF row
<1>4. /\ enrolling' \in [Fleets -> [at : Stages, driver : Drivers \cup {NoOne}]]
      /\ \A g \in Fleets : enrolling'[g] = IF g = f THEN row ELSE enrolling[g]
  BY <1>1, <1>2, <1>3
<1>5. EnrolmentTypeOK'
  BY <1>4 DEF EnrolmentTypeOK, Stages
<1>6. Acquainted' /\ WriterIsTheManager'
  BY DEF Acquainted, WriterIsTheManager, Has
<1>7. Consenting'
  BY <1>1, <1>4 DEF Consenting, Has
<1>8. DriverIsTheirs'
  BY <1>1, <1>4 DEF DriverIsTheirs, Has
<1>9. OneHolder'
  BY <1>1, <1>4 DEF OneHolder
<1>10. EnrolmentStep
  BY DEF EnrolmentStep
<1> QED
  BY <1>5, <1>6, <1>7, <1>8, <1>9, <1>10 DEF EnrolmentInv

LEMMA LockCandidateStep ==
  ASSUME EnrolmentInv, NEW f \in Fleets, NEW d \in Drivers, LockCandidate(f, d)
  PROVE  EnrolmentInv' /\ EnrolmentStep
<1>1. Has(d) /\ \A g \in Fleets : enrolling[g].at \in {"user", "advised", "allowed"} => enrolling[g].driver # d
  BY DEF LockCandidate, IsDriver, UserLocked
<1> QED
  BY <1>1, WorkStep DEF LockCandidate, Stages

LEMMA LockAdviceStep ==
  ASSUME EnrolmentInv, NEW f \in Fleets, LockAdvice(f)
  PROVE  EnrolmentInv' /\ EnrolmentStep
<1> USE EnrolmentParts
<1>1. PICK d : d = enrolling[f].driver
  OBVIOUS
<1>2. d \in Drivers /\ Has(d)
  BY <1>1 DEF LockAdvice, DriverIsTheirs
<1>3. consent[d].at = "idle"
  BY <1>1 DEF LockAdvice, AdviceLocked
<1>4. \A g \in Fleets \ {f} : enrolling[g].at \in {"user", "advised", "allowed"} => enrolling[g].driver # d
  BY <1>1 DEF LockAdvice, OneHolder
<1> QED
  BY <1>1, <1>2, <1>3, <1>4, WorkStep DEF LockAdvice, Stages

LEMMA PermittedWasAgreed ==
  ASSUME EnrolmentInv, NEW f \in Fleets, NEW d \in Drivers, Permitted(f, d)
  PROVE  <<f, d>> \in agreed
<1> USE EnrolmentParts
<1>1. CASE Manages(f, d)
  BY <1>1 DEF Manages, Acquainted
<1>2. CASE <<f, d>> \in member
  BY <1>2 DEF Acquainted
<1>3. CASE \E i \in Invitations : /\ inv[i] # NoOne /\ inv[i].status = "CONSUMED"
                                 /\ inv[i].fleet = f /\ inv[i].driver = d
  BY <1>3 DEF Acquainted
<1> QED
  BY <1>1, <1>2, <1>3 DEF Permitted

LEMMA CheckConsentStep ==
  ASSUME EnrolmentInv, NEW f \in Fleets, CheckConsent(f)
  PROVE  EnrolmentInv' /\ EnrolmentStep
<1> USE EnrolmentParts
<1>1. PICK d : d = enrolling[f].driver
  OBVIOUS
<1>2. d \in Drivers /\ Has(d) /\ enrolling[f].at = "advised"
  BY <1>1 DEF CheckConsent, DriverIsTheirs
<1>3. CASE Permitted(f, d) /\ Unclaimed(f, d)
  <2>1. Work(f, "allowed", d)
    BY <1>1, <1>3 DEF CheckConsent
  <2>2. managed[d] = NoOne \/ managed[d].fleet = f
    BY <1>3 DEF Unclaimed, Manages
  <2>3. consent[d].at = "idle"
    BY <1>1, <1>2 DEF Consenting
  <2>4. \A g \in Fleets \ {f} : enrolling[g].at \in {"user", "advised", "allowed"} => enrolling[g].driver # d
    BY <1>1, <1>2 DEF OneHolder
  <2> QED
    BY <1>2, <1>3, <2>1, <2>2, <2>3, <2>4, PermittedWasAgreed, WorkStep DEF CheckConsent, Stages
<1>4. CASE ~(Permitted(f, d) /\ Unclaimed(f, d))
  <2>1. EndJob(f)
    BY <1>1, <1>4 DEF CheckConsent
  <2> QED
    BY <2>1, OneJobEnds DEF CheckConsent
<1> QED
  BY <1>3, <1>4

LEMMA AuthorizeStep ==
  ASSUME EnrolmentInv, NEW f \in Fleets, NEW d \in Drivers, Authorize(f, d)
  PROVE  EnrolmentInv' /\ EnrolmentStep
<1>1. Has(d) /\ managed[d] # NoOne /\ managed[d].fleet = f
  BY DEF Authorize, Manages
<1> QED
  BY <1>1, WorkStep DEF Authorize, Stages

\* A save: the writer is the fleet the transaction found entitled, and nobody managed the
\* driver in the meantime.
LEMMA SaveStep ==
  ASSUME EnrolmentInv, NEW f \in Fleets, NEW d \in Drivers, d = enrolling[f].driver,
         enrolling[f].at # "idle", EndJob(f), writer' = [writer EXCEPT ![d] = f],
         \/ enrolling[f].at = "allowed" /\ managed' = Manage(f, d)
         \/ enrolling[f].at = "authorized" /\ managed' = managed,
         UNCHANGED <<candidate, inv, member, approved, review, agreed, consent>>
  PROVE  EnrolmentInv' /\ EnrolmentStep
<1> USE EnrolmentParts
<1> DEFINE row == [fleet |-> f, active |-> TRUE]
<1>1. Has(d) /\ (managed[d] = NoOne \/ managed[d].fleet = f) /\ <<f, d>> \in agreed
  BY DEF DriverIsTheirs, Acquainted
<1>2. row \in Management /\ row.fleet = f
  BY DEF Management
<1>3. /\ managed \in [Drivers -> Management \cup {NoOne}]
      /\ writer \in [Drivers -> Fleets \cup {NoOne}]
  BY DEF EnrolmentTypeOK
<1>4. /\ managed' \in [Drivers -> Management \cup {NoOne}]
      /\ \A e \in Drivers : managed'[e] = IF e = d /\ managed[d] = NoOne THEN row ELSE managed[e]
  <2>1. CASE enrolling[f].at = "allowed"
    <3>1. managed' = [managed EXCEPT ![d] = IF managed[d] = NoOne THEN row ELSE managed[d]]
      BY <2>1, <1>3 DEF Manage
    <3> QED
      BY <1>2, <1>3, <3>1
  <2>2. CASE enrolling[f].at = "authorized"
    <3>1. managed[d] # NoOne /\ managed' = managed
      BY <2>2 DEF DriverIsTheirs
    <3> QED
      BY <1>3, <3>1
  <2> QED
    BY <2>1, <2>2
<1> HIDE DEF row
<1>5. /\ writer' \in [Drivers -> Fleets \cup {NoOne}]
      /\ \A e \in Drivers : writer'[e] = IF e = d THEN f ELSE writer[e]
  BY <1>3
<1>6. SomeJobsEnd
  BY JobEnds
<1>7. EnrolmentTypeOK'
  BY <1>4, <1>5, <1>6 DEF EnrolmentTypeOK, SomeJobsEnd, Stages
<1>8. \A g \in Fleets : enrolling'[g].at # "idle" => enrolling'[g] = enrolling[g] /\ g # f
  BY <1>6, JobEnds DEF SomeJobsEnd, NoJob
<1>9. \A e \in Drivers : managed'[e] # NoOne => Has(e) /\ <<managed'[e].fleet, e>> \in agreed
  BY <1>1, <1>2, <1>4 DEF Acquainted
<1>10. Acquainted'
  BY <1>9 DEF Acquainted, Has
<1>11. Consenting'
  BY <1>8 DEF Consenting, Has
<1>12. ASSUME NEW g \in Fleets, enrolling'[g].at # "idle", NEW e, e = enrolling[g].driver
       PROVE  /\ e \in Drivers /\ Has(e)
              /\ enrolling[g].at = "allowed" =>
                   (managed'[e] = NoOne \/ managed'[e].fleet = g) /\ <<g, e>> \in agreed
              /\ enrolling[g].at = "authorized" => managed'[e] # NoOne /\ managed'[e].fleet = g
  <2>1. enrolling[g] = enrolling'[g] /\ g # f
    BY <1>8, <1>12
  <2>2. e \in Drivers /\ Has(e)
    BY <2>1, <1>12 DEF DriverIsTheirs
  <2>3. CASE managed'[e] = managed[e]
    BY <1>12, <2>1, <2>2, <2>3 DEF DriverIsTheirs
  <2>4. CASE managed'[e] # managed[e]
    <3>1. e = d /\ managed[d] = NoOne /\ enrolling[f].at = "allowed"
      BY <2>2, <2>4, <1>4
    <3>2. enrolling[g].at # "allowed"
      BY <3>1, <2>1, <1>12 DEF OneHolder
    <3>3. enrolling[g].at # "authorized"
      BY <3>1, <2>1, <1>12 DEF DriverIsTheirs
    <3> QED
      BY <2>2, <3>2, <3>3
  <2> QED
    BY <2>3, <2>4
<1>13. DriverIsTheirs'
  BY <1>8, <1>12 DEF DriverIsTheirs, Has
<1>14. OneHolder'
  BY <1>8 DEF OneHolder
<1>15. WriterIsTheManager'
  BY <1>1, <1>2, <1>4, <1>5, EnrolmentAssumption DEF WriterIsTheManager
<1>16. EnrolmentStep
  BY <1>4 DEF EnrolmentStep
<1> QED
  BY <1>7, <1>10, <1>11, <1>13, <1>14, <1>15, <1>16 DEF EnrolmentInv

LEMMA SaveManagedStep ==
  ASSUME EnrolmentInv, NEW f \in Fleets, SaveManaged(f)
  PROVE  EnrolmentInv' /\ EnrolmentStep
<1>1. PICK d : d = enrolling[f].driver
  OBVIOUS
<1>2. d \in Drivers
  BY <1>1, EnrolmentParts DEF SaveManaged, DriverIsTheirs
<1> QED
  BY <1>1, <1>2, SaveStep DEF SaveManaged

LEMMA SaveEditStep ==
  ASSUME EnrolmentInv, NEW f \in Fleets, SaveEdit(f)
  PROVE  EnrolmentInv' /\ EnrolmentStep
<1>1. PICK d : d = enrolling[f].driver
  OBVIOUS
<1>2. d \in Drivers
  BY <1>1, EnrolmentParts DEF SaveEdit, DriverIsTheirs
<1> QED
  BY <1>1, <1>2, SaveStep DEF SaveEdit

LEMMA SubmitManagedStep ==
  ASSUME EnrolmentInv, NEW f \in Fleets, SubmitManaged(f)
  PROVE  EnrolmentInv' /\ EnrolmentStep
<1> USE EnrolmentParts
<1>1. PICK d : d = enrolling[f].driver
  OBVIOUS
<1>2. d \in Drivers
  BY <1>1 DEF SubmitManaged, DriverIsTheirs
<1>3. PICK k \in Kinds : k = IF d \in approved THEN "association" ELSE "verification"
  BY DEF Kinds
<1>4. EnrolmentTypeOK /\ SomeJobsEnd
  BY JobEnds DEF SubmitManaged
<1>5. /\ review' \in [Drivers -> [Kinds -> Fleets \cup {"none", "own"}]]
      /\ \A e \in Drivers : review'[e]["association"] # "own"
      /\ \A e \in Drivers, h \in Kinds : review[e][h] \in Fleets => review'[e][h] \in {review[e][h], "none"}
  <2>1. CASE review' = review
    BY <1>4, <2>1, SameReviews
  <2>2. CASE review' = [review EXCEPT ![d][k] = f] /\ MayTake(f, d, k)
    <3>1. f # "own" /\ review[d][k] \in {"none", "own", f}
      BY <2>2, EnrolmentAssumption DEF MayTake
    <3> QED
      BY <1>2, <1>4, <2>2, <3>1, OneReview
  <2> QED
    BY <1>1, <1>3, <2>1, <2>2 DEF SubmitManaged
<1>6. approved' \subseteq Drivers /\ member' \subseteq agreed' /\ agreed \subseteq agreed'
      /\ agreed' \subseteq Fleets \X Drivers
  BY DEF SubmitManaged, EnrolmentTypeOK, Acquainted
<1> QED
  BY <1>4, <1>5, <1>6, ReviewStep DEF SubmitManaged

LEMMA DeactivateMembershipStep ==
  ASSUME EnrolmentInv, NEW f \in Fleets, NEW d \in Drivers, DeactivateMembership(f, d)
  PROVE  EnrolmentInv' /\ EnrolmentStep
<1> USE EnrolmentParts
<1>1. managed \in [Drivers -> Management \cup {NoOne}]
  BY DEF EnrolmentTypeOK
<1>2. /\ managed' \in [Drivers -> Management \cup {NoOne}]
      /\ \A e \in Drivers :
           /\ managed[e] = NoOne <=> managed'[e] = NoOne
           /\ managed'[e] \in {managed[e], [managed[e] EXCEPT !.active = FALSE]}
           /\ managed[e] # NoOne => managed'[e].fleet = managed[e].fleet
  <2>1. CASE Manages(f, d)
    <3> DEFINE row == [managed[d] EXCEPT !.active = FALSE]
    <3>1. managed[d] \in Management /\ managed[d] # NoOne
      BY <1>1, <2>1 DEF Manages
    <3>2. row \in Management /\ row.fleet = managed[d].fleet
      BY <3>1 DEF Management
    <3>3. managed' = [managed EXCEPT ![d] = row]
      BY <2>1 DEF DeactivateMembership
    <3>4. \A e \in Drivers : managed'[e] = IF e = d THEN row ELSE managed[e]
      BY <1>1, <3>3
    <3>5. managed' \in [Drivers -> Management \cup {NoOne}]
      BY <1>1, <3>2, <3>3
    <3> QED
      BY <3>1, <3>2, <3>4, <3>5, EnrolmentAssumption
  <2>2. CASE managed' = managed
    BY <1>1, <2>2
  <2> QED
    BY <2>1, <2>2 DEF DeactivateMembership
<1>3. EnrolmentTypeOK'
  BY <1>2 DEF EnrolmentTypeOK, DeactivateMembership
<1>4. Acquainted'
  BY <1>2 DEF Acquainted, DeactivateMembership, Has
<1>5. Consenting'
  BY DEF Consenting, DeactivateMembership, Has
<1>6. DriverIsTheirs'
  BY <1>2 DEF DriverIsTheirs, DeactivateMembership, Has
<1>7. OneHolder'
  BY DEF OneHolder, DeactivateMembership
<1>8. WriterIsTheManager'
  BY <1>2 DEF WriterIsTheManager, DeactivateMembership
<1>9. EnrolmentStep
  BY <1>2 DEF EnrolmentStep, DeactivateMembership
<1> QED
  BY <1>3, <1>4, <1>5, <1>6, <1>7, <1>8, <1>9 DEF EnrolmentInv

-----------------------------------------------------------------------------
(* Every step keeps the invariant and what a step may never do. *)

LEMMA EnrolmentNextStep ==
  ASSUME EnrolmentInv, EnrolmentNext
  PROVE  EnrolmentInv' /\ EnrolmentStep
<1> DEFINE Kept == EnrolmentInv' /\ EnrolmentStep
<1>1. CASE \E d \in Drivers :
             \/ SignUp(d) \/ Upgrade(d) \/ \E r \in Roles : SelectRole(d, r)
             \/ GrantConsent(d) \/ CommitConsent(d) \/ FailConsent(d)
             \/ AskReview(d) \/ DecideVerification(d) \/ DecideAssociation(d)
  BY <1>1, SignUpStep, UpgradeStep, SelectRoleStep, GrantConsentStep, CommitConsentStep, FailConsentStep,
     AskReviewStep, DecideVerificationStep, DecideAssociationStep
<1>2. CASE \E i \in Invitations :
             \/ ExpireInvitation(i)
             \/ inv[i] # NoOne /\ (VerifyCode(i) \/ BeginConsent(i))
             \/ \E f \in Fleets, d \in Drivers : Invite(f, d, i)
  BY <1>2, ExpireInvitationStep, VerifyCodeStep, BeginConsentStep, InviteStep
<1>3. CASE \E f \in Fleets :
             \/ LockAdvice(f) \/ CheckConsent(f) \/ SaveManaged(f) \/ SaveEdit(f)
             \/ SubmitManaged(f) \/ FailJob(f)
             \/ \E d \in Drivers : \/ Provision(f, d) \/ LockCandidate(f, d)
                                   \/ Authorize(f, d) \/ DeactivateMembership(f, d)
  BY <1>3, LockAdviceStep, CheckConsentStep, SaveManagedStep, SaveEditStep, SubmitManagedStep, FailJobStep,
     ProvisionStep, LockCandidateStep, AuthorizeStep, DeactivateMembershipStep
<1> QED
  BY <1>1, <1>2, <1>3 DEF EnrolmentNext

LEMMA EnrolmentStutters ==
  ASSUME EnrolmentInv, UNCHANGED enrolmentVars
  PROVE  EnrolmentInv'
BY EnrolmentParts DEF enrolmentVars, EnrolmentInv, EnrolmentTypeOK, Acquainted, Consenting, DriverIsTheirs, OneHolder,
                      WriterIsTheManager, Has

LEMMA EnrolmentInvariance == EnrolmentSpec => []EnrolmentInv
<1>1. EnrolmentInv /\ [EnrolmentNext]_enrolmentVars => EnrolmentInv'
  BY EnrolmentNextStep, EnrolmentStutters
<1> QED
  BY <1>1, EnrolmentInitially, PTL DEF EnrolmentSpec

THEOREM EnrolmentTypeCorrect == EnrolmentSpec => []EnrolmentTypeOK
<1>1. EnrolmentInv => EnrolmentTypeOK
  BY DEF EnrolmentInv
<1> QED
  BY <1>1, EnrolmentInvariance, PTL

THEOREM WritersAlwaysManage == EnrolmentSpec => []WriterIsTheManager
<1>1. EnrolmentInv => WriterIsTheManager
  BY DEF EnrolmentInv
<1> QED
  BY <1>1, EnrolmentInvariance, PTL

THEOREM EnrolmentAlwaysHolds == EnrolmentSpec => EnrolmentHolds
<1>1. EnrolmentInv /\ [EnrolmentNext]_enrolmentVars => [EnrolmentStep]_enrolmentVars
  BY EnrolmentNextStep
<1> QED
  BY <1>1, EnrolmentInvariance, PTL DEF EnrolmentSpec, EnrolmentHolds

-----------------------------------------------------------------------------
(* One-time codes.  A session belongs to the request that had its code     *)
(* sent until its row is stored, then to whoever shows a usable row, and   *)
(* what is earned rests on a code that was spent.                          *)

\* A request in progress that names a session.
Knows(x, m) ==
  /\ call[x].at \in {"store", "judge", "finish", "remail", "recode", "extend"}
  /\ call[x].mail = m

SessionsKnown ==
  /\ \A m \in Mail : code[m] = NoRow => desk[m] = NoRow /\ granted[m] = 0 /\ misses[m] = 0
  /\ \A x \in Caller, m \in Mail : Knows(x, m) => code[m] # NoRow

StoringFresh ==
  \A x \in Caller : call[x].at = "store" =>
    /\ desk[call[x].mail] = NoRow /\ granted[call[x].mail] = 0
    /\ \A y \in Caller \ {x} : ~Knows(y, call[x].mail)

Earned ==
  \A m \in Mail :
    /\ granted[m] <= 1
    /\ granted[m] = 1 => code[m].spent
    /\ granted[m] = 1 /\ desk[m] # NoRow => desk[m].verified /\ desk[m].consumed
    /\ desk[m] # NoRow /\ desk[m].verified => code[m].spent

Finishing == \A x \in Caller : call[x].at = "finish" => code[call[x].mail].spent

MissesCounted == \A m \in Mail : code[m] # NoRow => misses[m] = code[m].wrong

\* A row that stands in the way of another of its use and contact.
Unanswered(r) ==
  \/ r.use = "signup"
  \/ r.use = "login" /\ ~r.consumed /\ ~r.verified
  \/ r.use = "reset" /\ ~r.consumed

OneEach ==
  \A m, n \in Mail :
    /\ desk[m] # NoRow /\ desk[n] # NoRow
    /\ desk[m].contact = desk[n].contact /\ desk[m].use = desk[n].use
    /\ Unanswered(desk[m]) /\ Unanswered(desk[n])
    => m = n

CodesInv ==
  /\ CodesTypeOK /\ OneAccountPerContact
  /\ SessionsKnown /\ StoringFresh /\ Earned /\ Finishing /\ MissesCounted /\ OneEach

LEMMA InitCodes == CodesInit => CodesInv
<1> SUFFICES ASSUME CodesInit PROVE CodesInv
  OBVIOUS
<1>1. Resting \in Phase /\ Resting.at = "rest"
  BY DEF Phase, Resting
<1>2. CodesTypeOK
  BY <1>1 DEF CodesInit, CodesTypeOK
<1>3. \A x \in Caller : call[x].at = "rest"
  BY <1>1 DEF CodesInit
<1>4. \A m \in Mail : desk[m] = NoRow /\ code[m] = NoRow /\ granted[m] = 0 /\ misses[m] = 0
  BY DEF CodesInit
<1>5. SessionsKnown /\ StoringFresh /\ Finishing
  BY <1>3, <1>4 DEF SessionsKnown, StoringFresh, Finishing, Knows
<1>6. Earned /\ MissesCounted /\ OneEach
  BY <1>4 DEF Earned, MissesCounted, OneEach
<1>7. OneAccountPerContact
  BY DEF CodesInit, OneAccountPerContact
<1> QED
  BY <1>2, <1>5, <1>6, <1>7 DEF CodesInv

-----------------------------------------------------------------------------
(* What the phase of a request says of it. *)

LEMMA CallKinds ==
  ASSUME CodesTypeOK, NEW x \in Caller
  PROVE  /\ call[x].at = "send" => call[x] \in Asking
         /\ call[x].at = "store" => call[x] \in Storing
         /\ call[x].at = "judge" => call[x] \in Judging
         /\ call[x].at \in {"finish", "remail", "extend"} => call[x] \in Working
         /\ call[x].at = "recode" => call[x] \in Recoding
<1>1. call[x] \in Phase
  BY DEF CodesTypeOK
<1>2. Resting.at = "rest"
  BY DEF Resting
<1>3. \A r \in Asking : r.at = "send"
  BY DEF Asking
<1>4. \A r \in Storing : r.at = "store"
  BY DEF Storing
<1>5. \A r \in Judging : r.at = "judge"
  BY DEF Judging
<1>6. \A r \in Working : r.at \in {"finish", "remail", "extend"}
  BY DEF Working
<1>7. \A r \in Recoding : r.at = "recode"
  BY DEF Recoding
<1> QED
  BY <1>1, <1>2, <1>3, <1>4, <1>5, <1>6, <1>7 DEF Phase

LEMMA KindFields ==
  /\ \A r \in Asking : r.use \in Use /\ r.contact \in Recipient
  /\ \A r \in Storing : r.use \in Use /\ r.contact \in Recipient /\ r.mail \in Mail
  /\ \A r \in Judging : r.use \in Use /\ r.mail \in Mail /\ r.guess \in 0..MaxCodes
  /\ \A r \in Working : r.use \in Use /\ r.mail \in Mail
  /\ \A r \in Recoding : r.use \in Use /\ r.mail \in Mail /\ r.new \in Code
BY DEF Asking, Storing, Judging, Working, Recoding

LEMMA RowFields ==
  /\ \A r \in Row : /\ r.use \in Use /\ r.contact \in Recipient /\ r.tries \in 0..MaxAttempts
                    /\ r.verified \in BOOLEAN /\ r.consumed \in BOOLEAN
                    /\ r.lapsed \in BOOLEAN /\ r.cooled \in BOOLEAN
  /\ \A s \in Sent : s.right \in Code /\ s.wrong \in 0..MaxAttempts /\ s.spent \in BOOLEAN
BY DEF Row, Sent

\* Where a request is said to be.
LEMMA Becoming ==
  ASSUME CodesTypeOK, NEW x \in Caller, NEW new, Becomes(x, new)
  PROVE  /\ call'[x] = new
         /\ \A y \in Caller \ {x} : call'[y] = call[y]
         /\ new \in Phase => call' \in [Caller -> Phase]
BY DEF Becomes, CodesTypeOK

LEMMA Ending ==
  ASSUME CodesTypeOK, NEW x \in Caller, Ends(x)
  PROVE  /\ call'[x].at = "rest"
         /\ \A y \in Caller \ {x} : call'[y] = call[y]
         /\ call' \in [Caller -> Phase]
<1>1. Becomes(x, Resting) /\ Resting \in Phase /\ Resting.at = "rest"
  BY DEF Ends, Resting, Phase
<1> QED
  BY <1>1, Becoming

-----------------------------------------------------------------------------
(* Steps that only let rows age or go, and requests start, go on or end.   *)

DeskAges ==
  \A m \in Mail :
    \/ desk'[m] = NoRow
    \/ /\ desk[m] # NoRow /\ desk'[m] # NoRow
       /\ desk'[m].use = desk[m].use /\ desk'[m].contact = desk[m].contact
       /\ desk'[m].verified = desk[m].verified /\ desk'[m].consumed = desk[m].consumed

CallsGoOn ==
  \A y \in Caller :
    /\ call'[y].at \in {"store", "finish"} => call'[y] = call[y]
    /\ \A m \in Mail : Knows(y, m)' => Knows(y, m) \/ desk[m] # NoRow

\* A row about to be stored stays the only business of its request.
LEMMA StillFresh ==
  ASSUME CodesInv,
         \A y \in Caller : call'[y].at = "store" => call'[y] = call[y],
         \A y \in Caller, n \in Mail : Knows(y, n)' => Knows(y, n) \/ desk[n] # NoRow,
         \A n \in Mail : desk[n] = NoRow => desk'[n] = NoRow /\ granted'[n] = granted[n]
  PROVE  StoringFresh'
<1> SUFFICES ASSUME NEW y \in Caller, call'[y].at = "store"
    PROVE  /\ desk'[call'[y].mail] = NoRow /\ granted'[call'[y].mail] = 0
           /\ \A z \in Caller \ {y} : ~Knows(z, call[y].mail)'
  BY DEF StoringFresh
<1>1. PICK k : k = call[y].mail
  OBVIOUS
<1>2. call'[y] = call[y] /\ k \in Mail
  BY <1>1, CallKinds, KindFields DEF CodesInv
<1>3. desk[k] = NoRow /\ granted[k] = 0 /\ \A z \in Caller \ {y} : ~Knows(z, k)
  BY <1>1, <1>2 DEF StoringFresh, CodesInv
<1>4. \A z \in Caller \ {y} : ~Knows(z, k)'
  BY <1>2, <1>3
<1>5. \A z \in Caller \ {y} : ~Knows(z, call[y].mail)'
  BY <1>1, <1>2, <1>4 DEF Knows
<1> QED
  BY <1>1, <1>2, <1>3, <1>5

LEMMA QuietStep ==
  ASSUME CodesInv, CodesTypeOK', OneAccountPerContact', DeskAges, CallsGoOn,
         UNCHANGED <<code, granted, misses>>
  PROVE  CodesInv'
<1> USE DEF CodesInv
<1>1. SessionsKnown'
  BY DEF SessionsKnown, DeskAges, CallsGoOn
<1>2. StoringFresh'
  BY StillFresh DEF DeskAges, CallsGoOn
<1>3. Earned'
  BY DEF Earned, DeskAges
<1>4. Finishing'
  BY DEF Finishing, CallsGoOn
<1>5. MissesCounted'
  BY DEF MissesCounted
<1>6. OneEach'
  <2> SUFFICES ASSUME NEW m \in Mail, NEW n \in Mail,
                      desk'[m] # NoRow, desk'[n] # NoRow,
                      desk'[m].contact = desk'[n].contact, desk'[m].use = desk'[n].use,
                      Unanswered(desk'[m]), Unanswered(desk'[n])
      PROVE  m = n
    BY DEF OneEach, Unanswered
  <2>1. /\ desk[m] # NoRow /\ desk[n] # NoRow
        /\ desk[m].contact = desk[n].contact /\ desk[m].use = desk[n].use
    BY DEF DeskAges
  <2>2. Unanswered(desk[m]) /\ Unanswered(desk[n])
    BY DEF DeskAges, Unanswered
  <2> QED
    BY <2>1, <2>2 DEF OneEach
<1> QED
  BY <1>1, <1>2, <1>3, <1>4, <1>5, <1>6

\* Nothing of the requests' sessions changes when one starts to ask, works on or ends.
LEMMA StartToAsk ==
  ASSUME CodesInv, NEW x \in Caller, NEW use \in Use, NEW c \in Recipient,
         Becomes(x, [at |-> "send", use |-> use, contact |-> c])
  PROVE  CallsGoOn /\ call' \in [Caller -> Phase]
<1> DEFINE new == [at |-> "send", use |-> use, contact |-> c]
<1>1. new \in Phase /\ new.at = "send"
  BY DEF Phase, Asking
<1> HIDE DEF new
<1>2. /\ call'[x].at = "send" /\ \A y \in Caller \ {x} : call'[y] = call[y]
      /\ call' \in [Caller -> Phase]
  BY <1>1, Becoming DEF CodesInv, new
<1> QED
  BY <1>2 DEF CallsGoOn, Knows

LEMMA EndQuietly ==
  ASSUME CodesInv, NEW x \in Caller, Ends(x)
  PROVE  CallsGoOn /\ call' \in [Caller -> Phase]
<1>1. /\ call'[x].at = "rest" /\ \A y \in Caller \ {x} : call'[y] = call[y]
      /\ call' \in [Caller -> Phase]
  BY Ending DEF CodesInv
<1> QED
  BY <1>1 DEF CallsGoOn, Knows

LEMMA WorkOn ==
  ASSUME CodesInv, NEW x \in Caller, NEW new \in Judging \cup Working \cup Recoding,
         new.at \in {"judge", "remail", "recode", "extend"},
         Knows(x, new.mail) \/ desk[new.mail] # NoRow,
         Becomes(x, new)
  PROVE  CallsGoOn /\ call' \in [Caller -> Phase]
<1>1. new \in Phase
  BY DEF Phase
<1>2. /\ call'[x] = new /\ \A y \in Caller \ {x} : call'[y] = call[y]
      /\ call' \in [Caller -> Phase]
  BY <1>1, Becoming DEF CodesInv
<1> QED
  BY <1>2 DEF CallsGoOn, Knows

\* A row with one column changed is a row still.
LEMMA AgedRow ==
  ASSUME CodesTypeOK, NEW m \in Mail, NEW r \in Row, desk[m] # NoRow,
         desk' = [desk EXCEPT ![m] = r],
         r.use = desk[m].use, r.contact = desk[m].contact,
         r.verified = desk[m].verified, r.consumed = desk[m].consumed
  PROVE  DeskAges /\ desk' \in [Mail -> Row \cup {NoRow}]
<1>1. r # NoRow
  BY CodesAssumption
<1>2. desk'[m] = r /\ \A n \in Mail \ {m} : desk'[n] = desk[n]
  BY DEF CodesTypeOK
<1> QED
  BY <1>1, <1>2 DEF DeskAges, CodesTypeOK

LEMMA SameDesk == UNCHANGED desk => DeskAges
BY DEF DeskAges

LEMMA QuietFromParts ==
  ASSUME CodesInv, DeskAges, CallsGoOn, call' \in [Caller -> Phase],
         desk' \in [Mail -> Row \cup {NoRow}], UNCHANGED <<accounts, code, granted, misses>>
  PROVE  CodesInv'
<1>1. CodesTypeOK' /\ OneAccountPerContact'
  BY DEF CodesInv, CodesTypeOK, OneAccountPerContact
<1> QED
  BY <1>1, QuietStep

LEMMA AskSignupStep ==
  ASSUME CodesInv, NEW x \in Caller, NEW c \in Recipient, AskSignup(x, c)
  PROVE  CodesInv'
<1>1. DeskAges
  BY DEF AskSignup, DeskAges
<1>2. desk' \in [Mail -> Row \cup {NoRow}]
  BY DEF AskSignup, CodesInv, CodesTypeOK
<1>3. CallsGoOn /\ call' \in [Caller -> Phase]
  BY StartToAsk DEF AskSignup, Use
<1> QED
  BY <1>1, <1>2, <1>3, QuietFromParts DEF AskSignup

LEMMA AskLoginStep ==
  ASSUME CodesInv, NEW x \in Caller, NEW c \in Recipient, AskLogin(x, c)
  PROVE  CodesInv'
<1>1. CallsGoOn /\ call' \in [Caller -> Phase]
  BY StartToAsk DEF AskLogin, Use
<1> QED
  BY <1>1, SameDesk, QuietFromParts DEF AskLogin, CodesInv, CodesTypeOK

LEMMA AskResetStep ==
  ASSUME CodesInv, NEW x \in Caller, NEW c \in Recipient, AskReset(x, c)
  PROVE  CodesInv'
<1>1. CallsGoOn /\ call' \in [Caller -> Phase]
  BY StartToAsk DEF AskReset, Use
<1> QED
  BY <1>1, SameDesk, QuietFromParts DEF AskReset, CodesInv, CodesTypeOK

LEMMA JudgeCall ==
  ASSUME CodesInv, NEW x \in Caller, NEW m \in Mail, NEW g \in 0..MaxCodes,
         desk[m] # NoRow, Judge(x, m, g)
  PROVE  CallsGoOn /\ call' \in [Caller -> Phase]
<1> DEFINE new == [at |-> "judge", use |-> desk[m].use, mail |-> m, guess |-> g]
<1>1. desk[m].use \in Use
  BY RowFields DEF CodesInv, CodesTypeOK
<1>2. new \in Judging /\ new.at = "judge" /\ new.mail = m
  BY <1>1 DEF Judging
<1>3. Becomes(x, new)
  BY DEF Judge
<1> HIDE DEF new
<1> QED
  BY <1>2, <1>3, WorkOn

LEMMA ClaimAttemptStep ==
  ASSUME CodesInv, NEW x \in Caller, NEW m \in Mail, NEW g \in 0..MaxCodes, NEW use \in Use,
         ClaimAttempt(x, m, g, use)
  PROVE  CodesInv'
<1> DEFINE r == [desk[m] EXCEPT !.tries = @ + 1]
<1>1. desk[m] # NoRow /\ desk[m] \in Row /\ desk[m].tries < MaxAttempts
  BY DEF ClaimAttempt, Usable, CodesInv, CodesTypeOK
<1>2. desk[m].tries + 1 \in 0..MaxAttempts
  BY <1>1, RowFields, CodesAssumption
<1>3. /\ r \in Row /\ r.use = desk[m].use /\ r.contact = desk[m].contact
      /\ r.verified = desk[m].verified /\ r.consumed = desk[m].consumed
  BY <1>1, <1>2 DEF Row
<1>4. desk' = [desk EXCEPT ![m] = r]
  BY DEF ClaimAttempt
<1> HIDE DEF r
<1>5. DeskAges /\ desk' \in [Mail -> Row \cup {NoRow}]
  BY <1>1, <1>3, <1>4, AgedRow DEF CodesInv
<1>6. CallsGoOn /\ call' \in [Caller -> Phase]
  BY <1>1, JudgeCall DEF ClaimAttempt
<1> QED
  BY <1>5, <1>6, QuietFromParts DEF ClaimAttempt

LEMMA GuessResetStep ==
  ASSUME CodesInv, NEW x \in Caller, NEW m \in Mail, NEW g \in 0..MaxCodes, GuessReset(x, m, g)
  PROVE  CodesInv'
<1>1. CallsGoOn /\ call' \in [Caller -> Phase]
  BY JudgeCall DEF GuessReset, Usable
<1> QED
  BY <1>1, SameDesk, QuietFromParts DEF GuessReset, CodesInv, CodesTypeOK

LEMMA ClaimResendStep ==
  ASSUME CodesInv, NEW x \in Caller, NEW m \in Mail, NEW use \in Use, ClaimResend(x, m, use)
  PROVE  CodesInv'
<1> DEFINE r == [desk[m] EXCEPT !.cooled = FALSE]
           new == [at |-> "remail", use |-> use, mail |-> m]
<1>1. desk[m] # NoRow /\ desk[m] \in Row
  BY DEF ClaimResend, Usable, CodesInv, CodesTypeOK
<1>2. /\ r \in Row /\ r.use = desk[m].use /\ r.contact = desk[m].contact
      /\ r.verified = desk[m].verified /\ r.consumed = desk[m].consumed
  BY <1>1 DEF Row
<1>3. desk' = [desk EXCEPT ![m] = r] /\ Becomes(x, new)
  BY DEF ClaimResend
<1>4. new \in Working /\ new.at = "remail" /\ new.mail = m
  BY DEF Working
<1> HIDE DEF r, new
<1>5. DeskAges /\ desk' \in [Mail -> Row \cup {NoRow}]
  BY <1>1, <1>2, <1>3, AgedRow DEF CodesInv
<1>6. CallsGoOn /\ call' \in [Caller -> Phase]
  BY <1>1, <1>3, <1>4, WorkOn
<1> QED
  BY <1>5, <1>6, QuietFromParts DEF ClaimResend

LEMMA RemailStep ==
  ASSUME CodesInv, NEW x \in Caller, Remail(x)
  PROVE  CodesInv'
<1>1. PICK m : m = call[x].mail
  OBVIOUS
<1>2. call[x] \in Working /\ call[x].at = "remail"
  BY CallKinds DEF Remail, CodesInv
<1>3. m \in Mail /\ call[x].use \in Use /\ Knows(x, m)
  BY <1>1, <1>2, KindFields DEF Knows
<1>4. code[m] # NoRow /\ code[m] \in Sent
  BY <1>3 DEF CodesInv, SessionsKnown, CodesTypeOK
<1>5. CallsGoOn /\ call' \in [Caller -> Phase]
  <2>1. CASE Judgeable(m) /\ code[m].right < MaxCodes
    <3> DEFINE new == [at |-> "recode", use |-> call[x].use, mail |-> m,
                       new |-> code[m].right + 1]
    <3>1. code[m].right + 1 \in Code
      BY <1>4, <2>1, RowFields, CodesAssumption DEF Code
    <3>2. new \in Recoding /\ new.at = "recode" /\ new.mail = m
      BY <1>3, <3>1 DEF Recoding
    <3>3. Becomes(x, new)
      BY <1>1, <2>1 DEF Remail
    <3> HIDE DEF new
    <3> QED
      BY <1>3, <3>2, <3>3, WorkOn
  <2>2. CASE ~(Judgeable(m) /\ code[m].right < MaxCodes)
    BY <1>1, <2>2, EndQuietly DEF Remail
  <2> QED
    BY <2>1, <2>2
<1> QED
  BY <1>5, SameDesk, QuietFromParts DEF Remail, CodesInv, CodesTypeOK

LEMMA ExtendSignupStep ==
  ASSUME CodesInv, NEW x \in Caller, ExtendSignup(x)
  PROVE  CodesInv'
<1>1. PICK m : m = call[x].mail
  OBVIOUS
<1>2. m \in Mail
  BY <1>1, CallKinds, KindFields DEF ExtendSignup, CodesInv
<1>3. DeskAges /\ desk' \in [Mail -> Row \cup {NoRow}]
  <2>1. CASE desk[m] # NoRow /\ ~desk[m].verified
    <3> DEFINE r == [desk[m] EXCEPT !.lapsed = FALSE]
    <3>1. desk[m] \in Row
      BY <1>2, <2>1 DEF CodesInv, CodesTypeOK
    <3>2. /\ r \in Row /\ r.use = desk[m].use /\ r.contact = desk[m].contact
          /\ r.verified = desk[m].verified /\ r.consumed = desk[m].consumed
      BY <3>1 DEF Row
    <3>3. desk' = [desk EXCEPT ![m] = r]
      BY <1>1, <2>1 DEF ExtendSignup
    <3> HIDE DEF r
    <3> QED
      BY <1>2, <2>1, <3>2, <3>3, AgedRow DEF CodesInv
  <2>2. CASE ~(desk[m] # NoRow /\ ~desk[m].verified)
    BY <1>1, <2>2, SameDesk DEF ExtendSignup, CodesInv, CodesTypeOK
  <2> QED
    BY <2>1, <2>2
<1>4. CallsGoOn /\ call' \in [Caller -> Phase]
  BY EndQuietly DEF ExtendSignup
<1> QED
  BY <1>3, <1>4, QuietFromParts DEF ExtendSignup

LEMMA EndStep ==
  ASSUME CodesInv, NEW x \in Caller, ExtendLogin(x) \/ CutOff(x)
  PROVE  CodesInv'
<1>1. Ends(x) /\ UNCHANGED <<accounts, desk, code, granted, misses>>
  BY DEF ExtendLogin, CutOff
<1>2. CallsGoOn /\ call' \in [Caller -> Phase]
  BY <1>1, EndQuietly
<1> QED
  BY <1>1, <1>2, SameDesk, QuietFromParts DEF CodesInv, CodesTypeOK

LEMMA TimeStep ==
  ASSUME CodesInv, NEW m \in Mail, RowLapses(m) \/ CooldownPasses(m)
  PROVE  CodesInv'
<1>1. desk[m] # NoRow /\ desk[m] \in Row
  BY DEF RowLapses, CooldownPasses, CodesInv, CodesTypeOK
<1>2. PICK r \in Row : /\ desk' = [desk EXCEPT ![m] = r]
                       /\ r.use = desk[m].use /\ r.contact = desk[m].contact
                       /\ r.verified = desk[m].verified /\ r.consumed = desk[m].consumed
  <2>1. CASE RowLapses(m)
    <3>1. /\ [desk[m] EXCEPT !.lapsed = TRUE] \in Row
          /\ [desk[m] EXCEPT !.lapsed = TRUE].use = desk[m].use
          /\ [desk[m] EXCEPT !.lapsed = TRUE].contact = desk[m].contact
          /\ [desk[m] EXCEPT !.lapsed = TRUE].verified = desk[m].verified
          /\ [desk[m] EXCEPT !.lapsed = TRUE].consumed = desk[m].consumed
      BY <1>1 DEF Row
    <3>2. desk' = [desk EXCEPT ![m] = [desk[m] EXCEPT !.lapsed = TRUE]]
      BY <2>1 DEF RowLapses
    <3> QED
      BY <3>1, <3>2
  <2>2. CASE CooldownPasses(m)
    <3>1. /\ [desk[m] EXCEPT !.cooled = TRUE] \in Row
          /\ [desk[m] EXCEPT !.cooled = TRUE].use = desk[m].use
          /\ [desk[m] EXCEPT !.cooled = TRUE].contact = desk[m].contact
          /\ [desk[m] EXCEPT !.cooled = TRUE].verified = desk[m].verified
          /\ [desk[m] EXCEPT !.cooled = TRUE].consumed = desk[m].consumed
      BY <1>1 DEF Row
    <3>2. desk' = [desk EXCEPT ![m] = [desk[m] EXCEPT !.cooled = TRUE]]
      BY <2>2 DEF CooldownPasses
    <3> QED
      BY <3>1, <3>2
  <2> QED
    BY <2>1, <2>2
<1>3. DeskAges /\ desk' \in [Mail -> Row \cup {NoRow}]
  BY <1>1, <1>2, AgedRow DEF CodesInv
<1>4. UNCHANGED <<accounts, code, call, granted, misses>>
  BY DEF RowLapses, CooldownPasses
<1>5. CallsGoOn /\ call' \in [Caller -> Phase]
  BY <1>4 DEF CallsGoOn, Knows, CodesInv, CodesTypeOK
<1> QED
  BY <1>3, <1>4, <1>5, QuietFromParts

LEMMA RecipientStep ==
  ASSUME CodesInv, NEW c \in Recipient, GoogleResolve(c) \/ AccountDeleted(c)
  PROVE  CodesInv'
<1>1. UNCHANGED <<desk, code, call, granted, misses>>
  BY DEF GoogleResolve, AccountDeleted
<1>2. PICK k \in 0..1 : accounts' = [accounts EXCEPT ![c] = k]
  BY DEF GoogleResolve, AccountDeleted, CodesInv, CodesTypeOK, OneAccountPerContact
<1>3. accounts' \in [Recipient -> 0..2] /\ \A d \in Recipient : accounts'[d] <= 1
  BY <1>2 DEF CodesInv, CodesTypeOK, OneAccountPerContact
<1>4. CodesTypeOK' /\ OneAccountPerContact'
  BY <1>1, <1>3 DEF CodesInv, CodesTypeOK, OneAccountPerContact
<1>5. DeskAges /\ CallsGoOn
  BY <1>1 DEF DeskAges, CallsGoOn, Knows
<1> QED
  BY <1>1, <1>4, <1>5, QuietStep

-----------------------------------------------------------------------------
(* A code is sent and its row stored.                                      *)

LEMMA SendEmailOtpStep ==
  ASSUME CodesInv, NEW x \in Caller, NEW m \in Mail, SendEmailOtp(x, m)
  PROVE  CodesInv'
<1> USE DEF CodesInv
<1> DEFINE s == [right |-> 1, wrong |-> 0, spent |-> FALSE]
           new == [at |-> "store", use |-> call[x].use, contact |-> call[x].contact, mail |-> m]
<1>1. call[x].use \in Use /\ call[x].contact \in Recipient
  BY CallKinds, KindFields DEF SendEmailOtp
<1>2. new \in Phase /\ new.at = "store" /\ new.mail = m
  BY <1>1 DEF Phase, Storing
<1>3. s \in Sent /\ s # NoRow /\ s.wrong = 0
  <2>1. 1 \in Code /\ 0 \in 0..MaxAttempts
    BY CodesAssumption DEF Code
  <2>2. s \in Sent /\ s.wrong = 0
    BY <2>1 DEF Sent
  <2> HIDE DEF s
  <2> QED
    BY <2>2, CodesAssumption
<1>4. /\ code[m] = NoRow /\ code' = [code EXCEPT ![m] = s] /\ Becomes(x, new)
      /\ \A y \in Caller : call[y].at = "store" => call[y].mail # m
      /\ UNCHANGED <<accounts, desk, granted, misses>>
  BY DEF SendEmailOtp
<1> HIDE DEF s, new
<1>5. /\ call'[x] = new /\ \A y \in Caller \ {x} : call'[y] = call[y]
      /\ call' \in [Caller -> Phase]
  BY <1>2, <1>4, Becoming
<1>6. code'[m] = s /\ \A n \in Mail \ {m} : code'[n] = code[n]
  BY <1>4 DEF CodesTypeOK
<1>7. CodesTypeOK' /\ OneAccountPerContact'
  BY <1>3, <1>4, <1>5 DEF CodesTypeOK, OneAccountPerContact
<1>8. desk[m] = NoRow /\ granted[m] = 0 /\ misses[m] = 0 /\ \A y \in Caller : ~Knows(y, m)
  BY <1>4 DEF SessionsKnown
<1>9. \A y \in Caller, n \in Mail : Knows(y, n)' => Knows(y, n) \/ (y = x /\ n = m)
  BY <1>2, <1>5 DEF Knows
<1>10. SessionsKnown'
  BY <1>3, <1>4, <1>6, <1>9 DEF SessionsKnown
<1>11. StoringFresh'
  <2> SUFFICES ASSUME NEW y \in Caller, call'[y].at = "store"
      PROVE  /\ desk'[call'[y].mail] = NoRow /\ granted'[call'[y].mail] = 0
             /\ \A z \in Caller \ {y} : ~Knows(z, call[y].mail)'
    BY DEF StoringFresh
  <2>1. PICK k : k = call'[y].mail
    OBVIOUS
  <2>2. /\ k \in Mail /\ desk[k] = NoRow /\ granted[k] = 0
        /\ \A z \in Caller \ {y} : ~Knows(z, k)'
    <3>1. CASE y = x
      BY <1>2, <1>5, <1>8, <1>9, <2>1, <3>1
    <3>2. CASE y # x
      <4>1. call'[y] = call[y]
        BY <1>5, <3>2
      <4>2. k \in Mail /\ k # m
        BY <1>4, <2>1, <4>1, CallKinds, KindFields
      <4>3. desk[k] = NoRow /\ granted[k] = 0 /\ \A z \in Caller \ {y} : ~Knows(z, k)
        BY <2>1, <4>1 DEF StoringFresh
      <4> QED
        BY <1>9, <4>2, <4>3
    <3> QED
      BY <3>1, <3>2
  <2>3. \A z \in Caller \ {y} : ~Knows(z, call[y].mail)'
    BY <2>1, <2>2 DEF Knows
  <2> QED
    BY <1>4, <2>1, <2>2, <2>3
<1>12. Earned'
  BY <1>4, <1>6, <1>8 DEF Earned
<1>13. Finishing'
  <2> SUFFICES ASSUME NEW y \in Caller, call'[y].at = "finish"
      PROVE  code'[call'[y].mail].spent
    BY DEF Finishing
  <2>1. y # x /\ call'[y] = call[y]
    BY <1>2, <1>5
  <2>2. call[y].mail \in Mail /\ Knows(y, call[y].mail)
    BY <2>1, CallKinds, KindFields DEF Knows
  <2>3. call[y].mail # m
    BY <1>8, <2>2
  <2> QED
    BY <1>6, <2>1, <2>2, <2>3 DEF Finishing
<1>14. MissesCounted'
  BY <1>3, <1>4, <1>6, <1>8 DEF MissesCounted
<1>15. OneEach'
  BY <1>4 DEF OneEach, Unanswered
<1> QED
  BY <1>7, <1>10, <1>11, <1>12, <1>13, <1>14, <1>15

\* A row is stored over those it removes, when it meets none that is open.
LEMMA StoreRow ==
  ASSUME CodesInv, NEW x \in Caller, call[x].at = "store",
         NEW m, NEW c, NEW use, m = call[x].mail, c = call[x].contact, use = call[x].use,
         NEW removed,
         \A n \in Mail \ removed :
           desk[n] # NoRow /\ desk[n].contact = c /\ desk[n].use = use => ~Unanswered(desk[n]),
         Put(m, NewRow(use, c), removed), Ends(x), UNCHANGED <<accounts, code, granted, misses>>
  PROVE  CodesInv'
<1> USE DEF CodesInv
<1>1. m \in Mail /\ c \in Recipient /\ use \in Use
  BY CallKinds, KindFields
<1>2. PICK r : r = NewRow(use, c)
  OBVIOUS
<1>3. /\ r \in Row /\ r # NoRow
      /\ r.contact = c /\ r.use = use /\ ~r.verified /\ ~r.consumed
  <2>1. 0 \in 0..MaxAttempts
    BY CodesAssumption
  <2>2. /\ r \in Row /\ r.contact = c /\ r.use = use /\ ~r.verified /\ ~r.consumed
    BY <1>1, <1>2, <2>1 DEF NewRow, Row
  <2> QED
    BY <2>2, CodesAssumption
<1>4. desk'[m] = r /\ \A n \in Mail \ {m} : desk'[n] = IF n \in removed THEN NoRow ELSE desk[n]
  BY <1>1, <1>2 DEF Put
<1>5. desk' \in [Mail -> Row \cup {NoRow}]
  BY <1>2, <1>3 DEF Put, CodesTypeOK
<1>6. /\ call'[x].at = "rest" /\ \A y \in Caller \ {x} : call'[y] = call[y]
      /\ call' \in [Caller -> Phase]
  BY Ending
<1>7. CodesTypeOK' /\ OneAccountPerContact'
  BY <1>5, <1>6 DEF CodesTypeOK, OneAccountPerContact
<1>8. Knows(x, m) /\ \A y \in Caller, n \in Mail : Knows(y, n)' => Knows(y, n) /\ y # x
  BY <1>6 DEF Knows
<1>9. granted[m] = 0 /\ \A y \in Caller \ {x} : ~Knows(y, m)
  BY DEF StoringFresh
<1>10. SessionsKnown'
  BY <1>1, <1>4, <1>8 DEF SessionsKnown
<1>11. StoringFresh'
  <2> SUFFICES ASSUME NEW y \in Caller, call'[y].at = "store"
      PROVE  /\ desk'[call'[y].mail] = NoRow /\ granted'[call'[y].mail] = 0
             /\ \A z \in Caller \ {y} : ~Knows(z, call[y].mail)'
    BY DEF StoringFresh
  <2>1. PICK k : k = call'[y].mail
    OBVIOUS
  <2>2. y # x /\ call'[y] = call[y]
    BY <1>6
  <2>3. k \in Mail /\ Knows(y, k)
    BY <2>1, <2>2, CallKinds, KindFields DEF Knows
  <2>4. k # m
    BY <1>9, <2>2, <2>3
  <2>5. desk[k] = NoRow /\ granted[k] = 0 /\ \A z \in Caller \ {y} : ~Knows(z, k)
    BY <2>1, <2>2 DEF StoringFresh
  <2>6. \A z \in Caller \ {y} : ~Knows(z, k)'
    BY <1>8, <2>3, <2>5
  <2>7. \A z \in Caller \ {y} : ~Knows(z, call[y].mail)'
    BY <2>1, <2>6 DEF Knows
  <2> QED
    BY <1>4, <2>1, <2>3, <2>4, <2>5, <2>7
<1>12. Earned'
  BY <1>3, <1>4, <1>9 DEF Earned
<1>13. Finishing'
  BY <1>6 DEF Finishing
<1>14. MissesCounted'
  BY DEF MissesCounted
<1>15. OneEach'
  <2> SUFFICES ASSUME NEW a \in Mail, NEW b \in Mail, desk'[a] # NoRow, desk'[b] # NoRow,
                      desk'[a].contact = desk'[b].contact, desk'[a].use = desk'[b].use,
                      Unanswered(desk'[a]), Unanswered(desk'[b])
      PROVE  a = b
    BY DEF OneEach, Unanswered
  <2>1. \A n \in Mail \ {m} : desk'[n] # NoRow => desk'[n] = desk[n] /\ n \notin removed
    BY <1>4
  <2>2. \A n \in Mail \ {m} : desk'[n] # NoRow /\ desk'[n].contact = c /\ desk'[n].use = use
                              => ~Unanswered(desk'[n])
    BY <2>1
  <2>3. CASE a = m \/ b = m
    BY <1>3, <1>4, <2>2, <2>3
  <2>4. CASE a # m /\ b # m
    BY <2>1, <2>4 DEF OneEach
  <2> QED
    BY <2>3, <2>4
<1> QED
  BY <1>7, <1>10, <1>11, <1>12, <1>13, <1>14, <1>15

\* A request that only ends.
LEMMA EndOnly ==
  ASSUME CodesInv, NEW x \in Caller, Ends(x), UNCHANGED <<accounts, desk, code, granted, misses>>
  PROVE  CodesInv'
<1>1. CallsGoOn /\ call' \in [Caller -> Phase]
  BY EndQuietly
<1> QED
  BY <1>1, SameDesk, QuietFromParts DEF CodesInv, CodesTypeOK

LEMMA StoreSignupStep ==
  ASSUME CodesInv, NEW x \in Caller, StoreSignup(x)
  PROVE  CodesInv'
<1>1. PICK m : m = call[x].mail
  OBVIOUS
<1>2. PICK c : c = call[x].contact
  OBVIOUS
<1>3. CASE Stored("signup", c) = {}
  <2>1. \A n \in Mail \ {} :
          desk[n] # NoRow /\ desk[n].contact = c /\ desk[n].use = "signup" => ~Unanswered(desk[n])
    BY <1>3 DEF Stored
  <2>2. /\ call[x].at = "store" /\ call[x].use = "signup" /\ Ends(x)
        /\ Put(m, NewRow("signup", c), {}) /\ UNCHANGED <<accounts, code, granted, misses>>
    BY <1>1, <1>2, <1>3 DEF StoreSignup
  <2> QED
    BY <1>1, <1>2, <2>1, <2>2, StoreRow
<1>4. CASE Stored("signup", c) # {}
  BY <1>2, <1>4, EndOnly DEF StoreSignup
<1> QED
  BY <1>3, <1>4

LEMMA StoreLoginStep ==
  ASSUME CodesInv, NEW x \in Caller, StoreLogin(x)
  PROVE  CodesInv'
<1>1. PICK m : m = call[x].mail
  OBVIOUS
<1>2. PICK c : c = call[x].contact
  OBVIOUS
<1>3. PICK expired : expired = {n \in Pending("login", c) : desk[n].lapsed}
  OBVIOUS
<1>4. CASE Pending("login", c) = expired
  <2>1. \A n \in Mail \ expired :
          desk[n] # NoRow /\ desk[n].contact = c /\ desk[n].use = "login" => ~Unanswered(desk[n])
    BY <1>4 DEF Pending, Stored, Unanswered
  <2> QED
    BY <1>1, <1>2, <1>3, <1>4, <2>1, StoreRow DEF StoreLogin
<1>5. CASE Pending("login", c) # expired
  BY <1>2, <1>3, <1>5, EndOnly DEF StoreLogin
<1> QED
  BY <1>4, <1>5

LEMMA StoreResetStep ==
  ASSUME CodesInv, NEW x \in Caller, StoreReset(x)
  PROVE  CodesInv'
<1>1. PICK m : m = call[x].mail
  OBVIOUS
<1>2. PICK c : c = call[x].contact
  OBVIOUS
<1>3. PICK old : old = {n \in Stored("reset", c) : ~desk[n].consumed}
  OBVIOUS
<1>4. \A n \in Mail \ old :
        desk[n] # NoRow /\ desk[n].contact = c /\ desk[n].use = "reset" => ~Unanswered(desk[n])
  BY <1>3 DEF Stored, Unanswered
<1> QED
  BY <1>1, <1>2, <1>3, <1>4, StoreRow DEF StoreReset

-----------------------------------------------------------------------------
(* A code is judged, sent again, and what it proves is granted once.       *)

LEMMA ProviderVerifyStep ==
  ASSUME CodesInv, NEW x \in Caller, ProviderVerify(x)
  PROVE  CodesInv'
<1> USE DEF CodesInv
<1>1. PICK m : m = call[x].mail
  OBVIOUS
<1>2. call[x] \in Judging /\ call[x].at = "judge"
  BY CallKinds DEF ProviderVerify
<1>3. m \in Mail /\ call[x].use \in Use /\ Knows(x, m)
  BY <1>1, <1>2, KindFields DEF Knows
<1>4. code[m] # NoRow /\ code[m] \in Sent
  BY <1>3 DEF SessionsKnown, CodesTypeOK
<1>5. PICK right \in BOOLEAN : right = (call[x].guess = code[m].right)
  OBVIOUS
<1>6. UNCHANGED <<accounts, desk, granted>>
  BY DEF ProviderVerify
<1>7. CASE Judgeable(m) /\ right
  <2> DEFINE s == [code[m] EXCEPT !.spent = TRUE]
             new == [at |-> "finish", use |-> call[x].use, mail |-> m]
  <2>1. code' = [code EXCEPT ![m] = s] /\ Becomes(x, new) /\ UNCHANGED misses
    BY <1>1, <1>5, <1>7 DEF ProviderVerify
  <2>2. s \in Sent /\ s.wrong = code[m].wrong /\ s.spent
    BY <1>4 DEF Sent
  <2>3. new \in Phase /\ new.at = "finish" /\ new.mail = m
    BY <1>3 DEF Phase, Working
  <2> HIDE DEF s, new
  <2>4. /\ call'[x] = new /\ \A y \in Caller \ {x} : call'[y] = call[y]
        /\ call' \in [Caller -> Phase]
    BY <2>1, <2>3, Becoming
  <2>5. code'[m] = s /\ s # NoRow /\ \A n \in Mail \ {m} : code'[n] = code[n]
    BY <1>3, <2>1, <2>2, CodesAssumption DEF CodesTypeOK
  <2>6. CodesTypeOK' /\ OneAccountPerContact'
    BY <1>6, <2>1, <2>2, <2>4 DEF CodesTypeOK, OneAccountPerContact
  <2>7. \A y \in Caller, n \in Mail : Knows(y, n)' => Knows(y, n)
    BY <1>3, <2>3, <2>4 DEF Knows
  <2>8. \A y \in Caller : call'[y].at = "store" => call'[y] = call[y]
    BY <2>3, <2>4
  <2>9. SessionsKnown'
    BY <1>4, <1>6, <2>1, <2>5, <2>7 DEF SessionsKnown
  <2>10. StoringFresh'
    BY <1>6, <2>7, <2>8, StillFresh
  <2>11. Earned'
    BY <1>6, <2>2, <2>5 DEF Earned
  <2>12. Finishing'
    <3> SUFFICES ASSUME NEW y \in Caller, call'[y].at = "finish"
        PROVE  code'[call'[y].mail].spent
      BY DEF Finishing
    <3>1. CASE y = x
      BY <2>2, <2>3, <2>4, <2>5, <3>1
    <3>2. CASE y # x
      <4>1. call'[y] = call[y] /\ call[y].mail \in Mail
        BY <2>4, <3>2, CallKinds, KindFields
      <4> QED
        BY <2>2, <2>5, <4>1 DEF Finishing
    <3> QED
      BY <3>1, <3>2
  <2>13. MissesCounted'
    BY <1>3, <1>4, <2>1, <2>2, <2>5 DEF MissesCounted
  <2>14. OneEach'
    BY <1>6 DEF OneEach, Unanswered
  <2> QED
    BY <2>6, <2>9, <2>10, <2>11, <2>12, <2>13, <2>14
<1>8. CASE Judgeable(m) /\ ~right
  <2> DEFINE s == [code[m] EXCEPT !.wrong = @ + 1]
  <2>1. code' = [code EXCEPT ![m] = s] /\ misses' = [misses EXCEPT ![m] = @ + 1] /\ Ends(x)
    BY <1>1, <1>5, <1>8 DEF ProviderVerify
  <2>2. code[m].wrong \in 0..MaxAttempts /\ code[m].wrong < MaxAttempts /\ misses[m] \in Nat
    BY <1>3, <1>4, <1>8, RowFields DEF Judgeable, CodesTypeOK
  <2>3. code[m].wrong + 1 \in 0..MaxAttempts
    BY <2>2, CodesAssumption
  <2>4. s \in Sent /\ s.wrong = code[m].wrong + 1 /\ s.spent = code[m].spent
    BY <1>4, <2>3 DEF Sent
  <2> HIDE DEF s
  <2>5. /\ call'[x].at = "rest" /\ \A y \in Caller \ {x} : call'[y] = call[y]
        /\ call' \in [Caller -> Phase]
    BY <2>1, Ending
  <2>6. code'[m] = s /\ s # NoRow /\ \A n \in Mail \ {m} : code'[n] = code[n]
    BY <1>3, <2>1, <2>4, CodesAssumption DEF CodesTypeOK
  <2>7. misses'[m] = misses[m] + 1 /\ \A n \in Mail \ {m} : misses'[n] = misses[n]
    BY <1>3, <2>1 DEF CodesTypeOK
  <2>8. misses' \in [Mail -> Nat]
    <3>1. misses \in [Mail -> Nat]
      BY DEF CodesTypeOK
    <3>2. PICK k \in Nat : k = misses[m] + 1
      BY <2>2
    <3>3. misses' = [misses EXCEPT ![m] = k]
      BY <2>1, <3>2
    <3> QED
      BY <3>1, <3>2, <3>3
  <2>9. CodesTypeOK' /\ OneAccountPerContact'
    BY <1>6, <2>1, <2>4, <2>5, <2>8 DEF CodesTypeOK, OneAccountPerContact
  <2>10. \A y \in Caller, n \in Mail : Knows(y, n)' => Knows(y, n)
    BY <2>5 DEF Knows
  <2>11. SessionsKnown'
    BY <1>4, <1>6, <2>6, <2>7, <2>10 DEF SessionsKnown
  <2>12. StoringFresh'
    BY <1>6, <2>5, <2>10, StillFresh
  <2>13. Earned'
    BY <1>6, <2>4, <2>6 DEF Earned
  <2>14. Finishing'
    <3> SUFFICES ASSUME NEW y \in Caller, call'[y].at = "finish"
        PROVE  code'[call'[y].mail].spent
      BY DEF Finishing
    <3>1. call'[y] = call[y] /\ call[y].mail \in Mail
      BY <2>5, CallKinds, KindFields
    <3> QED
      BY <2>4, <2>6, <3>1 DEF Finishing
  <2>15. MissesCounted'
    BY <1>3, <1>4, <2>4, <2>6, <2>7 DEF MissesCounted
  <2>16. OneEach'
    BY <1>6 DEF OneEach, Unanswered
  <2> QED
    BY <2>9, <2>11, <2>12, <2>13, <2>14, <2>15, <2>16
<1>9. CASE ~Judgeable(m)
  BY <1>1, <1>6, <1>9, EndOnly DEF ProviderVerify
<1> QED
  BY <1>7, <1>8, <1>9

LEMMA RecodeStep ==
  ASSUME CodesInv, NEW x \in Caller, Recode(x)
  PROVE  CodesInv'
<1> USE DEF CodesInv
<1>1. PICK m : m = call[x].mail
  OBVIOUS
<1>2. call[x] \in Recoding /\ call[x].at = "recode"
  BY CallKinds DEF Recode
<1>3. m \in Mail /\ call[x].use \in Use /\ call[x].new \in Code /\ Knows(x, m)
  BY <1>1, <1>2, KindFields DEF Knows
<1>4. code[m] # NoRow /\ code[m] \in Sent
  BY <1>3 DEF SessionsKnown, CodesTypeOK
<1>5. UNCHANGED <<accounts, desk, granted, misses>>
  BY DEF Recode
<1>6. CASE Judgeable(m)
  <2> DEFINE s == [code[m] EXCEPT !.right = call[x].new]
             new == [at |-> "extend", use |-> call[x].use, mail |-> m]
  <2>1. code' = [code EXCEPT ![m] = s] /\ Becomes(x, new)
    BY <1>1, <1>6 DEF Recode
  <2>2. s \in Sent /\ s.wrong = code[m].wrong /\ s.spent = code[m].spent
    BY <1>3, <1>4 DEF Sent
  <2>3. new \in Phase /\ new.at = "extend" /\ new.mail = m
    BY <1>3 DEF Phase, Working
  <2> HIDE DEF s, new
  <2>4. /\ call'[x] = new /\ \A y \in Caller \ {x} : call'[y] = call[y]
        /\ call' \in [Caller -> Phase]
    BY <2>1, <2>3, Becoming
  <2>5. code'[m] = s /\ s # NoRow /\ \A n \in Mail \ {m} : code'[n] = code[n]
    BY <1>3, <2>1, <2>2, CodesAssumption DEF CodesTypeOK
  <2>6. CodesTypeOK' /\ OneAccountPerContact'
    BY <1>5, <2>1, <2>2, <2>4 DEF CodesTypeOK, OneAccountPerContact
  <2>7. \A y \in Caller, n \in Mail : Knows(y, n)' => Knows(y, n)
    BY <1>3, <2>3, <2>4 DEF Knows
  <2>8. SessionsKnown'
    BY <1>4, <1>5, <2>5, <2>7 DEF SessionsKnown
  <2>9. StoringFresh'
    BY <1>5, <2>3, <2>4, <2>7, StillFresh
  <2>10. Earned'
    BY <1>5, <2>2, <2>5 DEF Earned
  <2>11. Finishing'
    <3> SUFFICES ASSUME NEW y \in Caller, call'[y].at = "finish"
        PROVE  code'[call'[y].mail].spent
      BY DEF Finishing
    <3>1. call'[y] = call[y] /\ call[y].mail \in Mail
      BY <2>3, <2>4, CallKinds, KindFields
    <3> QED
      BY <2>2, <2>5, <3>1 DEF Finishing
  <2>12. MissesCounted'
    BY <1>3, <1>4, <1>5, <2>2, <2>5 DEF MissesCounted
  <2>13. OneEach'
    BY <1>5 DEF OneEach, Unanswered
  <2> QED
    BY <2>6, <2>8, <2>9, <2>10, <2>11, <2>12, <2>13
<1>7. CASE ~Judgeable(m)
  BY <1>1, <1>5, <1>7, EndOnly DEF Recode
<1> QED
  BY <1>6, <1>7

\* A row of a spent code earns once; then it is gone or done with.
LEMMA GrantStep ==
  ASSUME CodesInv, CodesTypeOK', OneAccountPerContact', NEW m \in Mail,
         desk[m] # NoRow, granted[m] # 1, code[m].spent, NEW r \in Row \cup {NoRow},
         r # NoRow => /\ r.use = desk[m].use /\ r.contact = desk[m].contact
                      /\ r.verified /\ r.consumed,
         desk' = [desk EXCEPT ![m] = r], granted' = [granted EXCEPT ![m] = @ + 1],
         UNCHANGED <<code, misses>>, CallsGoOn
  PROVE  CodesInv'
<1> USE DEF CodesInv
<1>1. granted[m] = 0
  BY DEF CodesTypeOK, Earned
<1>2. granted'[m] = 1 /\ \A n \in Mail \ {m} : granted'[n] = granted[n]
  BY <1>1 DEF CodesTypeOK
<1>3. desk'[m] = r /\ \A n \in Mail \ {m} : desk'[n] = desk[n]
  BY DEF CodesTypeOK
<1>4. SessionsKnown'
  BY <1>2, <1>3 DEF SessionsKnown, CallsGoOn
<1>5. StoringFresh'
  BY <1>2, <1>3, StillFresh DEF CallsGoOn
<1>6. Earned'
  BY <1>2, <1>3 DEF Earned
<1>7. Finishing'
  BY DEF Finishing, CallsGoOn
<1>8. MissesCounted'
  BY DEF MissesCounted
<1>9. OneEach'
  <2> SUFFICES ASSUME NEW a \in Mail, NEW b \in Mail, desk'[a] # NoRow, desk'[b] # NoRow,
                      desk'[a].contact = desk'[b].contact, desk'[a].use = desk'[b].use,
                      Unanswered(desk'[a]), Unanswered(desk'[b])
      PROVE  a = b
    BY DEF OneEach, Unanswered
  <2>1. \A n \in Mail : desk'[n] # NoRow =>
          /\ desk[n] # NoRow
          /\ desk'[n].contact = desk[n].contact /\ desk'[n].use = desk[n].use
    BY <1>3
  <2>2. \A n \in Mail : desk'[n] # NoRow /\ Unanswered(desk'[n]) => Unanswered(desk[n])
    BY <1>3 DEF Unanswered
  <2> QED
    BY <2>1, <2>2 DEF OneEach
<1> QED
  BY <1>4, <1>5, <1>6, <1>7, <1>8, <1>9

\* What a request that finishes finds.
LEMMA FinishingCall ==
  ASSUME CodesInv, NEW x \in Caller, call[x].at = "finish", NEW m, m = call[x].mail
  PROVE  m \in Mail /\ code[m].spent /\ (desk[m] # NoRow => desk[m] \in Row)
<1>1. m \in Mail
  BY CallKinds, KindFields DEF CodesInv
<1> QED
  BY <1>1 DEF CodesInv, Finishing, CodesTypeOK

LEMMA CompleteSignupStep ==
  ASSUME CodesInv, NEW x \in Caller, CompleteSignup(x)
  PROVE  CodesInv'
<1>1. PICK m : m = call[x].mail
  OBVIOUS
<1>2. m \in Mail /\ code[m].spent /\ (desk[m] # NoRow => desk[m] \in Row)
  BY <1>1, FinishingCall DEF CompleteSignup
<1>3. CallsGoOn /\ call' \in [Caller -> Phase]
  BY EndQuietly DEF CompleteSignup
<1>4. CASE /\ desk[m] # NoRow /\ ~desk[m].verified /\ ~desk[m].lapsed
           /\ accounts[desk[m].contact] = 0
  <2>1. PICK c \in Recipient : c = desk[m].contact
    BY <1>2, <1>4, RowFields
  <2>2. /\ accounts' = [accounts EXCEPT ![c] = @ + 1] /\ accounts[c] = 0
        /\ desk' = [desk EXCEPT ![m] = NoRow]
        /\ granted' = [granted EXCEPT ![m] = @ + 1]
        /\ UNCHANGED <<code, misses>>
    BY <1>1, <1>4, <2>1 DEF CompleteSignup
  <2>3. granted[m] # 1 /\ granted[m] \in 0..2
    BY <1>2, <1>4 DEF CodesInv, Earned, CodesTypeOK
  <2>4. /\ accounts' \in [Recipient -> 0..2] /\ \A d \in Recipient : accounts'[d] <= 1
    BY <2>2 DEF CodesInv, CodesTypeOK, OneAccountPerContact
  <2>5. granted' \in [Mail -> 0..2] /\ desk' \in [Mail -> Row \cup {NoRow}]
    <3>1. granted[m] + 1 \in 0..2
      BY <1>2, <2>3 DEF CodesInv, Earned
    <3> QED
      BY <2>2, <3>1 DEF CodesInv, CodesTypeOK
  <2>6. CodesTypeOK' /\ OneAccountPerContact'
    BY <1>3, <2>2, <2>4, <2>5 DEF CodesInv, CodesTypeOK, OneAccountPerContact
  <2> QED
    BY <1>2, <1>3, <1>4, <2>2, <2>3, <2>6, GrantStep
<1>5. CASE ~(/\ desk[m] # NoRow /\ ~desk[m].verified /\ ~desk[m].lapsed
             /\ accounts[desk[m].contact] = 0)
  BY <1>1, <1>5, EndOnly DEF CompleteSignup
<1> QED
  BY <1>4, <1>5

\* The types after a grant that keeps the row.
LEMMA GrantTypes ==
  ASSUME CodesInv, NEW m \in Mail, desk[m] # NoRow, granted[m] # 1, NEW r \in Row,
         desk' = [desk EXCEPT ![m] = r], granted' = [granted EXCEPT ![m] = @ + 1],
         call' \in [Caller -> Phase], UNCHANGED <<accounts, code, misses>>
  PROVE  CodesTypeOK' /\ OneAccountPerContact'
<1>1. granted[m] \in 0..2 /\ granted[m] <= 1
  BY DEF CodesInv, CodesTypeOK, Earned
<1>2. PICK k \in 0..2 : k = granted[m] + 1
  BY <1>1
<1>3. granted' \in [Mail -> 0..2] /\ desk' \in [Mail -> Row \cup {NoRow}]
  BY <1>2 DEF CodesInv, CodesTypeOK
<1> QED
  BY <1>3 DEF CodesInv, CodesTypeOK, OneAccountPerContact

LEMMA ConsumeLoginStep ==
  ASSUME CodesInv, NEW x \in Caller, ConsumeLogin(x)
  PROVE  CodesInv'
<1>1. PICK m : m = call[x].mail
  OBVIOUS
<1>2. m \in Mail /\ code[m].spent /\ (desk[m] # NoRow => desk[m] \in Row)
  BY <1>1, FinishingCall DEF ConsumeLogin
<1>3. CallsGoOn /\ call' \in [Caller -> Phase]
  BY EndQuietly DEF ConsumeLogin
<1>4. CASE Usable(m, "login") /\ accounts[desk[m].contact] > 0
  <2> DEFINE r == [desk[m] EXCEPT !.verified = TRUE, !.consumed = TRUE]
  <2>1. /\ desk' = [desk EXCEPT ![m] = r]
        /\ granted' = [granted EXCEPT ![m] = @ + 1]
        /\ UNCHANGED <<accounts, code, misses>>
    <3>1. desk' = [desk EXCEPT ![m].verified = TRUE, ![m].consumed = TRUE]
      BY <1>1, <1>4 DEF ConsumeLogin
    <3>2. desk' = [desk EXCEPT ![m] = r]
      BY <1>2, <3>1 DEF CodesInv, CodesTypeOK
    <3> QED
      BY <1>1, <1>4, <3>2 DEF ConsumeLogin
  <2>2. desk[m] # NoRow /\ desk[m] \in Row /\ granted[m] # 1
    BY <1>2, <1>4 DEF Usable, CodesInv, Earned
  <2>3. /\ r \in Row /\ r.use = desk[m].use /\ r.contact = desk[m].contact
        /\ r.verified /\ r.consumed
    BY <2>2 DEF Row
  <2> HIDE DEF r
  <2>4. CodesTypeOK' /\ OneAccountPerContact'
    BY <1>2, <1>3, <2>1, <2>2, <2>3, GrantTypes
  <2> QED
    BY <1>2, <1>3, <2>1, <2>2, <2>3, <2>4, GrantStep
<1>5. CASE ~(Usable(m, "login") /\ accounts[desk[m].contact] > 0)
  BY <1>1, <1>5, EndOnly DEF ConsumeLogin
<1> QED
  BY <1>4, <1>5

LEMMA ResetPasswordStep ==
  ASSUME CodesInv, NEW m \in Mail, ResetPassword(m)
  PROVE  CodesInv'
<1> DEFINE r == [desk[m] EXCEPT !.consumed = TRUE]
<1>1. /\ desk[m] # NoRow /\ desk[m] \in Row /\ desk[m].verified /\ granted[m] # 1
      /\ code[m].spent
  BY DEF ResetPassword, CodesInv, CodesTypeOK, Earned
<1>2. /\ desk' = [desk EXCEPT ![m] = r]
      /\ granted' = [granted EXCEPT ![m] = @ + 1]
      /\ UNCHANGED <<accounts, code, call, misses>>
  BY DEF ResetPassword
<1>3. /\ r \in Row /\ r.use = desk[m].use /\ r.contact = desk[m].contact
      /\ r.verified /\ r.consumed
  BY <1>1 DEF Row
<1> HIDE DEF r
<1>4. CallsGoOn /\ call' \in [Caller -> Phase]
  BY <1>2 DEF CallsGoOn, Knows, CodesInv, CodesTypeOK
<1>5. CodesTypeOK' /\ OneAccountPerContact'
  BY <1>1, <1>2, <1>3, <1>4, GrantTypes
<1> QED
  BY <1>1, <1>2, <1>3, <1>4, <1>5, GrantStep

LEMMA MarkVerifiedStep ==
  ASSUME CodesInv, NEW x \in Caller, MarkVerified(x)
  PROVE  CodesInv'
<1> USE DEF CodesInv
<1>1. PICK m : m = call[x].mail
  OBVIOUS
<1>2. m \in Mail /\ code[m].spent /\ (desk[m] # NoRow => desk[m] \in Row)
  BY <1>1, FinishingCall DEF MarkVerified
<1>3. CallsGoOn /\ call' \in [Caller -> Phase]
  BY EndQuietly DEF MarkVerified
<1>4. CASE Usable(m, "reset")
  <2> DEFINE r == [desk[m] EXCEPT !.verified = TRUE]
  <2>1. /\ desk' = [desk EXCEPT ![m] = r]
        /\ UNCHANGED <<accounts, code, granted, misses>>
    BY <1>1, <1>4 DEF MarkVerified
  <2>2. desk[m] # NoRow /\ desk[m] \in Row /\ ~desk[m].consumed
    BY <1>2, <1>4 DEF Usable
  <2>3. /\ r \in Row /\ r.use = desk[m].use /\ r.contact = desk[m].contact
        /\ r.verified /\ ~r.consumed
    BY <2>2 DEF Row
  <2> HIDE DEF r
  <2>4. /\ desk'[m] = r /\ r # NoRow /\ \A n \in Mail \ {m} : desk'[n] = desk[n]
        /\ desk' \in [Mail -> Row \cup {NoRow}]
    BY <1>2, <2>1, <2>3, CodesAssumption DEF CodesTypeOK
  <2>5. CodesTypeOK' /\ OneAccountPerContact'
    BY <1>3, <2>1, <2>4 DEF CodesTypeOK, OneAccountPerContact
  <2>6. SessionsKnown'
    BY <2>1, <2>2, <2>4, <1>3 DEF SessionsKnown, CallsGoOn
  <2>7. StoringFresh'
    BY <1>3, <2>1, <2>2, <2>4, StillFresh DEF CallsGoOn
  <2>8. granted[m] # 1
    BY <1>2, <2>2 DEF Earned
  <2>9. Earned'
    BY <1>2, <2>1, <2>4, <2>8 DEF Earned
  <2>10. Finishing'
    BY <1>3, <2>1 DEF Finishing, CallsGoOn
  <2>11. MissesCounted'
    BY <2>1 DEF MissesCounted
  <2>12. OneEach'
    <3> SUFFICES ASSUME NEW a \in Mail, NEW b \in Mail, desk'[a] # NoRow, desk'[b] # NoRow,
                        desk'[a].contact = desk'[b].contact, desk'[a].use = desk'[b].use,
                        Unanswered(desk'[a]), Unanswered(desk'[b])
        PROVE  a = b
      BY DEF OneEach, Unanswered
    <3>1. \A n \in Mail : desk'[n] # NoRow =>
            /\ desk[n] # NoRow
            /\ desk'[n].contact = desk[n].contact /\ desk'[n].use = desk[n].use
      BY <2>2, <2>3, <2>4
    <3>2. \A n \in Mail : desk'[n] # NoRow /\ Unanswered(desk'[n]) => Unanswered(desk[n])
      BY <2>2, <2>3, <2>4 DEF Unanswered
    <3> QED
      BY <3>1, <3>2 DEF OneEach
  <2> QED
    BY <2>5, <2>6, <2>7, <2>9, <2>10, <2>11, <2>12
<1>5. CASE ~Usable(m, "reset")
  BY <1>1, <1>5, EndOnly DEF MarkVerified
<1> QED
  BY <1>4, <1>5

-----------------------------------------------------------------------------
LEMMA NextCodes == CodesInv /\ CodesNext => CodesInv'
<1> SUFFICES ASSUME CodesInv, CodesNext PROVE CodesInv'
  OBVIOUS
<1>1. CASE \E x \in Caller, c \in Recipient : AskSignup(x, c) \/ AskLogin(x, c) \/ AskReset(x, c)
  BY <1>1, AskSignupStep, AskLoginStep, AskResetStep
<1>2. CASE \E x \in Caller, m \in Mail : SendEmailOtp(x, m) \/ ResendSignup(x, m) \/ ResendLogin(x, m)
  BY <1>2, SendEmailOtpStep, ClaimResendStep DEF ResendSignup, ResendLogin, Use
<1>3. CASE \E x \in Caller, m \in Mail, g \in 0..MaxCodes :
             GuessSignup(x, m, g) \/ GuessLogin(x, m, g) \/ GuessReset(x, m, g)
  BY <1>3, ClaimAttemptStep, GuessResetStep DEF GuessSignup, GuessLogin, Use
<1>4. CASE \E x \in Caller :
             \/ StoreSignup(x) \/ StoreLogin(x) \/ StoreReset(x)
             \/ ProviderVerify(x) \/ CompleteSignup(x) \/ ConsumeLogin(x) \/ MarkVerified(x)
             \/ Remail(x) \/ Recode(x) \/ ExtendSignup(x) \/ ExtendLogin(x) \/ CutOff(x)
  BY <1>4, StoreSignupStep, StoreLoginStep, StoreResetStep, ProviderVerifyStep, CompleteSignupStep,
     ConsumeLoginStep, MarkVerifiedStep, RemailStep, RecodeStep, ExtendSignupStep, EndStep
<1>5. CASE \E m \in Mail : ResetPassword(m) \/ RowLapses(m) \/ CooldownPasses(m)
  BY <1>5, ResetPasswordStep, TimeStep
<1>6. CASE \E c \in Recipient : GoogleResolve(c) \/ AccountDeleted(c)
  BY <1>6, RecipientStep
<1> QED
  BY <1>1, <1>2, <1>3, <1>4, <1>5, <1>6 DEF CodesNext

LEMMA StutterCodes == CodesInv /\ UNCHANGED codesVars => CodesInv'
<1> SUFFICES ASSUME CodesInv, UNCHANGED codesVars PROVE CodesInv'
  OBVIOUS
<1>1. UNCHANGED <<accounts, desk, code, call, granted, misses>>
  BY DEF codesVars
<1>2. CodesTypeOK' /\ OneAccountPerContact' /\ DeskAges /\ CallsGoOn
  BY <1>1 DEF CodesInv, CodesTypeOK, OneAccountPerContact, DeskAges, CallsGoOn, Knows
<1> QED
  BY <1>1, <1>2, QuietStep

\* What holds of one-time codes on the way to the properties below.
LEMMA CodesAlwaysInv == CodesSpec => []CodesInv
<1>1. CodesInv /\ [CodesNext]_codesVars => CodesInv'
  BY NextCodes, StutterCodes
<1> QED
  BY <1>1, InitCodes, PTL DEF CodesSpec

\* A set whose elements are all the same has at most one.
LEMMA OneAtMost ==
  ASSUME NEW S, \A a, b \in S : a = b
  PROVE  Cardinality(S) <= 1
<1>1. CASE S = {}
  BY <1>1, FS_EmptySet
<1>2. CASE S # {}
  <2>1. PICK a : S = {a}
    BY <1>2
  <2> QED
    BY <2>1, FS_Singleton
<1> QED
  BY <1>1, <1>2

LEMMA CodesInvIsSound == CodesInv => CodesAreSound
<1> SUFFICES ASSUME CodesInv PROVE CodesAreSound
  OBVIOUS
<1>1. OneAccountPerContact
  BY DEF CodesInv
<1>2. GrantsMatchCodes
  BY DEF CodesInv, Earned, GrantsMatchCodes
<1>3. OnePendingPerUse
  <2> SUFFICES ASSUME NEW c \in Recipient
      PROVE  /\ Cardinality(Stored("signup", c)) <= 1
             /\ Cardinality(Pending("login", c)) <= 1
             /\ Cardinality({m \in Stored("reset", c) : ~desk[m].consumed}) <= 1
    BY DEF OnePendingPerUse
  <2>1. \A a, b \in Stored("signup", c) : a = b
    BY DEF CodesInv, OneEach, Unanswered, Stored
  <2>2. \A a, b \in Pending("login", c) : a = b
    BY DEF CodesInv, OneEach, Unanswered, Stored, Pending
  <2>3. \A a, b \in {m \in Stored("reset", c) : ~desk[m].consumed} : a = b
    BY DEF CodesInv, OneEach, Unanswered, Stored
  <2> QED
    BY <2>1, <2>2, <2>3, OneAtMost
<1>4. GuessesAreBounded
  <2> SUFFICES ASSUME NEW m \in Mail PROVE misses[m] <= MaxAttempts
    BY DEF GuessesAreBounded
  <2>1. CASE code[m] = NoRow
    BY <2>1, CodesAssumption DEF CodesInv, SessionsKnown
  <2>2. CASE code[m] # NoRow
    <3>1. code[m] \in Sent /\ misses[m] = code[m].wrong
      BY <2>2 DEF CodesInv, CodesTypeOK, MissesCounted
    <3> QED
      BY <3>1, RowFields, CodesAssumption
  <2> QED
    BY <2>1, <2>2
<1> QED
  BY <1>1, <1>2, <1>3, <1>4 DEF CodesAreSound

\* Rows, sessions, requests and grants stay of their types: of
\* VerificationRepository, AccountRepository and the OTP provider.
THEOREM CodesTypeCorrect == CodesSpec => []CodesTypeOK
<1>1. CodesInv => CodesTypeOK
  BY DEF CodesInv
<1> QED
  BY <1>1, CodesAlwaysInv, PTL

\* However requests for codes, guesses, resends and Google sign-ins interleave
\* and wherever they are cut off, a contact has at most one account and one open
\* row of a use, a row earns at most once and only what its own session's code
\* proved, and no session is guessed wrong more often than it allows.
THEOREM CodesAlwaysSound == CodesSpec => []CodesAreSound
BY CodesAlwaysInv, CodesInvIsSound, PTL

-----------------------------------------------------------------------------
(* Deletion of records.  What a transaction decided stays true until it    *)
(* commits because of the rows it holds: of the target, of the actor, of   *)
(* the profile and of the rides it cancels.                                *)

\* The target's row is locked.
Deep == {"locked", "owned", "cancelled", "judged"}

Rested(x) ==
  /\ x.at = "idle" => x = NoDeletion
  /\ x.at # "idle" => x.actor \in Admins \cup {Boss} /\ x.target \in Accounts
  /\ x.at \notin {"cancelled", "judged"} => x.rides = {}
  /\ x.at \in Deep \cup {"committed"} => MayDelete(x.actor, x.module, x.target)

Authored(x) == x.at \in InTransaction => user[x.actor] = "live"

Decided(x) ==
  x.at = "judged" =>
    /\ x.result \in {"erased", "gone"}
    /\ x.result = "gone" => ~UserIsReferenced(x.target)
    /\ x.result = "gone" /\ x.target \in RideDrivers => x.unprofiled
    /\ x.target \in RideDrivers => taking[x.target] = Nobody
    /\ x.unprofiled => x.target \in RideDrivers /\ ~ProfileIsReferenced(x.target)

Settled(x) ==
  /\ \A r \in x.rides : Exists(r)
  /\ x.module = "drivers" =>
       /\ x.at \in {"owned", "cancelled", "judged"} => taking[x.target] = Nobody
       /\ x.at \in {"cancelled", "judged"} =>
            \A r \in Rides : Live(r) /\ DriverOf(r, x.target) => r \in x.rides

Logged(x) == x.at = "committed" => x.target \in Recorded

Fits(x) == Rested(x) /\ Authored(x) /\ Decided(x) /\ Settled(x) /\ Logged(x)

Apart(x, y) ==
  /\ x.at \in Deep /\ y.at \in Deep => x.target # y.target
  /\ x.at \in InTransaction /\ y.at \in Deep => x.actor # y.target

RequestsFit == \A p \in Workers : Fits(del[p])
RequestsApart == \A p, q \in Workers : p # q => Apart(del[p], del[q])

\* An acceptance in progress has its ride to itself.
TakingsHold ==
  \A d \in RideDrivers : taking[d] # Nobody =>
    /\ profile[d] /\ Exists(taking[d])
    /\ ride[taking[d]].status = "searching" /\ ride[taking[d]].offer = d
    /\ \A e \in RideDrivers \ {d} : taking[e] # taking[d]
TakingsFree ==
  \A d \in RideDrivers, p \in Workers : taking[d] # Nobody => taking[d] \notin del[p].rides

RidesFit ==
  \A r \in Rides : Exists(r) =>
    /\ ride[r].status = "searching" => ride[r].driver = Nobody
    /\ ride[r].status = "assigned" => ride[r].driver \in RideDrivers

TrailsAnchored == \A d \in trail : profile[d]

DeletionsFinal ==
  \A a \in audit :
    /\ user[a.subject] # "live"
    /\ a.module = "drivers" => a.subject \in RideDrivers /\ taking[a.subject] = Nobody

DeletionInv ==
  /\ DeletionTypeOK /\ DeletionIsClean
  /\ RequestsFit /\ RequestsApart
  /\ TakingsHold /\ TakingsFree /\ RidesFit /\ TrailsAnchored /\ DeletionsFinal

-----------------------------------------------------------------------------
LEMMA NoDeletionFits ==
  /\ NoDeletion \in Deletion /\ NoDeletion.at = "idle" /\ NoDeletion.rides = {}
  /\ Fits(NoDeletion) /\ Fits(NoDeletion)'
<1>1. /\ NoDeletion.at = "idle" /\ NoDeletion.rides = {} /\ NoDeletion.module = "users"
      /\ NoDeletion \in Deletion
  BY DEF NoDeletion, Deletion, Progress, Modules
<1>2. Rested(NoDeletion)
  BY <1>1 DEF Rested, Deep
<1>3. /\ Authored(NoDeletion) /\ Decided(NoDeletion) /\ Settled(NoDeletion) /\ Logged(NoDeletion)
  BY <1>1 DEF Authored, Decided, Settled, Logged, InTransaction
<1>4. Rested(NoDeletion)'
  BY <1>1 DEF Rested, Deep
<1>5. /\ Authored(NoDeletion)' /\ Decided(NoDeletion)' /\ Settled(NoDeletion)' /\ Logged(NoDeletion)'
  BY <1>1 DEF Authored, Decided, Settled, Logged, InTransaction
<1> QED
  BY <1>1, <1>2, <1>3, <1>4, <1>5 DEF Fits

LEMMA InitDeletion == DeletionInit => DeletionInv
<1> SUFFICES ASSUME DeletionInit PROVE DeletionInv
  OBVIOUS
<1>1. /\ \A p \in Workers : del[p] = NoDeletion
      /\ \A d \in RideDrivers : taking[d] = Nobody /\ avail[d] = "available" /\ profile[d]
      /\ \A r \in Rides : ride[r] = Nobody
      /\ \A u \in Accounts : user[u] = "live"
      /\ trail = {} /\ wallet = {} /\ audit = {} /\ denied = {} /\ serving = TRUE
  BY DEF DeletionInit
<1>2. DeletionTypeOK
  <2>1. del \in [Workers -> Deletion]
    BY NoDeletionFits DEF DeletionInit
  <2>2. crashes \in 0..MaxCrashes /\ asked \in 0..MaxDeletions
    BY DeletionAssumption DEF DeletionInit
  <2> QED
    BY <1>1, <2>1, <2>2 DEF DeletionInit, DeletionTypeOK, Exists
<1>3. DeletionIsClean
  <2>1. HistoryIsAnchored
    <3>1. \A d \in RideDrivers : user[d] # "gone"
      BY <1>1 DEF Accounts
    <3> QED
      BY <1>1, <3>1 DEF HistoryIsAnchored, Exists
  <2>2. WorkIsSettled
    BY <1>1 DEF WorkIsSettled
  <2>3. DenyListIsExact
    BY <1>1 DEF DenyListIsExact, Recorded
  <2> QED
    BY <2>1, <2>2, <2>3 DEF DeletionIsClean
<1>4. RequestsFit /\ RequestsApart
  BY <1>1, NoDeletionFits DEF RequestsFit, RequestsApart, Apart, Deep, InTransaction
<1>5. /\ TakingsHold /\ TakingsFree /\ RidesFit /\ TrailsAnchored /\ DeletionsFinal
  BY <1>1 DEF TakingsHold, TakingsFree, RidesFit, TrailsAnchored, DeletionsFinal, Exists
<1> QED
  BY <1>2, <1>3, <1>4, <1>5 DEF DeletionInv

-----------------------------------------------------------------------------
(* Steps of a request that leave every table as it is.                     *)

Tables == <<user, profile, avail, ride, trail, wallet, audit, denied, serving, booking, taking,
            crashes>>

\* What a request says of the tables still holds when they stay.
LEMMA SameTablesFit ==
  ASSUME NEW x, UNCHANGED <<user, ride, trail, wallet, audit, taking>>
  PROVE  Fits(x)' <=> Fits(x)
<1>1. Recorded' = Recorded
  BY DEF Recorded
<1> QED
  BY <1>1 DEF Fits, Rested, Authored, Decided, Settled, Logged, UserIsReferenced,
     ProfileIsReferenced, CustomerOf, DriverOf, Live, Exists

LEMMA RequestStep ==
  ASSUME DeletionInv, NEW p \in Workers, NEW x \in Deletion, del' = [del EXCEPT ![p] = x],
         UNCHANGED Tables, asked' \in 0..MaxDeletions,
         del[p].at # "committed", x.at # "committed",
         Fits(x),
         \A q \in Workers \ {p} : Apart(x, del[q]) /\ Apart(del[q], x),
         \A d \in RideDrivers : taking[d] # Nobody => taking[d] \notin x.rides
  PROVE  DeletionInv'
<1>1. UNCHANGED <<user, profile, avail, ride, trail, wallet, audit, denied, serving, booking, taking,
                  crashes>>
  BY DEF Tables
<1>2. del \in [Workers -> Deletion]
  BY DEF DeletionInv, DeletionTypeOK
<1>3. del'[p] = x /\ \A q \in Workers \ {p} : del'[q] = del[q]
  BY <1>2
<1>4. del' \in [Workers -> Deletion]
  BY <1>2
<1>5. DeletionTypeOK'
  BY <1>1, <1>4 DEF DeletionInv, DeletionTypeOK, Exists
<1>6. DeletionIsClean'
  <2>1. HistoryIsAnchored'
    BY <1>1 DEF DeletionInv, DeletionIsClean, HistoryIsAnchored, Exists
  <2>2. WorkIsSettled'
    BY <1>1 DEF DeletionInv, DeletionIsClean, WorkIsSettled, Live, Exists, DriverOf
  <2>3. DenyListIsExact'
    <3>1. {del'[q].target : q \in {w \in Workers : del'[w].at = "committed"}}
            = {del[q].target : q \in {w \in Workers : del[w].at = "committed"}}
      BY <1>3
    <3>2. Recorded' = Recorded
      BY <1>1 DEF Recorded
    <3> QED
      BY <1>1, <3>1, <3>2 DEF DeletionInv, DeletionIsClean, DenyListIsExact
  <2> QED
    BY <2>1, <2>2, <2>3 DEF DeletionIsClean
<1>7. RequestsFit'
  <2> SUFFICES ASSUME NEW q \in Workers PROVE Fits(del[q])'
    BY DEF RequestsFit
  <2>1. PICK y : y = del'[q]
    OBVIOUS
  <2>2. Fits(y)
    BY <1>3, <2>1 DEF DeletionInv, RequestsFit
  <2>3. Fits(y)'
    BY <1>1, <2>2, SameTablesFit
  <2> QED
    BY <2>1, <2>3 DEF Fits, Rested, Authored, Decided, Settled, Logged
<1>8. RequestsApart'
  BY <1>3 DEF DeletionInv, RequestsApart, Apart
<1>9. TakingsHold' /\ RidesFit' /\ TrailsAnchored' /\ DeletionsFinal'
  BY <1>1 DEF DeletionInv, TakingsHold, RidesFit, TrailsAnchored, DeletionsFinal, Exists
<1>10. TakingsFree'
  BY <1>1, <1>3 DEF DeletionInv, TakingsFree
<1> QED
  BY <1>5, <1>6, <1>7, <1>8, <1>9, <1>10 DEF DeletionInv

\* A request that gives up.
LEMMA GivingUp ==
  ASSUME DeletionInv, NEW p \in Workers, del[p].at # "committed", Abandon(p), UNCHANGED <<Tables, asked>>
  PROVE  DeletionInv'
<1>1. NoDeletion.at = "idle" /\ NoDeletion.rides = {} /\ NoDeletion \in Deletion /\ Fits(NoDeletion)
  BY NoDeletionFits
<1>2. del' = [del EXCEPT ![p] = NoDeletion] /\ asked' \in 0..MaxDeletions
  BY DEF Abandon, DeletionInv, DeletionTypeOK
<1>3. \A q \in Workers \ {p} : Apart(NoDeletion, del[q]) /\ Apart(del[q], NoDeletion)
  BY <1>1 DEF Apart, Deep, InTransaction
<1> QED
  BY <1>1, <1>2, <1>3, RequestStep

LEMMA RequestFacts ==
  ASSUME DeletionInv, NEW p \in Workers
  PROVE  /\ del[p] \in Deletion /\ Fits(del[p])
         /\ del[p].at \in Progress /\ del[p].rides \in SUBSET Rides
         /\ del[p].result \in {"live", "erased", "gone"} /\ del[p].unprofiled \in BOOLEAN
         /\ del[p].module \in Modules
         /\ del[p].at # "idle" => del[p].actor \in Accounts /\ del[p].target \in Accounts
         /\ \A q \in Workers \ {p} : Apart(del[p], del[q]) /\ Apart(del[q], del[p])
<1>1. del[p] \in Deletion /\ Fits(del[p])
  BY DEF DeletionInv, DeletionTypeOK, RequestsFit
<1>2. /\ del[p].at \in Progress /\ del[p].rides \in SUBSET Rides
      /\ del[p].result \in {"live", "erased", "gone"} /\ del[p].unprofiled \in BOOLEAN
      /\ del[p].module \in Modules
  BY <1>1 DEF Deletion
<1>3. del[p].at # "idle" => del[p].actor \in Accounts /\ del[p].target \in Accounts
  BY <1>1 DEF Fits, Rested, Accounts
<1>4. \A q \in Workers \ {p} : Apart(del[p], del[q]) /\ Apart(del[q], del[p])
  BY DEF DeletionInv, RequestsApart
<1> QED
  BY <1>1, <1>2, <1>3, <1>4

LEMMA AskStep ==
  ASSUME DeletionInv, NEW p \in Workers, NEW a \in Admins \cup {Boss}, NEW m \in Modules,
         NEW t \in Accounts, AskDeletion(p, a, m, t)
  PROVE  DeletionInv'
<1> DEFINE x == [NoDeletion EXCEPT !.at = "asked", !.actor = a, !.module = m, !.target = t]
<1>1. NoDeletion \in Deletion /\ a \in Accounts
  BY NoDeletionFits DEF Accounts
<1>2. /\ x \in Deletion /\ x.at = "asked" /\ x.actor = a /\ x.target = t /\ x.rides = {}
  BY <1>1 DEF Deletion, Progress, NoDeletion
<1>3. del' = [del EXCEPT ![p] = x] /\ UNCHANGED Tables /\ del[p].at = "idle"
  BY DEF AskDeletion, Tables
<1>4. asked' \in 0..MaxDeletions
  BY DeletionAssumption DEF AskDeletion, DeletionInv, DeletionTypeOK
<1> HIDE DEF x
<1>5. Rested(x)
  BY <1>2 DEF Rested, Deep
<1>6. Fits(x)
  BY <1>2, <1>5 DEF Fits, Authored, Decided, Settled, Logged, InTransaction
<1>7. \A q \in Workers \ {p} : Apart(x, del[q]) /\ Apart(del[q], x)
  BY <1>2 DEF Apart, Deep, InTransaction
<1> QED
  BY <1>2, <1>3, <1>4, <1>6, <1>7, RequestStep

LEMMA DeletionBeginStep ==
  ASSUME DeletionInv, NEW p \in Workers, BeginDeletion(p)
  PROVE  DeletionInv'
<1>1. /\ del[p].at = "asked" /\ UNCHANGED <<Tables, asked>> /\ ~Held(del[p].actor)
  BY DEF BeginDeletion, Tables
<1>2. CASE user[del[p].actor] = "live"
  <2> DEFINE x == [del[p] EXCEPT !.at = "begun"]
  <2>1. del[p] \in Deletion /\ Fits(del[p])
    BY RequestFacts
  <2>2. /\ x \in Deletion /\ x.at = "begun" /\ x.rides = del[p].rides
        /\ x.actor = del[p].actor /\ x.target = del[p].target
    BY <2>1 DEF Deletion, Progress
  <2>3. del' = [del EXCEPT ![p] = x]
    BY <1>2 DEF BeginDeletion
  <2> HIDE DEF x
  <2>4. Rested(x) /\ x.rides = {}
    BY <1>1, <2>1, <2>2 DEF Fits, Rested, Deep
  <2>5. Fits(x)
    BY <1>2, <2>2, <2>4 DEF Fits, Authored, Decided, Settled, Logged
  <2>6. \A q \in Workers : del[q].at \in Deep => del[q].target # x.actor
    BY <1>1, <2>2 DEF Held, Deep, InTransaction
  <2>7. \A q \in Workers \ {p} : Apart(x, del[q]) /\ Apart(del[q], x)
    BY <2>2, <2>6 DEF Apart, Deep
  <2>8. asked' \in 0..MaxDeletions
    BY <1>1 DEF DeletionInv, DeletionTypeOK
  <2> QED
    BY <1>1, <2>2, <2>3, <2>4, <2>5, <2>7, <2>8, RequestStep
<1>3. CASE user[del[p].actor] # "live"
  BY <1>1, <1>3, GivingUp DEF BeginDeletion
<1> QED
  BY <1>2, <1>3

LEMMA LockTargetStep ==
  ASSUME DeletionInv, NEW p \in Workers, LockTarget(p)
  PROVE  DeletionInv'
<1>1. /\ del[p].at = "begun" /\ UNCHANGED <<Tables, asked>>
      /\ ~Held(del[p].target) /\ ~ActorHeld(del[p].target)
  BY DEF LockTarget, Tables
<1>2. PICK may \in BOOLEAN : may = (/\ user[del[p].target] = "live"
                                    /\ MayDelete(del[p].actor, del[p].module, del[p].target)
                                    /\ del[p].module = "drivers" => profile[del[p].target])
  OBVIOUS
<1>3. CASE may
  <2> DEFINE x == [del[p] EXCEPT !.at = "locked"]
  <2>1. del[p] \in Deletion /\ Fits(del[p])
    BY RequestFacts
  <2>2. /\ x \in Deletion /\ x.at = "locked" /\ x.rides = del[p].rides
        /\ x.actor = del[p].actor /\ x.target = del[p].target /\ x.module = del[p].module
    BY <2>1 DEF Deletion, Progress
  <2>3. del' = [del EXCEPT ![p] = x]
    BY <1>2, <1>3 DEF LockTarget
  <2>4. MayDelete(x.actor, x.module, x.target)
    BY <1>2, <1>3, <2>2
  <2> HIDE DEF x
  <2>5. Rested(x) /\ x.rides = {}
    BY <1>1, <2>1, <2>2, <2>4 DEF Fits, Rested, Deep
  <2>6. Authored(x)
    BY <1>1, <2>1, <2>2 DEF Fits, Authored, InTransaction
  <2>7. Fits(x)
    BY <2>2, <2>5, <2>6 DEF Fits, Decided, Settled, Logged
  <2>8. \A q \in Workers : /\ del[q].at \in Deep => del[q].target # x.target
                           /\ del[q].at \in InTransaction => del[q].actor # x.target
    BY <1>1, <2>2 DEF Held, ActorHeld, Deep, InTransaction
  <2>9. \A q \in Workers \ {p} : Apart(del[p], del[q])
    BY RequestFacts
  <2>10. \A q \in Workers \ {p} : Apart(x, del[q]) /\ Apart(del[q], x)
    BY <1>1, <2>2, <2>8, <2>9 DEF Apart, InTransaction
  <2>11. asked' \in 0..MaxDeletions
    BY <1>1 DEF DeletionInv, DeletionTypeOK
  <2> QED
    BY <1>1, <2>2, <2>3, <2>5, <2>7, <2>10, <2>11, RequestStep
<1>4. CASE ~may
  BY <1>1, <1>2, <1>4, GivingUp DEF LockTarget
<1> QED
  BY <1>3, <1>4

\* A transaction that holds its target goes one step further.
LEMMA DeepStep ==
  ASSUME DeletionInv, NEW p \in Workers, del[p].at \in Deep, NEW x \in Deletion, x.at \in Deep,
         x.actor = del[p].actor, x.module = del[p].module, x.target = del[p].target,
         x.at \notin {"cancelled", "judged"} => x.rides = {},
         Decided(x), Settled(x),
         \A d \in RideDrivers : taking[d] # Nobody => taking[d] \notin x.rides,
         del' = [del EXCEPT ![p] = x], UNCHANGED <<Tables, asked>>
  PROVE  DeletionInv'
<1>1. del[p] \in Deletion /\ Fits(del[p])
      /\ \A q \in Workers \ {p} : Apart(del[p], del[q]) /\ Apart(del[q], del[p])
  BY RequestFacts
<1>2. x.at \notin {"idle", "committed"} /\ del[p].at \notin {"idle", "committed"}
  BY DEF Deep
<1>3. Rested(x)
  BY <1>1, <1>2 DEF Fits, Rested
<1>4. Authored(x)
  BY <1>1 DEF Fits, Authored, InTransaction, Deep
<1>5. Fits(x)
  BY <1>2, <1>3, <1>4 DEF Fits, Logged
<1>6. \A q \in Workers \ {p} : Apart(x, del[q]) /\ Apart(del[q], x)
  BY <1>1 DEF Apart, InTransaction, Deep
<1>7. asked' \in 0..MaxDeletions
  BY DEF DeletionInv, DeletionTypeOK
<1> QED
  BY <1>2, <1>5, <1>6, <1>7, RequestStep

LEMMA OwnProfileStep ==
  ASSUME DeletionInv, NEW p \in Workers, OwnProfile(p)
  PROVE  DeletionInv'
<1> DEFINE x == [del[p] EXCEPT !.at = "owned"]
<1>1. del[p] \in Deletion /\ Fits(del[p])
  BY RequestFacts
<1>2. /\ x \in Deletion /\ x.at = "owned" /\ x.rides = del[p].rides
      /\ x.actor = del[p].actor /\ x.target = del[p].target /\ x.module = del[p].module
  BY <1>1 DEF Deletion, Progress
<1>3. /\ del' = [del EXCEPT ![p] = x] /\ del[p].at = "locked" /\ UNCHANGED <<Tables, asked>>
      /\ del[p].module = "drivers" => taking[del[p].target] = Nobody
  BY DEF OwnProfile, Tables
<1> HIDE DEF x
<1>4. x.rides = {}
  BY <1>1, <1>2, <1>3 DEF Fits, Rested
<1>5. Decided(x) /\ Settled(x)
  BY <1>2, <1>3, <1>4 DEF Decided, Settled
<1> QED
  BY <1>2, <1>3, <1>4, <1>5, DeepStep DEF Deep

LEMMA CancelStep ==
  ASSUME DeletionInv, NEW p \in Workers, CancelLinkedWork(p)
  PROVE  DeletionInv'
<1> DEFINE t == del[p].target
           x == [del[p] EXCEPT !.at = "cancelled", !.rides = LinkedRides(t)]
<1>1. del[p] \in Deletion /\ Fits(del[p]) /\ LinkedRides(t) \in SUBSET Rides
  BY RequestFacts DEF LinkedRides
<1>2. /\ x \in Deletion /\ x.at = "cancelled" /\ x.rides = LinkedRides(t)
      /\ x.actor = del[p].actor /\ x.target = t /\ x.module = del[p].module
  BY <1>1 DEF Deletion, Progress
<1>3. /\ del[p].at = "owned" /\ UNCHANGED <<Tables, asked>>
      /\ \A r \in LinkedRides(t) : ~RideHeld(r)
  BY DEF CancelLinkedWork, Tables
<1>4. del' = [del EXCEPT ![p] = x]
  BY <1>1 DEF CancelLinkedWork, DeletionInv, DeletionTypeOK
<1>5. \A d \in RideDrivers : taking[d] # Nobody => taking[d] \notin LinkedRides(t)
  BY <1>3 DEF RideHeld
<1>6. /\ \A r \in Rides : Live(r) /\ DriverOf(r, t) => r \in LinkedRides(t)
      /\ \A r \in LinkedRides(t) : Exists(r)
  BY DEF LinkedRides, Live
<1>7. del[p].module = "drivers" => taking[t] = Nobody
  BY <1>1, <1>3 DEF Fits, Settled
<1> HIDE DEF x
<1>8. Decided(x) /\ Settled(x)
  BY <1>2, <1>6, <1>7 DEF Decided, Settled
<1> QED
  BY <1>2, <1>3, <1>4, <1>5, <1>8, DeepStep DEF Deep

LEMMA JudgeStep ==
  ASSUME DeletionInv, NEW p \in Workers, JudgeReferences(p)
  PROVE  DeletionInv'
<1>1. PICK t : t = del[p].target
  OBVIOUS
<1>2. PICK kept \in BOOLEAN : kept = (t \in RideDrivers /\ profile[t] /\ ProfileIsReferenced(t))
  OBVIOUS
<1>3. PICK unprofiled \in BOOLEAN : unprofiled = (t \in RideDrivers /\ ~kept)
  OBVIOUS
<1>4. PICK result \in {"erased", "gone"} :
        result = IF kept \/ UserIsReferenced(t) THEN "erased" ELSE "gone"
  OBVIOUS
<1> DEFINE x == [del[p] EXCEPT !.at = "judged", !.unprofiled = unprofiled, !.result = result]
<1>5. del[p] \in Deletion /\ Fits(del[p])
  BY RequestFacts
<1>6. /\ x \in Deletion /\ x.at = "judged" /\ x.rides = del[p].rides
      /\ x.actor = del[p].actor /\ x.target = t /\ x.module = del[p].module
      /\ x.unprofiled = unprofiled /\ x.result = result
  BY <1>1, <1>5 DEF Deletion, Progress
<1>7. /\ del[p].at = "cancelled" /\ UNCHANGED <<Tables, asked>>
      /\ t \in RideDrivers => taking[t] = Nobody
  BY <1>1 DEF JudgeReferences, Tables
<1>8. del' = [del EXCEPT ![p] = x]
  <2>1. del' = [del EXCEPT ![p].at = "judged",
                  ![p].unprofiled = t \in RideDrivers /\ ~kept,
                  ![p].result = IF kept \/ UserIsReferenced(t) THEN "erased" ELSE "gone"]
    BY <1>1, <1>2 DEF JudgeReferences
  <2>2. del' = [del EXCEPT ![p].at = "judged", ![p].unprofiled = unprofiled, ![p].result = result]
    BY <1>3, <1>4, <2>1
  <2> QED
    BY <2>2 DEF DeletionInv, DeletionTypeOK
<1> HIDE DEF x
<1>9. unprofiled => t \in RideDrivers /\ ~ProfileIsReferenced(t)
  <2>1. CASE t \in RideDrivers /\ profile[t]
    BY <1>2, <1>3, <2>1
  <2>2. CASE t \in RideDrivers /\ ~profile[t]
    <3>1. t \notin trail
      BY <2>2 DEF DeletionInv, TrailsAnchored
    <3>2. \A r \in Rides : ~DriverOf(r, t)
      <4>1. t # Nobody
        BY <2>2, DeletionAssumption
      <4> QED
        BY <2>2, <4>1 DEF DeletionInv, DeletionIsClean, HistoryIsAnchored, DriverOf
    <3> QED
      BY <2>2, <3>1, <3>2 DEF ProfileIsReferenced
  <2> QED
    BY <1>3, <2>1, <2>2
<1>10. result = "gone" => ~UserIsReferenced(t) /\ (t \in RideDrivers => unprofiled)
  BY <1>3, <1>4
<1>11. Decided(x)
  BY <1>6, <1>7, <1>9, <1>10 DEF Decided
<1>12. Settled(x)
  BY <1>1, <1>5, <1>6, <1>7 DEF Fits, Settled
<1>13. \A d \in RideDrivers : taking[d] # Nobody => taking[d] \notin x.rides
  BY <1>6 DEF DeletionInv, TakingsFree
<1> QED
  BY <1>1, <1>6, <1>7, <1>8, <1>11, <1>12, <1>13, DeepStep DEF Deep

LEMMA FailStep ==
  ASSUME DeletionInv, NEW p \in Workers, FailDeletion(p)
  PROVE  DeletionInv'
<1>1. Abandon(p) /\ del[p].at # "committed" /\ UNCHANGED <<Tables, asked>>
  BY DEF FailDeletion, Tables, InTransaction
<1> QED
  BY <1>1, GivingUp

-----------------------------------------------------------------------------
(* The commit.  It erases nothing that a table still refers to, and so no  *)
(* row of the history goes with it.                                        *)

LEMMA CommitKeepsHistory ==
  ASSUME DeletionInv, NEW p \in Workers, CommitDeletion(p)
  PROVE  trail' = trail /\ wallet' = wallet
<1>1. PICK t : t = del[p].target
  OBVIOUS
<1>2. del[p].at = "judged" /\ Fits(del[p])
  BY RequestFacts DEF CommitDeletion
<1>3. PICK gone : gone = IF del[p].unprofiled THEN {t} ELSE {}
  OBVIOUS
<1>4. /\ trail' = trail \ gone
      /\ wallet' = IF del[p].result = "gone" THEN wallet \ {t} ELSE wallet
  BY <1>1, <1>3 DEF CommitDeletion
<1>5. del[p].unprofiled => t \notin trail
  BY <1>1, <1>2 DEF Fits, Decided, ProfileIsReferenced
<1>6. del[p].result = "gone" => t \notin wallet
  BY <1>1, <1>2 DEF Fits, Decided, UserIsReferenced
<1> QED
  BY <1>3, <1>4, <1>5, <1>6

LEMMA CommitDeletionStep ==
  ASSUME DeletionInv, NEW p \in Workers, CommitDeletion(p)
  PROVE  DeletionInv'
<1>1. PICK t : t = del[p].target
  OBVIOUS
<1>2. PICK R : R = del[p].rides
  OBVIOUS
<1>3. /\ del[p].at = "judged" /\ Fits(del[p]) /\ t \in Accounts /\ R \subseteq Rides
      /\ del[p].result \in {"erased", "gone"} /\ del[p].module \in Modules
      /\ user' = [user EXCEPT ![t] = del[p].result]
      /\ \A d \in RideDrivers : profile'[d] <=> profile[d] /\ ~(d = t /\ del[p].unprofiled)
      /\ profile' \in [RideDrivers -> BOOLEAN]
      /\ trail' = trail /\ wallet' = wallet
      /\ \A r \in R : ride[r] # Nobody
      /\ \A r \in Rides : /\ r \in R => ride'[r] = [ride[r] EXCEPT !.status = "cancelled"]
                          /\ r \notin R => ride'[r] = ride[r]
      /\ audit' = audit \cup {[actor |-> del[p].actor, subject |-> t, module |-> del[p].module]}
      /\ del' = [del EXCEPT ![p] = [del[p] EXCEPT !.at = "committed", !.rides = {}]]
      /\ UNCHANGED <<denied, serving, booking, taking, crashes, asked>>
  <2>1. /\ del[p].at = "judged" /\ Fits(del[p]) /\ t \in Accounts /\ R \subseteq Rides
        /\ del[p].module \in Modules
    BY <1>1, <1>2, RequestFacts DEF CommitDeletion
  <2>2. del[p].result \in {"erased", "gone"} /\ \A r \in R : ride[r] # Nobody
    BY <1>2, <2>1 DEF Fits, Decided, Settled, Exists
  <2>3. /\ profile' \in [RideDrivers -> BOOLEAN]
        /\ \A d \in RideDrivers : profile'[d] <=> profile[d] /\ ~(d = t /\ del[p].unprofiled)
    <3>1. PICK gone : gone = IF del[p].unprofiled THEN {t} ELSE {}
      OBVIOUS
    <3>2. profile' = [d \in RideDrivers |-> profile[d] /\ d \notin gone]
      BY <1>1, <3>1 DEF CommitDeletion
    <3>3. /\ profile' \in [RideDrivers -> BOOLEAN]
          /\ \A d \in RideDrivers : profile'[d] <=> profile[d] /\ d \notin gone
      BY <3>2
    <3> QED
      BY <3>1, <3>3
  <2>4. \A r \in Rides : /\ r \in R => ride'[r] = [ride[r] EXCEPT !.status = "cancelled"]
                         /\ r \notin R => ride'[r] = ride[r]
    BY <1>2 DEF CommitDeletion
  <2>5. del' = [del EXCEPT ![p] = [del[p] EXCEPT !.at = "committed", !.rides = {}]]
    BY DEF CommitDeletion, DeletionInv, DeletionTypeOK
  <2>6. /\ user' = [user EXCEPT ![t] = del[p].result]
        /\ audit' = audit \cup {[actor |-> del[p].actor, subject |-> t, module |-> del[p].module]}
        /\ UNCHANGED <<denied, serving, booking, taking, crashes, asked>>
    BY <1>1 DEF CommitDeletion
  <2> QED
    BY <2>1, <2>2, <2>3, <2>4, <2>5, <2>6, CommitKeepsHistory
<1>4. PICK x : x = [del[p] EXCEPT !.at = "committed", !.rides = {}]
  OBVIOUS
<1>5. /\ x \in Deletion /\ x.at = "committed" /\ x.rides = {} /\ x.actor = del[p].actor
      /\ x.module = del[p].module /\ x.target = t
  <2>1. del[p] \in Deletion
    BY RequestFacts
  <2> QED
    BY <1>1, <1>4, <2>1 DEF Deletion, Progress
<1>6. /\ del'[p] = x /\ \A q \in Workers \ {p} : del'[q] = del[q]
      /\ del' \in [Workers -> Deletion]
  BY <1>3, <1>4, <1>5 DEF DeletionInv, DeletionTypeOK
<1>7. user'[t] = del[p].result /\ \A u \in Accounts \ {t} : user'[u] = user[u]
  BY <1>3 DEF DeletionInv, DeletionTypeOK
<1>8. /\ \A r \in Rides : Exists(r) => ride[r] \in RideRow
      /\ \A r \in R : [ride[r] EXCEPT !.status = "cancelled"] \in RideRow
  <2>1. \A r \in Rides : Exists(r) => ride[r] \in RideRow
    BY DEF DeletionInv, DeletionTypeOK, Exists
  <2>2. \A y \in RideRow : [y EXCEPT !.status = "cancelled"] \in RideRow
    BY DEF RideRow
  <2> QED
    BY <1>3, <2>1, <2>2 DEF Exists
<1>9. \A r \in Rides : /\ ride'[r] # Nobody <=> ride[r] # Nobody
                       /\ Exists(r) => /\ ride'[r].customer = ride[r].customer
                                       /\ ride'[r].driver = ride[r].driver
                                       /\ ride'[r].offer = ride[r].offer
                                       /\ r \in R => ride'[r].status = "cancelled"
                                       /\ r \notin R => ride'[r] = ride[r]
  <2> SUFFICES ASSUME NEW r \in Rides
      PROVE  /\ ride'[r] # Nobody <=> ride[r] # Nobody
             /\ Exists(r) => /\ ride'[r].customer = ride[r].customer
                             /\ ride'[r].driver = ride[r].driver
                             /\ ride'[r].offer = ride[r].offer
                             /\ r \in R => ride'[r].status = "cancelled"
                             /\ r \notin R => ride'[r] = ride[r]
    OBVIOUS
  <2>1. CASE r \in R
    <3>1. ride[r] \in RideRow /\ [ride[r] EXCEPT !.status = "cancelled"] \in RideRow /\ Exists(r)
      BY <1>3, <1>8, <2>1 DEF Exists
    <3>2. ride'[r] = [ride[r] EXCEPT !.status = "cancelled"]
      BY <1>3, <2>1
    <3>3. ride'[r] # Nobody /\ ride[r] # Nobody
      BY <3>1, <3>2, DeletionAssumption DEF Exists
    <3>4. /\ ride'[r].customer = ride[r].customer /\ ride'[r].driver = ride[r].driver
          /\ ride'[r].offer = ride[r].offer /\ ride'[r].status = "cancelled"
      BY <3>1, <3>2 DEF RideRow
    <3> QED
      BY <2>1, <3>3, <3>4
  <2>2. CASE r \notin R
    BY <1>3, <2>2
  <2> QED
    BY <2>1, <2>2
<1>10. /\ \A r \in Rides : Exists(r)' <=> Exists(r)
       /\ \A r \in Rides : Live(r)' => Live(r) /\ r \notin R
       /\ \A r \in Rides : Live(r) /\ r \notin R => Live(r)'
       /\ \A r \in Rides, d \in Accounts \cup {Nobody} : DriverOf(r, d)' <=> DriverOf(r, d)
       /\ \A r \in Rides, d \in Accounts \cup {Nobody} : CustomerOf(r, d)' <=> CustomerOf(r, d)
  BY <1>9 DEF Exists, Live, DriverOf, CustomerOf
<1>11. /\ \A d \in Accounts \cup {Nobody} : ProfileIsReferenced(d)' <=> ProfileIsReferenced(d)
       /\ \A d \in Accounts \cup {Nobody} : UserIsReferenced(d)' <=> UserIsReferenced(d)
  BY <1>3, <1>9 DEF ProfileIsReferenced, UserIsReferenced, DriverOf, CustomerOf, Exists
<1>12. Recorded' = Recorded \cup {t}
  <2>1. PICK a : a = [actor |-> del[p].actor, subject |-> t, module |-> del[p].module]
    OBVIOUS
  <2>2. a.subject = t /\ audit' = audit \cup {a}
    BY <1>3, <2>1
  <2> QED
    BY <2>2 DEF Recorded
<1>13. DeletionTypeOK'
  <2>1. user' \in [Accounts -> {"live", "erased", "gone"}]
    BY <1>3 DEF DeletionInv, DeletionTypeOK
  <2>2. avail' \in [RideDrivers -> {"available", "busy", "unavailable"}]
    BY DEF CommitDeletion, DeletionInv, DeletionTypeOK
  <2>3. ride' \in [Rides -> RideRow \cup {Nobody}]
    <3>1. ride' = [r \in Rides |-> IF r \in R THEN [ride[r] EXCEPT !.status = "cancelled"] ELSE ride[r]]
      BY <1>2 DEF CommitDeletion
    <3> QED
      BY <1>8, <3>1 DEF DeletionInv, DeletionTypeOK
  <2>4. \A r \in Rides : Exists(r)' => ride'[r].driver \in {Nobody, ride'[r].offer}
    BY <1>9, <1>10 DEF DeletionInv, DeletionTypeOK
  <2>5. audit' \subseteq [actor : Accounts, subject : Accounts, module : Modules]
    <3>1. del[p].actor \in Accounts
      BY <1>3, RequestFacts
    <3> QED
      BY <1>3, <3>1 DEF DeletionInv, DeletionTypeOK
  <2> QED
    BY <1>3, <1>6, <2>1, <2>2, <2>3, <2>4, <2>5 DEF DeletionInv, DeletionTypeOK, Exists
<1>14. t \in RideDrivers => taking[t] = Nobody
  BY <1>1, <1>3 DEF Fits, Decided
<1>15. /\ del[p].result = "gone" => ~UserIsReferenced(t)
       /\ del[p].result = "gone" /\ t \in RideDrivers => del[p].unprofiled
       /\ del[p].unprofiled => t \in RideDrivers /\ ~ProfileIsReferenced(t)
  BY <1>1, <1>3 DEF Fits, Decided
<1>16. MayDelete(del[p].actor, del[p].module, t)
  BY <1>1, <1>3 DEF Fits, Rested, Deep
<1>17. HistoryIsAnchored'
  <2>1. \A r \in Rides : Exists(r)' => user'[ride'[r].customer] # "gone"
    <3> SUFFICES ASSUME NEW r \in Rides, Exists(r)' PROVE user'[ride'[r].customer] # "gone"
      OBVIOUS
    <3>1. PICK c : c = ride[r].customer
      OBVIOUS
    <3>2. Exists(r) /\ ride'[r].customer = c /\ c \in Accounts /\ user[c] # "gone"
      <4>1. Exists(r) /\ ride'[r].customer = c
        BY <1>9, <1>10, <3>1
      <4>2. ride[r] \in RideRow
        BY <1>8, <4>1
      <4>3. c \in Accounts
        BY <3>1, <4>2 DEF RideRow, Accounts
      <4> QED
        BY <3>1, <4>1, <4>3 DEF DeletionInv, DeletionIsClean, HistoryIsAnchored
    <3>3. c = t => UserIsReferenced(t)
      BY <3>1, <3>2 DEF UserIsReferenced, CustomerOf
    <3> QED
      BY <1>3, <1>7, <1>15, <3>2, <3>3
  <2>2. \A r \in Rides : Exists(r)' /\ ride'[r].driver # Nobody => profile'[ride'[r].driver]
    <3> SUFFICES ASSUME NEW r \in Rides, Exists(r)', ride'[r].driver # Nobody
        PROVE  profile'[ride'[r].driver]
      OBVIOUS
    <3>1. PICK d : d = ride[r].driver
      OBVIOUS
    <3>2. Exists(r) /\ ride'[r].driver = d /\ d # Nobody
      BY <1>9, <1>10, <3>1
    <3>3. d \in RideDrivers
      <4>1. ride[r] \in RideRow
        BY <1>8, <3>2
      <4> QED
        BY <3>1, <3>2, <4>1 DEF RideRow
    <3>4. profile[d]
      BY <3>1, <3>2 DEF DeletionInv, DeletionIsClean, HistoryIsAnchored
    <3>5. d = t => ProfileIsReferenced(t)
      BY <3>1, <3>2 DEF ProfileIsReferenced, DriverOf
    <3> QED
      BY <1>3, <1>15, <3>2, <3>3, <3>4, <3>5
  <2>3. \A d \in wallet' : user'[d] # "gone"
    <3>1. \A d \in wallet : user[d] # "gone" /\ d \in Accounts
      BY DEF DeletionInv, DeletionIsClean, HistoryIsAnchored, DeletionTypeOK, Accounts
    <3>2. del[p].result = "gone" => t \notin wallet
      BY <1>15 DEF UserIsReferenced
    <3> QED
      BY <1>3, <1>7, <3>1, <3>2
  <2>4. \A d \in RideDrivers : profile'[d] => user'[d] # "gone"
    <3>1. \A d \in RideDrivers : profile[d] => user[d] # "gone" /\ d \in Accounts
      BY DEF DeletionInv, DeletionIsClean, HistoryIsAnchored, Accounts
    <3> QED
      BY <1>3, <1>7, <1>15, <3>1
  <2> QED
    BY <2>1, <2>2, <2>3, <2>4 DEF HistoryIsAnchored
<1>18. WorkIsSettled'
  <2>1. \A a \in audit' : a.module = "drivers" => \A r \in Rides : Live(r)' => ~DriverOf(r, a.subject)'
    <3> SUFFICES ASSUME NEW a \in audit', a.module = "drivers", NEW r \in Rides, Live(r)'
        PROVE  ~DriverOf(r, a.subject)'
      BY DEF DriverOf
    <3>1. PICK s : s = a.subject
      OBVIOUS
    <3>2. Live(r) /\ r \notin R /\ s \in Accounts
      BY <1>10, <1>13, <3>1 DEF DeletionTypeOK
    <3>3. ~DriverOf(r, s)
      <4>1. CASE a \in audit
        BY <3>1, <3>2, <4>1 DEF DeletionInv, DeletionIsClean, WorkIsSettled
      <4>2. CASE a \notin audit
        <5>1. s = t /\ del[p].module = "drivers"
          BY <1>3, <3>1, <4>2
        <5> QED
          BY <1>1, <1>2, <1>3, <3>2, <5>1 DEF Fits, Settled
      <4> QED
        BY <4>1, <4>2
    <3> QED
      BY <1>10, <3>1, <3>2, <3>3
  <2>2. \A d \in RideDrivers : avail'[d] = "busy" => \E r \in Rides : Live(r)' /\ DriverOf(r, d)'
    <3> SUFFICES ASSUME NEW d \in RideDrivers, avail'[d] = "busy"
        PROVE  \E r \in Rides : Live(r)' /\ DriverOf(r, d)'
      OBVIOUS
    <3>1. PICK freed \in BOOLEAN :
            freed = (/\ avail[d] = "busy" /\ \E r \in R : DriverOf(r, d)
                     /\ \A r \in Rides \ R : ~(Live(r) /\ DriverOf(r, d)))
      OBVIOUS
    <3>2. avail'[d] = IF d = t THEN "unavailable" ELSE IF freed THEN "available" ELSE avail[d]
      BY <1>1, <1>2, <3>1 DEF CommitDeletion
    <3>3. avail[d] = "busy" /\ ~freed
      BY <3>2
    <3>4. PICK r \in Rides : Live(r) /\ DriverOf(r, d)
      BY <3>3 DEF DeletionInv, DeletionIsClean, WorkIsSettled
    <3>5. PICK q \in Rides \ R : Live(q) /\ DriverOf(q, d)
      <4>1. CASE r \in R
        BY <3>1, <3>3, <3>4, <4>1
      <4>2. CASE r \notin R
        BY <3>4, <4>2
      <4> QED
        BY <4>1, <4>2
    <3>6. d \in Accounts
      BY DEF Accounts
    <3> QED
      BY <1>10, <3>5, <3>6
  <2> QED
    BY <2>1, <2>2 DEF WorkIsSettled
<1>19. DenyListIsExact'
  <2> SUFFICES ASSUME serving'
      PROVE  /\ denied' \subseteq Recorded'
             /\ \A u \in Recorded' : u \in denied' \/ \E q \in Workers : /\ del'[q].at = "committed"
                                                                         /\ del'[q].target = u
    BY DEF DenyListIsExact
  <2>1. /\ denied \subseteq Recorded
        /\ \A u \in Recorded : u \in denied \/ \E q \in Workers : /\ del[q].at = "committed"
                                                                  /\ del[q].target = u
    BY <1>3 DEF DeletionInv, DeletionIsClean, DenyListIsExact
  <2>2. \A q \in Workers : del[q].at = "committed" => q # p
    BY <1>3
  <2> QED
    BY <1>3, <1>5, <1>6, <1>12, <2>1, <2>2
<1>20. DeletionIsClean'
  BY <1>17, <1>18, <1>19 DEF DeletionIsClean
<1>21. RequestsFit'
  <2> SUFFICES ASSUME NEW q \in Workers PROVE Fits(del[q])'
    BY DEF RequestsFit
  <2>1. PICK y : y = del'[q]
    OBVIOUS
  <2>2. Fits(y)'
    <3>1. CASE q = p
      <4>1. y = x
        BY <1>6, <2>1, <3>1
      <4>2. Rested(x)' /\ Logged(x)'
        <5>1. del[p].actor \in Admins \cup {Boss} /\ MayDelete(del[p].actor, del[p].module, t)
          BY <1>3, <1>16 DEF Fits, Rested
        <5> QED
          BY <1>3, <1>5, <1>12, <5>1 DEF Rested, Logged, Deep
      <4>3. Authored(x)' /\ Decided(x)' /\ Settled(x)'
        BY <1>5 DEF Authored, Decided, Settled, InTransaction
      <4> QED
        BY <4>1, <4>2, <4>3 DEF Fits
    <3>2. CASE q # p
      <4>1. y = del[q] /\ Fits(y) /\ y \in Deletion
        BY <1>6, <2>1, <3>2, RequestFacts
      <4>2. y.target \in Accounts \cup {Nobody} /\ y.rides \subseteq Rides
        BY <4>1 DEF Deletion
      <4>3. y.at \in InTransaction => y.actor # t /\ y.actor \in Accounts
        <5>1. Apart(del[q], del[p])
          BY <3>2, RequestFacts
        <5>2. y.at \in InTransaction => y.at # "idle"
          BY DEF InTransaction
        <5>3. y.at # "idle" => y.actor \in Accounts
          BY <4>1, RequestFacts
        <5> QED
          BY <1>1, <1>3, <4>1, <5>1, <5>2, <5>3 DEF Apart, Deep
      <4>4. Authored(y)'
        BY <1>7, <4>1, <4>3 DEF Fits, Authored
      <4>5. Decided(y)'
        BY <1>3, <1>11, <4>1, <4>2 DEF Fits, Decided
      <4>6. Settled(y)'
        BY <1>3, <1>10, <4>1, <4>2 DEF Fits, Settled
      <4>7. Rested(y)' /\ Logged(y)'
        BY <1>12, <4>1 DEF Fits, Rested, Logged
      <4> QED
        BY <4>4, <4>5, <4>6, <4>7 DEF Fits
    <3> QED
      BY <3>1, <3>2
  <2> QED
    BY <2>1, <2>2 DEF Fits, Rested, Authored, Decided, Settled, Logged
<1>22. RequestsApart'
  <2>1. \A q \in Workers : Apart(x, del[q]) /\ Apart(del[q], x)
    BY <1>5 DEF Apart, Deep, InTransaction
  <2> QED
    BY <1>6, <2>1 DEF DeletionInv, RequestsApart, Apart
<1>23. TakingsHold'
  <2> SUFFICES ASSUME NEW d \in RideDrivers, taking'[d] # Nobody
      PROVE  /\ profile'[d] /\ ride'[taking'[d]] # Nobody
             /\ ride'[taking'[d]].status = "searching" /\ ride'[taking'[d]].offer = d
             /\ \A e \in RideDrivers \ {d} : taking'[e] # taking'[d]
    BY DEF TakingsHold, Exists
  <2>1. PICK r : r = taking[d]
    OBVIOUS
  <2>2. r \in Rides /\ r # Nobody /\ taking'[d] = r
    BY <1>3, <2>1 DEF DeletionInv, DeletionTypeOK
  <2>3. r \notin R
    BY <1>2, <2>1, <2>2 DEF DeletionInv, TakingsFree
  <2>4. /\ profile[d] /\ Exists(r) /\ ride[r].status = "searching" /\ ride[r].offer = d
        /\ \A e \in RideDrivers \ {d} : taking[e] # r
    BY <2>1, <2>2 DEF DeletionInv, TakingsHold
  <2>5. profile'[d]
    BY <1>3, <1>14, <2>1, <2>2, <2>4
  <2>6. ride'[r] = ride[r]
    BY <1>3, <2>2, <2>3
  <2> QED
    BY <1>3, <2>2, <2>4, <2>5, <2>6 DEF Exists
<1>24. TakingsFree'
  BY <1>3, <1>5, <1>6 DEF DeletionInv, TakingsFree
<1>25. RidesFit'
  BY <1>9, <1>10 DEF DeletionInv, RidesFit
<1>26. TrailsAnchored'
  <2>1. \A d \in trail : d \in RideDrivers /\ profile[d]
    BY DEF DeletionInv, TrailsAnchored, DeletionTypeOK
  <2>2. del[p].unprofiled => t \notin trail
    BY <1>15 DEF ProfileIsReferenced
  <2> QED
    BY <1>3, <2>1, <2>2 DEF TrailsAnchored
<1>27. DeletionsFinal'
  <2> SUFFICES ASSUME NEW a \in audit'
      PROVE  /\ user'[a.subject] # "live"
             /\ a.module = "drivers" => a.subject \in RideDrivers /\ taking'[a.subject] = Nobody
    BY DEF DeletionsFinal
  <2>1. CASE a \in audit
    <3>1. a.subject \in Accounts
      BY <2>1 DEF DeletionInv, DeletionTypeOK
    <3> QED
      BY <1>3, <1>7, <2>1, <3>1 DEF DeletionInv, DeletionsFinal
  <2>2. CASE a \notin audit
    <3>1. a.subject = t /\ a.module = del[p].module
      BY <1>3, <2>2
    <3>2. a.module = "drivers" => t \in RideDrivers
      BY <1>16, <3>1 DEF MayDelete
    <3> QED
      BY <1>3, <1>7, <1>14, <3>1, <3>2
  <2> QED
    BY <2>1, <2>2
<1> QED
  BY <1>13, <1>20, <1>21, <1>22, <1>23, <1>24, <1>25, <1>26, <1>27 DEF DeletionInv

LEMMA DeletionRevokeStep ==
  ASSUME DeletionInv, NEW p \in Workers, RevokeSubject(p)
  PROVE  DeletionInv'
<1>1. /\ del[p].at = "committed" /\ del' = [del EXCEPT ![p] = NoDeletion]
      /\ denied' = denied \cup {del[p].target}
      /\ UNCHANGED <<user, profile, avail, ride, trail, wallet, audit, serving, booking, taking,
                     crashes, asked>>
  BY DEF RevokeSubject, Abandon
<1>2. /\ NoDeletion \in Deletion /\ NoDeletion.at = "idle" /\ NoDeletion.rides = {}
      /\ Fits(NoDeletion)'
  BY NoDeletionFits
<1>3. /\ del'[p] = NoDeletion /\ \A q \in Workers \ {p} : del'[q] = del[q]
      /\ del' \in [Workers -> Deletion]
  BY <1>1, <1>2 DEF DeletionInv, DeletionTypeOK
<1>4. del[p].target \in Recorded /\ del[p].target \in Accounts
  BY <1>1, RequestFacts DEF Fits, Logged
<1>5. DeletionTypeOK'
  BY <1>1, <1>3, <1>4 DEF DeletionInv, DeletionTypeOK, Exists
<1>6. HistoryIsAnchored'
  BY <1>1 DEF DeletionInv, DeletionIsClean, HistoryIsAnchored, Exists
<1>7. WorkIsSettled'
  BY <1>1 DEF DeletionInv, DeletionIsClean, WorkIsSettled, Live, Exists, DriverOf
<1>8. DenyListIsExact'
  <2> SUFFICES ASSUME serving'
      PROVE  /\ denied' \subseteq Recorded'
             /\ \A u \in Recorded' : u \in denied' \/ \E q \in Workers : /\ del'[q].at = "committed"
                                                                         /\ del'[q].target = u
    BY DEF DenyListIsExact
  <2>1. /\ denied \subseteq Recorded
        /\ \A u \in Recorded : u \in denied \/ \E q \in Workers : /\ del[q].at = "committed"
                                                                  /\ del[q].target = u
    BY <1>1 DEF DeletionInv, DeletionIsClean, DenyListIsExact
  <2>2. Recorded' = Recorded
    BY <1>1 DEF Recorded
  <2> QED
    BY <1>1, <1>3, <1>4, <2>1, <2>2
<1>9. RequestsFit'
  <2> SUFFICES ASSUME NEW q \in Workers PROVE Fits(del[q])'
    BY DEF RequestsFit
  <2>1. PICK y : y = del'[q]
    OBVIOUS
  <2>2. CASE q = p
    BY <1>2, <1>3, <2>1, <2>2 DEF Fits, Rested, Authored, Decided, Settled, Logged
  <2>3. CASE q # p
    <3>1. y = del[q] /\ Fits(y)
      BY <1>3, <2>1, <2>3, RequestFacts
    <3>2. Fits(y)'
      BY <1>1, <3>1, SameTablesFit
    <3> QED
      BY <2>1, <3>2 DEF Fits, Rested, Authored, Decided, Settled, Logged
  <2> QED
    BY <2>2, <2>3
<1>10. RequestsApart'
  <2>1. \A q \in Workers : Apart(NoDeletion, del[q]) /\ Apart(del[q], NoDeletion)
    BY <1>2 DEF Apart, Deep, InTransaction
  <2> QED
    BY <1>3, <2>1 DEF DeletionInv, RequestsApart, Apart
<1>11. TakingsHold' /\ RidesFit' /\ TrailsAnchored' /\ DeletionsFinal'
  BY <1>1 DEF DeletionInv, TakingsHold, RidesFit, TrailsAnchored, DeletionsFinal, Exists
<1>12. TakingsFree'
  BY <1>1, <1>2, <1>3 DEF DeletionInv, TakingsFree
<1> QED
  BY <1>5, <1>6, <1>7, <1>8, <1>9, <1>10, <1>11, <1>12 DEF DeletionInv, DeletionIsClean

-----------------------------------------------------------------------------
(* Bookings, acceptances and the rest of the world beside the deletions.   *)

\* The rows that a deletion holds.
LEMMA HeldRows ==
  ASSUME DeletionInv, NEW q \in Workers
  PROVE  /\ del[q].at \in Deep => Held(del[q].target)
         /\ del[q].at = "judged" => ProfileHeld(del[q].target)
         /\ del[q].module = "drivers" /\ del[q].at \in {"owned", "cancelled", "judged"}
              => ProfileHeld(del[q].target)
BY DEF Held, ProfileHeld, Deep, InTransaction

\* Requests that stay as they are and still fit.
LEMMA RequestsStay ==
  ASSUME DeletionInv, UNCHANGED del, UNCHANGED <<user, audit>>,
         \A q \in Workers : Decided(del[q])' /\ Settled(del[q])'
  PROVE  RequestsFit' /\ RequestsApart'
<1>1. Recorded' = Recorded
  BY DEF Recorded
<1>2. \A q \in Workers : Rested(del[q])' /\ Authored(del[q])' /\ Logged(del[q])'
  BY <1>1 DEF DeletionInv, RequestsFit, Fits, Rested, Authored, Logged
<1>3. RequestsFit'
  BY <1>2 DEF RequestsFit, Fits
<1>4. RequestsApart'
  BY DEF DeletionInv, RequestsApart, Apart
<1> QED
  BY <1>3, <1>4

LEMMA DenyListStays ==
  ASSUME DeletionInv, UNCHANGED <<del, audit, denied, serving>>
  PROVE  DenyListIsExact'
BY DEF DeletionInv, DeletionIsClean, DenyListIsExact, Recorded

LEMMA QuietTables ==
  ASSUME DeletionInv, UNCHANGED <<user, profile, avail, ride, trail, wallet, audit, del, taking>>
  PROVE  /\ RequestsFit' /\ RequestsApart' /\ HistoryIsAnchored' /\ WorkIsSettled'
         /\ TakingsHold' /\ TakingsFree' /\ RidesFit' /\ TrailsAnchored' /\ DeletionsFinal'
<1>1. RequestsFit'
  <2> SUFFICES ASSUME NEW q \in Workers PROVE Fits(del[q])'
    BY DEF RequestsFit
  <2>1. PICK y : y = del[q]
    OBVIOUS
  <2>2. Fits(y)'
    BY <2>1, RequestFacts, SameTablesFit
  <2> QED
    BY <2>1, <2>2 DEF Fits, Rested, Authored, Decided, Settled, Logged
<1>2. RequestsApart' /\ TakingsFree'
  BY DEF DeletionInv, RequestsApart, Apart, TakingsFree
<1>3. HistoryIsAnchored'
  BY DEF DeletionInv, DeletionIsClean, HistoryIsAnchored, Exists
<1>4. WorkIsSettled'
  BY DEF DeletionInv, DeletionIsClean, WorkIsSettled, Live, Exists, DriverOf
<1>5. TakingsHold' /\ RidesFit' /\ TrailsAnchored' /\ DeletionsFinal'
  BY DEF DeletionInv, TakingsHold, RidesFit, TrailsAnchored, DeletionsFinal, Exists
<1> QED
  BY <1>1, <1>2, <1>3, <1>4, <1>5

LEMMA AdmitStep ==
  ASSUME DeletionInv, NEW c \in Customers, AdmitBooking(c)
  PROVE  DeletionInv'
<1>1. DeletionTypeOK'
  BY DEF AdmitBooking, DeletionInv, DeletionTypeOK, Exists
<1> QED
  BY <1>1, QuietTables, DenyListStays DEF AdmitBooking, DeletionInv, DeletionIsClean

LEMMA ServeStep == ASSUME DeletionInv, Serve PROVE DeletionInv'
<1>1. Recorded \subseteq Accounts /\ Recorded' = Recorded
  BY DEF Serve, Recorded, DeletionInv, DeletionTypeOK
<1>2. DeletionTypeOK'
  BY <1>1 DEF Serve, DeletionInv, DeletionTypeOK, Exists
<1>3. DenyListIsExact'
  BY <1>1 DEF Serve, DenyListIsExact
<1> QED
  BY <1>2, <1>3, QuietTables DEF Serve, DeletionInv, DeletionIsClean

LEMMA CrashStep == ASSUME DeletionInv, Crash PROVE DeletionInv'
<1>1. /\ NoDeletion \in Deletion /\ NoDeletion.at = "idle" /\ NoDeletion.rides = {}
      /\ Fits(NoDeletion)'
  BY NoDeletionFits
<1>2. /\ \A p \in Workers : del'[p] = NoDeletion
      /\ \A d \in RideDrivers : taking'[d] = Nobody
      /\ del' \in [Workers -> Deletion]
  BY <1>1 DEF Crash
<1>3. UNCHANGED <<user, profile, avail, ride, trail, wallet, audit, asked>> /\ serving' = FALSE
  BY DEF Crash
<1>4. DeletionTypeOK'
  <2>1. crashes' \in 0..MaxCrashes
    BY DeletionAssumption DEF Crash, DeletionInv, DeletionTypeOK
  <2>2. taking' \in [RideDrivers -> Rides \cup {Nobody}] /\ denied' = {} /\ booking' = {}
    BY DEF Crash
  <2> QED
    BY <1>2, <1>3, <2>1, <2>2 DEF DeletionInv, DeletionTypeOK, Exists
<1>5. HistoryIsAnchored'
  BY <1>3 DEF DeletionInv, DeletionIsClean, HistoryIsAnchored, Exists
<1>6. WorkIsSettled'
  BY <1>3 DEF DeletionInv, DeletionIsClean, WorkIsSettled, Live, Exists, DriverOf
<1>7. DenyListIsExact'
  BY <1>3 DEF DenyListIsExact
<1>8. RequestsFit'
  BY <1>1, <1>2 DEF RequestsFit, Fits, Rested, Authored, Decided, Settled, Logged
<1>9. RequestsApart'
  BY <1>1, <1>2 DEF RequestsApart, Apart, Deep, InTransaction
<1>10. TakingsHold' /\ TakingsFree'
  BY <1>2 DEF TakingsHold, TakingsFree
<1>11. RidesFit' /\ TrailsAnchored'
  BY <1>3 DEF DeletionInv, RidesFit, TrailsAnchored, Exists
<1>12. DeletionsFinal'
  BY <1>2, <1>3 DEF DeletionInv, DeletionsFinal
<1> QED
  BY <1>4, <1>5, <1>6, <1>7, <1>8, <1>9, <1>10, <1>11, <1>12 DEF DeletionInv, DeletionIsClean

LEMMA RecordLocationStep ==
  ASSUME DeletionInv, NEW d \in RideDrivers, RecordLocation(d)
  PROVE  DeletionInv'
<1>1. /\ profile[d] /\ ~ProfileHeld(d) /\ trail' = trail \cup {d}
      /\ UNCHANGED <<user, profile, avail, ride, wallet, audit, denied, serving, del, booking, taking,
                     crashes, asked>>
  BY DEF RecordLocation
<1>2. DeletionTypeOK'
  BY <1>1 DEF DeletionInv, DeletionTypeOK, Exists
<1>3. \A q \in Workers : Decided(del[q])' /\ Settled(del[q])'
  <2> SUFFICES ASSUME NEW q \in Workers PROVE Decided(del[q])' /\ Settled(del[q])'
    OBVIOUS
  <2>1. del[q].at = "judged" => del[q].target # d
    BY <1>1, HeldRows
  <2>2. Decided(del[q]) /\ Settled(del[q])
    BY RequestFacts DEF Fits
  <2>3. Decided(del[q])'
    BY <1>1, <2>1, <2>2 DEF Decided, UserIsReferenced, ProfileIsReferenced, CustomerOf, DriverOf, Exists
  <2>4. Settled(del[q])'
    BY <1>1, <2>2 DEF Settled, Live, DriverOf, Exists
  <2> QED
    BY <2>3, <2>4
<1>4. RequestsFit' /\ RequestsApart' /\ DenyListIsExact'
  BY <1>1, <1>3, RequestsStay, DenyListStays
<1>5. HistoryIsAnchored'
  BY <1>1 DEF DeletionInv, DeletionIsClean, HistoryIsAnchored, Exists
<1>6. WorkIsSettled'
  BY <1>1 DEF DeletionInv, DeletionIsClean, WorkIsSettled, Live, Exists, DriverOf
<1>7. TakingsHold' /\ TakingsFree' /\ RidesFit' /\ TrailsAnchored' /\ DeletionsFinal'
  BY <1>1 DEF DeletionInv, TakingsHold, TakingsFree, RidesFit, TrailsAnchored, DeletionsFinal, Exists
<1> QED
  BY <1>2, <1>4, <1>5, <1>6, <1>7 DEF DeletionInv, DeletionIsClean

LEMMA EarnWalletStep ==
  ASSUME DeletionInv, NEW d \in RideDrivers, EarnWallet(d)
  PROVE  DeletionInv'
<1>1. /\ user[d] # "gone" /\ ~Held(d) /\ wallet' = wallet \cup {d}
      /\ UNCHANGED <<user, profile, avail, ride, trail, audit, denied, serving, del, booking, taking,
                     crashes, asked>>
  BY DEF EarnWallet
<1>2. DeletionTypeOK'
  BY <1>1 DEF DeletionInv, DeletionTypeOK, Exists
<1>3. \A q \in Workers : Decided(del[q])' /\ Settled(del[q])'
  <2> SUFFICES ASSUME NEW q \in Workers PROVE Decided(del[q])' /\ Settled(del[q])'
    OBVIOUS
  <2>1. del[q].at = "judged" => del[q].target # d
    BY <1>1, HeldRows DEF Deep
  <2>2. Decided(del[q]) /\ Settled(del[q])
    BY RequestFacts DEF Fits
  <2>3. Decided(del[q])'
    BY <1>1, <2>1, <2>2 DEF Decided, UserIsReferenced, ProfileIsReferenced, CustomerOf, DriverOf, Exists
  <2>4. Settled(del[q])'
    BY <1>1, <2>2 DEF Settled, Live, DriverOf, Exists
  <2> QED
    BY <2>3, <2>4
<1>4. RequestsFit' /\ RequestsApart' /\ DenyListIsExact'
  BY <1>1, <1>3, RequestsStay, DenyListStays
<1>5. HistoryIsAnchored'
  BY <1>1 DEF DeletionInv, DeletionIsClean, HistoryIsAnchored, Exists
<1>6. WorkIsSettled'
  BY <1>1 DEF DeletionInv, DeletionIsClean, WorkIsSettled, Live, Exists, DriverOf
<1>7. TakingsHold' /\ TakingsFree' /\ RidesFit' /\ TrailsAnchored' /\ DeletionsFinal'
  BY <1>1 DEF DeletionInv, TakingsHold, TakingsFree, RidesFit, TrailsAnchored, DeletionsFinal, Exists
<1> QED
  BY <1>2, <1>4, <1>5, <1>6, <1>7 DEF DeletionInv, DeletionIsClean

LEMMA BookStep ==
  ASSUME DeletionInv, NEW c \in Customers, NEW r \in Rides, NEW d \in RideDrivers, Book(c, r, d)
  PROVE  DeletionInv'
<1>1. /\ ~Exists(r) /\ ~Held(c) /\ booking' = booking \ {c}
      /\ UNCHANGED <<user, profile, avail, trail, wallet, audit, denied, serving, del, taking, crashes,
                     asked>>
  BY DEF Book
<1>2. CASE user[c] = "gone"
  <2>1. ride' = ride
    BY <1>2 DEF Book
  <2>2. DeletionTypeOK'
    BY <1>1, <2>1 DEF DeletionInv, DeletionTypeOK, Exists
  <2> QED
    BY <1>1, <2>1, <2>2, QuietTables, DenyListStays DEF DeletionInv, DeletionIsClean
<1>3. CASE user[c] # "gone"
  <2>1. PICK row : row = Booked(c, d)
    OBVIOUS
  <2>2. /\ row \in RideRow /\ row.customer = c /\ row.offer = d /\ row.driver = Nobody
        /\ row.status = "searching"
    BY <2>1 DEF Booked, RideRow
  <2>3. row # Nobody
    BY <2>2, DeletionAssumption
  <2>4. ride' = [ride EXCEPT ![r] = row]
    BY <1>3, <2>1 DEF Book
  <2>5. /\ ride'[r] = row /\ \A q \in Rides \ {r} : ride'[q] = ride[q]
        /\ ride' \in [Rides -> RideRow \cup {Nobody}]
    BY <2>2, <2>4 DEF DeletionInv, DeletionTypeOK
  <2>6. DeletionTypeOK'
    BY <1>1, <2>2, <2>5 DEF DeletionInv, DeletionTypeOK, Exists
  <2>7. ride[r] = Nobody
    BY <1>1 DEF Exists
  <2>8. \A q \in Workers : Decided(del[q])' /\ Settled(del[q])'
    <3> SUFFICES ASSUME NEW q \in Workers PROVE Decided(del[q])' /\ Settled(del[q])'
      OBVIOUS
    <3>1. Decided(del[q]) /\ Settled(del[q]) /\ del[q].rides \in SUBSET Rides
      BY RequestFacts DEF Fits
    <3>2. del[q].at = "judged" => del[q].target # c
      BY <1>1, HeldRows DEF Deep
    <3>3. del[q].at \in {"cancelled", "judged"} => del[q].target # Nobody
      <4>1. del[q].at \in {"cancelled", "judged"} => del[q].target \in Accounts
        BY RequestFacts
      <4>2. Nobody \notin Accounts
        BY DeletionAssumption DEF Accounts
      <4> QED
        BY <4>1, <4>2
    <3>4. PICK t : t = del[q].target
      OBVIOUS
    <3>5. del[q].at \in {"cancelled", "judged"} => \A s \in Rides : DriverOf(s, t)' => DriverOf(s, t)
      BY <2>2, <2>5, <3>3, <3>4 DEF DriverOf, Exists
    <3>6. del[q].at = "judged" => \A s \in Rides : CustomerOf(s, t)' => CustomerOf(s, t)
      BY <2>2, <2>5, <3>2, <3>4 DEF CustomerOf, Exists
    <3>7. Decided(del[q])'
      <4>1. del[q].at = "judged" /\ ~UserIsReferenced(t) => ~UserIsReferenced(t)'
        BY <1>1, <3>6 DEF UserIsReferenced
      <4>2. del[q].at = "judged" /\ ~ProfileIsReferenced(t) => ~ProfileIsReferenced(t)'
        BY <1>1, <3>5 DEF ProfileIsReferenced
      <4>3. del'[q] = del[q] /\ taking' = taking
        BY <1>1
      <4>4. del[q].at = "judged" =>
              /\ del[q].result = "gone" => ~UserIsReferenced(del[q].target)'
              /\ del[q].unprofiled => ~ProfileIsReferenced(del[q].target)'
        BY <3>1, <3>4, <4>1, <4>2, <4>3
           DEF Decided, UserIsReferenced, ProfileIsReferenced, CustomerOf, DriverOf, Exists
      <4> QED
        BY <3>1, <4>3, <4>4 DEF Decided
    <3>8. Settled(del[q])'
      <4>1. \A s \in Rides : s # r => (Live(s)' <=> Live(s)) /\ (Exists(s)' <=> Exists(s))
        BY <2>5 DEF Live, Exists
      <4>2. Exists(r)' /\ ~DriverOf(r, t) /\ r \notin del[q].rides
        BY <2>3, <2>5, <2>7, <3>1 DEF Exists, DriverOf, Settled
      <4>3. del[q].at \in {"cancelled", "judged"} =>
              \A s \in Rides : Live(s)' /\ DriverOf(s, t)' => Live(s) /\ DriverOf(s, t)
        BY <3>5, <4>1, <4>2
      <4>4. \A s \in del[q].rides : Exists(s)'
        BY <3>1, <4>1, <4>2 DEF Settled
      <4> QED
        BY <1>1, <3>1, <3>4, <4>3, <4>4 DEF Settled, DriverOf, Live, Exists
    <3> QED
      BY <3>7, <3>8
  <2>9. RequestsFit' /\ RequestsApart' /\ DenyListIsExact'
    BY <1>1, <2>8, RequestsStay, DenyListStays
  <2>10. HistoryIsAnchored'
    BY <1>1, <1>3, <2>2, <2>5 DEF DeletionInv, DeletionIsClean, HistoryIsAnchored, Exists
  <2>11. WorkIsSettled'
    <3>1. \A a \in audit : a.subject # Nobody
      BY DeletionAssumption DEF DeletionInv, DeletionTypeOK, Accounts
    <3>2. \A q \in Rides, e \in Accounts : Live(q)' /\ DriverOf(q, e)' <=> Live(q) /\ DriverOf(q, e)
      <4>1. \A e \in Accounts : e # Nobody
        BY DeletionAssumption DEF Accounts
      <4> QED
        BY <2>2, <2>5, <2>7, <4>1 DEF Live, DriverOf, Exists
    <3>3. \A a \in audit : a.subject \in Accounts
      BY DEF DeletionInv, DeletionTypeOK
    <3>4. \A a \in audit' : a.module = "drivers" => \A q \in Rides : Live(q)' => ~DriverOf(q, a.subject)'
      <4> SUFFICES ASSUME NEW a \in audit', a.module = "drivers", NEW q \in Rides, Live(q)'
          PROVE  ~DriverOf(q, a.subject)'
        BY DEF DriverOf
      <4>1. PICK s : s = a.subject
        OBVIOUS
      <4>2. s \in Accounts /\ ~(Live(q) /\ DriverOf(q, s))
        BY <1>1, <3>3, <4>1 DEF DeletionInv, DeletionIsClean, WorkIsSettled
      <4> QED
        BY <3>2, <4>1, <4>2
    <3>5. \A e \in RideDrivers : avail'[e] = "busy" => \E q \in Rides : Live(q)' /\ DriverOf(q, e)'
      <4> SUFFICES ASSUME NEW e \in RideDrivers, avail'[e] = "busy"
          PROVE  \E q \in Rides : Live(q)' /\ DriverOf(q, e)'
        OBVIOUS
      <4>1. PICK q \in Rides : Live(q) /\ DriverOf(q, e)
        BY <1>1 DEF DeletionInv, DeletionIsClean, WorkIsSettled
      <4> QED
        BY <3>2, <4>1 DEF Accounts
    <3> QED
      BY <3>4, <3>5 DEF WorkIsSettled
  <2>12. TakingsHold'
    BY <1>1, <2>5, <2>7 DEF DeletionInv, TakingsHold, Exists, DeletionTypeOK
  <2>13. TakingsFree' /\ TrailsAnchored' /\ DeletionsFinal'
    BY <1>1 DEF DeletionInv, TakingsFree, TrailsAnchored, DeletionsFinal
  <2>14. RidesFit'
    BY <2>2, <2>5 DEF DeletionInv, RidesFit, Exists
  <2> QED
    BY <2>6, <2>9, <2>10, <2>11, <2>12, <2>13, <2>14 DEF DeletionInv, DeletionIsClean
<1> QED
  BY <1>2, <1>3

LEMMA TakeRideStep ==
  ASSUME DeletionInv, NEW d \in RideDrivers, NEW r \in Rides, TakeRide(d, r)
  PROVE  DeletionInv'
<1>1. /\ Exists(r) /\ ride[r].status = "searching" /\ ride[r].offer = d
      /\ ~RideHeld(r) /\ ~ProfileHeld(d) /\ user[d] = "live" /\ profile[d]
      /\ taking' = [taking EXCEPT ![d] = r]
      /\ UNCHANGED <<user, profile, avail, ride, trail, wallet, audit, denied, serving, del, booking,
                     crashes, asked>>
  BY DEF TakeRide, Live
<1>2. /\ taking'[d] = r /\ \A e \in RideDrivers \ {d} : taking'[e] = taking[e]
      /\ taking' \in [RideDrivers -> Rides \cup {Nobody}]
  BY <1>1 DEF DeletionInv, DeletionTypeOK
<1>3. DeletionTypeOK'
  BY <1>1, <1>2 DEF DeletionInv, DeletionTypeOK, Exists
<1>4. /\ \A p \in Workers : r \notin del[p].rides
      /\ \A e \in RideDrivers : taking[e] # r
  BY <1>1 DEF RideHeld
<1>5. \A q \in Workers : Decided(del[q])' /\ Settled(del[q])'
  <2> SUFFICES ASSUME NEW q \in Workers PROVE Decided(del[q])' /\ Settled(del[q])'
    OBVIOUS
  <2>1. /\ del[q].at = "judged" => del[q].target # d
        /\ del[q].module = "drivers" /\ del[q].at \in {"owned", "cancelled", "judged"} => del[q].target # d
    BY <1>1, HeldRows
  <2>2. Decided(del[q]) /\ Settled(del[q]) /\ Rested(del[q])
    BY RequestFacts DEF Fits
  <2>3. Decided(del[q])'
    BY <1>1, <1>2, <2>1, <2>2 DEF Decided, UserIsReferenced, ProfileIsReferenced, CustomerOf, DriverOf, Exists
  <2>4. del[q].module = "drivers" /\ del[q].at \in {"owned", "cancelled", "judged"}
          => del[q].target \in RideDrivers
    BY <2>2 DEF Rested, MayDelete, Deep
  <2>5. Settled(del[q])'
    BY <1>1, <1>2, <2>1, <2>2, <2>4 DEF Settled, Live, DriverOf, Exists
  <2> QED
    BY <2>3, <2>5
<1>6. RequestsFit' /\ RequestsApart' /\ DenyListIsExact'
  BY <1>1, <1>5, RequestsStay, DenyListStays
<1>7. HistoryIsAnchored'
  BY <1>1 DEF DeletionInv, DeletionIsClean, HistoryIsAnchored, Exists
<1>8. WorkIsSettled'
  BY <1>1 DEF DeletionInv, DeletionIsClean, WorkIsSettled, Live, Exists, DriverOf
<1>9. TakingsHold'
  <2> SUFFICES ASSUME NEW e \in RideDrivers, taking'[e] # Nobody
      PROVE  /\ profile'[e] /\ ride'[taking'[e]] # Nobody
             /\ ride'[taking'[e]].status = "searching" /\ ride'[taking'[e]].offer = e
             /\ \A f \in RideDrivers \ {e} : taking'[f] # taking'[e]
    BY DEF TakingsHold, Exists
  <2>1. CASE e = d
    BY <1>1, <1>2, <1>4, <2>1 DEF Exists
  <2>2. CASE e # d
    <3>1. taking'[e] = taking[e] /\ taking[e] # Nobody
      BY <1>2, <2>2
    <3>2. /\ profile[e] /\ Exists(taking[e])
          /\ ride[taking[e]].status = "searching" /\ ride[taking[e]].offer = e
          /\ \A f \in RideDrivers \ {e} : taking[f] # taking[e]
      BY <3>1 DEF DeletionInv, TakingsHold
    <3> QED
      BY <1>1, <1>2, <1>4, <3>1, <3>2 DEF Exists
  <2> QED
    BY <2>1, <2>2
<1>10. TakingsFree'
  BY <1>1, <1>2, <1>4 DEF DeletionInv, TakingsFree
<1>11. RidesFit' /\ TrailsAnchored'
  BY <1>1 DEF DeletionInv, RidesFit, TrailsAnchored, Exists
<1>12. DeletionsFinal'
  BY <1>1, <1>2 DEF DeletionInv, DeletionsFinal
<1> QED
  BY <1>3, <1>6, <1>7, <1>8, <1>9, <1>10, <1>11, <1>12 DEF DeletionInv, DeletionIsClean

LEMMA CommitAcceptanceStep ==
  ASSUME DeletionInv, NEW d \in RideDrivers, CommitAcceptance(d)
  PROVE  DeletionInv'
<1>1. PICK r : r = taking[d]
  OBVIOUS
<1>2. /\ r # Nobody /\ taking' = [taking EXCEPT ![d] = Nobody]
      /\ ride' = [ride EXCEPT ![r].driver = d, ![r].status = "assigned"]
      /\ avail' = [avail EXCEPT ![d] = "busy"]
      /\ UNCHANGED <<user, profile, trail, wallet, audit, denied, serving, del, booking, crashes, asked>>
  BY <1>1 DEF CommitAcceptance
<1>3. r \in Rides
  BY <1>1, <1>2 DEF DeletionInv, DeletionTypeOK
<1>4. /\ profile[d] /\ Exists(r) /\ ride[r].status = "searching" /\ ride[r].offer = d
      /\ \A e \in RideDrivers \ {d} : taking[e] # r
  BY <1>1, <1>2 DEF DeletionInv, TakingsHold
<1>5. ride[r] \in RideRow /\ ride[r].driver = Nobody
  BY <1>3, <1>4 DEF DeletionInv, DeletionTypeOK, RidesFit, Exists
<1>6. PICK row : row = [ride[r] EXCEPT !.driver = d, !.status = "assigned"]
  OBVIOUS
<1>7. /\ row \in RideRow /\ row.driver = d /\ row.offer = d /\ row.status = "assigned"
      /\ row.customer = ride[r].customer
  BY <1>4, <1>5, <1>6 DEF RideRow
<1>8. row # Nobody
  BY <1>7, DeletionAssumption
<1>9. ride' = [ride EXCEPT ![r] = row]
  BY <1>2, <1>3, <1>6 DEF DeletionInv, DeletionTypeOK
<1>10. /\ ride'[r] = row /\ \A q \in Rides \ {r} : ride'[q] = ride[q]
       /\ ride' \in [Rides -> RideRow \cup {Nobody}]
  BY <1>3, <1>7, <1>9 DEF DeletionInv, DeletionTypeOK
<1>11. /\ taking'[d] = Nobody /\ \A e \in RideDrivers \ {d} : taking'[e] = taking[e]
       /\ taking' \in [RideDrivers -> Rides \cup {Nobody}]
  BY <1>2 DEF DeletionInv, DeletionTypeOK
<1>12. /\ avail'[d] = "busy" /\ \A e \in RideDrivers \ {d} : avail'[e] = avail[e]
       /\ avail' \in [RideDrivers -> {"available", "busy", "unavailable"}]
  BY <1>2 DEF DeletionInv, DeletionTypeOK
<1>13. DeletionTypeOK'
  <2>1. \A q \in Rides : ride'[q] # Nobody => ride'[q].driver \in {Nobody, ride'[q].offer}
    <3>1. \A q \in Rides : ride[q] # Nobody => ride[q].driver \in {Nobody, ride[q].offer}
      BY DEF DeletionInv, DeletionTypeOK, Exists
    <3> QED
      BY <1>7, <1>10, <3>1
  <2>2. DeletionTypeOK
    BY DEF DeletionInv
  <2> QED
    BY <1>2, <1>10, <1>11, <1>12, <2>1, <2>2 DEF DeletionTypeOK, Exists
<1>14. d \in Accounts /\ d # Nobody
  BY DeletionAssumption DEF Accounts
<1>15. /\ \A q \in Rides : Exists(q)' <=> Exists(q)
       /\ \A q \in Rides : Live(q)' <=> Live(q)
  BY <1>4, <1>7, <1>8, <1>10 DEF Exists, Live
<1>16. \A q \in Rides : \A e \in Accounts \ {d} :
         /\ DriverOf(q, e)' <=> DriverOf(q, e)
         /\ CustomerOf(q, e)' <=> CustomerOf(q, e)
  <2>1. \A e \in Accounts : e # Nobody
    BY DeletionAssumption DEF Accounts
  <2> QED
    BY <1>4, <1>5, <1>7, <1>8, <1>10, <2>1 DEF DriverOf, CustomerOf, Exists
<1>17. \A q \in Rides : CustomerOf(q, d)' <=> CustomerOf(q, d)
  BY <1>4, <1>7, <1>8, <1>10 DEF CustomerOf, Exists
<1>18. \A q \in Workers : Decided(del[q])' /\ Settled(del[q])'
  <2> SUFFICES ASSUME NEW q \in Workers PROVE Decided(del[q])' /\ Settled(del[q])'
    OBVIOUS
  <2>1. PICK y : y = del[q]
    OBVIOUS
  <2>2. Decided(y) /\ Settled(y) /\ Rested(y) /\ y \in Deletion
    BY <2>1, RequestFacts DEF Fits
  <2>3. y.at # "idle" => y.target \in Accounts
    BY <2>1, RequestFacts
  <2>4. /\ y.at = "judged" => y.target # d
        /\ y.module = "drivers" /\ y.at \in {"owned", "cancelled", "judged"} => y.target # d
    BY <1>1, <1>2, <2>2 DEF Decided, Settled
  <2>5. y.rides \subseteq Rides
    BY <2>2 DEF Deletion
  <2>6. Decided(y)'
    <3>1. y.at = "judged" => y.target \in Accounts \ {d}
      BY <2>3, <2>4
    <3>2. y.at = "judged" /\ ~UserIsReferenced(y.target) => ~UserIsReferenced(y.target)'
      BY <1>2, <1>16, <3>1 DEF UserIsReferenced
    <3>3. y.at = "judged" /\ ~ProfileIsReferenced(y.target) => ~ProfileIsReferenced(y.target)'
      BY <1>2, <1>16, <3>1 DEF ProfileIsReferenced
    <3>4. y.at = "judged" /\ y.target \in RideDrivers => taking'[y.target] = Nobody
      BY <1>11, <2>2 DEF Decided
    <3> QED
      BY <2>2, <3>2, <3>3, <3>4 DEF Decided
  <2>7. Settled(y)'
    <3>1. y.at \in {"owned", "cancelled", "judged"} => y.target \in Accounts
      BY <2>3
    <3>2. \A s \in y.rides : Exists(s)'
      BY <1>15, <2>2, <2>5 DEF Settled
    <3>3. y.module = "drivers" /\ y.at \in {"owned", "cancelled", "judged"} =>
            y.target \in RideDrivers /\ taking'[y.target] = Nobody
      <4>1. y.module = "drivers" /\ y.at \in {"owned", "cancelled", "judged"} => y.target \in RideDrivers
        BY <2>2 DEF Rested, MayDelete, Deep
      <4> QED
        BY <1>11, <2>2, <4>1 DEF Settled
    <3>4. y.module = "drivers" /\ y.at \in {"cancelled", "judged"} =>
            \A s \in Rides : Live(s)' /\ DriverOf(s, y.target)' => s \in y.rides
      BY <1>15, <1>16, <2>2, <2>4, <3>1 DEF Settled
    <3> QED
      BY <3>2, <3>3, <3>4 DEF Settled
  <2>8. del'[q] = y
    BY <1>2, <2>1
  <2> QED
    BY <2>6, <2>7, <2>8 DEF Decided, Settled, UserIsReferenced, ProfileIsReferenced
<1>19. RequestsFit' /\ RequestsApart' /\ DenyListIsExact'
  BY <1>2, <1>18, RequestsStay, DenyListStays
<1>20. HistoryIsAnchored'
  BY <1>2, <1>4, <1>7, <1>8, <1>10 DEF DeletionInv, DeletionIsClean, HistoryIsAnchored, Exists
<1>21. WorkIsSettled'
  <2>1. \A a \in audit' : a.module = "drivers" => \A q \in Rides : Live(q)' => ~DriverOf(q, a.subject)'
    <3> SUFFICES ASSUME NEW a \in audit', a.module = "drivers", NEW q \in Rides, Live(q)'
        PROVE  ~DriverOf(q, a.subject)'
      BY DEF DriverOf
    <3>1. PICK s : s = a.subject
      OBVIOUS
    <3>2. s \in Accounts /\ s # d
      BY <1>1, <1>2, <3>1 DEF DeletionInv, DeletionsFinal, DeletionTypeOK
    <3>3. ~DriverOf(q, s)
      BY <1>2, <1>15, <3>1 DEF DeletionInv, DeletionIsClean, WorkIsSettled
    <3> QED
      BY <1>16, <3>1, <3>2, <3>3
  <2>2. \A e \in RideDrivers : avail'[e] = "busy" => \E q \in Rides : Live(q)' /\ DriverOf(q, e)'
    <3> SUFFICES ASSUME NEW e \in RideDrivers, avail'[e] = "busy"
        PROVE  \E q \in Rides : Live(q)' /\ DriverOf(q, e)'
      OBVIOUS
    <3>1. CASE e = d
      <4>1. Live(r)' /\ DriverOf(r, d)'
        BY <1>7, <1>8, <1>10 DEF Live, DriverOf, Exists
      <4> QED
        BY <1>3, <3>1, <4>1
    <3>2. CASE e # d
      <4>1. avail[e] = "busy"
        BY <1>12, <3>2
      <4>2. PICK q \in Rides : Live(q) /\ DriverOf(q, e)
        BY <4>1 DEF DeletionInv, DeletionIsClean, WorkIsSettled
      <4>3. e \in Accounts \ {d}
        BY <3>2 DEF Accounts
      <4> QED
        BY <1>15, <1>16, <4>2, <4>3
    <3> QED
      BY <3>1, <3>2
  <2> QED
    BY <2>1, <2>2 DEF WorkIsSettled
<1>22. TakingsHold'
  <2> SUFFICES ASSUME NEW e \in RideDrivers, taking'[e] # Nobody
      PROVE  /\ profile'[e] /\ ride'[taking'[e]] # Nobody
             /\ ride'[taking'[e]].status = "searching" /\ ride'[taking'[e]].offer = e
             /\ \A f \in RideDrivers \ {e} : taking'[f] # taking'[e]
    BY DEF TakingsHold, Exists
  <2>1. PICK s : s = taking[e]
    OBVIOUS
  <2>2. e # d /\ taking'[e] = s /\ s # Nobody
    BY <1>11, <2>1
  <2>3. s \in Rides \ {r}
    BY <1>4, <2>1, <2>2 DEF DeletionInv, DeletionTypeOK
  <2>4. /\ profile[e] /\ Exists(s) /\ ride[s].status = "searching" /\ ride[s].offer = e
        /\ \A f \in RideDrivers \ {e} : taking[f] # s
    BY <2>1, <2>2 DEF DeletionInv, TakingsHold
  <2> QED
    BY <1>2, <1>10, <1>11, <2>2, <2>3, <2>4 DEF Exists
<1>23. TakingsFree'
  BY <1>2, <1>11 DEF DeletionInv, TakingsFree
<1>24. RidesFit'
  BY <1>7, <1>10 DEF DeletionInv, RidesFit, Exists
<1>25. TrailsAnchored'
  BY <1>2 DEF DeletionInv, TrailsAnchored
<1>26. DeletionsFinal'
  BY <1>2, <1>11 DEF DeletionInv, DeletionsFinal
<1> QED
  BY <1>13, <1>19, <1>20, <1>21, <1>22, <1>23, <1>24, <1>25, <1>26 DEF DeletionInv, DeletionIsClean

LEMMA CompleteStep ==
  ASSUME DeletionInv, NEW r \in Rides, Complete(r)
  PROVE  DeletionInv'
<1>1. /\ Exists(r) /\ ride[r].status = "assigned"
      /\ ride' = [ride EXCEPT ![r].status = "completed"]
      /\ UNCHANGED <<user, profile, trail, wallet, audit, denied, serving, del, booking, taking, crashes,
                     asked>>
  BY DEF Complete, Live
<1>2. PICK d : d = ride[r].driver
  OBVIOUS
<1>3. ride[r] \in RideRow /\ d \in RideDrivers
  BY <1>1, <1>2 DEF DeletionInv, DeletionTypeOK, RidesFit, Exists
<1>4. PICK row : row = [ride[r] EXCEPT !.status = "completed"]
  OBVIOUS
<1>5. /\ row \in RideRow /\ row.driver = d /\ row.status = "completed"
      /\ row.customer = ride[r].customer /\ row.offer = ride[r].offer
  BY <1>2, <1>3, <1>4 DEF RideRow
<1>6. row # Nobody
  BY <1>5, DeletionAssumption
<1>7. ride' = [ride EXCEPT ![r] = row]
  BY <1>1, <1>4 DEF DeletionInv, DeletionTypeOK
<1>8. /\ ride'[r] = row /\ \A q \in Rides \ {r} : ride'[q] = ride[q]
      /\ ride' \in [Rides -> RideRow \cup {Nobody}]
  BY <1>5, <1>7 DEF DeletionInv, DeletionTypeOK
<1>9. PICK free : free = IF avail[d] = "busy" THEN "available" ELSE avail[d]
  OBVIOUS
<1>10. /\ avail' = [avail EXCEPT ![d] = free]
       /\ free \in {"available", "unavailable"}
  <2>1. avail[d] \in {"available", "busy", "unavailable"}
    BY <1>3 DEF DeletionInv, DeletionTypeOK
  <2> QED
    BY <1>2, <1>9, <2>1 DEF Complete
<1>11. /\ avail'[d] # "busy" /\ \A e \in RideDrivers \ {d} : avail'[e] = avail[e]
       /\ avail' \in [RideDrivers -> {"available", "busy", "unavailable"}]
  BY <1>3, <1>10 DEF DeletionInv, DeletionTypeOK
<1>12. DeletionTypeOK'
  <2>1. \A q \in Rides : ride'[q] # Nobody => ride'[q].driver \in {Nobody, ride'[q].offer}
    <3>1. \A q \in Rides : ride[q] # Nobody => ride[q].driver \in {Nobody, ride[q].offer}
      BY DEF DeletionInv, DeletionTypeOK, Exists
    <3> QED
      BY <1>1, <1>2, <1>5, <1>8, <3>1 DEF Exists
  <2>2. DeletionTypeOK
    BY DEF DeletionInv
  <2> QED
    BY <1>1, <1>8, <1>11, <2>1, <2>2 DEF DeletionTypeOK, Exists
<1>13. /\ \A q \in Rides : Exists(q)' <=> Exists(q)
       /\ \A q \in Rides : Live(q)' => Live(q)
       /\ \A q \in Rides \ {r} : Live(q) => Live(q)'
  BY <1>1, <1>5, <1>6, <1>8 DEF Exists, Live
<1>14. \A q \in Rides : \A e \in Accounts :
         /\ DriverOf(q, e)' <=> DriverOf(q, e)
         /\ CustomerOf(q, e)' <=> CustomerOf(q, e)
  BY <1>1, <1>2, <1>5, <1>6, <1>8 DEF DriverOf, CustomerOf, Exists
<1>15. \A q \in Workers : Decided(del[q])' /\ Settled(del[q])'
  <2> SUFFICES ASSUME NEW q \in Workers PROVE Decided(del[q])' /\ Settled(del[q])'
    OBVIOUS
  <2>1. PICK y : y = del[q]
    OBVIOUS
  <2>2. Decided(y) /\ Settled(y) /\ y \in Deletion
    BY <2>1, RequestFacts DEF Fits
  <2>3. y.at # "idle" => y.target \in Accounts
    BY <2>1, RequestFacts
  <2>4. y.rides \subseteq Rides
    BY <2>2 DEF Deletion
  <2>5. Decided(y)'
    <3>1. y.at = "judged" => y.target \in Accounts
      BY <2>3
    <3>2. y.at = "judged" /\ ~UserIsReferenced(y.target) => ~UserIsReferenced(y.target)'
      BY <1>1, <1>14, <3>1 DEF UserIsReferenced
    <3>3. y.at = "judged" /\ ~ProfileIsReferenced(y.target) => ~ProfileIsReferenced(y.target)'
      BY <1>1, <1>14, <3>1 DEF ProfileIsReferenced
    <3> QED
      BY <1>1, <2>2, <3>2, <3>3 DEF Decided
  <2>6. Settled(y)'
    <3>1. y.at \in {"cancelled", "judged"} => y.target \in Accounts
      BY <2>3
    <3>2. \A s \in y.rides : Exists(s)'
      BY <1>13, <2>2, <2>4 DEF Settled
    <3>3. y.module = "drivers" /\ y.at \in {"cancelled", "judged"} =>
            \A s \in Rides : Live(s)' /\ DriverOf(s, y.target)' => s \in y.rides
      BY <1>13, <1>14, <2>2, <3>1 DEF Settled
    <3> QED
      BY <1>1, <2>2, <3>2, <3>3 DEF Settled
  <2>7. del'[q] = y
    BY <1>1, <2>1
  <2> QED
    BY <2>5, <2>6, <2>7 DEF Decided, Settled, UserIsReferenced, ProfileIsReferenced
<1>16. RequestsFit' /\ RequestsApart' /\ DenyListIsExact'
  BY <1>1, <1>15, RequestsStay, DenyListStays
<1>17. HistoryIsAnchored'
  BY <1>1, <1>2, <1>5, <1>8 DEF DeletionInv, DeletionIsClean, HistoryIsAnchored, Exists
<1>18. WorkIsSettled'
  <2>1. \A a \in audit' : a.module = "drivers" => \A q \in Rides : Live(q)' => ~DriverOf(q, a.subject)'
    <3> SUFFICES ASSUME NEW a \in audit', a.module = "drivers", NEW q \in Rides, Live(q)'
        PROVE  ~DriverOf(q, a.subject)'
      BY DEF DriverOf
    <3>1. PICK s : s = a.subject
      OBVIOUS
    <3>2. s \in Accounts
      BY <1>1, <3>1 DEF DeletionInv, DeletionTypeOK
    <3>3. ~DriverOf(q, s)
      BY <1>1, <1>13, <3>1 DEF DeletionInv, DeletionIsClean, WorkIsSettled
    <3> QED
      BY <1>14, <3>1, <3>2, <3>3
  <2>2. \A e \in RideDrivers : avail'[e] = "busy" => \E q \in Rides : Live(q)' /\ DriverOf(q, e)'
    <3> SUFFICES ASSUME NEW e \in RideDrivers, avail'[e] = "busy"
        PROVE  \E q \in Rides : Live(q)' /\ DriverOf(q, e)'
      OBVIOUS
    <3>1. e # d /\ avail[e] = "busy"
      BY <1>11
    <3>2. PICK q \in Rides : Live(q) /\ DriverOf(q, e)
      BY <3>1 DEF DeletionInv, DeletionIsClean, WorkIsSettled
    <3>3. q # r /\ e \in Accounts
      BY <1>2, <3>1, <3>2 DEF DriverOf, Accounts
    <3> QED
      BY <1>13, <1>14, <3>2, <3>3
  <2> QED
    BY <2>1, <2>2 DEF WorkIsSettled
<1>19. TakingsHold'
  <2> SUFFICES ASSUME NEW e \in RideDrivers, taking'[e] # Nobody
      PROVE  /\ profile'[e] /\ ride'[taking'[e]] # Nobody
             /\ ride'[taking'[e]].status = "searching" /\ ride'[taking'[e]].offer = e
             /\ \A f \in RideDrivers \ {e} : taking'[f] # taking'[e]
    BY DEF TakingsHold, Exists
  <2>1. PICK s : s = taking[e]
    OBVIOUS
  <2>2. taking'[e] = s /\ s # Nobody
    BY <1>1, <2>1
  <2>3. /\ profile[e] /\ Exists(s) /\ ride[s].status = "searching" /\ ride[s].offer = e
        /\ \A f \in RideDrivers \ {e} : taking[f] # s
    BY <2>1, <2>2 DEF DeletionInv, TakingsHold
  <2>4. s \in Rides \ {r}
    BY <1>1, <2>1, <2>2, <2>3 DEF DeletionInv, DeletionTypeOK
  <2> QED
    BY <1>1, <1>8, <2>2, <2>3, <2>4 DEF Exists
<1>20. TakingsFree' /\ TrailsAnchored' /\ DeletionsFinal'
  BY <1>1 DEF DeletionInv, TakingsFree, TrailsAnchored, DeletionsFinal
<1>21. RidesFit'
  BY <1>5, <1>8 DEF DeletionInv, RidesFit, Exists
<1> QED
  BY <1>12, <1>16, <1>17, <1>18, <1>19, <1>20, <1>21 DEF DeletionInv, DeletionIsClean

-----------------------------------------------------------------------------
LEMMA StutterDeletion == DeletionInv /\ UNCHANGED deletionVars => DeletionInv'
<1> SUFFICES ASSUME DeletionInv, UNCHANGED deletionVars PROVE DeletionInv'
  OBVIOUS
<1>1. UNCHANGED <<user, profile, avail, ride, trail, wallet, audit, denied, serving, del, booking,
                  taking, crashes, asked>>
  BY DEF deletionVars
<1>2. DeletionTypeOK'
  BY <1>1 DEF DeletionInv, DeletionTypeOK, Exists
<1> QED
  BY <1>1, <1>2, QuietTables, DenyListStays DEF DeletionInv, DeletionIsClean

LEMMA NextDeletion == DeletionInv /\ DeletionNext => DeletionInv'
<1> SUFFICES ASSUME DeletionInv, DeletionNext PROVE DeletionInv'
  OBVIOUS
<1>1. CASE \E p \in Workers : \E a \in Admins \cup {Boss}, m \in Modules, t \in Accounts :
             AskDeletion(p, a, m, t)
  BY <1>1, AskStep
<1>2. CASE \E p \in Workers : \/ BeginDeletion(p) \/ LockTarget(p) \/ OwnProfile(p)
                              \/ CancelLinkedWork(p) \/ JudgeReferences(p) \/ CommitDeletion(p)
                              \/ FailDeletion(p) \/ RevokeSubject(p)
  BY <1>2, DeletionBeginStep, LockTargetStep, OwnProfileStep, CancelStep, JudgeStep, CommitDeletionStep,
     FailStep, DeletionRevokeStep
<1>3. CASE \E c \in Customers : AdmitBooking(c) \/ \E r \in Rides, d \in RideDrivers : Book(c, r, d)
  BY <1>3, AdmitStep, BookStep
<1>4. CASE \E d \in RideDrivers : \/ \E r \in Rides : TakeRide(d, r)
                                  \/ CommitAcceptance(d) \/ RecordLocation(d) \/ EarnWallet(d)
  BY <1>4, TakeRideStep, CommitAcceptanceStep, RecordLocationStep, EarnWalletStep
<1>5. CASE \E r \in Rides : Complete(r)
  BY <1>5, CompleteStep
<1>6. CASE Crash \/ Serve
  BY <1>6, CrashStep, ServeStep
<1> QED
  BY <1>1, <1>2, <1>3, <1>4, <1>5, <1>6 DEF DeletionNext

\* What holds of deletions on the way to the properties below.
LEMMA DeletionAlwaysInv == DeletionSpec => []DeletionInv
<1>1. DeletionInv /\ [DeletionNext]_deletionVars => DeletionInv'
  BY NextDeletion, StutterDeletion
<1> QED
  BY <1>1, InitDeletion, PTL DEF DeletionSpec

\* Accounts, rides, deletions in progress and the deny-list stay of their types:
\* of RecordDeletionService.remove and the statements beside it.
THEOREM DeletionTypeCorrect == DeletionSpec => []DeletionTypeOK
<1>1. DeletionInv => DeletionTypeOK
  BY DEF DeletionInv
<1> QED
  BY <1>1, DeletionAlwaysInv, PTL

\* Whatever is booked, accepted, completed, earned or recorded while a deletion
\* decides, and whenever the process dies: no ride, wallet or profile loses the row
\* it points at, no driver deleted as such keeps live work, nobody stays busy
\* without a ride, and a serving process refuses exactly the deleted subjects.
THEOREM DeletionAlwaysClean == DeletionSpec => []DeletionIsClean
<1>1. DeletionInv => DeletionIsClean
  BY DEF DeletionInv
<1> QED
  BY <1>1, DeletionAlwaysInv, PTL

LEMMA NextIsAuthored == DeletionInv /\ DeletionNext => DeletionStep
<1> SUFFICES ASSUME DeletionInv, DeletionNext PROVE DeletionStep
  OBVIOUS
<1>1. CASE \E p \in Workers : CommitDeletion(p)
  <2>1. PICK p \in Workers : CommitDeletion(p)
    BY <1>1
  <2>2. trail' = trail /\ wallet' = wallet
    BY <2>1, CommitKeepsHistory
  <2>3. PICK new : new = [actor |-> del[p].actor, subject |-> del[p].target, module |-> del[p].module]
    OBVIOUS
  <2>4. audit' = audit \cup {new} /\ new.actor = del[p].actor /\ del[p].at = "judged"
    BY <2>1, <2>3 DEF CommitDeletion
  <2>5. user[new.actor] = "live"
    BY <2>4, RequestFacts DEF Fits, Authored, InTransaction
  <2> QED
    BY <2>2, <2>4, <2>5 DEF DeletionStep
<1>2. CASE ~\E p \in Workers : CommitDeletion(p)
  <2>1. audit' = audit /\ trail \subseteq trail' /\ wallet \subseteq wallet'
    BY <1>2 DEF DeletionNext, AskDeletion, BeginDeletion, LockTarget, OwnProfile, CancelLinkedWork,
       JudgeReferences, FailDeletion, RevokeSubject, AdmitBooking, Book, TakeRide, CommitAcceptance,
       RecordLocation, EarnWallet, Complete, Crash, Serve
  <2> QED
    BY <2>1 DEF DeletionStep
<1> QED
  BY <1>1, <1>2

\* No deletion cascades location history or a wallet away, and its author is an
\* administrator whose own account still exists when it commits.
THEOREM DeletionsAlwaysAuthored == DeletionSpec => DeletionsAreAuthored
<1>1. DeletionInv /\ [DeletionNext]_deletionVars => [DeletionStep]_deletionVars
  BY NextIsAuthored
<1> QED
  BY <1>1, DeletionAlwaysInv, PTL DEF DeletionSpec, DeletionsAreAuthored

=============================================================================
