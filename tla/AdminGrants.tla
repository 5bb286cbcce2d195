---------------------------- MODULE AdminGrants ----------------------------
(***************************************************************************)
(* Administrators and their permissions, which super administrators change *)
(* from pages they opened earlier: `AdminManagementService`.               *)
(*                                                                         *)
(* A page is two statements: the accounts with their updated_at, then the  *)
(* permissions of each.  A change holds the acting account FOR SHARE and   *)
(* the changed one FOR UPDATE, and compares updated_at with the page's.    *)
(*                                                                         *)
(* Abstractions.  An account is its e-mail address.  updated_at is a       *)
(* number: clock_timestamp() differs from one change to the next.          *)
(***************************************************************************)
EXTENDS Naturals, FiniteSets

CONSTANTS
  Admin,         \* accounts, by e-mail address
  Boss,          \* super administrators
  Permission,
  MaxVersion,    \* bound: changes of an account
  None

GrantsAssumption == MaxVersion \in Nat /\ None \notin Admin \cup Boss

VARIABLES
  admin,    \* rows of users with role admin, None before creation
  grants,   \* what the managed role of each account permits
  trusted,  \* super administrators whose account is active
  page,     \* what each of them has on screen
  job       \* the transaction each of them has in progress

grantsVars == <<admin, grants, trusted, page, job>>

Shown == [admin : Admin, version : 0..MaxVersion, status : {"active", "suspended"},
          grants : (SUBSET Permission) \cup {None}]
Creating == [does : {"create"}, at : {"begun", "locked"}, admin : Admin, to : SUBSET Permission]
Changing == [does : {"permit"}, at : {"begun", "locked"}, admin : Admin, version : 0..MaxVersion,
             to : SUBSET Permission]
Switching == [does : {"switch"}, at : {"begun", "locked"}, admin : Admin, version : 0..MaxVersion,
              to : {"active", "suspended"}]

AdminGrantsTypeOK ==
  /\ admin \in [Admin -> [status : {"active", "suspended"}, version : 0..MaxVersion] \cup {None}]
  /\ grants \in [Admin -> SUBSET Permission]
  /\ \A a \in Admin : admin[a] = None => grants[a] = {}
  /\ trusted \subseteq Boss
  /\ page \in [Boss -> Shown \cup {None}]
  /\ job \in [Boss -> Creating \cup Changing \cup Switching \cup {None}]

AdminGrantsInit ==
  /\ admin = [a \in Admin |-> None]
  /\ grants = [a \in Admin |-> {}]
  /\ trusted = Boss
  /\ page = [b \in Boss |-> None]
  /\ job = [b \in Boss |-> None]

-----------------------------------------------------------------------------
Held(a) == \E b \in Boss : job[b] # None /\ job[b].at = "locked" /\ job[b].admin = a
Steps(b, what) == job' = [job EXCEPT ![b] = what]

(* list: first the accounts, then what each of them may do. *)
OpenPage(b, a) ==
  /\ b \in trusted /\ admin[a] # None
  /\ page' = [page EXCEPT ![b] = [admin |-> a, version |-> admin[a].version,
                                  status |-> admin[a].status, grants |-> None]]
  /\ UNCHANGED <<admin, grants, trusted, job>>

ShowGrants(b) ==
  /\ page[b] # None /\ page[b].grants = None
  /\ page' = [page EXCEPT ![b].grants = grants[page[b].admin]]
  /\ UNCHANGED <<admin, grants, trusted, job>>

(* create, update and setStatus begin. *)
BeginCreate(b, a, to) ==
  /\ job[b] = None
  /\ Steps(b, [does |-> "create", at |-> "begun", admin |-> a, to |-> to])
  /\ UNCHANGED <<admin, grants, trusted, page>>

BeginChange(b, to) ==
  /\ job[b] = None /\ page[b] # None /\ page[b].grants # None
  /\ Steps(b, [does |-> "permit", at |-> "begun", admin |-> page[b].admin,
               version |-> page[b].version, to |-> to])
  /\ UNCHANGED <<admin, grants, trusted, page>>

BeginSwitch(b, to) ==
  /\ job[b] = None /\ page[b] # None
  /\ Steps(b, [does |-> "switch", at |-> "begun", admin |-> page[b].admin,
               version |-> page[b].version, to |-> to])
  /\ UNCHANGED <<admin, grants, trusted, page>>

(* superActor, then the lock on the address or on the row; whoever waited   *)
(* sees what the other one left.                                            *)
CurrentAlways(b) == admin[job[b].admin] # None   \* mutant: expectedUpdatedAt is not compared
Current(b) == admin[job[b].admin] # None /\ admin[job[b].admin].version = job[b].version

UnusedAlways(a) == TRUE   \* mutant: no duplicate is looked for
Unused(a) == admin[a] = None

LockTarget(b) ==
  /\ job[b] # None /\ job[b].at = "begun"
  /\ ~Held(job[b].admin)
  /\ IF b \in trusted /\ (IF job[b].does = "create" THEN Unused(job[b].admin) ELSE Current(b))
     THEN Steps(b, [job[b] EXCEPT !.at = "locked"])
     ELSE Steps(b, None)
  /\ UNCHANGED <<admin, grants, trusted, page>>

Locked(b, does) == job[b] # None /\ job[b].at = "locked" /\ job[b].does = does

CommitCreate(b) ==
  /\ Locked(b, "create")
  /\ admin' = [admin EXCEPT ![job[b].admin] = [status |-> "active", version |-> 0]]
  /\ grants' = [grants EXCEPT ![job[b].admin] = job[b].to]
  /\ Steps(b, None)
  /\ UNCHANGED <<trusted, page>>

Untouched(a) == admin   \* mutant: the permissions change without updated_at
Touched(a) == [admin EXCEPT ![a].version = @ + 1]

(* replace, and then updated_at of the account. *)
CommitChange(b) ==
  LET a == job[b].admin IN
  /\ Locked(b, "permit") /\ admin[a].version < MaxVersion
  /\ grants' = [grants EXCEPT ![a] = job[b].to]
  /\ admin' = Touched(a)
  /\ Steps(b, None)
  /\ UNCHANGED <<trusted, page>>

CommitSwitch(b) ==
  LET a == job[b].admin IN
  /\ Locked(b, "switch") /\ admin[a].version < MaxVersion
  /\ admin' = [admin EXCEPT ![a] = [status |-> job[b].to, version |-> @.version + 1]]
  /\ Steps(b, None)
  /\ UNCHANGED <<grants, trusted, page>>

Abort(b) ==
  /\ job[b] # None /\ Steps(b, None)
  /\ UNCHANGED <<admin, grants, trusted, page>>

(* An account is demoted or restored outside this program; it waits for the *)
(* transactions that hold it FOR SHARE.                                     *)
Trust(b) ==
  /\ ~\E d \in {"create", "permit", "switch"} : Locked(b, d)
  /\ trusted' = IF b \in trusted THEN trusted \ {b} ELSE trusted \cup {b}
  /\ UNCHANGED <<admin, grants, page, job>>

AdminGrantsNext ==
  \E b \in Boss :
    \/ \E a \in Admin : OpenPage(b, a) \/ \E to \in SUBSET Permission : BeginCreate(b, a, to)
    \/ \E to \in SUBSET Permission : BeginChange(b, to)
    \/ \E to \in {"active", "suspended"} : BeginSwitch(b, to)
    \/ ShowGrants(b) \/ LockTarget(b) \/ CommitCreate(b) \/ CommitChange(b) \/ CommitSwitch(b)
    \/ Abort(b) \/ Trust(b)

AdminGrantsSpec == AdminGrantsInit /\ [][AdminGrantsNext]_grantsVars

-----------------------------------------------------------------------------
(* Nobody replaces permissions or a status that were not on their screen: a *)
(* change is of the account as the page showed it, though the page was read *)
(* in two statements and others committed in between; and it is made by a   *)
(* super administrator whose account is active when it commits.             *)
ChangesAreOfWhatWasShown ==
  [][\A a \in Admin :
       /\ (grants'[a] # grants[a] \/ admin'[a] # admin[a]) => \E b \in trusted : job[b] # None /\ job[b].admin = a
       /\ admin[a] # None /\ (grants'[a] # grants[a] \/ admin'[a] # admin[a]) =>
            \E b \in trusted :
              /\ job'[b] = None /\ job[b] # None
              /\ job[b].does # "create"
              /\ page[b] # None
              /\ page[b].admin = a /\ page[b].version = job[b].version =>
                   /\ page[b].status = admin[a].status
                   /\ page[b].grants \in {None, grants[a]}]_grantsVars
=============================================================================
