------------------------------ MODULE Profiles ------------------------------
(***************************************************************************)
(* An account's own profile: `PostgresUserRepository` and `UserService`,   *)
(* with the unique indexes they rely on and the statement that marks a     *)
(* managed driver's login contact as verified.                             *)
(*                                                                         *)
(* Each write is one statement.  An UPDATE judges the row its snapshot     *)
(* shows and, once it holds the row, judges the newest version again; an   *)
(* INSERT ... WHERE EXISTS judges its snapshot only.  So a write is two    *)
(* steps, and others commit in between.                                    *)
(*                                                                         *)
(* Abstractions.  One kind of contact; users of one role.  Preferences are *)
(* the set of those switched on.                                           *)
(***************************************************************************)
EXTENDS Naturals, FiniteSets

CONSTANTS
  User, Contact, Address, Preference,
  Settler,    \* users whose addresses and preferences are edited
  Job, None

ASSUME ProfilesAssumption == Settler \subseteq User /\ None \notin User \cup Contact \cup Address

VARIABLES
  account,     \* rows of users
  proven,      \* history: the contact whose code the holder entered
  addresses,   \* rows of user_addresses, by user
  default,     \* those with is_default
  prefs,       \* user_preferences
  job          \* statements in progress

profileVars == <<account, proven, addresses, default, prefs, job>>

AccountRow == [contact : Contact, verified : BOOLEAN, deleted : BOOLEAN]
Idle == [does |-> "nothing"]

ProfilesTypeOK ==
  /\ account \in [User -> AccountRow]
  /\ proven \in [User -> Contact \cup {None}]
  /\ addresses \in [User -> SUBSET Address] /\ default \in [User -> SUBSET Address]
  /\ \A u \in User : default[u] \subseteq addresses[u]
  /\ prefs \in [User -> SUBSET Preference]
  /\ \A j \in Job : job[j].does \in {"nothing", "edit", "verify", "address", "patch"}

ProfilesInit ==
  /\ account \in {a \in [User -> [contact : Contact, verified : {FALSE}, deleted : {FALSE}]] :
                    \A u, w \in User : u # w => a[u].contact # a[w].contact}
  /\ proven = [u \in User |-> None]
  /\ addresses = [u \in User |-> {}]
  /\ default = [u \in User |-> {}]
  /\ prefs = [u \in User |-> Preference]
  /\ job = [j \in Job |-> Idle]

-----------------------------------------------------------------------------
Starts(j, what) ==
  /\ job[j] = Idle
  /\ job' = [job EXCEPT ![j] = what]
  /\ UNCHANGED <<account, proven, addresses, default, prefs>>
Done(j) == job' = [job EXCEPT ![j] = Idle]
Is(j, does) == job[j].does = does

(* update: the identity guard is part of the UPDATE. *)
BeginEdit(j, u, c) == Starts(j, [does |-> "edit", user |-> u, to |-> c, read |-> account[u]])

Editable(row, c) == ~row.deleted /\ (row.verified => row.contact = c)
StillEditableAsRead(j) == TRUE   \* mutant: the guard is a SELECT before the UPDATE
StillEditable(j) == Editable(account[job[j].user], job[j].to)

ContactFreeAlways(u, c) == TRUE   \* mutant: no unique index on contacts
ContactFree(u, c) == \A w \in User \ {u} : account[w].deleted \/ account[w].contact # c

CommitEdit(j) ==
  /\ Is(j, "edit")
  /\ IF Editable(job[j].read, job[j].to) /\ StillEditable(j) /\ ContactFree(job[j].user, job[j].to)
     THEN account' = [account EXCEPT ![job[j].user].contact = job[j].to]
     ELSE UNCHANGED account
  /\ Done(j)
  /\ UNCHANGED <<proven, addresses, default, prefs>>

(* A code is sent to the contact of an account that a fleet manages; when   *)
(* it is entered, the contact is marked verified if it is still the same.   *)
SendCode(j, u) ==
  /\ ~account[u].verified /\ ~account[u].deleted
  /\ Starts(j, [does |-> "verify", user |-> u, sent |-> account[u].contact])

SameContactAlways(j) == TRUE   \* mutant: the contact is not compared
SameContact(j) == account[job[j].user].contact = job[j].sent

EnterCode(j) ==
  LET u == job[j].user IN
  /\ Is(j, "verify")
  /\ IF ~account[u].deleted /\ SameContact(j)
     THEN account' = [account EXCEPT ![u].verified = TRUE] /\ proven' = [proven EXCEPT ![u] = job[j].sent]
     ELSE UNCHANGED <<account, proven>>
  /\ Done(j)
  /\ UNCHANGED <<addresses, default, prefs>>

Lapse(j) ==
  /\ Is(j, "verify") /\ Done(j)
  /\ UNCHANGED <<account, proven, addresses, default, prefs>>

(* softDelete; the contact is free for another account. *)
SoftDelete(u) ==
  /\ ~account[u].deleted
  /\ account' = [account EXCEPT ![u].deleted = TRUE]
  /\ UNCHANGED <<proven, addresses, default, prefs, job>>

-----------------------------------------------------------------------------
(* createAddress and updateAddress: the account must not be deleted in the  *)
(* statement's snapshot, and user_addresses_one_default_uidx admits one     *)
(* default address, which is not moved but refused.                         *)
BeginAddress(j, u, a, d) ==
  /\ ~account[u].deleted
  /\ Starts(j, [does |-> "address", user |-> u, address |-> a, default |-> d])

OneDefaultAlways(u, a) == TRUE   \* mutant: no partial unique index
OneDefault(u, a) == default[u] \subseteq {a}

CommitAddress(j) ==
  LET u == job[j].user
      a == job[j].address
  IN
  /\ Is(j, "address")
  /\ IF job[j].default => OneDefault(u, a)
     THEN /\ addresses' = [addresses EXCEPT ![u] = @ \cup {a}]
          /\ default' = [default EXCEPT ![u] = IF job[j].default THEN @ \cup {a} ELSE @ \ {a}]
     ELSE UNCHANGED <<addresses, default>>
  /\ Done(j)
  /\ UNCHANGED <<account, proven, prefs>>

(* updatePreferences: an upsert of the columns that were sent. *)
BeginPatch(j, u, on, off) ==
  /\ ~account[u].deleted /\ on \cap off = {} /\ on \cup off # {}
  /\ Starts(j, [does |-> "patch", user |-> u, on |-> on, off |-> off, read |-> prefs[u]])

PatchedAsRead(j) == (job[j].read \cup job[j].on) \ job[j].off   \* mutant: the whole row is written back
Patched(j) == (prefs[job[j].user] \cup job[j].on) \ job[j].off

CommitPatch(j) ==
  /\ Is(j, "patch")
  /\ prefs' = [prefs EXCEPT ![job[j].user] = Patched(j)]
  /\ Done(j)
  /\ UNCHANGED <<account, proven, addresses, default>>

ProfilesNext ==
  \/ \E j \in Job, u \in User :
       \/ \E c \in Contact : BeginEdit(j, u, c)
       \/ SendCode(j, u)
  \/ \E j \in Job, u \in Settler :
       \/ \E a \in Address, d \in BOOLEAN : BeginAddress(j, u, a, d)
       \/ \E on, off \in SUBSET Preference : BeginPatch(j, u, on, off)
  \/ \E j \in Job : CommitEdit(j) \/ EnterCode(j) \/ Lapse(j) \/ CommitAddress(j) \/ CommitPatch(j)
  \/ \E u \in User : SoftDelete(u)

ProfilesSpec == ProfilesInit /\ [][ProfilesNext]_profileVars

-----------------------------------------------------------------------------
(* A contact marked verified is the one whose code was entered, whatever    *)
(* edits overlap the verification; no two accounts in use share a contact;  *)
(* nobody has two default addresses.                                        *)
ProfilesAreSound ==
  \A u \in User :
    /\ account[u].verified => account[u].contact = proven[u]
    /\ Cardinality(default[u]) <= 1
    /\ ~account[u].deleted =>
         \A w \in User \ {u} : account[w].deleted \/ account[w].contact # account[u].contact

(* A patch of some preferences never takes back another that was committed  *)
(* while it was under way.                                                  *)
PatchesMerge ==
  [][\A u \in User : prefs'[u] # prefs[u] =>
       \E j \in Job :
         /\ Is(j, "patch") /\ job[j].user = u
         /\ prefs'[u] \ job[j].on \subseteq prefs[u]
         /\ prefs[u] \ job[j].off \subseteq prefs'[u]]_profileVars
=============================================================================
