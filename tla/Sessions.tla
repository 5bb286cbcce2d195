------------------------------- MODULE Sessions -------------------------------
(***************************************************************************)
(* Signed-in sessions: the rows of `refresh_tokens`, their rotation, and   *)
(* everything that revokes them.                                           *)
(*                                                                         *)
(* A session is a family of tokens of which each replaces the one before.  *)
(* Requests run as PostgreSQL transactions at READ COMMITTED: a rotation   *)
(* locks the token it was shown, then inserts its successor and revokes    *)
(* it; a revocation of a family or of a user is an UPDATE whose rows are   *)
(* those its statement saw when it started, each of them examined again    *)
(* once nobody locks it.  Inserting a token needs a key-share lock on its  *)
(* owner's row (the foreign key), which a transaction that selected the    *)
(* owner FOR UPDATE denies.                                                *)
(*                                                                         *)
(* Abstractions.  Hashes, cookies and user agents are left out: a request  *)
(* may show any token that was ever issued.  Time only expires tokens.     *)
(***************************************************************************)
EXTENDS FiniteSets

CONSTANTS
  Principal,   \* users who sign in
  Token, Family,
  Request,     \* transactions in progress
  Nil

ASSUME SessionsAssumption == Nil \notin Request \cup Token \cup Principal \cup Family

VARIABLES
  userStatus,\* users.status, or "deleted"
  issued,    \* rows of refresh_tokens
  family,    \* family_id of an issued token
  owner,     \* user_id of a family
  live,      \* issued tokens whose revoked_at is null
  lapsed,    \* issued tokens whose expires_at has passed
  next,      \* replaced_by
  holder,    \* the request holding the lock of a token's row
  keeper,    \* the request that selected a user's row FOR UPDATE
  request,   \* requests in progress
  ended      \* families covered by a finished revocation that no rotation crossed

sessionVars == <<userStatus, issued, family, owner, live, lapsed, next, holder, keeper,
                 request, ended>>

rows == <<issued, family, owner, live, lapsed, next>>
locks == <<holder, keeper>>

NoRequest == [do |-> "idle"]
Login == [do : {"login"}, user : Principal]
Rotation == [do : {"rotate", "reuse"}, token : Token]
Revocation == [do : {"logoutAll", "reset", "suspend"}, user : Principal]
Sweep == [do : {"sweep"}, why : {"reuse", "logoutAll", "reset", "suspend"},
          user : Principal, seen : SUBSET Token, covers : SUBSET Family,
          crossed : SUBSET Family]

SessionsTypeOK ==
  /\ userStatus \in [Principal -> {"active", "suspended", "deleted"}]
  /\ issued \subseteq Token
  /\ live \subseteq issued
  /\ lapsed \subseteq issued
  /\ family \in [issued -> Family]
  /\ owner \in [Family -> Principal \cup {Nil}]
  /\ next \in [issued -> issued \cup {Nil}]
  /\ holder \in [Token -> Request \cup {Nil}]
  /\ keeper \in [Principal -> Request \cup {Nil}]
  /\ request \in [Request -> {NoRequest} \cup Login \cup Rotation \cup Revocation \cup Sweep]
  /\ ended \subseteq Family

SessionsInit ==
  /\ userStatus = [u \in Principal |-> "active"]
  /\ issued = {} /\ live = {} /\ lapsed = {}
  /\ family = <<>>
  /\ owner = [f \in Family |-> Nil]
  /\ next = <<>>
  /\ holder = [t \in Token |-> Nil]
  /\ keeper = [u \in Principal |-> Nil]
  /\ request = [x \in Request |-> NoRequest]
  /\ ended = {}

-----------------------------------------------------------------------------
Members(f) == {t \in issued : family[t] = f}
OwnerOf(t) == owner[family[t]]

(* What a request with an access token of family f is let through for.     *)
Admits(f) ==
  /\ owner[f] # Nil
  /\ userStatus[owner[f]] = "active"
  /\ (Members(f) \cap live) \ lapsed # {}

Begin(x, job) == /\ request[x] = NoRequest
                 /\ request' = [request EXCEPT ![x] = job]

(* Locks go when the transaction ends, however it ends.                    *)
Release(x) ==
  /\ holder' = [t \in Token |-> IF holder[t] = x THEN Nil ELSE holder[t]]
  /\ keeper' = [u \in Principal |-> IF keeper[u] = x THEN Nil ELSE keeper[u]]

(* A row of user u can be inserted: nobody selected the user FOR UPDATE.   *)
KeySharedAlways(x, u) == TRUE

KeyShared(x, u) == keeper[u] \in {Nil, x}

InsertBeside(t, f, replaced) ==
  /\ issued' = issued \cup {t}
  /\ live' = live \cup {t}
  /\ family' = [s \in issued \cup {t} |-> IF s = t THEN f ELSE family[s]]
  /\ next' = [s \in issued \cup {t} |->
                IF s = t THEN Nil ELSE IF s \in replaced THEN t ELSE next[s]]

Insert(t, f, replaced) ==
  /\ issued' = issued \cup {t}
  /\ live' = (live \cup {t}) \ replaced
  /\ family' = [s \in issued \cup {t} |-> IF s = t THEN f ELSE family[s]]
  /\ next' = [s \in issued \cup {t} |->
                IF s = t THEN Nil ELSE IF s \in replaced THEN t ELSE next[s]]

-----------------------------------------------------------------------------
(* Sign-in.                                                                *)

(* A password or a code was accepted and the account was found active.     *)
BeginLogin(x, u) ==
  /\ userStatus[u] = "active"
  /\ Begin(x, [do |-> "login", user |-> u])
  /\ UNCHANGED <<userStatus, rows, locks, ended>>

(* issueAuthentication: the first token of a new family.                   *)
IssueAuthentication(x, t, f) ==
  /\ request[x].do = "login"
  /\ t \notin issued
  /\ owner[f] = Nil
  /\ KeyShared(x, request[x].user)
  /\ Insert(t, f, {})
  /\ owner' = [owner EXCEPT ![f] = request[x].user]
  /\ request' = [request EXCEPT ![x] = NoRequest]
  /\ UNCHANGED <<userStatus, lapsed, locks, ended>>

-----------------------------------------------------------------------------
(* rotate                                                                  *)

(* The presented token is selected FOR UPDATE and examined.  An expired    *)
(* one ends the request.                                                   *)
PresentUnlocked(x, t) ==
  /\ t \in issued
  /\ t \in live => t \notin lapsed
  /\ Begin(x, [do |-> IF t \in live THEN "rotate" ELSE "reuse", token |-> t])
  /\ UNCHANGED <<userStatus, rows, locks, ended>>

PresentUnexamined(x, t) ==
  /\ t \in issued \ lapsed
  /\ holder[t] = Nil
  /\ Begin(x, [do |-> "rotate", token |-> t])
  /\ holder' = [holder EXCEPT ![t] = x]
  /\ UNCHANGED <<userStatus, rows, keeper, ended>>

Present(x, t) ==
  /\ t \in issued
  /\ holder[t] = Nil
  /\ t \in live => t \notin lapsed
  /\ Begin(x, [do |-> IF t \in live THEN "rotate" ELSE "reuse", token |-> t])
  /\ holder' = [holder EXCEPT ![t] = x]
  /\ UNCHANGED <<userStatus, rows, keeper, ended>>

(* The successor is inserted, the presented token is revoked and linked    *)
(* to it, and the transaction commits; sweeps already under way have not   *)
(* seen the successor.                                                     *)
CommitRotation(x, new) ==
  /\ request[x].do = "rotate"
  /\ new \notin issued
  /\ LET t == request[x].token  f == family[t] IN
     /\ KeyShared(x, owner[f])
     /\ Insert(new, f, {t})
     /\ request' = [y \in Request |->
                      IF y = x THEN NoRequest
                      ELSE IF request[y].do = "sweep"
                           THEN [request[y] EXCEPT !.crossed = @ \cup {f}]
                           ELSE request[y]]
  /\ Release(x)
  /\ UNCHANGED <<userStatus, owner, lapsed, ended>>

-----------------------------------------------------------------------------
(* Revocation of one token: logout, revokeSession.                         *)
Revoke(t) ==
  /\ t \in live
  /\ holder[t] = Nil
  /\ live' = live \ {t}
  /\ UNCHANGED <<userStatus, issued, family, owner, lapsed, next, locks, request, ended>>

(* Revocation of all the tokens of a user: logoutAll; the end of a         *)
(* password reset and the suspension of an account, which first select     *)
(* the user FOR UPDATE.                                                    *)
BeginLogoutAllLocked(x, u) ==
  /\ userStatus[u] = "active"
  /\ keeper[u] = Nil
  /\ Begin(x, [do |-> "logoutAll", user |-> u])
  /\ keeper' = [keeper EXCEPT ![u] = x]
  /\ UNCHANGED <<userStatus, rows, holder, ended>>

BeginLogoutAll(x, u) ==
  /\ userStatus[u] = "active"
  /\ Begin(x, [do |-> "logoutAll", user |-> u])
  /\ UNCHANGED <<userStatus, rows, locks, ended>>

(* deleteAccount: the account is deleted first, in a statement of its own. *)
DeleteAccount(x, u) ==
  /\ userStatus[u] = "active"
  /\ Begin(x, [do |-> "logoutAll", user |-> u])
  /\ userStatus' = [userStatus EXCEPT ![u] = "deleted"]
  /\ UNCHANGED <<rows, locks, ended>>

BeginLocked(x, u, why) ==
  /\ userStatus[u] = "active"
  /\ keeper[u] = Nil
  /\ Begin(x, [do |-> why, user |-> u])
  /\ keeper' = [keeper EXCEPT ![u] = x]
  /\ UNCHANGED <<userStatus, rows, holder, ended>>

CompleteReset(x, u) == BeginLocked(x, u, "reset")
Suspend(x, u) == BeginLocked(x, u, "suspend")

(* Statuses are also set back, which revokes nothing.                      *)
Reactivate(u) ==
  /\ userStatus[u] = "suspended"
  /\ keeper[u] = Nil
  /\ userStatus' = [userStatus EXCEPT ![u] = "active"]
  /\ UNCHANGED <<rows, locks, request, ended>>

(* The UPDATE starts: these are the rows it will look at.                  *)
StartSweep(x) ==
  /\ request[x].do \in {"reuse", "logoutAll", "reset", "suspend"}
  /\ LET why == request[x].do
         u == IF why = "reuse" THEN OwnerOf(request[x].token) ELSE request[x].user
         scope == IF why = "reuse" THEN Members(family[request[x].token])
                  ELSE {t \in issued : OwnerOf(t) = u}
     IN request' = [request EXCEPT ![x] =
                      [do |-> "sweep", why |-> why, user |-> u, seen |-> scope \cap live,
                       covers |-> {family[t] : t \in scope}, crossed |-> {}]]
  /\ UNCHANGED <<userStatus, rows, locks, ended>>

(* It ends once it could lock each of them, and revokes those that are     *)
(* still live; the transaction commits.                                    *)
CommitSweep(x) ==
  /\ request[x].do = "sweep"
  /\ \A t \in request[x].seen : holder[t] \in {Nil, x}
  /\ live' = live \ request[x].seen
  /\ userStatus' = IF request[x].why = "suspend"
                   THEN [userStatus EXCEPT ![request[x].user] = "suspended"] ELSE userStatus
  /\ ended' = ended \cup IF request[x].why \in {"reset", "suspend"} THEN request[x].covers
                         ELSE request[x].covers \ request[x].crossed
  /\ Release(x)
  /\ request' = [request EXCEPT ![x] = NoRequest]
  /\ UNCHANGED <<issued, family, owner, lapsed, next>>

-----------------------------------------------------------------------------
(* The clock, and connections that fail.                                   *)
ExpireUnissued(t) ==
  /\ t \notin lapsed
  /\ lapsed' = lapsed \cup {t}
  /\ UNCHANGED <<userStatus, issued, family, owner, live, next, locks, request, ended>>

Expire(t) ==
  /\ t \in issued \ lapsed
  /\ lapsed' = lapsed \cup {t}
  /\ UNCHANGED <<userStatus, issued, family, owner, live, next, locks, request, ended>>

(* The requests that must end before this one can go on.                   *)
WaitsFor(x) ==
  CASE request[x].do = "rotate" -> {keeper[OwnerOf(request[x].token)]} \ {Nil, x}
    [] request[x].do = "login" -> {keeper[request[x].user]} \ {Nil, x}
    [] request[x].do = "sweep" -> {holder[t] : t \in request[x].seen} \ {Nil, x}
    [] OTHER -> {}

(* A transaction is cut off, or chosen by PostgreSQL to break a deadlock.  *)
Abort(x) ==
  /\ request[x] # NoRequest
  /\ request' = [request EXCEPT ![x] = NoRequest]
  /\ Release(x)
  /\ UNCHANGED <<userStatus, rows, ended>>

SessionsNext ==
  \/ \E x \in Request, u \in Principal :
       \/ BeginLogin(x, u)
       \/ BeginLogoutAll(x, u)
       \/ DeleteAccount(x, u)
       \/ CompleteReset(x, u)
       \/ Suspend(x, u)
  \/ \E x \in Request, t \in Token : Present(x, t) \/ CommitRotation(x, t)
  \/ \E x \in Request, t \in Token, f \in Family : IssueAuthentication(x, t, f)
  \/ \E x \in Request : StartSweep(x) \/ CommitSweep(x) \/ Abort(x)
  \/ \E t \in Token : Revoke(t) \/ Expire(t)
  \/ \E u \in Principal : Reactivate(u)

SessionsSpec == SessionsInit /\ [][SessionsNext]_sessionVars

-----------------------------------------------------------------------------
(* A session never has two live tokens, although requests show the same    *)
(* token at the same time: whoever replays it either gets the one          *)
(* successor or is found out.                                              *)
OneLivePerFamily ==
  \A s, t \in live : family[s] = family[t] => s = t

(* Rotation leaves a trail: a replaced token is revoked, its successor is  *)
(* of its own family, and no token replaces two.                           *)
TrailOfRotations ==
  \A s \in issued : next[s] # Nil =>
    /\ s \notin live
    /\ family[next[s]] = family[s]
    /\ \A t \in issued : next[t] = next[s] => t = s

(* After a finished revocation its sessions are refused: always when the   *)
(* revocation held the user's row, and otherwise when no rotation of the   *)
(* session committed while the UPDATE was running.                         *)
EndedSessionsRefused ==
  \A f \in ended : ~Admits(f)

(* Only a revocation that selected the account FOR UPDATE can wait in a    *)
(* circle, for a rotation that locked a token and now needs the account.   *)
DeadlockNeedsAccountLock ==
  \A x, y \in Request :
    y \in WaitsFor(x) /\ x \in WaitsFor(y) =>
      \E z \in {x, y} : request[z].do = "sweep" /\ request[z].why \in {"reset", "suspend"}

(* The four together: a family has one live token and one trail, an ended  *)
(* session is refused, and two requests wait for each other only when one   *)
(* holds an account.                                                        *)
SessionsAreSound ==
  OneLivePerFamily /\ TrailOfRotations /\ EndedSessionsRefused /\ DeadlockNeedsAccountLock

(* A session without a live token never gets one again.                    *)
NoRevival ==
  [][\A f \in Family : (Members(f) # {} /\ Members(f) \cap live = {})
                         => (Members(f) \cap live)' = {}]_sessionVars
=============================================================================
