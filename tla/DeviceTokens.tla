---------------------------- MODULE DeviceTokens ----------------------------
(***************************************************************************)
(* Which phones a user is reached on: the rows of `user_devices`, one per  *)
(* user and installation, with the push token last reported.  A token is   *)
(* active in at most one row (a partial unique index), so that a phone     *)
(* that changes hands is pushed to for its present user only.              *)
(*                                                                         *)
(* Each handler runs several statements without a transaction: looks for   *)
(* its own row, for the token's active owner, releases that owner, and     *)
(* writes; requests interleave between them.                               *)
(*                                                                         *)
(* Abstractions.  Rows are never removed here.  A row is known by its user *)
(* and installation: what refers to its id follows it when it moves.  The  *)
(* platform, the time last seen and an update of the installation alone    *)
(* are left out.                                                           *)
(***************************************************************************)
EXTENDS Naturals

CONSTANTS
  Users, Installs, Tokens,
  Handlers,      \* requests that may run at the same time
  NoDevice,      \* the row does not exist
  NoRequest      \* the handler is free

VARIABLES
  device,        \* the rows
  request,       \* what each handler is doing
  refused,       \* the last request that ended was refused
  alone          \* handlers whose request has run without any other

deviceVars == <<device, request, refused, alone>>

Row == Users \X Installs
UpdateStep == {"find update", "release update", "update",
               "find again", "release again", "update again"}

DevicesTypeOK ==
  /\ device \in [Row -> [token : Tokens, active : BOOLEAN] \cup {NoDevice}]
  /\ request \in [Handlers -> [row : Row, token : Tokens, to : Row \cup {NoDevice},
                               step : {"find", "owner", "release", "insert", "met own",
                                       "met token", "move", "own"} \cup UpdateStep]
                              \cup {NoRequest}]
  /\ refused \in BOOLEAN /\ alone \subseteq Handlers

Known(r) == device[r] # NoDevice
Holds(r, t) == Known(r) /\ device[r].active /\ device[r].token = t

\* Mutant: there is no index on active tokens.
FreeAlways(r, t) == Known(r) \/ t \in Tokens
\* uq_user_devices_fcm_token: no other row is active with the token.
Free(r, t) == \A s \in Row \ {r} : ~Holds(s, t)

Owner(t) == IF \E r \in Row : Holds(r, t) THEN CHOOSE r \in Row : Holds(r, t) ELSE NoDevice

Proceed(h, step, to) == request' = [request EXCEPT ![h].step = step, ![h].to = to]
Answer(h, bad) ==
  /\ request' = [request EXCEPT ![h] = NoRequest]
  /\ refused' = (bad /\ h \in alone) /\ alone' = alone \ {h}

At(h, step) == request[h] # NoRequest /\ request[h].step = step
Going == UNCHANGED <<refused, alone>>

Accept(h, r, t, step) ==
  /\ request[h] = NoRequest
  /\ request' = [request EXCEPT ![h] = [row |-> r, token |-> t, to |-> NoDevice, step |-> step]]
  /\ alone' = IF \A g \in Handlers : request[g] = NoRequest THEN {h} ELSE {}
  /\ refused' = FALSE
  /\ UNCHANGED device

----------------------------------------------------------------------------
(* registerDevice.                                                         *)
Register(h, r, t) == Accept(h, r, t, "find")

\* findByUserAndDeviceId: a row that exists is written at once.
FindOwn(h) ==
  /\ At(h, "find")
  /\ IF Known(request[h].row) THEN Proceed(h, "own", request[h].row)
     ELSE Proceed(h, "owner", NoDevice)
  /\ Going /\ UNCHANGED device

\* findByFcmToken: another user who holds the token has to give it up.
FindOwner(h) ==
  /\ At(h, "owner")
  /\ LET owner == Owner(request[h].token)
     IN IF owner # NoDevice /\ owner[1] # request[h].row[1]
        THEN Proceed(h, "release", owner) ELSE Proceed(h, "insert", NoDevice)
  /\ Going /\ UNCHANGED device

Inactive(r) == IF Known(r) THEN [device EXCEPT ![r].active = FALSE] ELSE device

\* deactivateById: whatever token the row holds by now.
Release(h) ==
  /\ At(h, "release")
  /\ device' = Inactive(request[h].to)
  /\ Proceed(h, "insert", NoDevice) /\ Going

Written(r, t) == [device EXCEPT ![r] = [token |-> t, active |-> TRUE]]

\* INSERT: meets the user's own row, inserted meanwhile, or the token in an
\* active row.
Insert(h) ==
  LET r == request[h].row
      t == request[h].token
  IN /\ At(h, "insert")
     /\ \/ /\ ~Known(r) /\ Free(r, t)
           /\ device' = Written(r, t) /\ Answer(h, FALSE)
        \/ Known(r) /\ Proceed(h, "met own", NoDevice) /\ Going /\ UNCHANGED device
        \/ /\ ~Known(r) /\ ~Free(r, t)
           /\ Proceed(h, "met token", NoDevice) /\ Going /\ UNCHANGED device

\* findByUserAndDeviceId once more.
MetOwn(h) ==
  /\ At(h, "met own")
  /\ IF Known(request[h].row) THEN Proceed(h, "own", request[h].row) /\ Going
     ELSE Answer(h, TRUE)
  /\ UNCHANGED device

\* findByFcmToken once more: a row of the same user is taken over.
MetToken(h) ==
  LET owner == Owner(request[h].token)
  IN /\ At(h, "met token")
     /\ IF owner # NoDevice /\ owner[1] = request[h].row[1]
        THEN Proceed(h, "move", owner) /\ Going ELSE Answer(h, TRUE)
     /\ UNCHANGED device

\* A row changes its installation, and who refers to its id goes with it.
Follow(h, from, r) ==
  LET Now(x) == IF x = from THEN r ELSE x
  IN request' = [g \in Handlers |->
       IF g = h \/ request[g] = NoRequest THEN NoRequest
       ELSE [request[g] EXCEPT !.to = Now(@),
                               !.row = IF request[g].step \in UpdateStep THEN Now(@) ELSE @]]

\* UPDATE of the row found, whatever token it holds by now: it becomes this
\* installation's, and active.
Move(h) ==
  LET r == request[h].row
      from == request[h].to
      t == device[from].token
  IN /\ At(h, "move")
     /\ IF (r = from \/ ~Known(r)) /\ Free(from, t)
        THEN /\ device' = [device EXCEPT ![from] = NoDevice, ![r] = [token |-> t, active |-> TRUE]]
             /\ Follow(h, from, r)
             /\ refused' = FALSE /\ alone' = alone \ {h}
        ELSE Answer(h, TRUE) /\ UNCHANGED device

\* UPDATE of the user's own row, with the token's owner left as it is.
WriteOwn(h) ==
  LET r == request[h].to
      t == request[h].token
  IN /\ At(h, "own")
     /\ IF Free(r, t) THEN device' = Written(r, t) /\ Answer(h, FALSE)
        ELSE Answer(h, TRUE) /\ UNCHANGED device

----------------------------------------------------------------------------
(* updateDevice with a new token: here the owner is released first, and    *)
(* once more when the write meets one.                                     *)
Update(h, r, t) == Known(r) /\ Accept(h, r, t, "find update")

FindHolder(h) ==
  /\ At(h, "find update")
  /\ LET owner == Owner(request[h].token)
     IN IF owner \notin {NoDevice, request[h].row}
        THEN Proceed(h, "release update", owner) ELSE Proceed(h, "update", NoDevice)
  /\ Going /\ UNCHANGED device

\* findByFcmToken after the write met the token in another row.
FindAgain(h) ==
  /\ At(h, "find again")
  /\ LET owner == Owner(request[h].token)
     IN IF owner \notin {NoDevice, request[h].row}
        THEN Proceed(h, "release again", owner) /\ Going ELSE Answer(h, TRUE)
  /\ UNCHANGED device

ReleaseHolder(h) ==
  /\ \/ At(h, "release update") /\ Proceed(h, "update", NoDevice)
     \/ At(h, "release again") /\ Proceed(h, "update again", NoDevice)
  /\ device' = Inactive(request[h].to) /\ Going

\* The write is tried again once.
Write(h) ==
  LET r == request[h].row
      t == request[h].token
  IN /\ At(h, "update") \/ At(h, "update again")
     /\ \/ Free(r, t) /\ device' = Written(r, t) /\ Answer(h, FALSE)
        \/ /\ ~Free(r, t) /\ UNCHANGED device
           /\ IF At(h, "update") THEN Proceed(h, "find again", NoDevice) /\ Going
              ELSE Answer(h, TRUE)

----------------------------------------------------------------------------
\* deactivateDevice, and deactivateByFcmToken when the provider says that
\* the token is gone.
Deactivate(r) ==
  /\ Known(r) /\ device[r].active
  /\ device' = Inactive(r) /\ UNCHANGED <<request, refused, alone>>

DevicesInit ==
  /\ device = [r \in Row |-> NoDevice]
  /\ request = [h \in Handlers |-> NoRequest]
  /\ refused = FALSE /\ alone = {}

DevicesNext ==
  \/ \E h \in Handlers :
       \/ \E r \in Row, t \in Tokens : Register(h, r, t) \/ Update(h, r, t)
       \/ FindOwn(h) \/ FindOwner(h) \/ Release(h) \/ Insert(h)
       \/ MetOwn(h) \/ MetToken(h) \/ Move(h) \/ WriteOwn(h)
       \/ FindHolder(h) \/ FindAgain(h) \/ ReleaseHolder(h) \/ Write(h)
  \/ \E r \in Row : Deactivate(r)

DevicesSpec == DevicesInit /\ [][DevicesNext]_deviceVars

----------------------------------------------------------------------------
(* Properties.                                                             *)

\* A phone is pushed to for one user: no token is active in two rows, in
\* whatever order its users' registrations ran.
OneUserPerPhone ==
  \A r, s \in Row, t \in Tokens : Holds(r, t) /\ Holds(s, t) => r = s

\* A phone's token goes to whoever registers it last: a request during which
\* no other ran is not refused.
LastOneIsServed == ~refused
=============================================================================
