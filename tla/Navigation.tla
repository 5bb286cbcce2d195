----------------------------- MODULE Navigation -----------------------------
(***************************************************************************)
(* The route of one ride and the PIN that starts it: both live in the JSON *)
(* column `rides.route_metadata`, which the recalculation of the route     *)
(* (`RouteRecalculationService.process`, from GPS fixes and from the map   *)
(* page), the PIN check and the customer's position write concurrently.    *)
(*                                                                         *)
(* Work is a chain of awaited calls: read the ride, take the route lock,   *)
(* read the metadata, reserve the paid request, ask the provider, store    *)
(* the result.                                                             *)
(*                                                                         *)
(* Abstractions.  A GPS fix is its timestamp.  Distances are free choices: *)
(* moved or not, off the route or not.  Time is counted for the cooldown   *)
(* of paid requests only; a PIN's lock is on, over or absent.              *)
(***************************************************************************)
EXTENDS Naturals, FiniteSets

CONSTANTS
  Gps,            \* tasks of GPS fixes: the fix's timestamp
  Page,           \* requests for the map page
  MinReroute,     \* minRerouteMs
  PinAttempts,    \* PIN_MAX_ATTEMPTS
  MaxTime, MaxRoutes,   \* bounds
  Unset

VARIABLES
  durable,   \* navigationStorageAllowed: routes may be stored in the database
  ride,      \* status of the ride
  meta,      \* the route in rides.route_metadata
  memo,      \* the route in this process's memory
  pin,       \* the PIN in rides.route_metadata
  work,      \* tasks and requests
  clock,
  paid,      \* when this process, keeping routes in memory, last asked for one
  missed     \* wrong guesses the driver has made since the last lock ended

navigationVars == <<durable, ride, meta, memo, pin, work, clock, paid, missed>>

Status == {"to_pickup", "arrived", "in_progress", "ended"}
Leg == {"pickup", "destination"}
Time == 0..MaxTime
Worker == Gps \cup Page
Route == [version : 0..MaxRoutes, leg : Leg \cup {Unset}, fix : {0} \cup Gps, asked : Time \cup {Unset}]
NoRoute == [version |-> 0, leg |-> Unset, fix |-> 0, asked |-> Unset]
Idle == [at |-> "idle"]
Work == [at : {"lock", "read", "judge", "reserve", "ask", "answer", "store"},
         seen : Status, read : 0..MaxRoutes, route : Route, cancelled : BOOLEAN]

NavigationAssumption ==
  /\ Gps \subseteq Nat \ {0}
  /\ {MinReroute, PinAttempts, MaxTime, MaxRoutes} \subseteq Nat \ {0}
  /\ Page \cap Nat = {} /\ Unset \notin Nat \cup Page \cup Route

NavigationTypeOK ==
  /\ durable \in BOOLEAN
  /\ ride \in Status
  /\ meta \in Route
  /\ memo \in Route \cup {Unset}
  /\ pin \in [failed : 0..PinAttempts, lock : {"none", "on", "over"}]
  /\ work \in [Worker -> Work \cup {Idle}]
  /\ clock \in Time
  /\ paid \in Time \cup {Unset}
  /\ missed \in 0..PinAttempts

NewPin == [failed |-> 0, lock |-> "none"]

NavigationInit ==
  /\ durable \in BOOLEAN
  /\ ride = "to_pickup"
  /\ meta = NoRoute /\ memo = Unset
  /\ pin = NewPin
  /\ work = [j \in Worker |-> Idle]
  /\ clock = 0 /\ paid = Unset /\ missed = 0

-----------------------------------------------------------------------------
LegOf(status) == IF status = "in_progress" THEN "destination" ELSE "pickup"
Goes(j, at) == work' = [work EXCEPT ![j].at = at]
Leaves(j) == work' = [work EXCEPT ![j] = Idle]

(* withRouteLock: held from the try to the end of the work, refused at once *)
(* when somebody else holds it or too many are held.                        *)
HoldsLock(j) == work[j].at \in {"read", "judge", "reserve", "ask", "answer", "store"}
LockFree == \A j \in Worker : ~HoldsLock(j)

Remembered == IF memo = Unset THEN NoRoute ELSE memo

(* A GPS task found the ride active, or the map page took its snapshot and *)
(* has no stored route to show for this leg.  A GPS task reads the ride    *)
(* and the route again under the lock; the page keeps its copy.            *)
Start(j) ==
  /\ work[j] = Idle
  /\ ride # "ended"
  /\ j \in Page => (IF durable THEN meta ELSE Remembered).leg # LegOf(ride)
  /\ LET copy == IF j \in Page /\ durable THEN meta ELSE NoRoute
     IN  work' = [work EXCEPT ![j] = [at |-> "lock", seen |-> IF j \in Page THEN ride ELSE "to_pickup",
                                      read |-> 0, route |-> copy, cancelled |-> FALSE]]
  /\ UNCHANGED <<durable, ride, meta, memo, pin, clock, paid, missed>>

TryRouteLock(j) ==
  /\ work[j].at = "lock"
  /\ \/ LockFree /\ Goes(j, IF j \in Gps THEN "read" ELSE "judge")
     \/ Leaves(j)
  /\ UNCHANGED <<durable, ride, meta, memo, pin, clock, paid, missed>>

(* Under the lock a GPS task reads the ride again, and then its metadata. *)
ReadRide(j) ==
  /\ work[j].at = "read"
  /\ \/ ride = "ended" /\ Leaves(j)
     \/ ride # "ended" /\ work' = [work EXCEPT ![j].seen = ride, ![j].at = "judge"]
  /\ UNCHANGED <<durable, ride, meta, memo, pin, clock, paid, missed>>

(* The metadata `process` works on: the map page keeps the copy it read    *)
(* before it had the lock, unless routes are kept in memory only.          *)
Working(j) == IF ~durable THEN Remembered ELSE IF j \in Gps THEN meta ELSE work[j].route

CoolAlways(route) == TRUE
Cool(route) == IF route.asked = Unset THEN TRUE ELSE clock - route.asked >= MinReroute

(* `update` up to its first await: a fix that is not newer (or superseded  *)
(* by now), or a driver who has not moved, changes nothing; a new route is needed on a new leg, *)
(* off the route or when the old one is too old, and not asked for while   *)
(* the last request is too recent.                                         *)
Judge(j) ==
  /\ work[j].at = "judge"
  /\ LET now == Working(j)
         leg == LegOf(work[j].seen)
         seen == [now EXCEPT !.fix = IF j \in Gps THEN j ELSE @]
         take(at) == work' = [work EXCEPT ![j] = [@ EXCEPT !.read = now.version, !.route = seen, !.at = at]]
     IN  \/ /\ j \in Gps \/ now.leg = leg
            /\ Leaves(j)
         \/ ~(j \in Gps /\ j <= now.fix)
            /\ \/ Cool(seen) /\ take("reserve")
               \/ (now.leg = leg \/ ~Cool(seen)) /\ take("store")
  /\ UNCHANGED <<durable, ride, meta, memo, pin, clock, paid, missed>>

(* updateRouteMetadata: one statement on the locked row.  The whole value  *)
(* is taken only if nothing newer was stored and it is for the leg the     *)
(* ride is on; the time of the request is kept in any case.  A key the     *)
(* value does not have, and the keys of other writers, are left alone.     *)
FitsAnyVersion(route, read) == route.leg \in {Unset, LegOf(ride)}
Fits(route, read) ==
  /\ read = meta.version
  /\ route.version >= meta.version
  /\ route.fix = 0 \/ route.fix >= meta.fix
  /\ route.leg \in {Unset, LegOf(ride)}

Later(s, t) == IF s = Unset THEN t ELSE IF t = Unset \/ s > t THEN s ELSE t

Written(route, read) ==
  IF Fits(route, read) THEN [route EXCEPT !.fix = IF @ = 0 THEN meta.fix ELSE @] ELSE meta

PinOverwritten == pin' = NewPin
KeepPin == UNCHANGED pin

(* Storing a value, in the table or in memory; `ok` says if it was taken.  *)
Persist(j, route, ok) ==
  IF durable
  THEN /\ ok = (ride # "ended" /\ Fits(route, work[j].read))
       /\ IF ride = "ended"
          THEN UNCHANGED <<meta, pin>>
          ELSE /\ meta' = [Written(route, work[j].read) EXCEPT !.asked = Later(meta.asked, route.asked)]
               /\ KeepPin
       /\ UNCHANGED memo
  ELSE /\ ok = ~work[j].cancelled
       /\ memo' = IF ok THEN route ELSE memo
       /\ UNCHANGED <<meta, pin>>

(* beforeExternalRequest: the request is reserved before it is made.  The  *)
(* provider may also have the route in its cache and ask nobody.           *)
Reserve(j) ==
  /\ work[j].at = "reserve"
  /\ \/ LET route == [work[j].route EXCEPT !.asked = clock]
        IN  \E ok \in BOOLEAN :
              /\ Persist(j, route, ok)
              /\ work' = [work EXCEPT ![j] = [@ EXCEPT !.route = route, !.at = IF ok THEN "ask" ELSE "store"]]
     \/ Goes(j, "answer") /\ UNCHANGED <<meta, memo, pin>>
  /\ UNCHANGED <<durable, ride, clock, paid, missed>>

Ask(j) ==
  /\ work[j].at = "ask"
  /\ paid' = IF durable THEN Unset ELSE clock
  /\ work' = [work EXCEPT ![j] = [@ EXCEPT !.route.asked = clock, !.at = "answer"]]
  /\ UNCHANGED <<durable, ride, meta, memo, pin, clock, missed>>

NewRoute(j) ==
  [work[j].route EXCEPT !.version = @ + 1, !.leg = LegOf(work[j].seen)]

(* The provider answers with a route, or not. *)
Answer(j) ==
  /\ work[j].at = "answer"
  /\ \/ /\ work[j].route.version < MaxRoutes
        /\ work' = [work EXCEPT ![j] = [@ EXCEPT !.route = NewRoute(j), !.at = "store"]]
     \/ Goes(j, "store")
  /\ UNCHANGED <<durable, ride, meta, memo, pin, clock, paid, missed>>

(* The result is stored.  The ride is then read again, and its participants *)
(* are shown the route if the ride is still where it was.                   *)
Store(j) ==
  /\ work[j].at = "store"
  /\ \E ok \in BOOLEAN : Persist(j, work[j].route, ok)
  /\ Leaves(j)
  /\ UNCHANGED <<durable, ride, clock, paid, missed>>

-----------------------------------------------------------------------------
(* verifyPinAttempt: one transaction with the ride's row locked.  A lock   *)
(* that is over forgives the guesses before it.                            *)
Failed == IF pin.lock = "over" THEN 0 ELSE pin.failed

GuessWrong ==
  /\ ride = "arrived" /\ pin.lock # "on"
  /\ pin' = [failed |-> Failed + 1, lock |-> IF Failed + 1 >= PinAttempts THEN "on" ELSE "none"]
  /\ missed' = missed + 1
  /\ UNCHANGED <<durable, ride, meta, memo, work, clock, paid>>

GuessRight ==
  /\ ride = "arrived" /\ pin.lock # "on"
  /\ pin' = NewPin
  /\ missed' = 0
  /\ ride' = "in_progress"
  /\ UNCHANGED <<durable, meta, memo, work, clock, paid>>

(* PIN_LOCK_MS have passed. *)
LockEnds ==
  /\ pin.lock = "on"
  /\ pin' = [pin EXCEPT !.lock = "over"]
  /\ missed' = 0
  /\ UNCHANGED <<durable, ride, meta, memo, work, clock, paid>>

-----------------------------------------------------------------------------
InProcess(j) == work[j].at \in {"reserve", "ask", "answer", "store"}

(* `clear`: the route in memory is erased and the work on it cancelled. *)
Cleared ==
  /\ memo' = Unset
  /\ work' = [j \in Worker |-> IF InProcess(j) THEN [work[j] EXCEPT !.cancelled = TRUE] ELSE work[j]]

Arrive ==
  /\ ride = "to_pickup"
  /\ ride' = "arrived"
  /\ UNCHANGED <<durable, meta, memo, pin, work, clock, paid, missed>>

EndRide ==
  /\ ride # "ended"
  /\ ride' = "ended"
  /\ Cleared
  /\ UNCHANGED <<durable, meta, pin, clock, paid, missed>>

(* The route in memory is dropped refreshMs after it was stored: longer    *)
(* than the cooldown, and longer than a request to the provider.           *)
MemoExpires ==
  /\ memo # Unset
  /\ Cool(memo)
  /\ \A j \in Worker : ~InProcess(j)
  /\ Cleared
  /\ UNCHANGED <<durable, ride, meta, pin, clock, paid, missed>>

Tick ==
  /\ clock < MaxTime
  /\ clock' = clock + 1
  /\ UNCHANGED <<durable, ride, meta, memo, pin, work, paid, missed>>

(* The process stops: its tasks and its memory are gone, its lock is freed. *)
Restart ==
  /\ work' = [j \in Worker |-> Idle]
  /\ memo' = Unset /\ paid' = Unset
  /\ UNCHANGED <<durable, ride, meta, pin, clock, missed>>

NavigationNext ==
  \/ \E j \in Worker : \/ Start(j) \/ TryRouteLock(j) \/ ReadRide(j) \/ Judge(j) \/ Reserve(j)
                        \/ Ask(j) \/ Answer(j) \/ Store(j)
  \/ GuessWrong \/ GuessRight \/ LockEnds
  \/ Arrive \/ EndRide \/ MemoExpires \/ Tick \/ Restart

NavigationSpec == NavigationInit /\ [][NavigationNext]_navigationVars

-----------------------------------------------------------------------------
(* Whatever order late answers arrive in, a stored route is never replaced *)
(* by an older version, nor a position by an older fix, nor the cooldown   *)
(* by an earlier request; in memory a route goes back only by being        *)
(* dropped (updateRouteMetadata, withRouteLock).                           *)
RouteNeverGoesBack ==
  [][ /\ meta'.version >= meta.version /\ meta'.fix >= meta.fix
      /\ Later(meta.asked, meta'.asked) = meta'.asked
      /\ memo # Unset /\ memo' # Unset => memo'.version >= memo.version /\ memo'.fix >= memo.fix
    ]_navigationVars

(* The PIN's counter has counted every wrong guess since the last lock,    *)
(* although the route and the position are written beside it, so a lock    *)
(* comes after PIN_MAX_ATTEMPTS guesses (verifyPinAttempt,                 *)
(* evaluatePinAttempt).                                                    *)
PinCountsGuesses ==
  /\ pin.lock # "over" => pin.failed = missed
  /\ pin.lock = "none" => missed < PinAttempts

(* A process that keeps routes in memory asks the provider for the route   *)
(* of a ride that goes on at most once in minRerouteMs, whoever needs it   *)
(* (process, update).                                                      *)
CooldownHolds ==
  [][ \A j \in Worker :
        ~durable /\ ride # "ended" /\ paid # Unset /\ work[j].at = "ask" /\ work'[j].at = "answer"
           => clock - paid >= MinReroute ]_navigationVars
=============================================================================
