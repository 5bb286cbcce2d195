---------------------------- MODULE LiveTracking ----------------------------
(***************************************************************************)
(* Where the driver of a ride is: positions posted by the driver's phone,  *)
(* kept in Redis (`LiveLocationCache`), now and then written to            *)
(* `driver_profiles` (`PostgresDriverRepository.updateLocation`) and       *)
(* broadcast to the ride (`onDriverLocation` of the socket server).        *)
(*                                                                         *)
(* Posts overlap, and so do the tasks that look up the driver's ride       *)
(* before they broadcast: each awaited call is a step.                     *)
(*                                                                         *)
(* Abstractions.  A fix is its timestamp, 0 stands for none.  Whether a    *)
(* jump is plausible is free.  Redis may be out of reach or lose its keys. *)
(***************************************************************************)
EXTENDS Naturals, FiniteSets

CONSTANTS
  MaxFix,       \* bound: fixes of the driver
  PersistGap,   \* persistMs of the cache
  MaxPosts,     \* posts of one user in progress: 3 in updateLocation
  MaxTasks      \* tasks of one driver: 2 in onDriverLocation

TrackingAssumption == {MaxFix, PersistGap, MaxPosts, MaxTasks} \subseteq Nat \ {0}

VARIABLES
  cache, reserved, reachable,   \* the two keys of Redis, and whether it answers
  stored,                       \* last_location_at
  post,                         \* posts, by fix
  hydrated,                     \* the process has seeded the cache
  mark, task, queued,           \* latestLocations: timestamp, tasks pending, queued
  onRide,                       \* the driver has an active ride
  sent,                         \* the last fix this process broadcast
  handled                       \* fixes this process ran a task for

trackingVars == <<cache, reserved, reachable, stored, post, hydrated, mark, task, queued,
                  onRide, sent, handled>>
redisVars == <<cache, reserved, reachable>>
socketVars == <<mark, task, queued, sent, handled>>

Fix == 1..MaxFix
Time == 0..MaxFix

TrackingTypeOK ==
  /\ {cache, reserved, stored, mark, queued, sent} \subseteq Time
  /\ {reachable, hydrated, onRide} \subseteq BOOLEAN
  /\ post \in [Fix -> [at : {"new", "seed", "accept", "save", "reject", "emit", "over", "unreleased"}]
                      \cup [at : {"fill"}, read : Time]]
  /\ task \in [Fix -> {"none", "find", "confirm", "route"}]
  /\ handled \subseteq Fix

TrackingInit ==
  /\ cache = 0 /\ reserved = 0 /\ reachable \in BOOLEAN
  /\ stored = 0
  /\ post = [f \in Fix |-> [at |-> "new"]]
  /\ hydrated = FALSE
  /\ mark = 0 /\ task = [f \in Fix |-> "none"] /\ queued = 0
  /\ onRide = TRUE
  /\ sent = 0 /\ handled = {}

-----------------------------------------------------------------------------
(* A post, from the service to the repository. *)
Goes(f, at) == post' = [post EXCEPT ![f] = [at |-> at]]
InProgress == {f \in Fix : post[f].at \notin {"new", "over", "unreleased"}}

Post(f) ==
  /\ post[f].at = "new"
  /\ Goes(f, IF Cardinality(InProgress) < MaxPosts THEN "seed" ELSE "over")
  /\ UNCHANGED <<redisVars, stored, hydrated, socketVars, onRide>>

(* A process that has not seen this driver seeds the cache from the table, *)
(* and so does one that finds no key.                                      *)
Seed(f) ==
  /\ post[f].at = "seed"
  /\ IF reachable /\ (~hydrated \/ cache = 0)
     THEN post' = [post EXCEPT ![f] = [at |-> "fill", read |-> stored]] /\ UNCHANGED hydrated
     ELSE Goes(f, "accept") /\ hydrated' = (hydrated \/ reachable)
  /\ UNCHANGED <<redisVars, stored, socketVars, onRide>>

Fill(f) ==
  /\ post[f].at = "fill"
  /\ cache' = IF reachable /\ post[f].read > cache THEN post[f].read ELSE cache
  /\ hydrated' = (hydrated \/ reachable)
  /\ Goes(f, "accept")
  /\ UNCHANGED <<reserved, reachable, stored, socketVars, onRide>>

NewerAnyway(f) == TRUE
Newer(f) == f > cache
DueForTable(f) == reserved = 0 \/ f >= reserved + PersistGap

(* The script of `accept`: out of order and implausible fixes are refused; *)
(* the rest is cached, and now and then reserved for the table.  Without   *)
(* Redis every fix goes to the table.                                      *)
Accept(f) ==
  /\ post[f].at = "accept"
  /\ \/ /\ ~reachable
        /\ hydrated' = FALSE
        /\ Goes(f, "save")
        /\ UNCHANGED <<cache, reserved>>
     \/ /\ reachable
        /\ cache # 0 \/ ~Newer(f)     \* refused, or too far from the cached fix
        /\ Goes(f, "over")
        /\ UNCHANGED <<cache, reserved, hydrated>>
     \/ /\ reachable /\ Newer(f)
        /\ cache' = f
        /\ reserved' = IF DueForTable(f) THEN f ELSE reserved
        /\ Goes(f, IF DueForTable(f) THEN "save" ELSE "emit")
        /\ UNCHANGED hydrated
  /\ UNCHANGED <<reachable, stored, socketVars, onRide>>

(* The row is written if the fix is newer and plausible; the statement may *)
(* also fail.                                                              *)
Save(f) ==
  /\ post[f].at = "save"
  /\ \/ stored < f /\ stored' = f /\ Goes(f, "emit")
     \/ Goes(f, "reject") /\ UNCHANGED stored
  /\ UNCHANGED <<redisVars, hydrated, socketVars, onRide>>

(* rejectPersistence: the reservation is given back if Redis answers. *)
ReleasedNever(f) == FALSE
Released(f) == reachable
Reject(f) ==
  /\ post[f].at = "reject"
  /\ cache' = IF Released(f) /\ cache = f THEN 0 ELSE cache
  /\ reserved' = IF Released(f) /\ reserved = f THEN 0 ELSE reserved
  /\ Goes(f, IF reachable THEN "over" ELSE "unreleased")
  /\ UNCHANGED <<reachable, stored, hydrated, socketVars, onRide>>

-----------------------------------------------------------------------------
(* onDriverLocation: a task at once, or in the queue of one while two run. *)
Running == {f \in Fix : task[f] # "none"}

Take(f, busy) ==
  IF f < mark THEN UNCHANGED <<mark, queued>> /\ task' = busy
  ELSE /\ mark' = f
       /\ IF Cardinality({g \in Fix : busy[g] # "none"}) >= MaxTasks
          THEN queued' = f /\ task' = busy
          ELSE task' = [busy EXCEPT ![f] = "find"] /\ UNCHANGED queued

Emit(f) ==
  /\ post[f].at = "emit"
  /\ Take(f, task)
  /\ Goes(f, "over")
  /\ UNCHANGED <<redisVars, stored, hydrated, onRide, sent, handled>>

(* A task that ends, however it ends, starts the queued fix. *)
Freed(f) == [task EXCEPT ![f] = "none"]
RequeueNever(f) == task' = Freed(f) /\ UNCHANGED <<mark, queued>>
Requeue(f) ==
  IF queued = 0 THEN task' = Freed(f) /\ UNCHANGED <<mark, queued>>
  ELSE /\ IF queued < mark THEN task' = Freed(f) ELSE task' = [Freed(f) EXCEPT ![queued] = "find"]
       /\ queued' = 0 /\ UNCHANGED mark

Finish(f) ==
  /\ Requeue(f)
  /\ handled' = handled \cup {f}

StillLatestOfAll(f) == TRUE
StillLatest(f) == mark = f

FindRide(f) ==
  /\ task[f] = "find"
  /\ \/ /\ StillLatest(f) /\ onRide
        /\ task' = [task EXCEPT ![f] = "confirm"]
        /\ UNCHANGED <<mark, queued, handled>>
     \/ Finish(f)      \* superseded, no ride, or the query failed
  /\ UNCHANGED <<redisVars, stored, post, hydrated, onRide, sent>>

Broadcast(f) ==
  /\ task[f] = "confirm"
  /\ \/ /\ StillLatest(f) /\ onRide
        /\ sent' = f
        /\ task' = [task EXCEPT ![f] = "route"]
        /\ UNCHANGED <<mark, queued, handled>>
     \/ Finish(f) /\ UNCHANGED sent
  /\ UNCHANGED <<redisVars, stored, post, hydrated, onRide>>

(* The task goes on with the route of the ride (module Navigation). *)
RouteDone(f) ==
  /\ task[f] = "route"
  /\ Finish(f)
  /\ UNCHANGED <<redisVars, stored, post, hydrated, onRide, sent>>

-----------------------------------------------------------------------------
ChangeRide ==
  /\ onRide' = ~onRide
  /\ UNCHANGED <<redisVars, stored, post, hydrated, socketVars>>

ChangeRedis ==
  /\ \/ reachable' = ~reachable /\ UNCHANGED <<cache, reserved>>
     \/ cache' = 0 /\ reserved' = 0 /\ UNCHANGED reachable     \* keys expire
  /\ UNCHANGED <<stored, post, hydrated, socketVars, onRide>>

Restart ==
  /\ post' = [f \in Fix |-> IF f \in InProgress THEN [at |-> "unreleased"] ELSE post[f]]
  /\ hydrated' = FALSE
  /\ mark' = 0 /\ task' = [f \in Fix |-> "none"] /\ queued' = 0
  /\ sent' = 0 /\ handled' = {}
  /\ UNCHANGED <<redisVars, stored, onRide>>

TrackingNext ==
  \/ \E f \in Fix : \/ Post(f) \/ Seed(f) \/ Fill(f) \/ Accept(f) \/ Save(f) \/ Reject(f) \/ Emit(f)
                    \/ FindRide(f) \/ Broadcast(f) \/ RouteDone(f)
  \/ ChangeRide \/ ChangeRedis \/ Restart

TrackingSpec == TrackingInit /\ [][TrackingNext]_trackingVars

-----------------------------------------------------------------------------
(* Slow lookups of the ride do not broadcast an older position last. *)
BroadcastsInOrder == [][sent' # sent /\ sent' # 0 => sent' > sent]_trackingVars

(* A fix that arrives while two tasks run is not forgotten: once nothing   *)
(* runs, the latest fix had its task.                                      *)
LatestIsHandled == Running = {} => queued = 0 /\ (mark = 0 \/ mark \in handled)

(* Redis holds a fix back from the table only for one that reached it or   *)
(* is on its way, unless its post was cut off.                             *)
ReservationIsBacked ==
  \A f \in Fix : reserved = f => stored >= f \/ post[f].at \in {"save", "reject", "unreleased"}
=============================================================================
