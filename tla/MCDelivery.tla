----------------------------- MODULE MCDelivery -----------------------------
(***************************************************************************)
(* TLC instance of the process and what it delivers: which process serves, *)
(* notifications, live positions, the devices of users and the tickets of  *)
(* support.  A behaviour is of the one component it chooses as its         *)
(* subject; the others stay in one initial state.                          *)
(***************************************************************************)
EXTENDS Ownership, TLC

CONSTANTS
  Part,                     \* the components checked
  Caller, Nothing

VARIABLES
  subject,
  caller, row, accepted, active, job, run, pushed, unsaid, failures,
  cache, reserved, reachable, stored, post, hydrated, mark, task, queued, onRide, sent, handled,
  device, request, refused, alone,
  ticket, sending, opened, answers, page, work

noticeVars == <<caller, row, accepted, active, job, run, pushed, unsaid, failures>>
trackingVars == <<cache, reserved, reachable, stored, post, hydrated, mark, task, queued,
                  onRide, sent, handled>>
deviceVars == <<device, request, refused, alone>>
supportVars == <<ticket, sending, opened, answers, page, work>>
deliveryVars == <<subject, ownershipVars, noticeVars, trackingVars, deviceVars, supportVars>>

Push == INSTANCE Notices WITH
  Callers <- Caller, Devices <- {"d1", "d2"}, MaxAttempts <- 2, MaxStalls <- 1, MaxFaults <- 2,
  MaxPushes <- 2, sent <- pushed
Tracking == INSTANCE LiveTracking WITH
  MaxFix <- 3, PersistGap <- 2, MaxPosts <- 2, MaxTasks <- 2
Device == INSTANCE DeviceTokens WITH
  Users <- {"a", "b"}, Installs <- {"p", "q"}, Tokens <- {"t"}, Handlers <- Caller,
  NoDevice <- Nothing, NoRequest <- Nothing
Ticket == INSTANCE Support WITH
  Request <- {"r1"}, Body <- {"b1", "b2"}, Client <- Caller, Staff <- {"s1", "s2"},
  MaxVersion <- 3, MaxAnswers <- 3, None <- Nothing

ASSUME DeliveryAssumption ==
  Push!NoticesAssumption /\ Tracking!TrackingAssumption /\ Ticket!SupportAssumption

\* What the components whose start is open start with when they are not the subject.
Pinned ==
  /\ subject # "notices" => active = {}
  /\ subject # "tracking" => reachable = TRUE

DeliveryInit ==
  /\ subject \in Part
  /\ Pinned
  /\ OwnershipInit /\ Push!NoticesInit /\ Tracking!TrackingInit /\ Device!DevicesInit
  /\ Ticket!SupportInit

OthersRest ==
  /\ UNCHANGED subject
  /\ subject # "ownership" => UNCHANGED ownershipVars
  /\ subject # "notices" => UNCHANGED noticeVars
  /\ subject # "tracking" => UNCHANGED trackingVars
  /\ subject # "devices" => UNCHANGED deviceVars
  /\ subject # "support" => UNCHANGED supportVars

DeliveryNext ==
  /\ OthersRest
  /\ \/ subject = "ownership" /\ OwnershipNext
     \/ subject = "notices" /\ Push!NoticesNext
     \/ subject = "tracking" /\ Tracking!TrackingNext
     \/ subject = "devices" /\ Device!DevicesNext
     \/ subject = "support" /\ Ticket!SupportNext

\* The fair actions of a component are disabled in its initial state, so that what is not
\* the subject is owed nothing.
DeliverySpec ==
  DeliveryInit /\ [][DeliveryNext]_deliveryVars /\ OwnershipFairness /\ Push!NoticesFairness

-----------------------------------------------------------------------------
\* Every component's state stays of its type.
DeliveryTypeOK ==
  CASE subject = "ownership" -> OwnershipTypeOK
    [] subject = "notices" -> Push!NoticesTypeOK
    [] subject = "tracking" -> Tracking!TrackingTypeOK
    [] subject = "devices" -> Device!DevicesTypeOK
    [] subject = "support" -> Ticket!SupportTypeOK

\* A device is pushed to once unless a worker died before it recorded the push, what is
\* called sent was accepted, the latest position is handled and its reservation backed by
\* the database, a phone serves one user, and a submission has one ticket.
DeliveryIsSound ==
  /\ subject = "notices" => Push!PushedOnce /\ Push!SentIsTrue
  /\ subject = "tracking" => Tracking!LatestIsHandled /\ Tracking!ReservationIsBacked
  /\ subject = "devices" => Device!OneUserPerPhone
  /\ subject = "support" => Ticket!TicketsAreSound

\* What was sent stays sent, positions are broadcast in their order, and the status of a
\* ticket is changed by who saw the one it had.
DeliveryStepsHold ==
  Push!SentIsFinal /\ Tracking!BroadcastsInOrder /\ Ticket!StatusWasSeen

\* A notification ends sent or failed once the queue has dropped its failed jobs, and a
\* process that stands by takes over.
DeliveryEnds == Push!NoticeEndsOnceForgotten /\ StandbyTakesOver
=============================================================================
