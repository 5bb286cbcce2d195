------------------------------- MODULE Notices -------------------------------
(***************************************************************************)
(* A push notification about one event: a row in `notifications`, a job in *)
(* the queue with the row's id, and a worker that hands the message to the *)
(* provider (FCM) for each of the user's devices.                          *)
(*                                                                         *)
(* Several callers may report the same event; each looks for the row, else *)
(* creates it, then enqueues.  A sweep enqueues again what no caller did.  *)
(* A job is tried a number of times, and is handed out anew when a worker  *)
(* died with it.  The provider may refuse a device for good (its token is  *)
(* gone), fail for now, or accept and fail to say so.  The database may    *)
(* fail as well: the attempt ends with the row as it stands, which it does *)
(* too when the failure is in the write that would have marked it.         *)
(*                                                                         *)
(* Abstractions.  There is one event and its user's devices come and go.   *)
(* One batch holds all devices (500 fit).  The sweep takes 100 rows; with  *)
(* one row there is no queue in front of it, and its five minutes are      *)
(* \"no worker holds the job\".  A deactivated account, push notifications *)
(* switched off and an offer that expired are one outcome.  The queue is   *)
(* BullMQ, modelled from how the code configures and calls it.             *)
(***************************************************************************)
EXTENDS Naturals, FiniteSets

CONSTANTS
  Callers,       \* processes that report the event
  Devices,       \* device rows of the user
  MaxAttempts,   \* NOTIFICATION_MAX_ATTEMPTS
  MaxStalls,     \* times a job is handed out again after its worker died
  MaxFaults,     \* bound: workers that die and attempts the database fails
  MaxPushes      \* bound: pushes the provider accepts for a device

NoticesAssumption ==
  /\ MaxAttempts \in Nat \ {0} /\ MaxPushes \in Nat \ {0}
  /\ MaxStalls \in Nat /\ MaxFaults \in Nat

VARIABLES
  caller,     \* where each caller is in send
  row,        \* the notification's two statuses
  accepted,   \* notification_device_acceptances
  active,     \* devices whose row is active
  job,        \* the queue's job
  run,        \* the worker's attempt: step, devices, answers
  sent,       \* per device the pushes the provider accepted
  unsaid,     \* per device those of them nobody recorded
  failures    \* faults so far

noticeVars == <<caller, row, accepted, active, job, run, sent, unsaid, failures>>

NoRow == [processing |-> "NONE", delivery |-> "NONE"]
Answer == {"accepted", "invalid", "error"}
Idle == [step |-> "idle", todo |-> {}, answers |-> [d \in Devices |-> "error"], retry |-> FALSE]

Fault == failures < MaxFaults /\ failures' = failures + 1

NoticesTypeOK ==
  /\ caller \in [Callers -> {"look", "create", "enqueue", "done"}]
  /\ row \in {NoRow} \cup [processing : {"PENDING", "PROCESSING", "PROCESSED", "FAILED"},
                           delivery : {"PENDING", "SENT", "FAILED"}]
  /\ accepted \subseteq Devices /\ active \subseteq Devices
  /\ job \in [state : {"none", "waiting", "active", "completed", "failed"},
              tries : 0..MaxAttempts, stalls : 0..MaxStalls]
  /\ run \in [step : {"idle", "read", "push", "record", "finish", "processed"},
              todo : SUBSET Devices, answers : [Devices -> Answer], retry : BOOLEAN]
  /\ run.step # "idle" <=> job.state = "active"
  /\ sent \in [Devices -> 0..MaxPushes] /\ unsaid \in [Devices -> 0..MaxPushes]

----------------------------------------------------------------------------
(* The queue (BullMQ).  Adding a job under an id that is known, whatever   *)
(* became of that job, does nothing.                                       *)

NoJob == [state |-> "none", tries |-> 0, stalls |-> 0]
Added == IF job.state = "none" THEN [NoJob EXCEPT !.state = "waiting"] ELSE job

\* Mutant: the job is added without a limit of attempts.
EndedNever(j) == [j EXCEPT !.state = "waiting"]
\* An attempt threw: the job is tried again, or fails for good.
Ended(j) == [j EXCEPT !.state = IF j.tries < MaxAttempts THEN "waiting" ELSE "failed"]

\* removeOnComplete, removeOnFail: old jobs are dropped.
Forget ==
  /\ job.state \in {"completed", "failed"} /\ job' = NoJob
  /\ UNCHANGED <<caller, row, accepted, active, run, sent, unsaid, failures>>

----------------------------------------------------------------------------
(* send.                                                                   *)

\* findByIdempotencyKey.
Look(c) ==
  /\ caller[c] = "look"
  /\ caller' = [caller EXCEPT ![c] = IF row = NoRow THEN "create"
                                     ELSE IF row.processing = "PENDING" THEN "enqueue"
                                     ELSE "done"]
  /\ UNCHANGED <<row, accepted, active, job, run, sent, unsaid, failures>>

\* The row is created, unless another caller's is there (unique index).
Create(c) ==
  /\ caller[c] = "create"
  /\ IF row = NoRow
     THEN /\ row' = [processing |-> "PENDING", delivery |-> "PENDING"]
          /\ caller' = [caller EXCEPT ![c] = "enqueue"]
     ELSE /\ caller' = [caller EXCEPT ![c] = "done"] /\ UNCHANGED row
  /\ UNCHANGED <<accepted, active, job, run, sent, unsaid, failures>>

\* enqueueNotification, which may fail: then nobody tries again here.
Enqueue(c) ==
  /\ caller[c] = "enqueue"
  /\ caller' = [caller EXCEPT ![c] = "done"]
  /\ job' \in {job, Added}
  /\ UNCHANGED <<row, accepted, active, run, sent, unsaid, failures>>

\* Mutant: the sweep looks for rows in progress only.
LostProgressOnly == row.processing = "PROCESSING" /\ job.state # "active"

Lost == \/ row.processing = "PENDING"
        \/ row.processing = "PROCESSING" /\ job.state # "active"

\* recoverPending, every 30 seconds.
Recover ==
  /\ row.delivery = "PENDING" /\ Lost
  /\ job' = Added
  /\ UNCHANGED <<caller, row, accepted, active, run, sent, unsaid, failures>>

----------------------------------------------------------------------------
(* deliver.                                                                *)

\* Mutant: what was sent already is delivered again.
DoneAlreadyNever == row.delivery = "NONE"
DoneAlready == row.delivery = "SENT"

Failed == [processing |-> "FAILED", delivery |-> "FAILED"]

Marked == [row EXCEPT !.processing = "PROCESSING"]
Taken == [job EXCEPT !.tries = @ + 1]

\* The worker takes the job.  A notice that was sent, or must not be sent
\* any more, ends it; otherwise it is marked as being processed.
Take ==
  /\ job.state = "waiting"
  /\ \/ /\ DoneAlready
        /\ job' = [Taken EXCEPT !.state = "completed"] /\ UNCHANGED <<row, run>>
     \/ /\ ~DoneAlready
        /\ job' = [Taken EXCEPT !.state = "completed"] /\ row' = Failed /\ UNCHANGED run
     \/ /\ ~DoneAlready
        /\ job' = [Taken EXCEPT !.state = "active"] /\ row' = Marked
        /\ run' = [Idle EXCEPT !.step = "read"]
  /\ UNCHANGED <<caller, accepted, active, sent, unsaid, failures>>

\* findById, markProcessing, pushAllowed or a markFailed before the try
\* throws: the attempt is over, and nothing says so in the row.
TakeFails ==
  /\ job.state = "waiting" /\ Fault
  /\ row' = row \/ (~DoneAlready /\ row' = Marked)
  /\ job' = Ended(Taken)
  /\ UNCHANGED <<caller, accepted, active, run, sent, unsaid>>

\* Mutant: devices that have accepted are not left out.
UnacceptedAll == active
\* findActiveByUserId without those of acceptedDeviceIds.
Unaccepted == active \ accepted

ReadDevices ==
  /\ run.step = "read"
  /\ IF Unaccepted = {} /\ accepted = {}
     THEN /\ row' = Failed /\ run' = Idle
          /\ job' = [job EXCEPT !.state = "completed"]
     ELSE /\ run' = [run EXCEPT !.todo = Unaccepted,
                                !.step = IF Unaccepted = {} THEN "finish" ELSE "push"]
          /\ UNCHANGED <<row, job>>
  /\ UNCHANGED <<caller, accepted, active, sent, unsaid, failures>>

\* acceptedDeviceIds, findActiveByUserId or the markFailed after them throws.
ReadFails ==
  /\ run.step = "read" /\ Fault
  /\ run' = Idle /\ job' = Ended(job)
  /\ UNCHANGED <<caller, row, accepted, active, sent, unsaid>>

\* The catch: markFailed, which may itself throw, and the attempt is over.
Caught ==
  /\ run' = Idle /\ job' = Ended(job)
  /\ \/ row' = Failed /\ UNCHANGED failures
     \/ Fault /\ UNCHANGED row

Sendable == {d \in run.todo : sent[d] < MaxPushes}
Pushed(D) == [d \in Devices |-> IF d \in D THEN sent[d] + 1 ELSE sent[d]]

\* The provider answers for each device, or the call fails although it
\* accepted some of them.
Push ==
  /\ run.step = "push"
  /\ \/ \E answers \in [run.todo -> Answer] :
          /\ \A d \in run.todo \ Sendable : answers[d] # "accepted"
          /\ run' = [run EXCEPT !.step = "record",
                       !.answers = [d \in Devices |-> IF d \in run.todo THEN answers[d] ELSE "error"]]
          /\ sent' = Pushed({d \in run.todo : answers[d] = "accepted"})
          /\ UNCHANGED <<row, job, unsaid, failures>>
     \/ \E D \in SUBSET Sendable :
          /\ sent' = Pushed(D)
          /\ unsaid' = [d \in Devices |-> IF d \in D THEN unsaid[d] + 1 ELSE unsaid[d]]
          /\ Caught
  /\ UNCHANGED <<caller, accepted, active>>

\* The accepted devices of which no acceptance is recorded yet.
Unrecorded == {d \in run.todo : run.answers[d] = "accepted"}
Forgotten == [d \in Devices |-> IF run.step = "record" /\ d \in Unrecorded
                                THEN unsaid[d] + 1 ELSE unsaid[d]]

\* One answer at a time, in the order of the batch: an acceptance is recorded, a
\* token that is gone is deactivated.
Record ==
  /\ run.step = "record" /\ run.todo # {}
  /\ LET d == CHOOSE e \in run.todo : TRUE
     IN /\ run' = [run EXCEPT !.todo = @ \ {d}, !.answers[d] = "error",
                              !.retry = @ \/ run.answers[d] = "error"]
        /\ accepted' = IF run.answers[d] = "accepted" THEN accepted \cup {d} ELSE accepted
        /\ active' = IF run.answers[d] = "invalid" THEN active \ {d} ELSE active
  /\ UNCHANGED <<caller, row, job, sent, unsaid, failures>>

\* A statement of the try fails, and the catch may get through or not.
TryFails ==
  /\ \/ run.step = "record" /\ run.todo # {}
     \/ run.step \in {"finish", "processed"}
  /\ Fault
  /\ row' \in {row, Failed} /\ run' = Idle /\ job' = Ended(job) /\ unsaid' = Forgotten
  /\ UNCHANGED <<caller, accepted, active, sent>>

\* All answers are in.
Recorded ==
  /\ run.step = "record" /\ run.todo = {}
  /\ IF run.retry THEN Caught
     ELSE run' = [run EXCEPT !.step = "finish"] /\ UNCHANGED <<row, job, failures>>
  /\ UNCHANGED <<caller, accepted, active, sent, unsaid>>

\* Mutant: the number of acceptances is not looked at.
SomeAcceptedAlways == Devices # {}
SomeAccepted == accepted # {}

\* markSent, or nobody could be reached.
Finish ==
  /\ run.step = "finish"
  /\ IF SomeAccepted
     THEN /\ row' = [row EXCEPT !.delivery = "SENT"]
          /\ run' = [run EXCEPT !.step = "processed"] /\ UNCHANGED job
     ELSE /\ row' = Failed /\ run' = Idle /\ job' = [job EXCEPT !.state = "completed"]
  /\ UNCHANGED <<caller, accepted, active, sent, unsaid, failures>>

\* markProcessed.
Processed ==
  /\ run.step = "processed"
  /\ row' = [row EXCEPT !.processing = "PROCESSED"]
  /\ job' = [job EXCEPT !.state = "completed"] /\ run' = Idle
  /\ UNCHANGED <<caller, accepted, active, sent, unsaid, failures>>

\* The worker dies; the queue hands the job out again, or gives it up.
Crash ==
  /\ job.state = "active" /\ Fault /\ run' = Idle /\ unsaid' = Forgotten
  /\ job' = IF job.stalls < MaxStalls
            THEN [job EXCEPT !.state = "waiting", !.tries = @ - 1, !.stalls = @ + 1]
            ELSE [job EXCEPT !.state = "failed"]
  /\ UNCHANGED <<caller, row, accepted, active, sent>>

----------------------------------------------------------------------------
(* A device registers or is deactivated.                                   *)
Toggle(d) ==
  /\ active' = IF d \in active THEN active \ {d} ELSE active \cup {d}
  /\ UNCHANGED <<caller, row, accepted, job, run, sent, unsaid, failures>>

NoticesInit ==
  /\ caller = [c \in Callers |-> "look"] /\ row = NoRow
  /\ accepted = {} /\ active \in SUBSET Devices
  /\ job = NoJob /\ run = Idle /\ failures = 0
  /\ sent = [d \in Devices |-> 0] /\ unsaid = [d \in Devices |-> 0]

Delivery ==
  \/ Take \/ ReadDevices \/ Push \/ Record \/ Recorded \/ Finish \/ Processed
  \/ TakeFails \/ ReadFails \/ TryFails

NoticesNext ==
  \/ \E c \in Callers : Look(c) \/ Create(c) \/ Enqueue(c)
  \/ Recover \/ Forget \/ Delivery \/ Crash
  \/ \E d \in Devices : Toggle(d)

NoticesSpec == NoticesInit /\ [][NoticesNext]_noticeVars

\* The sweep runs on a timer, the worker takes what waits and its awaits
\* return.
NoticesFairness == WF_noticeVars(Recover) /\ WF_noticeVars(Delivery)
NoticesFairSpec == NoticesSpec /\ NoticesFairness

----------------------------------------------------------------------------
(* Properties.                                                             *)

\* Nobody is pushed twice what the database knows to be accepted: every
\* push but one came after an acceptance that was lost on its way back.
PushedOnce ==
  \A d \in Devices : sent[d] <= unsaid[d] +
    (IF d \in accepted \/ (run.step = "record" /\ d \in Unrecorded) THEN 1 ELSE 0)

\* SENT is said only of a notice some device's provider accepted.
SentIsTrue == row.delivery = "SENT" => \E d \in Devices : sent[d] > 0

\* A notice that is SENT is pushed no more, be its job handed out again or
\* forgotten and added anew while further devices register.
SentIsFinal == [][row.delivery = "SENT" => sent' = sent]_noticeVars

Decided == row.delivery \in {"SENT", "FAILED"}

\* A notice that was stored is decided in the end, though its caller died
\* before enqueuing it, a worker in the middle of it, or the database failed
\* each attempt, if the queue drops the jobs that are over: only then can the
\* sweep add the job anew.
NoticeEndsOnceForgotten ==
  WF_noticeVars(Forget) => (row.delivery = "PENDING" ~> Decided)

\* "Failure handling", "Dead-letter handling": it is decided in the end.  The
\* code does not see to that while the queue keeps the failed job.
NoticeEnds == row.delivery = "PENDING" ~> Decided
=============================================================================
