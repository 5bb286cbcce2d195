----------------------------- MODULE Ownership ------------------------------
(***************************************************************************)
(* Which backend process serves.  Sockets, events and the searches for     *)
(* drivers live in one process, so a process serves only while a session   *)
(* of its own holds an advisory lock of the database; another one started  *)
(* meanwhile stands by and answers liveness probes only.                   *)
(*                                                                         *)
(* The database may end a session (a failover, a cut connection) before    *)
(* the process that owns it has noticed: `severed`.  It notices with the   *)
(* next heartbeat at the latest and exits.                                 *)
(*                                                                         *)
(* Abstractions.  Times are left out: a heartbeat, a retry or a timeout    *)
(* comes at any moment.  Of the requests only whether one is in progress   *)
(* is kept.  A second signal to a process that shuts down already and a    *)
(* process deployed as a preview, which never asks, are left out.          *)
(***************************************************************************)
EXTENDS Naturals

CONSTANTS
  Processes,
  MaxFaults,     \* sessions ended by the database, queries that time out
  MaxSignals,    \* processes asked to stop
  NoProcess

ASSUME OwnershipAssumption ==
  NoProcess \notin Processes /\ MaxFaults \in Nat /\ MaxSignals \in Nat

VARIABLES
  phase,         \* of each process
  lock,          \* the process whose session holds the advisory lock
  severed,       \* processes that lost their session and do not know
  told,          \* processes that got a signal to stop
  deaf,          \* processes that no longer accept connections
  busy,          \* processes with a request in progress
  faults, signals

ownershipVars == <<phase, lock, severed, told, deaf, busy, faults, signals>>

Serving(i) == phase[i] \in {"serving", "closing"} \/ i \in busy
Answering(i) == phase[i] = "serving" /\ i \notin deaf

OwnershipTypeOK ==
  /\ phase \in [Processes -> {"down", "standby", "owner", "serving", "closing", "leaving"}]
  /\ lock \in Processes \cup {NoProcess}
  /\ severed \subseteq Processes /\ told \subseteq Processes
  /\ deaf \subseteq told /\ busy \subseteq Processes
  /\ faults \in 0..MaxFaults /\ signals \in 0..MaxSignals

OwnershipInit ==
  /\ phase = [i \in Processes |-> "down"]
  /\ lock = NoProcess
  /\ severed = {} /\ told = {} /\ deaf = {} /\ busy = {}
  /\ faults = 0 /\ signals = 0

Bounds == UNCHANGED <<faults, signals>>
Enter(i, p) == phase' = [phase EXCEPT ![i] = p]
\* Mutant: the connection goes back to a pool with its lock.
Pooled(i) == IF lock = i /\ i \notin told THEN NoProcess ELSE lock
\* The session of i ends: the database gives up its lock.
Unlocked(i) == IF lock = i THEN NoProcess ELSE lock
Exit(i) ==
  /\ Enter(i, "down") /\ lock' = Unlocked(i)
  /\ severed' = severed \ {i} /\ told' = told \ {i} /\ deaf' = deaf \ {i} /\ busy' = busy \ {i}

----------------------------------------------------------------------------
(* Startup.                                                                *)
Start(i) ==
  /\ phase[i] = "down" /\ Enter(i, "standby")
  /\ Bounds /\ UNCHANGED <<lock, severed, told, deaf, busy>>

\* Mutant: the answer of pg_try_advisory_lock is not looked at.
GrantedAlways(i) == phase[i] = "standby"
Granted(i) == lock = NoProcess

\* acquireBackendInstance: when the lock is taken the process tries again.
Acquire(i) ==
  /\ phase[i] = "standby" /\ i \notin told
  /\ Granted(i)
  /\ lock' = IF lock = NoProcess THEN i ELSE lock
  /\ Enter(i, "owner")
  /\ Bounds /\ UNCHANGED <<severed, told, deaf, busy>>

\* Any other error ends the process: with the connection goes the lock, if
\* the database granted it after all.
AcquireFails(i) ==
  /\ phase[i] = "standby" /\ faults < MaxFaults
  /\ Exit(i) /\ faults' = faults + 1 /\ UNCHANGED signals

\* The signal ended the wait; a lock that was just granted is given back.
GiveUp(i) ==
  /\ phase[i] = "standby" /\ i \in told
  /\ Exit(i) /\ Bounds

\* The deleted accounts are loaded, sockets and searches set up.
Activate(i) ==
  /\ phase[i] = "owner" /\ Enter(i, "serving")
  /\ Bounds /\ UNCHANGED <<lock, severed, told, deaf, busy>>

----------------------------------------------------------------------------
(* Serving, and an orderly end.                                            *)
TakeRequest(i) ==
  /\ Answering(i) /\ busy' = busy \cup {i}
  /\ Bounds /\ UNCHANGED <<phase, lock, severed, told, deaf>>
Respond(i) ==
  /\ i \in busy /\ busy' = busy \ {i}
  /\ Bounds /\ UNCHANGED <<phase, lock, severed, told, deaf>>

\* A process that stands by, or has just become the owner, stops listening
\* and aborts the wait: the owner's wait is over, it goes on all the same.
StopStandby(i) ==
  /\ phase[i] \in {"standby", "owner"}
  /\ deaf' = deaf \cup {i} /\ UNCHANGED phase
Shutdown(i) ==
  /\ phase[i] = "serving"
  /\ Enter(i, "closing") /\ deaf' = deaf \cup {i}

Signal(i) ==
  /\ i \notin told /\ signals < MaxSignals
  /\ StopStandby(i) \/ Shutdown(i)
  /\ told' = told \cup {i} /\ signals' = signals + 1
  /\ UNCHANGED <<lock, severed, busy, faults>>

\* Mutant: the lock is given up before the requests have ended.
DrainedAlways(i) == phase[i] = "closing"
\* io.close calls back when the last connection has ended.
Drained(i) == i \notin busy

\* releaseInstance; if the query fails the connection is closed instead.
Release(i) ==
  /\ phase[i] = "closing" /\ Drained(i)
  /\ Enter(i, "leaving") /\ lock' = Unlocked(i)
  /\ severed' = severed \ {i}
  /\ Bounds /\ UNCHANGED <<told, deaf, busy>>

\* The queues and the pool are closed.
Leave(i) == phase[i] = "leaving" /\ Exit(i) /\ Bounds

----------------------------------------------------------------------------
(* Faults.                                                                 *)
\* The database ends the session that holds the lock.
Sever ==
  /\ lock # NoProcess /\ faults < MaxFaults
  /\ severed' = severed \cup {lock} /\ lock' = NoProcess
  /\ faults' = faults + 1
  /\ UNCHANGED <<phase, told, deaf, busy, signals>>

\* The heartbeat fails, or the connection reports an error: lose.
Notice(i) ==
  /\ i \in severed /\ Exit(i) /\ Bounds

\* A heartbeat without an answer ends a process that holds its lock as well.
HeartbeatTimesOut(i) ==
  /\ lock = i /\ faults < MaxFaults
  /\ Exit(i) /\ faults' = faults + 1 /\ UNCHANGED signals

\* The platform kills a process some time after its signal.
Kill(i) == i \in told /\ phase[i] # "down" /\ Exit(i) /\ Bounds

OwnershipNext ==
  \/ \E i \in Processes :
       \/ Start(i) \/ Acquire(i) \/ AcquireFails(i) \/ GiveUp(i) \/ Activate(i)
       \/ TakeRequest(i) \/ Respond(i) \/ Signal(i) \/ Release(i) \/ Leave(i)
       \/ Notice(i) \/ HeartbeatTimesOut(i) \/ Kill(i)
  \/ Sever

OwnershipSpec == OwnershipInit /\ [][OwnershipNext]_ownershipVars

\* A process that runs goes on, heartbeats are sent, requests end, and the
\* platform kills what it has told to stop.
OwnershipFairness ==
  \A i \in Processes :
    /\ SF_ownershipVars(Acquire(i))
    /\ WF_ownershipVars(GiveUp(i)) /\ WF_ownershipVars(Activate(i))
    /\ WF_ownershipVars(Respond(i)) /\ WF_ownershipVars(Release(i))
    /\ WF_ownershipVars(Leave(i)) /\ WF_ownershipVars(Notice(i)) /\ WF_ownershipVars(Kill(i))
OwnershipFairSpec == OwnershipSpec /\ OwnershipFairness

----------------------------------------------------------------------------
(* Two processes serve at the same time only while one of them has lost    *)
(* its session and not noticed yet: neither a start, a shutdown with       *)
(* requests in progress nor a failed query makes two owners.               *)
OverlapIsBlind ==
  \A i, j \in Processes :
    (i # j /\ Serving(i) /\ Serving(j)) => (i \in severed \/ j \in severed)

(* Whenever a process stands by, some process answers requests in the end, *)
(* unless the one that stood by is gone: a lock is never kept by a process *)
(* that no longer serves.                                                  *)
StandbyTakesOver ==
  \A i \in Processes :
    phase[i] = "standby" ~> (phase[i] = "down" \/ \E j \in Processes : Answering(j))
=============================================================================
