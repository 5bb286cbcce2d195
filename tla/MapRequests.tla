---------------------------- MODULE MapRequests -----------------------------
(***************************************************************************)
(* One map question (a route, a place search, ...) asked by several        *)
(* services that share a Redis cache.  Within a service identical          *)
(* questions share one flight; between services a lock in Redis keeps the  *)
(* paid provider from being asked twice.  A flight reads the cache, takes  *)
(* the lock or waits for its owner, reads again, asks the provider with    *)
(* retries, publishes and unlocks.                                         *)
(*                                                                         *)
(* Faults: a cache operation fails or times out, and may have happened all *)
(* the same; the service then leaves the cache alone for a second.  The    *)
(* lock expires under its owner; a process stops.                          *)
(*                                                                         *)
(* Abstractions.  Answers are numbered in the order in which the provider  *)
(* gives them.  Metrics, logs and the ranking of places are left out.      *)
(***************************************************************************)
EXTENDS Naturals

CONSTANTS
  Services,
  Kinds,         \* of questions: "route", "geocode", "search", ...
  ProviderIsGoogle, ContentCaching,
  MaxRetries,    \* GOOGLE_MAX_RETRIES
  MaxAnswers, MaxTokens, MaxFaults, MaxCallers

MapAssumption == {MaxRetries, MaxAnswers, MaxTokens, MaxFaults, MaxCallers} \subseteq Nat

VARIABLES
  kind,          \* of the question, chosen once
  flight,        \* what each service's flight is doing
  callers,       \* requests that wait for it
  cached,         \* the cached answer: NoEntry, Corrupt or a number
  lock,          \* the token in the lock's key, NoToken
  avoids,        \* services that leave the cache alone for now
  answers, tokens,
  failures,      \* cache operations that failed
  expiries       \* locks that expired under their owner, processes stopped

mapVars == <<kind, flight, callers, cached, lock, avoids, answers, tokens, failures, expiries>>

NoEntry == 0
Corrupt == MaxAnswers + 1
NoToken == 0
Steps == {"none", "read", "lock", "reread", "poll", "retry", "load", "publish", "unlock"}
NoFlight == [step |-> "none", token |-> NoToken, attempt |-> 0, answer |-> NoEntry]

MapTypeOK ==
  /\ kind \in Kinds
  /\ flight \in [Services -> [step : Steps, token : 0..MaxTokens, attempt : 0..MaxRetries,
                              answer : 0..MaxAnswers]]
  /\ callers \in [Services -> 0..MaxCallers]
  /\ \A s \in Services : callers[s] > 0 <=> flight[s].step # "none"
  /\ cached \in 0..(MaxAnswers + 1) /\ lock \in 0..MaxTokens
  /\ avoids \subseteq Services
  /\ answers \in 0..MaxAnswers /\ tokens \in 0..MaxTokens
  /\ failures \in 0..MaxFaults /\ expiries \in 0..MaxFaults

MapInit ==
  /\ kind \in Kinds
  /\ flight = [s \in Services |-> NoFlight] /\ callers = [s \in Services |-> 0]
  /\ cached \in {NoEntry, Corrupt} /\ lock = NoToken
  /\ avoids = {} /\ answers = 0 /\ tokens = 0 /\ failures = 0 /\ expiries = 0

\* ttl: of Google's answers only coordinates may be kept.
Cacheable == ~ProviderIsGoogle \/ ContentCaching \/ kind = "geocode"

At(s, step) == flight[s].step = step
Go(s, step) == flight' = [flight EXCEPT ![s].step = step]
Hit == cached \notin {NoEntry, Corrupt}
Reaches(s) == s \notin avoids
Faultless == UNCHANGED <<failures, expiries>>
Redis == UNCHANGED <<cached, lock>>
Provider == UNCHANGED answers
Waiting == UNCHANGED callers

\* Everyone who waits gets the answer or the error.
Land(s) == flight' = [flight EXCEPT ![s] = NoFlight] /\ callers' = [callers EXCEPT ![s] = 0]
\* With a token the lock is given back first.
Finish(s) == IF flight[s].token = NoToken THEN Land(s) ELSE Go(s, "unlock") /\ Waiting

----------------------------------------------------------------------------
(* A request joins the flight or starts one.                               *)
Request(s) ==
  /\ callers[s] < MaxCallers
  /\ callers' = [callers EXCEPT ![s] = @ + 1]
  /\ IF At(s, "none") THEN Go(s, IF Cacheable THEN "read" ELSE "load") ELSE UNCHANGED flight
  /\ Redis /\ Provider /\ Faultless /\ UNCHANGED <<kind, avoids, tokens>>

\* A read that finds an answer ends the flight, any other goes on.
Look(s, next) ==
  /\ IF Reaches(s) /\ Hit THEN Finish(s) ELSE Go(s, next) /\ Waiting
  /\ Redis /\ Provider /\ Faultless /\ UNCHANGED <<kind, avoids, tokens>>

Read(s) == At(s, "read") /\ Look(s, "lock")

\* Mutant: with the lock taken the cache is not read again.
RereadSkipped(s) ==
  /\ At(s, "reread") /\ Go(s, "load") /\ Waiting
  /\ Redis /\ Provider /\ Faultless /\ UNCHANGED <<kind, avoids, tokens>>
\* The former owner may have published before it unlocked.
Reread(s) == At(s, "reread") /\ Look(s, "load")
Poll(s) == At(s, "poll") /\ Look(s, IF Reaches(s) THEN "retry" ELSE "load")

\* SET NX PX: with the cache out of reach the flight goes on without it.
TryLock(s) ==
  /\ At(s, "lock") \/ At(s, "retry")
  /\ IF ~Reaches(s) THEN Go(s, "load") /\ UNCHANGED <<lock, tokens>>
     ELSE IF lock # NoToken THEN Go(s, "poll") /\ UNCHANGED <<lock, tokens>>
     ELSE /\ tokens < MaxTokens /\ tokens' = tokens + 1 /\ lock' = tokens'
          /\ flight' = [flight EXCEPT ![s].step = "reread", ![s].token = tokens']
  /\ Provider /\ Faultless /\ Waiting /\ UNCHANGED <<kind, cached, avoids>>

\* The wait is over after lockMs: MAP_REQUEST_PENDING.
GiveUp(s) ==
  /\ At(s, "poll") \/ At(s, "retry")
  /\ flight[s].token = NoToken
  /\ Land(s)
  /\ Redis /\ Provider /\ Faultless /\ UNCHANGED <<kind, avoids, tokens>>

----------------------------------------------------------------------------
(* The provider: an answer, none (null or an empty list), an error that    *)
(* ends the flight, or one that is tried again.                            *)
Answered(s) ==
  /\ At(s, "load") /\ answers < MaxAnswers
  /\ answers' = answers + 1
  /\ IF Cacheable THEN flight' = [flight EXCEPT ![s].step = "publish", ![s].answer = answers']
                       /\ Waiting
     ELSE Finish(s)
  /\ Redis /\ Faultless /\ UNCHANGED <<kind, avoids, tokens>>

\* Nothing to keep: null, an empty list, or an error; an answer that does
\* not validate is an error.
NoAnswer(s) ==
  /\ At(s, "load") /\ Finish(s)
  /\ Redis /\ Provider /\ Faultless /\ UNCHANGED <<kind, avoids, tokens>>

\* 5xx, 429, a timeout or a lost connection.
Retry(s) ==
  /\ At(s, "load") /\ flight[s].attempt < MaxRetries
  /\ flight' = [flight EXCEPT ![s].attempt = @ + 1]
  /\ Redis /\ Provider /\ Faultless /\ Waiting /\ UNCHANGED <<kind, avoids, tokens>>

----------------------------------------------------------------------------
\* Mutant: the owner publishes whether it still holds the lock or not.
MayPublishAlways(s) == Cacheable /\ flight[s].answer > 0
\* setIfLocked for an owner, set for a flight that went on without the lock.
MayPublish(s) == flight[s].token \in {NoToken, lock}

Publish(s) ==
  /\ At(s, "publish")
  /\ cached' = IF Reaches(s) /\ MayPublish(s) THEN flight[s].answer ELSE cached
  /\ Finish(s)
  /\ Provider /\ Faultless /\ UNCHANGED <<kind, lock, avoids, tokens>>

\* Mutant: the key is deleted whoever holds it by now.
UnlockedBlindly(s) == IF flight[s].token > 0 THEN NoToken ELSE lock
\* The token is compared before the key is deleted.
Unlocked(s) == IF lock = flight[s].token THEN NoToken ELSE lock

Unlock(s) ==
  /\ At(s, "unlock")
  /\ lock' = IF Reaches(s) THEN Unlocked(s) ELSE lock
  /\ Land(s)
  /\ Provider /\ Faultless /\ UNCHANGED <<kind, cached, avoids, tokens>>

----------------------------------------------------------------------------
(* Faults.                                                                 *)
\* A cache operation fails: it may have taken effect, its result is lost.
CacheFails(s) ==
  /\ Reaches(s) /\ failures < MaxFaults /\ failures' = failures + 1
  /\ avoids' = avoids \cup {s}
  /\ \/ At(s, "read") /\ Go(s, "lock") /\ Waiting /\ Redis /\ UNCHANGED tokens
     \/ At(s, "reread") /\ Go(s, "load") /\ Waiting /\ Redis /\ UNCHANGED tokens
     \/ At(s, "poll") /\ Go(s, "load") /\ Waiting /\ Redis /\ UNCHANGED tokens
     \/ /\ At(s, "lock") \/ At(s, "retry")
        /\ Go(s, "load") /\ Waiting /\ UNCHANGED cached
        /\ \/ UNCHANGED <<lock, tokens>>
           \/ /\ lock = NoToken /\ tokens < MaxTokens
              /\ tokens' = tokens + 1 /\ lock' = tokens'
     \/ /\ At(s, "publish") /\ Finish(s) /\ UNCHANGED <<lock, tokens>>
        /\ cached' \in {cached, IF MayPublish(s) THEN flight[s].answer ELSE cached}
     \/ /\ At(s, "unlock") /\ Land(s) /\ UNCHANGED <<cached, tokens>>
        /\ lock' \in {lock, Unlocked(s)}
  /\ Provider /\ UNCHANGED <<kind, expiries>>

\* cacheUnavailableUntil has passed.
Recover(s) ==
  /\ s \in avoids /\ avoids' = avoids \ {s}
  /\ Redis /\ Provider /\ Faultless /\ Waiting /\ UNCHANGED <<kind, flight, tokens>>

Stop(s) ==
  /\ ~At(s, "none") /\ expiries < MaxFaults /\ expiries' = expiries + 1
  /\ Land(s) /\ avoids' = avoids \ {s}
  /\ Redis /\ Provider /\ UNCHANGED <<kind, tokens, failures>>

Owned == \E s \in Services : flight[s].token = lock
ExpireLock ==
  /\ lock # NoToken
  /\ lock' = NoToken
  /\ IF Owned THEN expiries < MaxFaults /\ expiries' = expiries + 1 ELSE UNCHANGED expiries
  /\ Provider /\ Waiting /\ UNCHANGED <<kind, flight, cached, avoids, tokens, failures>>
ExpireEntry ==
  /\ cached # NoEntry /\ cached' = NoEntry
  /\ Provider /\ Faultless /\ Waiting /\ UNCHANGED <<kind, flight, lock, avoids, tokens>>

MapNext ==
  \/ \E s \in Services :
       \/ Request(s) \/ Read(s) \/ TryLock(s) \/ Reread(s) \/ Poll(s) \/ GiveUp(s)
       \/ Answered(s) \/ NoAnswer(s) \/ Retry(s) \/ Publish(s) \/ Unlock(s)
       \/ CacheFails(s) \/ Recover(s) \/ Stop(s)
  \/ ExpireLock \/ ExpireEntry

MapSpec == MapInit /\ [][MapNext]_mapVars

----------------------------------------------------------------------------
(* While the cache works and locks outlive their owners, the provider is   *)
(* asked by one service at a time, and not at all once an answer is        *)
(* cached: each question that may be cached is paid for once.              *)
PaidOnce ==
  (Cacheable /\ failures = 0 /\ expiries = 0) =>
    \A s \in Services : At(s, "load") =>
      /\ ~Hit
      /\ \A t \in Services \ {s} : ~At(t, "load")

(* A cached answer is never replaced by an older one, even when a slow     *)
(* owner lost its lock meanwhile, as long as every cache operation worked. *)
NewestStays ==
  [][(failures' = 0 /\ cached' \in 1..MaxAnswers /\ cached \in 1..MaxAnswers)
     => cached' >= cached]_mapVars
=============================================================================
