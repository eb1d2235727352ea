----------------------------- MODULE RateLimiter -----------------------------
(* SlidingWindowLogLimiter.TryAcquire (02-rate-limiter) for one key: threads  *)
(* that share the key's log and its lock, and a clock that moves while they   *)
(* hold it.                                                                   *)
EXTENDS Integers, Sequences, FiniteSetsExt

CONSTANTS Requesters, MaxRequests, Window, LastTime

ASSUME LimiterAssumption ==
  /\ MaxRequests \in Nat \ {0} /\ Window \in Nat /\ LastTime \in Nat

VARIABLES
  clock,      \* _clock, which never goes back
  log,        \* the queue of the key
  requester,  \* where each thread is in TryAcquire, and the time it read
  allowed     \* (history) the times of the requests that were allowed

limiterVars == <<clock, log, requester, allowed>>

Away == [at |-> "away", now |-> 0]
Locked == \E r \in Requesters : requester[r].at = "inside"

LimiterInit ==
  /\ clock = 0
  /\ log = <<>>
  /\ requester = [r \in Requesters |-> Away]
  /\ allowed = <<>>

Passes ==
  /\ clock < LastTime
  /\ clock' = clock + 1
  /\ UNCHANGED <<log, requester, allowed>>

CallTryAcquire(r) ==
  /\ requester[r].at = "away"
  /\ requester' = [requester EXCEPT ![r] = [at |-> "calling", now |-> clock]]
  /\ UNCHANGED <<clock, log, allowed>>

\* Mutant: now is read before the lock is taken.
EnterWithAnOldTime(r) ==
  /\ requester[r].at = "calling" /\ ~Locked
  /\ requester' = [requester EXCEPT ![r].at = "inside"]
  /\ UNCHANGED <<clock, log, allowed>>

\* lock (log), then the clock is read.
EnterLock(r) ==
  /\ requester[r].at = "calling" /\ ~Locked
  /\ requester' = [requester EXCEPT ![r] = [at |-> "inside", now |-> clock]]
  /\ UNCHANGED <<clock, log, allowed>>

\* while (log.Count > 0 && log.Peek() < cutoff) log.Dequeue().
Pruned(now) ==
  LET kept == {i \in DOMAIN log : log[i] >= now - Window} IN
  IF kept = {} THEN <<>> ELSE SubSeq(log, Min(kept), Len(log))

Decide(r) ==
  /\ requester[r].at = "inside"
  /\ LET now == requester[r].now
         kept == Pruned(now)
         ok == Len(kept) < MaxRequests
     IN /\ log' = IF ok THEN Append(kept, now) ELSE kept
        /\ allowed' = IF ok THEN Append(allowed, now) ELSE allowed
  /\ requester' = [requester EXCEPT ![r] = Away]
  /\ UNCHANGED clock

LimiterNext ==
  \/ Passes
  \/ \E r \in Requesters : CallTryAcquire(r) \/ EnterLock(r) \/ Decide(r)

LimiterSpec == LimiterInit /\ [][LimiterNext]_limiterVars

-----------------------------------------------------------------------------
InWindow(now) == {i \in DOMAIN allowed : allowed[i] >= now - Window}

\* The limit is exact, however the threads race for the lock: a request is
\* allowed if and only if fewer than MaxRequests were allowed in the window
\* that ends at the time it read, which is what pruning the front of the log
\* computes as long as the log is in the order of its times.
LimitIsExact ==
  [][\A r \in Requesters : Decide(r) =>
       (allowed' # allowed <=> Cardinality(InWindow(requester[r].now)) < MaxRequests)]_limiterVars
=============================================================================
