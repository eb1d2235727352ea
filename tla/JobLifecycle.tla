---------------------------- MODULE JobLifecycle ----------------------------
(* What the task scheduler promises its callers, with no queue, no lock and  *)
(* no thread in sight: a job waits, runs at or after its due time, one run   *)
(* at a time, waits again if it recurs, and ends.  JobScheduler implements   *)
(* this specification (JobScheduler!Lifecycle).                              *)
EXTENDS Integers, FiniteSets

CONSTANTS Jobs, Delays, MaxTime, OneTime, Interval,
          PoolSize   \* how many jobs may run at once

VARIABLES now,
          phase,      \* "new", "pending", "running" or "gone", for each job
          due,        \* when a pending job may run
          cancelled

lifeVars == <<now, phase, due, cancelled>>

Init ==
  /\ now = 0
  /\ phase = [j \in Jobs |-> "new"]
  /\ due = [j \in Jobs |-> 0]
  /\ cancelled = [j \in Jobs |-> FALSE]

Submit(j, d) ==
  /\ phase[j] = "new"
  /\ phase' = [phase EXCEPT ![j] = "pending"]
  /\ due' = [due EXCEPT ![j] = now + d]
  /\ UNCHANGED <<now, cancelled>>

\* A cancelled job does not start, and no job starts early.
Start(j) ==
  /\ phase[j] = "pending" /\ due[j] <= now /\ ~cancelled[j]
  /\ Cardinality({k \in Jobs : phase[k] = "running"}) < PoolSize
  /\ phase' = [phase EXCEPT ![j] = "running"]
  /\ UNCHANGED <<now, due, cancelled>>

\* A recurring job waits for its next slot, or for now if it missed the slot.
Again(j) ==
  /\ phase[j] = "running" /\ j \notin OneTime /\ ~cancelled[j]
  /\ phase' = [phase EXCEPT ![j] = "pending"]
  /\ due' = [due EXCEPT ![j] = IF @ + Interval[j] > now THEN @ + Interval[j] ELSE now]
  /\ UNCHANGED <<now, cancelled>>

\* A one-time job ends with its run, a cancelled one with the run in flight.
Finish(j) ==
  /\ phase[j] = "running" /\ (j \in OneTime \/ cancelled[j])
  /\ phase' = [phase EXCEPT ![j] = "gone"]
  /\ UNCHANGED <<now, due, cancelled>>

\* A pending job that was cancelled goes without a run.
Drop(j) ==
  /\ phase[j] = "pending" /\ cancelled[j]
  /\ phase' = [phase EXCEPT ![j] = "gone"]
  /\ UNCHANGED <<now, due, cancelled>>

CancelJob(j) ==
  /\ phase[j] # "new"
  /\ cancelled' = [cancelled EXCEPT ![j] = TRUE]
  /\ UNCHANGED <<now, phase, due>>

Pass ==
  /\ now < MaxTime
  /\ now' = now + 1
  /\ UNCHANGED <<phase, due, cancelled>>

Next ==
  \/ Pass
  \/ \E j \in Jobs :
       \/ \E d \in Delays : Submit(j, d)
       \/ Start(j) \/ Again(j) \/ Finish(j) \/ Drop(j) \/ CancelJob(j)

Spec == Init /\ [][Next]_lifeVars
=============================================================================
