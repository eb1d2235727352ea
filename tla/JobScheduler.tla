---------------------------- MODULE JobScheduler ----------------------------
(* The JobScheduler of the task scheduler note: callers schedule and cancel  *)
(* jobs by id, a fixed pool of workers takes due jobs from the DelayQueue,   *)
(* runs them with retries and puts recurring ones back.                      *)
(*                                                                           *)
(* A Job is an instance: Schedule makes one for an id, and an id may be      *)
(* scheduled again while an earlier instance is alive.  The registry _jobs   *)
(* maps an id to the instance scheduled last.  _running of the scheduler     *)
(* (and of the queue, which is private to it) is never assigned by any       *)
(* method of the class, so it stays TRUE here.                               *)
EXTENDS DelayQueue

CONSTANTS Callers,      \* threads that call Schedule and Cancel
          Ids,          \* job ids
          IdOf,         \* the id each instance was scheduled under
          OneTime,      \* the instances whose trigger returns null
          Interval,     \* FixedRateTrigger._interval of the others
          MaxAttempts   \* _retryPolicy.ShouldRetry(n) == n < MaxAttempts

ASSUME SchedulerAssumption ==
  /\ None \notin Callers \cup Ids
  /\ IdOf \in [Jobs -> Ids]
  /\ OneTime \subseteq Jobs
  /\ Interval \in [Jobs -> Nat]
  /\ MaxAttempts \in Nat \ {0}

VARIABLES registry,   \* _jobs
          status,     \* Job.Status; "New" before the constructor runs
          pc,         \* what each worker is doing
          attempt,    \* the attempt variable of RunWithRetry
          cpc,        \* what each caller is doing
          cjob        \* the job variable of the caller's Schedule or Cancel

schedVars == <<registry, status, pc, attempt, cpc, cjob>>
vars == <<now, heap, running, holder, at, deadline, holds, nextRun, cancelled,
          registry, status, pc, attempt, cpc, cjob>>

Statuses == {"New", "Scheduled", "Running", "Cancelled", "Completed"}

\* loop: in WorkerLoop, before or inside TakeDue, or just back from it;
\* executing, backoff: in RunWithRetry; deciding, requeueing, completing: in
\* Reschedule.
WorkerStates == {"loop", "executing", "backoff", "deciding", "requeueing", "completing"}

\* adding: Schedule has registered the job and not yet queued it; flagging,
\* marking: Cancel has taken the job from the registry and has still to set
\* _cancelled, has still to set Status.
CallerStates == {"idle", "adding", "flagging", "marking"}

Init ==
  /\ QueueInit
  /\ registry = [id \in Ids |-> None]
  /\ status = [j \in Jobs |-> "New"]
  /\ pc = [w \in Workers |-> "loop"]
  /\ attempt = [w \in Workers |-> 0]
  /\ cpc = [c \in Callers |-> "idle"]
  /\ cjob = [c \in Callers |-> None]

-----------------------------------------------------------------------------
(* Schedule and Cancel                                                       *)

\* Schedule, first half: new Job(..., UtcNow + delay); _jobs[jobId] = job.
\* The object is not shared before the second of the two.
ScheduleRegister(c, j, d) ==
  /\ cpc[c] = "idle" /\ status[j] = "New"
  /\ nextRun' = [nextRun EXCEPT ![j] = now + d]
  /\ status' = [status EXCEPT ![j] = "Scheduled"]
  /\ registry' = [registry EXCEPT ![IdOf[j]] = j]
  /\ cpc' = [cpc EXCEPT ![c] = "adding"]
  /\ cjob' = [cjob EXCEPT ![c] = j]
  /\ UNCHANGED <<now, heap, running, holder, at, deadline, holds, cancelled, pc, attempt>>

\* Schedule, second half: _queue.Add(job).
ScheduleAdd(c) ==
  /\ cpc[c] = "adding"
  /\ Add(cjob[c], nextRun)
  /\ cpc' = [cpc EXCEPT ![c] = "idle"]
  /\ cjob' = [cjob EXCEPT ![c] = None]
  /\ UNCHANGED <<now, running, holder, holds, nextRun, cancelled,
                 registry, status, pc, attempt>>

\* Cancel: _jobs.TryRemove(jobId, out job); when it fails Cancel returns false
\* and nothing changes.
CancelRemove(c, id) ==
  /\ cpc[c] = "idle" /\ registry[id] # None
  /\ cjob' = [cjob EXCEPT ![c] = registry[id]]
  /\ registry' = [registry EXCEPT ![id] = None]
  /\ cpc' = [cpc EXCEPT ![c] = "flagging"]
  /\ UNCHANGED queueVars /\ UNCHANGED <<status, pc, attempt>>

\* Job.Cancel: _cancelled = true;
CancelFlag(c) ==
  /\ cpc[c] = "flagging"
  /\ cancelled' = [cancelled EXCEPT ![cjob[c]] = TRUE]
  /\ cpc' = [cpc EXCEPT ![c] = "marking"]
  /\ UNCHANGED <<now, heap, running, holder, at, deadline, holds, nextRun,
                 registry, status, pc, attempt, cjob>>

\* Job.Cancel: Status = JobStatus.Cancelled;  then Cancel returns true.
CancelMark(c) ==
  /\ cpc[c] = "marking"
  /\ status' = [status EXCEPT ![cjob[c]] = "Cancelled"]
  /\ cpc' = [cpc EXCEPT ![c] = "idle"]
  /\ cjob' = [cjob EXCEPT ![c] = None]
  /\ UNCHANGED queueVars
  /\ UNCHANGED <<registry, pc, attempt>>

CallerStep(c) == ScheduleAdd(c) \/ CancelFlag(c) \/ CancelMark(c)

-----------------------------------------------------------------------------
(* The workers                                                               *)

\* WorkerLoop calls TakeDue, which goes on until it returns a job.
WorkerTakes(w) ==
  /\ pc[w] = "loop"
  /\ CallTakeDue(w) \/ TakeDue(w)
  /\ UNCHANGED schedVars

\* job.Status = Running; RunWithRetry(job) makes its first attempt.
BeginRun(w) ==
  /\ pc[w] = "loop" /\ holds[w] # None
  /\ status' = [status EXCEPT ![holds[w]] = "Running"]
  /\ pc' = [pc EXCEPT ![w] = "executing"]
  /\ attempt' = [attempt EXCEPT ![w] = 1]
  /\ UNCHANGED queueVars
  /\ UNCHANGED <<registry, cpc, cjob>>

\* Execute returns.  (attempt is 0 outside of RunWithRetry.)
ExecuteReturns(w) ==
  /\ pc[w] = "executing"
  /\ pc' = [pc EXCEPT ![w] = "deciding"]
  /\ attempt' = [attempt EXCEPT ![w] = 0]
  /\ UNCHANGED queueVars
  /\ UNCHANGED <<registry, status, cpc, cjob>>

\* Mutant of ExecuteThrows: the exception reaches WorkerLoop with no finally.
ExecuteThrowsUncaught(w) ==
  /\ pc[w] = "executing"
  /\ pc' = [pc EXCEPT ![w] = "loop"]
  /\ holds' = [holds EXCEPT ![w] = None]
  /\ attempt' = [attempt EXCEPT ![w] = 0]
  /\ UNCHANGED <<now, heap, running, holder, at, deadline, nextRun, cancelled>>
  /\ UNCHANGED <<registry, status, cpc, cjob>>

\* Execute throws: sleep and retry if the policy allows, else give up.
ExecuteThrows(w) ==
  /\ pc[w] = "executing"
  /\ IF attempt[w] < MaxAttempts
       THEN pc' = [pc EXCEPT ![w] = "backoff"] /\ UNCHANGED attempt
       ELSE /\ pc' = [pc EXCEPT ![w] = "deciding"]
            /\ attempt' = [attempt EXCEPT ![w] = 0]
  /\ UNCHANGED queueVars
  /\ UNCHANGED <<registry, status, cpc, cjob>>

\* Thread.Sleep ends, attempt++.
Retry(w) ==
  /\ pc[w] = "backoff"
  /\ pc' = [pc EXCEPT ![w] = "executing"]
  /\ attempt' = [attempt EXCEPT ![w] = attempt[w] + 1]
  /\ UNCHANGED queueVars
  /\ UNCHANGED <<registry, status, cpc, cjob>>

\* Mutant of FixedRate: no clamp, missed slots pile up.
FixedRateUnclamped(scheduled, interval) == scheduled + interval

\* FixedRateTrigger.NextRunTime.
FixedRate(scheduled, interval) ==
  IF scheduled + interval <= now THEN now ELSE scheduled + interval

\* Mutant of Reschedule: _cancelled is not looked at again.
RescheduleAnyway(w) ==
  /\ pc[w] = "deciding"
  /\ IF holds[w] \notin OneTime
       THEN /\ nextRun' = [nextRun EXCEPT ![holds[w]] = FixedRate(@, Interval[holds[w]])]
            /\ pc' = [pc EXCEPT ![w] = "requeueing"]
       ELSE /\ pc' = [pc EXCEPT ![w] = "completing"]
            /\ UNCHANGED nextRun
  /\ UNCHANGED <<now, heap, running, holder, at, deadline, holds, cancelled,
                 registry, status, attempt, cpc, cjob>>

\* Reschedule: the trigger and the test of IsCancelled.  scheduledTime was read
\* from NextRunTime when the job was taken; nobody else writes it meanwhile.
Reschedule(w) ==
  /\ pc[w] = "deciding"
  /\ IF holds[w] \notin OneTime /\ ~cancelled[holds[w]]
       THEN /\ nextRun' = [nextRun EXCEPT ![holds[w]] = FixedRate(@, Interval[holds[w]])]
            /\ pc' = [pc EXCEPT ![w] = "requeueing"]
       ELSE /\ pc' = [pc EXCEPT ![w] = "completing"]
            /\ UNCHANGED nextRun
  /\ UNCHANGED <<now, heap, running, holder, at, deadline, holds, cancelled,
                 registry, status, attempt, cpc, cjob>>

\* Mutant of Requeue: Reschedule removes the registration in both branches.
RequeueUnregistered(w) ==
  /\ pc[w] = "requeueing"
  /\ status' = [status EXCEPT ![holds[w]] = "Scheduled"]
  /\ registry' = [registry EXCEPT ![IdOf[holds[w]]] = None]
  /\ Add(holds[w], nextRun)
  /\ holds' = [holds EXCEPT ![w] = None]
  /\ pc' = [pc EXCEPT ![w] = "loop"]
  /\ UNCHANGED <<now, running, holder, nextRun, cancelled, attempt, cpc, cjob>>

\* job.Status = Scheduled; _queue.Add(job);
Requeue(w) ==
  /\ pc[w] = "requeueing"
  /\ status' = [status EXCEPT ![holds[w]] = "Scheduled"]
  /\ Add(holds[w], nextRun)
  /\ holds' = [holds EXCEPT ![w] = None]
  /\ pc' = [pc EXCEPT ![w] = "loop"]
  /\ UNCHANGED <<now, running, holder, nextRun, cancelled, registry, attempt, cpc, cjob>>

\* job.Status = Completed; _jobs.TryRemove(job.Id, out _);  -- by id, whoever
\* is registered under it.
Complete(w) ==
  /\ pc[w] = "completing"
  /\ status' = [status EXCEPT ![holds[w]] = "Completed"]
  /\ registry' = [registry EXCEPT ![IdOf[holds[w]]] = None]
  /\ holds' = [holds EXCEPT ![w] = None]
  /\ pc' = [pc EXCEPT ![w] = "loop"]
  /\ UNCHANGED <<now, heap, running, holder, at, deadline, nextRun, cancelled,
                 attempt, cpc, cjob>>

WorkerStep(w) ==
  \/ WorkerTakes(w)
  \/ BeginRun(w)
  \/ ExecuteReturns(w)
  \/ ExecuteThrows(w)
  \/ Retry(w)
  \/ Reschedule(w)
  \/ Requeue(w)
  \/ Complete(w)

Clock == Tick /\ UNCHANGED schedVars

Next ==
  \/ Clock
  \/ \E c \in Callers, j \in Jobs, d \in Delays : ScheduleRegister(c, j, d)
  \/ \E c \in Callers, id \in Ids : CancelRemove(c, id)
  \/ \E c \in Callers : CallerStep(c)
  \/ \E w \in Workers : WorkerStep(w)

\* Threads are scheduled, so every worker and every call under way goes on;
\* Execute and the sleeps end; nobody is obliged to call Schedule or Cancel.
Spec ==
  /\ Init /\ [][Next]_vars
  /\ WF_vars(Clock)
  /\ \A c \in Callers : WF_vars(CallerStep(c))
  /\ \A w \in Workers : WF_vars(WorkerStep(w))
-----------------------------------------------------------------------------
(* Properties                                                                *)

Adding(j) == \E c \in Callers : cpc[c] = "adding" /\ cjob[c] = j

\* Types; a worker between WorkerLoop's TakeDue and its finally holds a job, a
\* call under way has its job, and a worker backs off only before an attempt
\* the policy allows.
TypeOK ==
  /\ QueueTypeOK
  /\ registry \in [Ids -> Jobs \cup {None}]
  /\ status \in [Jobs -> Statuses]
  /\ pc \in [Workers -> WorkerStates]
  /\ attempt \in [Workers -> 0..MaxAttempts]
  /\ cpc \in [Callers -> CallerStates]
  /\ cjob \in [Callers -> Jobs \cup {None}]
  /\ \A w \in Workers : pc[w] # "loop" => holds[w] # None
  /\ \A c \in Callers : cpc[c] # "idle" => cjob[c] # None
  /\ \A w \in Workers : pc[w] = "backoff" => attempt[w] < MaxAttempts

\* A job is in one place only: in the heap (once), with one worker, or with
\* the Schedule call that is about to queue it.  So a job instance never runs
\* concurrently with itself, with no per-job lock.
OnePlace ==
  /\ NoSelfOverlap
  /\ \A b, c \in Callers :
       cpc[b] = "adding" /\ cpc[c] = "adding" /\ cjob[b] = cjob[c] => b = c
  /\ \A c \in Callers :
       cpc[c] = "adding" => ~InHeap(cjob[c]) /\ ~Held(cjob[c])

\* A scheduled job is never lost: until it is cancelled or completed it is
\* queued, held by a worker, or about to be queued.
NotLost ==
  \A j \in Jobs :
    status[j] \in {"Scheduled", "Running"} /\ ~cancelled[j] =>
      InHeap(j) \/ Held(j) \/ Adding(j)

\* Completed is the end of an instance: nothing will run it again.
CompletedIsFinal ==
  \A j \in Jobs :
    status[j] = "Completed" => ~InHeap(j) /\ ~Held(j) /\ ~Adding(j)

\* Jobs run at or after their due time, never early, on every attempt.
NeverEarly ==
  \A w \in Workers :
    pc[w] \in {"executing", "backoff"} => nextRun[holds[w]] <= now

\* As long as no id is scheduled twice, Cancel can find every queued job that
\* is not cancelled, unless another Cancel has just taken it from the registry.
Cancellable ==
  \A j \in Jobs :
    InHeap(j) /\ ~cancelled[j] =>
      \/ registry[IdOf[j]] = j
      \/ \E c \in Callers : cpc[c] = "flagging" /\ cjob[c] = j

\* Missed slots do not pile up: the next run is at least an interval after the
\* last one was due, and not in the past.
NoPileUp ==
  [][\A w \in Workers : Reschedule(w) /\ pc'[w] = "requeueing" =>
       LET j == holds[w] IN
         nextRun'[j] >= now /\ nextRun'[j] >= nextRun[j] + Interval[j]]_vars

\* A queued job whose time comes is run, unless it is cancelled first.
DueJobRuns ==
  \A j \in Jobs :
    (InHeap(j) /\ nextRun[j] <= MaxTime)
      ~> (cancelled[j] \/ \E w \in Workers : holds[w] = j /\ pc[w] = "executing")

\* A job that throws, on every attempt even, neither kills its worker nor its
\* future schedule: a recurring job that is taken comes back.
RecurringComesBack ==
  \A j \in Jobs \ OneTime : Held(j) ~> (InHeap(j) \/ cancelled[j])

\* The garbage of a cancellation is collected: a cancelled job leaves the heap
\* when its time comes, and for good.
CancelledLeaves ==
  \A j \in Jobs :
    cancelled[j] ~> [](~InHeap(j) \/ nextRun[j] > MaxTime)

\* "Cancel(jobId) prevents future runs": when Cancel returns true no job that
\* is queued under the id is left to run.
CancelPreventsFutureRuns ==
  [][\A c \in Callers : CancelMark(c) =>
       \A j \in Jobs : IdOf[j] = IdOf[cjob[c]] /\ InHeap(j) => cancelled[j]]_vars

-----------------------------------------------------------------------------
(* The scheduler implements JobLifecycle.  A job counts as pending again from *)
(* the moment Reschedule has fixed its next run, and as gone from the moment  *)
(* it has decided that there is none.                                         *)

HeldAt(j, states) == \E w \in Workers : holds[w] = j /\ pc[w] \in states

Pending(j) == InHeap(j) \/ Adding(j) \/ HeldAt(j, {"requeueing"})
InRun(j)   == HeldAt(j, {"loop", "executing", "backoff", "deciding"})

PhaseOf(j) == IF status[j] = "New" THEN "new"
              ELSE IF Pending(j) THEN "pending"
              ELSE IF InRun(j) THEN "running"
              ELSE "gone"

Lifecycle == INSTANCE JobLifecycle WITH
  phase <- [j \in Jobs |-> PhaseOf(j)],
  due <- nextRun,
  PoolSize <- Cardinality(Workers)

\* Every behaviour of the scheduler is one JobLifecycle allows.
ImplementsLifecycle == Lifecycle!Spec
=============================================================================
