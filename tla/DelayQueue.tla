----------------------------- MODULE DelayQueue -----------------------------
(* The DelayQueue of the task scheduler note: a list of jobs sorted by their *)
(* next run time, guarded by one monitor.  TakeDue() blocks a worker until   *)
(* the head is due; Add() inserts and pulses every waiter; Shutdown() turns  *)
(* the queue off.                                                            *)
(*                                                                           *)
(* The monitor is modelled explicitly.  `holder' is the worker that keeps    *)
(* the lock from one iteration of TakeDue's while loop to the next (it does  *)
(* so only when it drops a cancelled job and continues); every other         *)
(* critical section is one action, taken when nobody holds the lock.  `at'   *)
(* says where a worker is: away from the queue, entering (ready to acquire   *)
(* or re-acquire the lock) or waiting (inside Monitor.Wait).                 *)
(*                                                                           *)
(* The clock counts ticks, TicksPerMs of them to a millisecond, because      *)
(* TakeDue truncates the delay it waits for to whole milliseconds.           *)
EXTENDS Integers, Sequences, FiniteSets, SequencesExt

CONSTANTS Jobs,        \* Job instances (several may carry the same id)
          Workers,     \* the threads that call TakeDue
          None,        \* no job (the null TakeDue returns), no lock holder
          MaxTime,     \* bound: the clock stops here
          TicksPerMs,  \* clock resolution
          Delays       \* the delays a client asks for, in ticks

ASSUME QueueAssumption ==
  /\ None \notin Jobs \cup Workers
  /\ MaxTime \in Nat
  /\ TicksPerMs \in Nat \ {0}
  /\ Delays \subseteq Nat

VARIABLES now,        \* DateTime.UtcNow, in ticks
          heap,       \* _heap
          running,    \* _running of the queue
          holder,     \* who holds _lock across loop iterations
          at,         \* where each worker is with respect to the queue
          deadline,   \* when a waiting worker's timed wait ends
          holds,      \* the job TakeDue returned to each worker
          nextRun,    \* Job.NextRunTime
          cancelled   \* Job._cancelled

queueVars == <<now, heap, running, holder, at, deadline, holds, nextRun, cancelled>>

Infinite == -1        \* Timeout.Infinite: Monitor.Wait without a timeout

Places == {"away", "entering", "waiting"}

InHeap(j) == \E i \in DOMAIN heap : heap[i] = j

Held(j) == \E w \in Workers : holds[w] = j

QueueInit ==
  /\ now = 0
  /\ heap = <<>>
  /\ running = TRUE
  /\ holder = None
  /\ at = [w \in Workers |-> "away"]
  /\ deadline = [w \in Workers |-> Infinite]
  /\ holds = [w \in Workers |-> None]
  /\ nextRun = [j \in Jobs |-> 0]
  /\ cancelled = [j \in Jobs |-> FALSE]

-----------------------------------------------------------------------------
(* Add                                                                       *)

\* Monitor.PulseAll: every waiter moves to the ready queue of the lock.
PulseAll ==
  /\ at' = [w \in Workers |-> IF at[w] = "waiting" THEN "entering" ELSE at[w]]
  /\ deadline' = [w \in Workers |-> Infinite]

\* Mutant of InsertionPoint: append without looking.
AtTheEnd(i, j, due) == i = Len(heap) + 1

\* i is where FindIndex(j => j.NextRunTime > job.NextRunTime) says to insert:
\* before the first later job, or at the end.
InsertionPoint(i, j, due) ==
  /\ \A k \in 1..(i - 1) : due[heap[k]] <= due[j]
  /\ i \in DOMAIN heap => due[heap[i]] > due[j]

\* Mutant of Add: the waiters are not woken.
AddWithoutPulse(j, due) ==
  /\ holder = None
  /\ IF running
       THEN \E i \in 1..(Len(heap) + 1) :
              /\ InsertionPoint(i, j, due)
              /\ heap' = InsertAt(heap, i, j)
       ELSE UNCHANGED heap
  /\ UNCHANGED <<at, deadline>>

\* Add(job), where due is Job.NextRunTime at the time of the call.
Add(j, due) ==
  /\ holder = None
  /\ IF running
       THEN /\ \E i \in 1..(Len(heap) + 1) :
                 /\ InsertionPoint(i, j, due)
                 /\ heap' = InsertAt(heap, i, j)
            /\ PulseAll
       ELSE UNCHANGED <<heap, at, deadline>>

-----------------------------------------------------------------------------
(* TakeDue: one action per branch of an iteration of its while loop          *)

HasLock(w) == at[w] = "entering" /\ holder \in {None, w}

HeadDue == heap # <<>> /\ nextRun[Head(heap)] <= now

\* (int) Math.Min(delayMs, int.MaxValue): whole milliseconds, rounded down.
WholeMs(ticks) == (ticks \div TicksPerMs) * TicksPerMs

\* The call: the worker is ready to acquire the lock.
CallTakeDue(w) ==
  /\ at[w] = "away" /\ holds[w] = None
  /\ at' = [at EXCEPT ![w] = "entering"]
  /\ UNCHANGED <<now, heap, running, holder, deadline, holds, nextRun, cancelled>>

\* while (_running) ends: null is returned.
TakeNothing(w) ==
  /\ HasLock(w) /\ ~running
  /\ at' = [at EXCEPT ![w] = "away"]
  /\ holder' = None
  /\ UNCHANGED <<now, heap, running, deadline, holds, nextRun, cancelled>>

\* Monitor.Wait(_lock) on an empty heap.
WaitForAJob(w) ==
  /\ HasLock(w) /\ running
  /\ heap = <<>>
  /\ at' = [at EXCEPT ![w] = "waiting"]
  /\ deadline' = [deadline EXCEPT ![w] = Infinite]
  /\ holder' = None
  /\ UNCHANGED <<now, heap, running, holds, nextRun, cancelled>>

\* Monitor.Wait(_lock, (int)delayMs) until the head is due.
WaitForTheHead(w) ==
  /\ HasLock(w) /\ running
  /\ heap # <<>> /\ ~HeadDue
  /\ at' = [at EXCEPT ![w] = "waiting"]
  /\ deadline' = [deadline EXCEPT ![w] = now + WholeMs(nextRun[Head(heap)] - now)]
  /\ holder' = None
  /\ UNCHANGED <<now, heap, running, holds, nextRun, cancelled>>

\* Mutant of DropCancelled: continue before RemoveAt(0).
DropCancelledNot(w) ==
  /\ HasLock(w) /\ running
  /\ HeadDue /\ cancelled[Head(heap)]
  /\ holder' = w
  /\ UNCHANGED <<now, heap, running, at, deadline, holds, nextRun, cancelled>>

\* RemoveAt(0); if (head.IsCancelled) continue;  -- the lock is kept.
DropCancelled(w) ==
  /\ HasLock(w) /\ running
  /\ HeadDue /\ cancelled[Head(heap)]
  /\ heap' = Tail(heap)
  /\ holder' = w
  /\ UNCHANGED <<now, running, at, deadline, holds, nextRun, cancelled>>

\* return head: worker w leaves TakeDue with the head of the queue.
HandOut(w) ==
  /\ HasLock(w) /\ running
  /\ at' = [at EXCEPT ![w] = "away"]
  /\ holds' = [holds EXCEPT ![w] = Head(heap)]
  /\ UNCHANGED <<now, running, deadline, nextRun, cancelled>>

\* Mutants of TakeHead: leave the job in the heap; take the rounded delay for
\* the delay.
TakeHeadLeavingIt(w) ==
  /\ HeadDue /\ ~cancelled[Head(heap)]
  /\ HandOut(w) /\ UNCHANGED heap /\ holder' = None

TakeHeadWithoutRecheck(w) ==
  /\ heap # <<>> /\ ~cancelled[Head(heap)]
  /\ WholeMs(nextRun[Head(heap)] - now) <= 0
  /\ HandOut(w) /\ heap' = Tail(heap) /\ holder' = None

TakeHead(w) ==
  /\ HeadDue /\ ~cancelled[Head(heap)]
  /\ HandOut(w) /\ heap' = Tail(heap) /\ holder' = None

\* A timed wait ends without a pulse; the worker must re-acquire the lock.
WaitTimesOut(w) ==
  /\ at[w] = "waiting" /\ deadline[w] \in 0..now
  /\ at' = [at EXCEPT ![w] = "entering"]
  /\ deadline' = [deadline EXCEPT ![w] = Infinite]
  /\ UNCHANGED <<now, heap, running, holder, holds, nextRun, cancelled>>

TakeDue(w) ==
  \/ TakeNothing(w)
  \/ WaitForAJob(w)
  \/ WaitForTheHead(w)
  \/ DropCancelled(w)
  \/ TakeHead(w)
  \/ WaitTimesOut(w)

-----------------------------------------------------------------------------
(* Shutdown, and the clock                                                   *)

\* Mutant of Shutdown: the waiters are not told.
ShutdownWithoutPulse ==
  /\ holder = None
  /\ running
  /\ running' = FALSE
  /\ UNCHANGED <<now, heap, holder, at, deadline, holds, nextRun, cancelled>>

Shutdown ==
  /\ holder = None
  /\ running
  /\ running' = FALSE
  /\ PulseAll
  /\ UNCHANGED <<now, heap, holder, holds, nextRun, cancelled>>

Tick ==
  /\ now < MaxTime
  /\ now' = now + 1
  /\ UNCHANGED <<heap, running, holder, at, deadline, holds, nextRun, cancelled>>

-----------------------------------------------------------------------------
(* The queue on its own, with the most general client: any thread adds a job *)
(* that is neither queued nor held, at any time and for any delay; any job   *)
(* may be cancelled while it is queued or held; a worker lets go of a job    *)
(* before it calls TakeDue again.                                            *)

ClientAdd(j, d) ==
  /\ ~InHeap(j) /\ ~Held(j)
  /\ nextRun' = [nextRun EXCEPT ![j] = now + d]
  /\ Add(j, nextRun')
  /\ UNCHANGED <<now, running, holder, holds, cancelled>>

ClientCancel(j) ==
  /\ InHeap(j) \/ Held(j)
  /\ ~cancelled[j]
  /\ cancelled' = [cancelled EXCEPT ![j] = TRUE]
  /\ UNCHANGED <<now, heap, running, holder, at, deadline, holds, nextRun>>

ClientRelease(w) ==
  /\ holds[w] # None
  /\ holds' = [holds EXCEPT ![w] = None]
  /\ UNCHANGED <<now, heap, running, holder, at, deadline, nextRun, cancelled>>

WorkerSide(w) == CallTakeDue(w) \/ TakeDue(w) \/ ClientRelease(w)

QueueNext ==
  \/ Tick
  \/ Shutdown
  \/ \E j \in Jobs, d \in Delays : ClientAdd(j, d)
  \/ \E j \in Jobs : ClientCancel(j)
  \/ \E w \in Workers : WorkerSide(w)

\* The workers keep going and the clock advances; nobody is obliged to add,
\* cancel or shut down.
QueueSpec ==
  /\ QueueInit /\ [][QueueNext]_queueVars
  /\ WF_queueVars(Tick)
  /\ \A w \in Workers : WF_queueVars(WorkerSide(w))

-----------------------------------------------------------------------------
(* Properties                                                                *)

\* Types; only a worker inside TakeDue keeps the lock between two steps, only a
\* waiting worker has a deadline, and one that holds a job is out of TakeDue.
QueueTypeOK ==
  /\ now \in 0..MaxTime
  /\ heap \in Seq(Jobs)
  /\ running \in BOOLEAN
  /\ holder \in Workers \cup {None}
  /\ at \in [Workers -> Places]
  /\ deadline \in [Workers -> Int]
  /\ holds \in [Workers -> Jobs \cup {None}]
  /\ nextRun \in [Jobs -> Nat]
  /\ cancelled \in [Jobs -> BOOLEAN]
  /\ holder # None => at[holder] = "entering"
  /\ \A w \in Workers : at[w] # "waiting" => deadline[w] = Infinite
  /\ \A w \in Workers : at[w] # "away" => holds[w] = None

\* The list stays sorted by NextRunTime (the comment on _heap), although
\* NextRunTime is a mutable property of the jobs and not of the list.
HeapSorted ==
  \A i, k \in DOMAIN heap : i < k => nextRun[heap[i]] <= nextRun[heap[k]]

\* A job is in the list at most once and never both queued and held, and no
\* two workers hold the same job: what prevents self-overlap "by construction".
NoSelfOverlap ==
  /\ \A i, k \in DOMAIN heap : heap[i] = heap[k] => i = k
  /\ \A v, w \in Workers : holds[v] = holds[w] /\ holds[v] # None => v = w
  /\ \A w \in Workers : holds[w] # None => ~InHeap(holds[w])

\* No lost wake-up: while there is a queued job, nobody waits without a
\* timeout or past the moment the head becomes due.
NoMissedWakeup ==
  running => \A w \in Workers :
    at[w] = "waiting" /\ heap # <<>> =>
      deadline[w] \in 0..nextRun[Head(heap)]

\* Shutdown lets every worker out of TakeDue, waiting ones included.
ShutdownReleases ==
  \A w \in Workers : (~running /\ at[w] # "away") ~> (at[w] = "away")
=============================================================================
