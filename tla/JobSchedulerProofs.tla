------------------------- MODULE JobSchedulerProofs -------------------------
(* Proofs about the delay queue and about the scheduler that works with it.  *)
EXTENDS JobScheduler, SequenceTheorems, FiniteSetTheorems, TLAPS

-----------------------------------------------------------------------------
(* The delay queue: what Add and TakeDue do to the list and to the waiters,  *)
(* and the safety invariants of the queue for every set of jobs, workers and *)
(* delays, every clock resolution and every time bound.                      *)

Slots(s) == 1..(Len(s) + 1)

\* t is s with e inserted at i, over the set S.
Inserted(S, s, i, e, t) ==
  /\ t \in Seq(S)
  /\ Len(t) = Len(s) + 1
  /\ \A k \in 1..(Len(s) + 1) :
       t[k] = IF k < i THEN s[k] ELSE IF k = i THEN e ELSE s[k - 1]

\* What List.Insert does: one element more, in its place, the others in order.
LEMMA InsertAtFacts ==
  ASSUME NEW S, NEW s \in Seq(S), NEW e \in S, NEW i \in Slots(s)
  PROVE  Inserted(S, s, i, e, InsertAt(s, i, e))
PROOF
  <1> USE DEF Slots
  <1> DEFINE front == SubSeq(s, 1, i - 1)
             back == SubSeq(s, i, Len(s))
  <1>1. /\ front \in Seq(S)
        /\ Len(front) = i - 1
        /\ \A k \in 1..(i - 1) : front[k] = s[k]
    <2>1. \A k \in 1..(i - 1) : s[k] \in S
      BY ElementOfSeq, LenProperties
    <2> QED  BY <2>1, SubSeqProperties, LenProperties
  <1>2. /\ back \in Seq(S)
        /\ Len(back) = Len(s) - i + 1
        /\ \A k \in 1..(Len(s) - i + 1) : back[k] = s[i + k - 1]
    <2>1. \A k \in i..Len(s) : s[k] \in S
      BY ElementOfSeq, LenProperties
    <2> QED  BY <2>1, SubSeqProperties, LenProperties
  <1> DEFINE mid == front \o <<e>>
  <1>3. <<e>> \in Seq(S) /\ Len(<<e>>) = 1 /\ <<e>>[1] = e
    OBVIOUS
  <1> HIDE DEF front, back
  <1>4. /\ mid \in Seq(S)
        /\ Len(mid) = i
        /\ \A k \in 1..i : mid[k] = IF k < i THEN s[k] ELSE e
    BY <1>1, <1>3, ConcatProperties
  <1> HIDE DEF mid
  <1>5. /\ mid \o back \in Seq(S)
        /\ Len(mid \o back) = Len(s) + 1
        /\ \A k \in 1..(Len(s) + 1) :
             (mid \o back)[k] = IF k <= i THEN mid[k] ELSE back[k - i]
    <2>1. /\ mid \o back \in Seq(S)
          /\ Len(mid \o back) = Len(mid) + Len(back)
          /\ \A k \in 1..(Len(mid) + Len(back)) :
               (mid \o back)[k] = IF k <= Len(mid) THEN mid[k] ELSE back[k - Len(mid)]
      BY <1>2, <1>4, ConcatProperties
    <2>2. Len(mid) = i /\ Len(mid) + Len(back) = Len(s) + 1
      BY <1>2, <1>4, LenProperties
    <2> QED  BY <2>1, <2>2
  <1>6. InsertAt(s, i, e) = mid \o back
    BY DEF InsertAt, mid, front, back
  <1>7. /\ mid \o back \in Seq(S)
        /\ Len(mid \o back) = Len(s) + 1
        /\ \A k \in 1..(Len(s) + 1) :
             (mid \o back)[k] = IF k < i THEN s[k] ELSE IF k = i THEN e ELSE s[k - 1]
    BY <1>2, <1>4, <1>5, LenProperties
  <1> QED  BY <1>6, <1>7 DEF Inserted

\* Removing the head keeps the others, in order.
LEMMA TailFacts ==
  ASSUME NEW S, NEW s \in Seq(S), s # <<>>
  PROVE  /\ Len(s) \in Nat /\ Len(s) >= 1
         /\ Head(s) = s[1] /\ Head(s) \in S
         /\ Tail(s) \in Seq(S)
         /\ Len(Tail(s)) = Len(s) - 1
         /\ \A k \in 1..(Len(s) - 1) : Tail(s)[k] = s[k + 1]
PROOF
  <1>1. Len(s) \in Nat \ {0}
    BY EmptySeq
  <1>2. Head(s) = s[1]
    OBVIOUS
  <1> QED  BY <1>1, <1>2, HeadTailProperties, LenProperties

\* Inserting a new job where FindIndex says keeps a sorted list sorted and free
\* of duplicates.
LEMMA InsertSorted ==
  ASSUME heap \in Seq(Jobs),
         NEW j \in Jobs, ~InHeap(j),
         NEW due \in [Jobs -> Nat],
         \A i, k \in DOMAIN heap : i < k => due[heap[i]] <= due[heap[k]],
         \A i, k \in DOMAIN heap : heap[i] = heap[k] => i = k,
         NEW p \in 1..(Len(heap) + 1), InsertionPoint(p, j, due),
         NEW list, list = InsertAt(heap, p, j)
  PROVE  /\ list \in Seq(Jobs)
         /\ Len(list) >= 1
         /\ \A i, k \in DOMAIN list : i < k => due[list[i]] <= due[list[k]]
         /\ \A i, k \in DOMAIN list : list[i] = list[k] => i = k
         /\ \A x \in Jobs : (\E i \in DOMAIN list : list[i] = x) <=> (InHeap(x) \/ x = j)
PROOF
  <1>0. /\ InsertAt(heap, p, j) \in Seq(Jobs)
        /\ Len(InsertAt(heap, p, j)) = Len(heap) + 1
        /\ \A k \in 1..(Len(heap) + 1) :
             InsertAt(heap, p, j)[k] =
               IF k < p THEN heap[k] ELSE IF k = p THEN j ELSE heap[k - 1]
    <2>1. p \in Slots(heap)
      BY DEF Slots
    <2>2. Inserted(Jobs, heap, p, j, InsertAt(heap, p, j))
      BY <2>1, InsertAtFacts
    <2> QED  BY <2>2 DEF Inserted
  <1>1. /\ list \in Seq(Jobs)
        /\ Len(heap) \in Nat
        /\ DOMAIN heap = 1..Len(heap)
        /\ Len(list) = Len(heap) + 1
        /\ DOMAIN list = 1..(Len(heap) + 1)
    <2>1. list \in Seq(Jobs) /\ Len(list) = Len(heap) + 1
      BY <1>0
    <2> QED  BY <2>1, LenProperties
  <1>2. \A k \in 1..(Len(heap) + 1) :
          list[k] = IF k < p THEN heap[k] ELSE IF k = p THEN j ELSE heap[k - 1]
    BY <1>0
  <1>3. \A k \in 1..Len(heap) : heap[k] \in Jobs /\ heap[k] # j
    BY <1>1, ElementOfSeq DEF InHeap
  <1>4. \A k \in 1..(p - 1) : due[heap[k]] <= due[j]
    BY DEF InsertionPoint
  <1>5. \A k \in p..Len(heap) : due[heap[k]] > due[j]
    <2>1. TAKE k \in p..Len(heap)
    <2>2. p \in DOMAIN heap /\ k \in DOMAIN heap
      BY <1>1
    <2>3. due[heap[p]] > due[j]
      BY <2>2 DEF InsertionPoint
    <2>4. due[heap[p]] \in Nat /\ due[heap[k]] \in Nat /\ due[j] \in Nat
      BY <2>2, <1>1, <1>3
    <2>5. due[heap[p]] <= due[heap[k]]
      <3>1. CASE p = k
        BY <3>1, <2>4
      <3>2. CASE p < k
        BY <3>2, <2>2
      <3> QED  BY <3>1, <3>2, <1>1
    <2> QED  BY <2>3, <2>4, <2>5
  <1>6. ASSUME NEW a \in 1..(Len(heap) + 1), NEW b \in 1..(Len(heap) + 1), a < b
        PROVE  due[list[a]] <= due[list[b]] /\ list[a] # list[b]
    <2>1. CASE b < p
      <3>1. list[a] = heap[a] /\ list[b] = heap[b] /\ a \in DOMAIN heap /\ b \in DOMAIN heap
        BY <2>1, <1>1, <1>2, <1>6
      <3> QED  BY <3>1, <1>6
    <2>2. CASE b = p
      <3>1. list[a] = heap[a] /\ list[b] = j /\ a \in 1..(p - 1) /\ a \in 1..Len(heap)
        BY <2>2, <1>1, <1>2, <1>6
      <3> QED  BY <3>1, <1>3, <1>4
    <2>3. CASE b > p /\ a < p
      <3>1. list[a] = heap[a] /\ list[b] = heap[b - 1] /\ a \in DOMAIN heap /\ b - 1 \in DOMAIN heap /\ a < b - 1
        BY <2>3, <1>1, <1>2, <1>6
      <3> QED  BY <3>1, <1>6
    <2>4. CASE b > p /\ a = p
      <3>1. list[a] = j /\ list[b] = heap[b - 1] /\ b - 1 \in p..Len(heap) /\ b - 1 \in 1..Len(heap)
        BY <2>4, <1>1, <1>2, <1>6
      <3>2. due[heap[b - 1]] \in Nat /\ due[j] \in Nat
        BY <3>1, <1>3
      <3> QED  BY <3>1, <3>2, <1>3, <1>5
    <2>5. CASE b > p /\ a > p
      <3>1. list[a] = heap[a - 1] /\ list[b] = heap[b - 1] /\ a - 1 \in DOMAIN heap /\ b - 1 \in DOMAIN heap /\ a - 1 < b - 1
        BY <2>5, <1>1, <1>2, <1>6
      <3> QED  BY <3>1, <1>6
    <2> QED  BY <2>1, <2>2, <2>3, <2>4, <2>5, <1>1, <1>6
  <1>7. \A x \in Jobs : (\E i \in DOMAIN list : list[i] = x) <=> (InHeap(x) \/ x = j)
    <2>1. TAKE x \in Jobs
    <2>2. ASSUME NEW i \in DOMAIN list, list[i] = x
          PROVE  InHeap(x) \/ x = j
      <3>1. i \in 1..(Len(heap) + 1)
        BY <2>2, <1>1
      <3>2. CASE i < p
        BY <3>1, <3>2, <2>2, <1>1, <1>2 DEF InHeap
      <3>3. CASE i = p
        BY <3>1, <3>3, <2>2, <1>2
      <3>4. CASE i > p
        <4>1. i - 1 \in DOMAIN heap /\ heap[i - 1] = x
          BY <3>1, <3>4, <2>2, <1>1, <1>2
        <4> QED  BY <4>1 DEF InHeap
      <3> QED  BY <3>1, <3>2, <3>3, <3>4
    <2>3. ASSUME NEW i \in DOMAIN heap, heap[i] = x
          PROVE  \E k \in DOMAIN list : list[k] = x
      <3>1. CASE i < p
        <4>1. i \in DOMAIN list
          BY <2>3, <1>1
        <4>2. list[i] = x
          BY <3>1, <4>1, <2>3, <1>1, <1>2
        <4> QED  BY <4>1, <4>2
      <3>2. CASE i >= p
        <4>1. i + 1 \in DOMAIN list /\ list[i + 1] = x
          BY <3>2, <2>3, <1>1, <1>2
        <4> QED  BY <4>1
      <3> QED  BY <3>1, <3>2, <1>1, <2>3
    <2>4. p \in DOMAIN list /\ list[p] = j
      BY <1>1, <1>2
    <2> QED  BY <2>2, <2>3, <2>4 DEF InHeap
  <1>8. \A i, k \in DOMAIN list : i < k => due[list[i]] <= due[list[k]]
    BY <1>1, <1>6
  <1>9. \A i, k \in DOMAIN list : list[i] = list[k] => i = k
    <2>1. TAKE i, k \in DOMAIN list
    <2>2. i \in 1..(Len(heap) + 1) /\ k \in 1..(Len(heap) + 1)
      BY <1>1
    <2> QED  BY <2>2, <1>1, <1>6
  <1> QED  BY <1>1, <1>7, <1>8, <1>9

-----------------------------------------------------------------------------
(* The inductive invariant of the queue                                      *)

\* HeapSorted and NoSelfOverlap hold each other up: a job's NextRunTime is
\* assigned only while the job is out of the list, which NoSelfOverlap ensures.
QueueInv == QueueTypeOK /\ HeapSorted /\ NoSelfOverlap /\ NoMissedWakeup

\* An assignment to the NextRunTime of a job that is not in the list does not
\* disturb the order.
LEMMA RestampSorted ==
  ASSUME heap \in Seq(Jobs), HeapSorted,
         NEW j \in Jobs, ~InHeap(j),
         NEW due, \A k \in Jobs \ {j} : due[k] = nextRun[k]
  PROVE  \A i, k \in DOMAIN heap : i < k => due[heap[i]] <= due[heap[k]]
PROOF
  <1>1. \A i \in DOMAIN heap : heap[i] \in Jobs \ {j}
    BY ElementOfSeq, LenProperties DEF InHeap
  <1> QED  BY <1>1 DEF HeapSorted

\* What Add does to a queue: the job is inserted in order, once, and nobody is
\* left waiting; or nothing happens, after a shutdown.
LEMMA AddStep ==
  ASSUME QueueInv,
         NEW j \in Jobs, ~InHeap(j),
         nextRun' \in [Jobs -> Nat],
         \A k \in Jobs \ {j} : nextRun'[k] = nextRun[k],
         Add(j, nextRun'),
         running' = running
  PROVE  /\ heap' \in Seq(Jobs)
         /\ HeapSorted'
         /\ \A i, k \in DOMAIN heap' : heap'[i] = heap'[k] => i = k
         /\ \A x \in Jobs : InHeap(x)' => InHeap(x) \/ x = j
         /\ \A x \in Jobs : running /\ (InHeap(x) \/ x = j) => InHeap(x)'
         /\ at' \in [Workers -> Places]
         /\ deadline' \in [Workers -> Int]
         /\ \A w \in Workers : at'[w] # "waiting" => deadline'[w] = Infinite
         /\ \A w \in Workers : (at'[w] = "away") <=> (at[w] = "away")
         /\ \A w \in Workers : at[w] = "entering" => at'[w] = "entering"
         /\ NoMissedWakeup'
PROOF
  <1>1. heap \in Seq(Jobs) /\ HeapSorted /\ NoSelfOverlap
    BY DEF QueueInv, QueueTypeOK
  <1>2. \A i, k \in DOMAIN heap : heap[i] = heap[k] => i = k
    BY <1>1 DEF NoSelfOverlap
  <1>3. \A i, k \in DOMAIN heap : i < k => nextRun'[heap[i]] <= nextRun'[heap[k]]
    BY <1>1, RestampSorted
  <1>4. CASE ~running
    <2>1. heap' = heap /\ at' = at /\ deadline' = deadline
      BY <1>4 DEF Add
    <2>2. HeapSorted'
      BY <2>1, <1>3 DEF HeapSorted
    <2>3. NoMissedWakeup'
      BY <1>4 DEF NoMissedWakeup
    <2> QED  BY <1>1, <1>2, <1>4, <2>1, <2>2, <2>3 DEF InHeap, QueueInv, QueueTypeOK
  <1>5. CASE running
    <2>1. PICK p \in 1..(Len(heap) + 1) :
            InsertionPoint(p, j, nextRun') /\ heap' = InsertAt(heap, p, j)
      BY <1>5 DEF Add
    <2>2. /\ heap' \in Seq(Jobs)
          /\ \A i, k \in DOMAIN heap' : i < k => nextRun'[heap'[i]] <= nextRun'[heap'[k]]
          /\ \A i, k \in DOMAIN heap' : heap'[i] = heap'[k] => i = k
          /\ \A x \in Jobs : (\E i \in DOMAIN heap' : heap'[i] = x) <=> (InHeap(x) \/ x = j)
      BY <1>1, <1>2, <1>3, <2>1, InsertSorted
    <2>3. HeapSorted'
      BY <2>2 DEF HeapSorted
    <2>4. PulseAll
      BY <1>5 DEF Add
    <2>5. at \in [Workers -> Places]
      BY DEF QueueInv, QueueTypeOK
    <2>6. /\ at' \in [Workers -> Places]
          /\ deadline' \in [Workers -> Int]
          /\ \A w \in Workers : at'[w] # "waiting" /\ deadline'[w] = Infinite
          /\ \A w \in Workers : (at'[w] = "away") <=> (at[w] = "away")
          /\ \A w \in Workers : at[w] = "entering" => at'[w] = "entering"
      BY <2>4, <2>5 DEF PulseAll, Places, Infinite
    <2>7. NoMissedWakeup'
      BY <2>6 DEF NoMissedWakeup
    <2> QED  BY <2>2, <2>3, <2>6, <2>7 DEF InHeap
  <1> QED  BY <1>4, <1>5

\* What RemoveAt(0) does: the list stays sorted and free of duplicates, and
\* the removed job is gone from it.
LEMMA RemoveHead ==
  ASSUME heap \in Seq(Jobs), heap # <<>>, HeapSorted,
         nextRun \in [Jobs -> Nat],
         \A i, k \in DOMAIN heap : heap[i] = heap[k] => i = k,
         heap' = Tail(heap),
         nextRun' = nextRun
  PROVE  /\ heap' \in Seq(Jobs)
         /\ HeapSorted'
         /\ \A i, k \in DOMAIN heap' : heap'[i] = heap'[k] => i = k
         /\ \A x \in Jobs : InHeap(x)' <=> (InHeap(x) /\ x # Head(heap))
         /\ Head(heap) \in Jobs /\ InHeap(Head(heap))
         /\ heap' # <<>> => nextRun[Head(heap)] <= nextRun[Head(heap')]
PROOF
  <1>1. /\ Len(heap) \in Nat /\ Len(heap) >= 1
        /\ DOMAIN heap = 1..Len(heap)
        /\ Head(heap) = heap[1] /\ Head(heap) \in Jobs
        /\ heap' \in Seq(Jobs)
        /\ Len(heap') = Len(heap) - 1
        /\ DOMAIN heap' = 1..(Len(heap) - 1)
        /\ \A k \in 1..(Len(heap) - 1) : heap'[k] = heap[k + 1]
    BY TailFacts, LenProperties
  <1>2. HeapSorted'
    <2>1. SUFFICES ASSUME NEW i \in DOMAIN heap', NEW k \in DOMAIN heap', i < k
                   PROVE  nextRun[heap'[i]] <= nextRun[heap'[k]]
      BY DEF HeapSorted
    <2>2. /\ i + 1 \in DOMAIN heap /\ k + 1 \in DOMAIN heap /\ i + 1 < k + 1
          /\ heap'[i] = heap[i + 1] /\ heap'[k] = heap[k + 1]
      BY <1>1, <2>1
    <2> QED  BY <2>2 DEF HeapSorted
  <1>3. \A i, k \in DOMAIN heap' : heap'[i] = heap'[k] => i = k
    <2>1. TAKE i, k \in DOMAIN heap'
    <2>2. /\ i + 1 \in DOMAIN heap /\ k + 1 \in DOMAIN heap
          /\ heap'[i] = heap[i + 1] /\ heap'[k] = heap[k + 1]
          /\ i \in Nat /\ k \in Nat
      BY <1>1
    <2>3. heap[i + 1] = heap[k + 1] => i + 1 = k + 1
      BY <2>2
    <2> QED  BY <2>2, <2>3
  <1>4. \A x \in Jobs : InHeap(x)' <=> (InHeap(x) /\ x # Head(heap))
    <2>1. TAKE x \in Jobs
    <2>2. ASSUME NEW i \in DOMAIN heap', heap'[i] = x
          PROVE  InHeap(x) /\ x # Head(heap)
      <3>1. i + 1 \in DOMAIN heap /\ heap[i + 1] = x /\ i + 1 # 1 /\ 1 \in DOMAIN heap
        BY <2>2, <1>1
      <3>2. heap[i + 1] # heap[1]
        BY <3>1
      <3> QED  BY <3>1, <3>2, <1>1 DEF InHeap
    <2>3. ASSUME NEW i \in DOMAIN heap, heap[i] = x, x # Head(heap)
          PROVE  \E k \in DOMAIN heap' : heap'[k] = x
      <3>1. i # 1
        BY <2>3, <1>1
      <3>2. i - 1 \in DOMAIN heap' /\ heap'[i - 1] = x
        BY <3>1, <2>3, <1>1
      <3> QED  BY <3>2
    <2> QED  BY <2>2, <2>3 DEF InHeap
  <1>5. InHeap(Head(heap))
    BY <1>1 DEF InHeap
  <1>6. heap' # <<>> => nextRun[Head(heap)] <= nextRun[Head(heap')]
    <2>1. SUFFICES ASSUME heap' # <<>>
                   PROVE  nextRun[Head(heap)] <= nextRun[Head(heap')]
      OBVIOUS
    <2>2. Len(heap') >= 1 /\ Head(heap') = heap'[1]
      BY <2>1, <1>1, TailFacts
    <2>3. heap'[1] = heap[2] /\ 1 \in DOMAIN heap /\ 2 \in DOMAIN heap
      BY <2>2, <1>1
    <2>4. nextRun[heap[1]] <= nextRun[heap[2]]
      BY <2>3 DEF HeapSorted
    <2>5. Head(heap) = heap[1]
      BY <1>1
    <2> QED  BY <2>2, <2>3, <2>4, <2>5
  <1> QED  BY <1>1, <1>2, <1>3, <1>4, <1>5, <1>6

\* The bounds of the truncated delay: not negative, and never past the due time.
LEMMA WholeMsFacts ==
  ASSUME NEW t \in Nat
  PROVE  WholeMs(t) \in Nat /\ WholeMs(t) <= t
BY QueueAssumption DEF WholeMs

\* Every branch of TakeDue preserves the invariant, takes nothing but the head
\* and hands a job out only when it is due and not cancelled.
LEMMA TakeDueStep ==
  ASSUME QueueInv, NEW w \in Workers, TakeDue(w)
  PROVE  /\ QueueInv'
         /\ \A x \in Jobs : InHeap(x)' => InHeap(x)
         /\ \A x \in Jobs : InHeap(x) => InHeap(x)' \/ cancelled[x] \/ holds'[w] = x
         /\ \A v \in Workers : holds'[v] # holds[v] =>
              v = w /\ holds[v] = None /\ at'[v] = "away"
         /\ \A v \in Workers, x \in Jobs : holds'[v] = x /\ holds[v] # x =>
              InHeap(x) /\ ~InHeap(x)' /\ nextRun[x] <= now /\ ~cancelled[x]
         /\ UNCHANGED <<now, running, nextRun, cancelled>>
PROOF
  <1> USE DEF QueueInv
  <1>0. /\ None \notin Jobs /\ None \notin Workers
        /\ now \in Nat /\ heap \in Seq(Jobs)
        /\ holder \in Workers \cup {None}
        /\ at \in [Workers -> Places] /\ deadline \in [Workers -> Int]
        /\ holds \in [Workers -> Jobs \cup {None}]
        /\ nextRun \in [Jobs -> Nat]
        /\ \A i, k \in DOMAIN heap : heap[i] = heap[k] => i = k
    BY QueueAssumption DEF QueueTypeOK, NoSelfOverlap
  <1>1. CASE TakeNothing(w)
    <2> USE <1>1 DEF TakeNothing, HasLock
    <2>1. QueueTypeOK'
      BY <1>0 DEF QueueTypeOK, Places
    <2>2. HeapSorted' /\ NoSelfOverlap'
      BY <1>0 DEF HeapSorted, NoSelfOverlap, InHeap
    <2>3. NoMissedWakeup'
      BY DEF NoMissedWakeup
    <2> QED  BY <2>1, <2>2, <2>3 DEF InHeap
  <1>2. CASE WaitForAJob(w)
    <2> USE <1>2 DEF WaitForAJob, HasLock
    <2>1. QueueTypeOK'
      BY <1>0 DEF QueueTypeOK, Places, Infinite
    <2>2. HeapSorted' /\ NoSelfOverlap'
      BY <1>0 DEF HeapSorted, NoSelfOverlap, InHeap
    <2>3. NoMissedWakeup'
      BY DEF NoMissedWakeup
    <2> QED  BY <2>1, <2>2, <2>3 DEF InHeap
  <1>3. CASE WaitForTheHead(w)
    <2> USE <1>3 DEF WaitForTheHead, HasLock
    <2>1. /\ Head(heap) \in Jobs
          /\ nextRun[Head(heap)] \in Nat
          /\ nextRun[Head(heap)] - now \in Nat
      <3>1. Head(heap) \in Jobs
        BY <1>0, TailFacts
      <3>2. ~(nextRun[Head(heap)] <= now)
        BY DEF HeadDue
      <3> QED  BY <1>0, <3>1, <3>2
    <2> DEFINE d == now + WholeMs(nextRun[Head(heap)] - now)
    <2>2. d \in Nat /\ d <= nextRun[Head(heap)]
      <3> DEFINE t == nextRun[Head(heap)] - now
      <3>1. WholeMs(t) \in Nat /\ WholeMs(t) <= t
        BY <2>1, WholeMsFacts
      <3> QED  BY <3>1, <2>1, <1>0
    <2>3. deadline' = [deadline EXCEPT ![w] = d]
      OBVIOUS
    <2> HIDE DEF d
    <2>4. QueueTypeOK'
      BY <1>0, <2>2, <2>3 DEF QueueTypeOK, Places
    <2>5. HeapSorted' /\ NoSelfOverlap'
      BY <1>0 DEF HeapSorted, NoSelfOverlap, InHeap
    <2>6. NoMissedWakeup'
      BY <1>0, <2>1, <2>2, <2>3 DEF NoMissedWakeup
    <2> QED  BY <2>4, <2>5, <2>6 DEF InHeap
  <1>4. CASE DropCancelled(w)
    <2> USE <1>4 DEF DropCancelled, HasLock
    <2>1. /\ heap' \in Seq(Jobs)
          /\ HeapSorted'
          /\ \A i, k \in DOMAIN heap' : heap'[i] = heap'[k] => i = k
          /\ \A x \in Jobs : InHeap(x)' <=> (InHeap(x) /\ x # Head(heap))
          /\ Head(heap) \in Jobs /\ InHeap(Head(heap))
          /\ heap' # <<>> => nextRun[Head(heap)] <= nextRun[Head(heap')]
      BY <1>0, RemoveHead DEF HeadDue
    <2>2. QueueTypeOK'
      BY <1>0, <2>1 DEF QueueTypeOK
    <2>3. NoSelfOverlap'
      BY <1>0, <2>1 DEF NoSelfOverlap
    <2>4. NoMissedWakeup'
      <3>1. SUFFICES ASSUME NEW v \in Workers, at[v] = "waiting", heap' # <<>>
                     PROVE  deadline[v] \in 0..nextRun[Head(heap')]
        BY DEF NoMissedWakeup
      <3>2. deadline[v] \in 0..nextRun[Head(heap)]
        BY <3>1 DEF NoMissedWakeup, HeadDue
      <3>3. Head(heap') \in Jobs
        BY <2>1, <3>1, TailFacts
      <3> QED  BY <1>0, <2>1, <3>1, <3>2, <3>3
    <2> QED  BY <2>1, <2>2, <2>3, <2>4
  <1>5. CASE TakeHead(w)
    <2> USE <1>5 DEF TakeHead, HandOut, HasLock
    <2>1. /\ heap' \in Seq(Jobs)
          /\ HeapSorted'
          /\ \A i, k \in DOMAIN heap' : heap'[i] = heap'[k] => i = k
          /\ \A x \in Jobs : InHeap(x)' <=> (InHeap(x) /\ x # Head(heap))
          /\ Head(heap) \in Jobs /\ InHeap(Head(heap))
          /\ heap' # <<>> => nextRun[Head(heap)] <= nextRun[Head(heap')]
      BY <1>0, RemoveHead DEF HeadDue
    <2>2. QueueTypeOK'
      BY <1>0, <2>1 DEF QueueTypeOK, Places
    <2>3. NoSelfOverlap'
      <3>1. \A v \in Workers : holds'[v] = IF v = w THEN Head(heap) ELSE holds[v]
        BY <1>0
      <3>2. \A v \in Workers : holds[v] # Head(heap)
        BY <1>0, <2>1 DEF NoSelfOverlap
      <3> QED  BY <1>0, <2>1, <3>1, <3>2 DEF NoSelfOverlap
    <2>4. NoMissedWakeup'
      <3>1. SUFFICES ASSUME NEW v \in Workers, at'[v] = "waiting", heap' # <<>>
                     PROVE  deadline[v] \in 0..nextRun[Head(heap')]
        BY DEF NoMissedWakeup
      <3>2. at[v] = "waiting"
        BY <3>1, <1>0
      <3>3. deadline[v] \in 0..nextRun[Head(heap)]
        BY <3>2 DEF NoMissedWakeup, HeadDue
      <3>4. Head(heap') \in Jobs
        BY <2>1, <3>1, TailFacts
      <3> QED  BY <1>0, <2>1, <3>1, <3>3, <3>4
    <2>5. holds[w] = None
      BY DEF QueueTypeOK
    <2>6. nextRun[Head(heap)] <= now
      BY DEF HeadDue
    <2>7. ~cancelled[Head(heap)] /\ UNCHANGED <<now, running, nextRun, cancelled>>
      OBVIOUS
    <2>8. holds'[w] = Head(heap) /\ \A v \in Workers : v # w => holds'[v] = holds[v]
      BY <1>0
    <2>9. /\ \A v \in Workers : holds'[v] # holds[v] =>
               v = w /\ holds[v] = None /\ at'[v] = "away"
          /\ \A v \in Workers, x \in Jobs : holds'[v] = x /\ holds[v] # x =>
               InHeap(x) /\ ~InHeap(x)' /\ nextRun[x] <= now /\ ~cancelled[x]
      BY <1>0, <2>1, <2>5, <2>6, <2>7, <2>8
    <2>10. \A x \in Jobs : InHeap(x) => InHeap(x)' \/ holds'[w] = x
      BY <2>1, <2>8
    <2>11. \A x \in Jobs : InHeap(x)' => InHeap(x)
      BY <2>1
    <2> HIDE <1>5 DEF TakeHead, HandOut, QueueInv, HasLock
    <2>12. QueueInv'
      BY <2>1, <2>2, <2>3, <2>4 DEF QueueInv
    <2> QED  BY <2>7, <2>9, <2>10, <2>11, <2>12
  <1>6. CASE WaitTimesOut(w)
    <2> USE <1>6 DEF WaitTimesOut
    <2>1. QueueTypeOK'
      BY <1>0 DEF QueueTypeOK, Places, Infinite
    <2>2. HeapSorted' /\ NoSelfOverlap'
      BY <1>0 DEF HeapSorted, NoSelfOverlap, InHeap
    <2>3. NoMissedWakeup'
      BY <1>0 DEF NoMissedWakeup
    <2> QED  BY <2>1, <2>2, <2>3 DEF InHeap
  <1> QED  BY <1>1, <1>2, <1>3, <1>4, <1>5, <1>6 DEF TakeDue

LEMMA CallStep ==
  ASSUME QueueInv, NEW w \in Workers, CallTakeDue(w)
  PROVE  QueueInv'
PROOF
  <1> USE DEF QueueInv, CallTakeDue
  <1>1. QueueTypeOK'
    BY DEF QueueTypeOK, Places
  <1>2. HeapSorted' /\ NoSelfOverlap'
    BY DEF HeapSorted, NoSelfOverlap, InHeap
  <1>3. NoMissedWakeup'
    BY DEF NoMissedWakeup, QueueTypeOK
  <1> QED  BY <1>1, <1>2, <1>3

LEMMA TickStep ==
  ASSUME QueueInv, Tick
  PROVE  QueueInv'
PROOF
  <1> USE DEF QueueInv, Tick
  <1>1. QueueTypeOK'
    BY QueueAssumption DEF QueueTypeOK
  <1>2. HeapSorted' /\ NoSelfOverlap' /\ NoMissedWakeup'
    BY DEF HeapSorted, NoSelfOverlap, InHeap, NoMissedWakeup
  <1> QED  BY <1>1, <1>2

\* The queue's list is sorted and free of duplicates, no two workers hold one
\* job and nobody misses a wake-up, whatever the clients do.
THEOREM QueueCorrect == QueueSpec => []QueueInv
PROOF
  <1>1. QueueInit => QueueInv
    <2> SUFFICES ASSUME QueueInit PROVE QueueInv
      OBVIOUS
    <2> USE QueueAssumption DEF QueueInit
    <2>1. heap \in Seq(Jobs) /\ DOMAIN heap = {}
      BY EmptySeq, LenProperties
    <2>2. QueueTypeOK
      BY <2>1 DEF QueueTypeOK, Places, Infinite
    <2>3. HeapSorted /\ NoSelfOverlap
      BY <2>1 DEF HeapSorted, NoSelfOverlap, InHeap
    <2>4. NoMissedWakeup
      BY DEF NoMissedWakeup
    <2> QED  BY <2>2, <2>3, <2>4 DEF QueueInv
  <1>2. QueueInv /\ [QueueNext]_queueVars => QueueInv'
    <2> SUFFICES ASSUME QueueInv, [QueueNext]_queueVars PROVE QueueInv'
      OBVIOUS
    <2>1. CASE Tick
      BY <2>1, TickStep
    <2>2. CASE Shutdown
      <3> USE <2>2 DEF Shutdown, QueueInv
      <3>1. QueueTypeOK'
        <4>1. /\ at' \in [Workers -> Places]
              /\ deadline' \in [Workers -> Int]
              /\ \A w \in Workers : deadline'[w] = Infinite
              /\ \A w \in Workers : at'[w] = "away" <=> at[w] = "away"
          BY DEF QueueTypeOK, PulseAll, Places, Infinite
        <4>2. running' \in BOOLEAN /\ holder' = None
          OBVIOUS
        <4> QED  BY <4>1, <4>2 DEF QueueTypeOK
      <3>2. HeapSorted' /\ NoSelfOverlap' /\ NoMissedWakeup'
        BY DEF HeapSorted, NoSelfOverlap, InHeap, NoMissedWakeup
      <3> QED  BY <3>1, <3>2
    <2>3. ASSUME NEW j \in Jobs, NEW d \in Delays, ClientAdd(j, d)
          PROVE  QueueInv'
      <3> USE <2>3 DEF ClientAdd
      <3>1. /\ now \in Nat /\ nextRun \in [Jobs -> Nat] /\ d \in Nat
            /\ holds \in [Workers -> Jobs \cup {None}] /\ NoSelfOverlap
        BY QueueAssumption DEF QueueInv, QueueTypeOK
      <3>2. nextRun' \in [Jobs -> Nat] /\ \A k \in Jobs \ {j} : nextRun'[k] = nextRun[k]
        BY <3>1
      <3>3. Add(j, nextRun') /\ running' = running /\ ~InHeap(j)
        OBVIOUS
      <3>4. /\ heap' \in Seq(Jobs)
            /\ HeapSorted'
            /\ \A i, k \in DOMAIN heap' : heap'[i] = heap'[k] => i = k
            /\ \A x \in Jobs : InHeap(x)' => InHeap(x) \/ x = j
            /\ at' \in [Workers -> Places]
            /\ deadline' \in [Workers -> Int]
            /\ \A w \in Workers : at'[w] # "waiting" => deadline'[w] = Infinite
            /\ \A w \in Workers : (at'[w] = "away") <=> (at[w] = "away")
            /\ \A w \in Workers : at[w] = "entering" => at'[w] = "entering"
            /\ NoMissedWakeup'
        BY <3>2, <3>3, AddStep
      <3>5. QueueTypeOK'
        BY <3>2, <3>4 DEF QueueInv, QueueTypeOK
      <3>6. NoSelfOverlap'
        BY <3>1, <3>4 DEF NoSelfOverlap, Held
      <3> QED  BY <3>4, <3>5, <3>6 DEF QueueInv
    <2>4. ASSUME NEW j \in Jobs, ClientCancel(j)
          PROVE  QueueInv'
      <3> USE <2>4 DEF ClientCancel, QueueInv
      <3>1. QueueTypeOK'
        BY DEF QueueTypeOK
      <3>2. HeapSorted' /\ NoSelfOverlap' /\ NoMissedWakeup'
        BY DEF HeapSorted, NoSelfOverlap, InHeap, NoMissedWakeup
      <3> QED  BY <3>1, <3>2
    <2>5. ASSUME NEW w \in Workers, CallTakeDue(w)
          PROVE  QueueInv'
      BY <2>5, CallStep
    <2>6. ASSUME NEW w \in Workers, TakeDue(w)
          PROVE  QueueInv'
      BY <2>6, TakeDueStep
    <2>7. ASSUME NEW w \in Workers, ClientRelease(w)
          PROVE  QueueInv'
      <3> USE <2>7 DEF ClientRelease, QueueInv
      <3>1. QueueTypeOK'
        BY DEF QueueTypeOK
      <3>2. HeapSorted' /\ NoMissedWakeup'
        BY DEF HeapSorted, NoMissedWakeup
      <3>3. NoSelfOverlap'
        BY DEF NoSelfOverlap, InHeap, QueueTypeOK
      <3> QED  BY <3>1, <3>2, <3>3
    <2>8. CASE UNCHANGED queueVars
      BY <2>8 DEF queueVars, QueueInv, QueueTypeOK, HeapSorted, NoSelfOverlap, InHeap, NoMissedWakeup
    <2> QED
      BY <2>1, <2>2, <2>3, <2>4, <2>5, <2>6, <2>7, <2>8 DEF QueueNext, WorkerSide
  <1> QED  BY <1>1, <1>2, PTL DEF QueueSpec

\* The list stays sorted although NextRunTime is mutable.
COROLLARY QueueSorted == QueueSpec => []HeapSorted
BY QueueCorrect, PTL DEF QueueInv

\* Between them the heap and the workers hold every job at most once.
COROLLARY QueueNoSelfOverlap == QueueSpec => []NoSelfOverlap
BY QueueCorrect, PTL DEF QueueInv

\* While a job is queued no worker sleeps past it.
COROLLARY QueueNoMissedWakeup == QueueSpec => []NoMissedWakeup
BY QueueCorrect, PTL DEF QueueInv

-----------------------------------------------------------------------------
(* The scheduler, for every set of jobs, ids, workers and callers, every     *)
(* assignment of ids, every interval, number of attempts, clock resolution   *)
(* and time bound.                                                           *)

\* A job nobody has scheduled is nowhere.
Fresh ==
  \A j \in Jobs : status[j] = "New" => ~InHeap(j) /\ ~Held(j) /\ ~Adding(j)

\* A worker holds a job only when it is due, until Reschedule moves its time.
Timely ==
  \A w \in Workers :
    holds[w] # None /\ pc[w] \in {"loop", "executing", "backoff", "deciding"} =>
      nextRun[holds[w]] <= now

\* The inductive invariant.  OnePlace is what keeps QueueInv alive under
\* Requeue and Reschedule (the job they touch is not in the heap); Fresh does so
\* under ScheduleRegister; running makes Requeue and ScheduleAdd insert.
SchedInv ==
  /\ QueueInv /\ TypeOK /\ running
  /\ OnePlace /\ Fresh /\ Timely /\ NotLost /\ CompletedIsFinal

\* The typing facts the steps below use.
LEMMA TypeFacts ==
  ASSUME SchedInv
  PROVE  /\ now \in Nat
         /\ None \notin Jobs
         /\ heap \in Seq(Jobs)
         /\ holds \in [Workers -> Jobs \cup {None}]
         /\ nextRun \in [Jobs -> Nat]
         /\ cancelled \in [Jobs -> BOOLEAN]
         /\ registry \in [Ids -> Jobs \cup {None}]
         /\ status \in [Jobs -> Statuses]
         /\ pc \in [Workers -> WorkerStates]
         /\ attempt \in [Workers -> 0..MaxAttempts]
         /\ cpc \in [Callers -> CallerStates]
         /\ cjob \in [Callers -> Jobs \cup {None}]
         /\ \A w \in Workers : pc[w] # "loop" => holds[w] \in Jobs
         /\ \A c \in Callers : cpc[c] # "idle" => cjob[c] \in Jobs
         /\ \A w \in Workers : pc[w] = "backoff" => attempt[w] < MaxAttempts
BY QueueAssumption DEF SchedInv, TypeOK, QueueTypeOK

\* A step that leaves the queue alone.
LEMMA QueueUntouched ==
  ASSUME QueueInv, UNCHANGED queueVars
  PROVE  /\ QueueInv'
         /\ \A x : InHeap(x)' <=> InHeap(x)
         /\ \A x : Held(x)' <=> Held(x)
BY DEF queueVars, QueueInv, QueueTypeOK, HeapSorted, NoSelfOverlap, NoMissedWakeup, InHeap, Held

LEMMA RegisterStep ==
  ASSUME SchedInv, NEW c \in Callers, NEW j \in Jobs, NEW d \in Delays, ScheduleRegister(c, j, d)
  PROVE  SchedInv'
PROOF
  <1> USE DEF ScheduleRegister
  <1>1. /\ d \in Nat /\ j \notin {None}
        /\ ~InHeap(j) /\ ~Held(j) /\ ~Adding(j)
    BY QueueAssumption DEF SchedInv, Fresh
  <1>2. /\ \A x : InHeap(x)' <=> InHeap(x)
        /\ \A x : Held(x)' <=> Held(x)
    BY DEF InHeap, Held
  <1>3. \A x \in Jobs : Adding(x)' <=> (Adding(x) \/ x = j)
    BY TypeFacts DEF Adding
  <1>4. QueueInv'
    <2>1. QueueTypeOK'
      BY <1>1, TypeFacts DEF SchedInv, QueueInv, QueueTypeOK
    <2>2. nextRun' \in [Jobs -> Nat] /\ \A k \in Jobs \ {j} : nextRun'[k] = nextRun[k]
      BY <1>1, TypeFacts
    <2>3. \A i, k \in DOMAIN heap : i < k => nextRun'[heap[i]] <= nextRun'[heap[k]]
      BY <1>1, <2>2, TypeFacts, RestampSorted DEF SchedInv, QueueInv
    <2>4. HeapSorted'
      BY <2>3 DEF HeapSorted
    <2>5. NoSelfOverlap'
      BY DEF NoSelfOverlap, InHeap, SchedInv, QueueInv
    <2>6. NoMissedWakeup'
      <3>1. heap # <<>> => Head(heap) \in Jobs \ {j}
        <4>1. SUFFICES ASSUME heap # <<>> PROVE Head(heap) \in Jobs \ {j}
          OBVIOUS
        <4>2. Head(heap) = heap[1] /\ Head(heap) \in Jobs /\ Len(heap) >= 1 /\ Len(heap) \in Nat
          BY <4>1, TypeFacts, TailFacts
        <4>3. 1 \in DOMAIN heap
          BY <4>2, TypeFacts, LenProperties
        <4> QED  BY <4>2, <4>3, <1>1 DEF InHeap
      <3> QED  BY <2>2, <3>1 DEF NoMissedWakeup, SchedInv, QueueInv
    <2> QED  BY <2>1, <2>4, <2>5, <2>6 DEF QueueInv
  <1>5. TypeOK'
    <2>1. QueueTypeOK'
      BY <1>4 DEF QueueInv
    <2>2. IdOf[j] \in Ids
      BY SchedulerAssumption
    <2> QED
      BY <1>1, <2>1, <2>2, TypeFacts
      DEF TypeOK, SchedInv, Statuses, WorkerStates, CallerStates
  <1>6. OnePlace'
    <2>1. NoSelfOverlap'
      BY <1>4 DEF QueueInv
    <2>2. \A a, b \in Callers :
            cpc'[a] = "adding" /\ cpc'[b] = "adding" /\ cjob'[a] = cjob'[b] => a = b
      BY <1>1, TypeFacts DEF SchedInv, OnePlace, Adding
    <2>3. \A b \in Callers, x \in Jobs :
            cpc'[b] = "adding" /\ cjob'[b] = x => ~InHeap(x) /\ ~Held(x)
      BY <1>1, TypeFacts DEF SchedInv, OnePlace
    <2> QED  BY <1>2, <1>5, <2>1, <2>2, <2>3 DEF OnePlace, TypeOK, InHeap, Held
  <1>7. Fresh'
    BY <1>1, <1>2, <1>3, TypeFacts DEF SchedInv, Fresh
  <1>8. Timely'
    BY <1>1, TypeFacts DEF SchedInv, Timely, Held
  <1>9. NotLost'
    BY <1>1, <1>2, <1>3, TypeFacts DEF SchedInv, NotLost
  <1>10. CompletedIsFinal'
    BY <1>1, <1>2, <1>3, TypeFacts DEF SchedInv, CompletedIsFinal
  <1> QED  BY <1>4, <1>5, <1>6, <1>7, <1>8, <1>9, <1>10 DEF SchedInv

LEMMA ScheduleAddStep ==
  ASSUME SchedInv, NEW c \in Callers, ScheduleAdd(c)
  PROVE  SchedInv'
PROOF
  <1> USE DEF ScheduleAdd
  <1> DEFINE j == cjob[c]
  <1>1. j \in Jobs /\ ~InHeap(j) /\ ~Held(j)
    BY TypeFacts DEF SchedInv, OnePlace
  <1>2. /\ nextRun' \in [Jobs -> Nat] /\ \A k \in Jobs \ {j} : nextRun'[k] = nextRun[k]
        /\ running' = running /\ Add(j, nextRun')
    BY TypeFacts
  <1>3. QueueInv /\ running
    BY DEF SchedInv
  <1>4. /\ heap' \in Seq(Jobs)
        /\ HeapSorted'
        /\ \A i, k \in DOMAIN heap' : heap'[i] = heap'[k] => i = k
        /\ \A x \in Jobs : InHeap(x)' => InHeap(x) \/ x = j
        /\ \A x \in Jobs : running /\ (InHeap(x) \/ x = j) => InHeap(x)'
        /\ at' \in [Workers -> Places]
        /\ deadline' \in [Workers -> Int]
        /\ \A w \in Workers : at'[w] # "waiting" => deadline'[w] = Infinite
        /\ \A w \in Workers : (at'[w] = "away") <=> (at[w] = "away")
        /\ \A w \in Workers : at[w] = "entering" => at'[w] = "entering"
        /\ NoMissedWakeup'
    BY <1>1, <1>2, <1>3, AddStep
  <1>5. /\ \A x \in Jobs : InHeap(x)' <=> (InHeap(x) \/ x = j)
        /\ \A x \in Jobs : Held(x)' <=> Held(x)
    BY <1>3, <1>4 DEF Held
  <1>6. \A x \in Jobs : Adding(x)' <=> (Adding(x) /\ x # j)
    <2>1. \A b \in Callers : cpc[b] = "adding" /\ cjob[b] = j => b = c
      BY DEF SchedInv, OnePlace
    <2> QED  BY <1>1, <2>1, TypeFacts DEF Adding
  <1>7. QueueTypeOK'
    BY <1>3, <1>4 DEF QueueInv, QueueTypeOK
  <1>8. NoSelfOverlap'
    BY <1>1, <1>3, <1>4, <1>5, TypeFacts DEF QueueInv, NoSelfOverlap, Held
  <1>9. QueueInv'
    BY <1>4, <1>7, <1>8 DEF QueueInv
  <1>10. TypeOK'
    BY <1>7, TypeFacts DEF TypeOK, SchedInv, CallerStates
  <1>11. OnePlace'
    <2>1. \A a, b \in Callers :
            cpc'[a] = "adding" /\ cpc'[b] = "adding" /\ cjob'[a] = cjob'[b] => a = b
      BY TypeFacts DEF SchedInv, OnePlace
    <2>2. \A b \in Callers :
            cpc'[b] = "adding" => cpc[b] = "adding" /\ cjob'[b] = cjob[b] /\ cjob[b] # j /\ cjob[b] \in Jobs
      BY TypeFacts DEF SchedInv, OnePlace
    <2>3. \A b \in Callers, x \in Jobs :
            cpc'[b] = "adding" /\ cjob'[b] = x => ~InHeap(x)' /\ ~Held(x)'
      BY <1>5, <2>2 DEF SchedInv, OnePlace
    <2> QED  BY <1>8, <2>1, <2>2, <2>3 DEF OnePlace, InHeap, Held
  <1>12. Fresh'
    BY <1>1, <1>5, <1>6, TypeFacts DEF SchedInv, Fresh, Adding
  <1>13. Timely'
    BY TypeFacts DEF SchedInv, Timely
  <1>14. NotLost'
    BY <1>5, <1>6 DEF SchedInv, NotLost
  <1>15. CompletedIsFinal'
    BY <1>1, <1>5, <1>6 DEF SchedInv, CompletedIsFinal, Adding
  <1> QED  BY <1>3, <1>9, <1>10, <1>11, <1>12, <1>13, <1>14, <1>15 DEF SchedInv

LEMMA CancelRemoveStep ==
  ASSUME SchedInv, NEW c \in Callers, NEW id \in Ids, CancelRemove(c, id)
  PROVE  SchedInv'
PROOF
  <1> USE DEF CancelRemove
  <1>1. /\ QueueInv'
        /\ \A x : InHeap(x)' <=> InHeap(x)
        /\ \A x : Held(x)' <=> Held(x)
    BY QueueUntouched DEF SchedInv
  <1>2. \A x : Adding(x)' <=> Adding(x)
    BY TypeFacts DEF Adding
  <1>3. TypeOK'
    BY <1>1, TypeFacts DEF TypeOK, SchedInv, QueueInv, CallerStates, queueVars
  <1>4. OnePlace'
    BY <1>1, TypeFacts DEF SchedInv, OnePlace, QueueInv, InHeap, Held, queueVars
  <1>5. Fresh' /\ Timely' /\ NotLost' /\ CompletedIsFinal' /\ running'
    BY <1>1, <1>2 DEF SchedInv, Fresh, Timely, NotLost, CompletedIsFinal, queueVars
  <1> QED  BY <1>1, <1>3, <1>4, <1>5 DEF SchedInv

LEMMA CancelFlagStep ==
  ASSUME SchedInv, NEW c \in Callers, CancelFlag(c)
  PROVE  SchedInv'
PROOF
  <1> USE DEF CancelFlag
  <1>1. /\ \A x : InHeap(x)' <=> InHeap(x)
        /\ \A x : Held(x)' <=> Held(x)
    BY DEF InHeap, Held
  <1>2. \A x : Adding(x)' <=> Adding(x)
    BY TypeFacts DEF Adding
  <1>3. QueueInv'
    <2>1. QueueTypeOK'
      BY TypeFacts DEF SchedInv, QueueInv, QueueTypeOK
    <2>2. HeapSorted' /\ NoSelfOverlap' /\ NoMissedWakeup'
      BY DEF SchedInv, QueueInv, HeapSorted, NoSelfOverlap, NoMissedWakeup, InHeap
    <2> QED  BY <2>1, <2>2 DEF QueueInv
  <1>4. TypeOK'
    BY <1>3, TypeFacts DEF TypeOK, SchedInv, QueueInv, CallerStates
  <1>5. OnePlace'
    BY <1>3, TypeFacts DEF SchedInv, OnePlace, QueueInv, InHeap, Held
  <1>6. NotLost'
    <2>1. \A x \in Jobs : ~cancelled'[x] => ~cancelled[x]
      BY TypeFacts
    <2> QED  BY <1>1, <1>2, <2>1 DEF SchedInv, NotLost
  <1>7. Fresh' /\ Timely' /\ CompletedIsFinal' /\ running'
    BY <1>1, <1>2 DEF SchedInv, Fresh, Timely, CompletedIsFinal
  <1> QED  BY <1>3, <1>4, <1>5, <1>6, <1>7 DEF SchedInv

LEMMA CancelMarkStep ==
  ASSUME SchedInv, NEW c \in Callers, CancelMark(c)
  PROVE  SchedInv'
PROOF
  <1> USE DEF CancelMark
  <1>1. /\ QueueInv'
        /\ \A x : InHeap(x)' <=> InHeap(x)
        /\ \A x : Held(x)' <=> Held(x)
    BY QueueUntouched DEF SchedInv
  <1>2. \A x : Adding(x)' <=> Adding(x)
    BY TypeFacts DEF Adding
  <1>3. \A x \in Jobs : status'[x] # "Cancelled" => status'[x] = status[x]
    BY TypeFacts
  <1>4. TypeOK'
    BY <1>1, TypeFacts DEF TypeOK, SchedInv, QueueInv, CallerStates, Statuses, queueVars
  <1>5. OnePlace'
    BY <1>1, TypeFacts DEF SchedInv, OnePlace, QueueInv, InHeap, Held, queueVars
  <1>6. Fresh' /\ NotLost' /\ CompletedIsFinal'
    BY <1>1, <1>2, <1>3 DEF SchedInv, Fresh, NotLost, CompletedIsFinal, queueVars
  <1>7. Timely' /\ running'
    BY DEF SchedInv, Timely, queueVars
  <1> QED  BY <1>1, <1>4, <1>5, <1>6, <1>7 DEF SchedInv

LEMMA WorkerTakesStep ==
  ASSUME SchedInv, NEW w \in Workers, WorkerTakes(w)
  PROVE  SchedInv'
PROOF
  <1> USE DEF WorkerTakes, schedVars
  <1>0. QueueInv
    BY DEF SchedInv
  <1>1. CASE CallTakeDue(w)
    <2> USE <1>1
    <2>1. QueueInv'
      BY <1>0, CallStep
    <2>2. /\ \A x : InHeap(x)' <=> InHeap(x)
          /\ \A x : Held(x)' <=> Held(x)
          /\ \A x : Adding(x)' <=> Adding(x)
          /\ UNCHANGED <<now, running, holds, nextRun, cancelled>>
      BY DEF CallTakeDue, InHeap, Held, Adding
    <2>3. TypeOK'
      BY <2>1, <2>2, TypeFacts DEF TypeOK, SchedInv, QueueInv
    <2>4. OnePlace'
      BY <2>1, <2>2 DEF SchedInv, OnePlace, QueueInv, InHeap, Held, CallTakeDue
    <2>5. Fresh' /\ Timely' /\ NotLost' /\ CompletedIsFinal'
      BY <2>2 DEF SchedInv, Fresh, Timely, NotLost, CompletedIsFinal
    <2> QED  BY <2>1, <2>2, <2>3, <2>4, <2>5 DEF SchedInv
  <1>2. CASE TakeDue(w)
    <2>1. /\ QueueInv'
          /\ \A x \in Jobs : InHeap(x)' => InHeap(x)
          /\ \A x \in Jobs : InHeap(x) => InHeap(x)' \/ cancelled[x] \/ holds'[w] = x
          /\ \A v \in Workers : holds'[v] # holds[v] =>
               v = w /\ holds[v] = None /\ at'[v] = "away"
          /\ \A v \in Workers, x \in Jobs : holds'[v] = x /\ holds[v] # x =>
               InHeap(x) /\ ~InHeap(x)' /\ nextRun[x] <= now /\ ~cancelled[x]
          /\ UNCHANGED <<now, running, nextRun, cancelled>>
      BY <1>0, <1>2, TakeDueStep
    <2> HIDE <1>2
    <2>2. QueueTypeOK' /\ NoSelfOverlap' /\ holds' \in [Workers -> Jobs \cup {None}]
      BY <2>1 DEF QueueInv, QueueTypeOK
    <2>3. \A v \in Workers : holds[v] # None => holds'[v] = holds[v]
      BY <2>1
    <2>4. \A x \in Jobs : Held(x) => Held(x)'
      BY <2>3, TypeFacts DEF Held
    <2>5. \A x \in Jobs : Held(x)' => Held(x) \/ InHeap(x)
      BY <2>1 DEF Held
    <2>6. \A x : Adding(x)' <=> Adding(x)
      BY DEF Adding
    <2>7. TypeOK'
      BY <2>2, <2>3, TypeFacts DEF TypeOK, SchedInv
    <2>8. OnePlace'
      <3>1. \A c \in Callers, x \in Jobs :
              cpc[c] = "adding" /\ cjob[c] = x => ~InHeap(x)' /\ ~Held(x)'
        BY <2>1, <2>5 DEF SchedInv, OnePlace
      <3>2. \A c \in Callers : cpc[c] = "adding" => cjob[c] \in Jobs
        BY TypeFacts
      <3> QED  BY <2>2, <3>1, <3>2 DEF SchedInv, OnePlace, InHeap, Held
    <2>9. Fresh'
      BY <2>1, <2>5, <2>6 DEF SchedInv, Fresh
    <2>10. Timely'
      <3>1. SUFFICES ASSUME NEW v \in Workers, holds'[v] # None,
                            pc[v] \in {"loop", "executing", "backoff", "deciding"}
                     PROVE  nextRun[holds'[v]] <= now
        BY <2>1 DEF Timely
      <3>2. CASE holds'[v] = holds[v]
        BY <3>1, <3>2 DEF SchedInv, Timely
      <3>3. CASE holds'[v] # holds[v]
        BY <3>1, <3>3, <2>1, <2>2
      <3> QED  BY <3>2, <3>3
    <2>11. NotLost'
      <3>1. \A x \in Jobs : InHeap(x) /\ ~cancelled[x] => InHeap(x)' \/ Held(x)'
        BY <2>1 DEF Held
      <3> QED  BY <2>1, <2>4, <2>6, <3>1 DEF SchedInv, NotLost
    <2>12. CompletedIsFinal'
      BY <2>1, <2>5, <2>6 DEF SchedInv, CompletedIsFinal
    <2> QED  BY <2>1, <2>7, <2>8, <2>9, <2>10, <2>11, <2>12 DEF SchedInv
  <1> QED  BY <1>1, <1>2

LEMMA BeginRunStep ==
  ASSUME SchedInv, NEW w \in Workers, BeginRun(w)
  PROVE  SchedInv'
PROOF
  <1> USE DEF BeginRun
  <1>1. /\ QueueInv'
        /\ \A x : InHeap(x)' <=> InHeap(x)
        /\ \A x : Held(x)' <=> Held(x)
        /\ \A x : Adding(x)' <=> Adding(x)
        /\ UNCHANGED <<now, running, holds, nextRun, cancelled>>
    BY QueueUntouched DEF SchedInv, Adding, queueVars
  <1>2. holds[w] \in Jobs /\ Held(holds[w])
    BY TypeFacts DEF Held
  <1>3. TypeOK'
    BY <1>1, <1>2, TypeFacts, SchedulerAssumption
    DEF TypeOK, SchedInv, QueueInv, Statuses, WorkerStates
  <1>4. OnePlace'
    BY <1>1 DEF SchedInv, OnePlace, QueueInv, InHeap, Held, queueVars
  <1>5. Timely'
    BY <1>1, TypeFacts DEF SchedInv, Timely
  <1>6. Fresh' /\ NotLost' /\ CompletedIsFinal'
    BY <1>1, <1>2, TypeFacts DEF SchedInv, Fresh, NotLost, CompletedIsFinal
  <1> QED  BY <1>1, <1>3, <1>4, <1>5, <1>6 DEF SchedInv

\* The steps of RunWithRetry after the first: they move the worker only.
LEMMA RunStep ==
  ASSUME SchedInv, NEW w \in Workers, ExecuteReturns(w) \/ ExecuteThrows(w) \/ Retry(w)
  PROVE  SchedInv'
PROOF
  <1>1. /\ UNCHANGED queueVars /\ UNCHANGED <<registry, status, cpc, cjob>>
        /\ pc[w] \in {"executing", "backoff"}
        /\ \E s \in {"executing", "backoff", "deciding"} : pc' = [pc EXCEPT ![w] = s]
    BY DEF ExecuteReturns, ExecuteThrows, Retry
  <1>2. attempt' \in [Workers -> 0..MaxAttempts]
    <2>1. attempt[w] \in 0..MaxAttempts /\ MaxAttempts \in Nat
      BY TypeFacts, SchedulerAssumption
    <2>2. Retry(w) => attempt[w] + 1 \in 0..MaxAttempts
      BY <2>1, TypeFacts DEF Retry
    <2>3. attempt \in [Workers -> 0..MaxAttempts] /\ 0 \in 0..MaxAttempts
      BY <2>1, TypeFacts
    <2>4. CASE Retry(w)
      BY <2>2, <2>3, <2>4 DEF Retry
    <2>5. CASE ExecuteReturns(w) \/ ExecuteThrows(w)
      BY <2>3, <2>5 DEF ExecuteReturns, ExecuteThrows
    <2> QED  BY <2>4, <2>5
  <1>3. /\ QueueInv'
        /\ \A x : InHeap(x)' <=> InHeap(x)
        /\ \A x : Held(x)' <=> Held(x)
        /\ \A x : Adding(x)' <=> Adding(x)
        /\ UNCHANGED <<now, running, holds, nextRun, cancelled>>
    BY <1>1, QueueUntouched DEF SchedInv, Adding, queueVars
  <1>4. \A v \in Workers : pc'[v] = "backoff" => attempt'[v] < MaxAttempts
    BY <1>2, TypeFacts DEF ExecuteReturns, ExecuteThrows, Retry
  <1>5. TypeOK'
    BY <1>1, <1>2, <1>3, <1>4, TypeFacts DEF TypeOK, SchedInv, QueueInv, WorkerStates
  <1>6. OnePlace'
    BY <1>1, <1>3 DEF SchedInv, OnePlace, QueueInv, InHeap, Held, queueVars
  <1>7. Timely'
    BY <1>1, <1>3, TypeFacts DEF SchedInv, Timely
  <1>8. Fresh' /\ NotLost' /\ CompletedIsFinal'
    BY <1>1, <1>3 DEF SchedInv, Fresh, NotLost, CompletedIsFinal
  <1> QED  BY <1>3, <1>5, <1>6, <1>7, <1>8 DEF SchedInv

\* Reschedule assigns NextRunTime, to a job that is not in the heap.
LEMMA RescheduleStep ==
  ASSUME SchedInv, NEW w \in Workers, Reschedule(w)
  PROVE  SchedInv'
PROOF
  <1> DEFINE j == holds[w]
  <1>1. j \in Jobs /\ Held(j) /\ ~InHeap(j)
    BY TypeFacts DEF Reschedule, Held, SchedInv, OnePlace, NoSelfOverlap
  <1>2. /\ UNCHANGED <<now, heap, running, holder, at, deadline, holds, cancelled,
                       registry, status, attempt, cpc, cjob>>
        /\ pc[w] = "deciding"
        /\ \E s \in {"requeueing", "completing"} : pc' = [pc EXCEPT ![w] = s]
    BY DEF Reschedule
  <1>3. nextRun' \in [Jobs -> Nat] /\ \A k \in Jobs \ {j} : nextRun'[k] = nextRun[k]
    <2>1. FixedRate(nextRun[j], Interval[j]) \in Nat
      BY <1>1, TypeFacts, SchedulerAssumption DEF FixedRate
    <2> QED  BY <1>1, <2>1, TypeFacts DEF Reschedule
  <1>4. /\ \A x : InHeap(x)' <=> InHeap(x)
        /\ \A x : Held(x)' <=> Held(x)
        /\ \A x : Adding(x)' <=> Adding(x)
    BY <1>2 DEF InHeap, Held, Adding
  <1>5. QueueInv'
    <2>1. QueueTypeOK'
      BY <1>2, <1>3 DEF SchedInv, QueueInv, QueueTypeOK
    <2>2. \A i, k \in DOMAIN heap : i < k => nextRun'[heap[i]] <= nextRun'[heap[k]]
      BY <1>1, <1>3, TypeFacts, RestampSorted DEF SchedInv, QueueInv
    <2>3. HeapSorted'
      BY <1>2, <2>2 DEF HeapSorted
    <2>4. NoSelfOverlap'
      BY <1>2, <1>4 DEF NoSelfOverlap, SchedInv, QueueInv, InHeap
    <2>5. NoMissedWakeup'
      <3>1. heap # <<>> => Head(heap) \in Jobs \ {j}
        <4>1. SUFFICES ASSUME heap # <<>> PROVE Head(heap) \in Jobs \ {j}
          OBVIOUS
        <4>2. Head(heap) = heap[1] /\ Head(heap) \in Jobs /\ Len(heap) >= 1 /\ Len(heap) \in Nat
          BY <4>1, TypeFacts, TailFacts
        <4>3. 1 \in DOMAIN heap
          BY <4>2, TypeFacts, LenProperties
        <4> QED  BY <4>2, <4>3, <1>1 DEF InHeap
      <3> QED  BY <1>2, <1>3, <3>1 DEF NoMissedWakeup, SchedInv, QueueInv
    <2> QED  BY <2>1, <2>3, <2>4, <2>5 DEF QueueInv
  <1>6. TypeOK'
    BY <1>2, <1>5, TypeFacts DEF TypeOK, SchedInv, QueueInv, WorkerStates
  <1>7. OnePlace'
    BY <1>2, <1>5 DEF SchedInv, OnePlace, QueueInv, InHeap, Held
  <1>8. Timely'
    <2>1. \A v \in Workers : v # w /\ holds[v] # None => holds[v] \in Jobs \ {j}
      BY <1>1, TypeFacts DEF SchedInv, OnePlace, NoSelfOverlap
    <2>2. \A v \in Workers : v # w /\ holds[v] # None => nextRun'[holds[v]] = nextRun[holds[v]]
      BY <1>3, <2>1
    <2>3. pc'[w] \notin {"loop", "executing", "backoff", "deciding"}
      BY <1>2, TypeFacts
    <2> QED  BY <1>2, <2>2, <2>3, TypeFacts DEF SchedInv, Timely
  <1>9. Fresh' /\ NotLost' /\ CompletedIsFinal'
    BY <1>2, <1>4 DEF SchedInv, Fresh, NotLost, CompletedIsFinal
  <1> QED  BY <1>2, <1>5, <1>6, <1>7, <1>8, <1>9 DEF SchedInv

LEMMA RequeueStep ==
  ASSUME SchedInv, NEW w \in Workers, Requeue(w)
  PROVE  SchedInv'
PROOF
  <1> USE DEF Requeue
  <1> DEFINE j == holds[w]
  <1>1. /\ j \in Jobs /\ Held(j) /\ ~InHeap(j) /\ ~Adding(j)
        /\ \A v \in Workers : holds[v] = j => v = w
    BY TypeFacts DEF Held, Adding, SchedInv, OnePlace, NoSelfOverlap
  <1>2. /\ nextRun' \in [Jobs -> Nat] /\ \A k \in Jobs \ {j} : nextRun'[k] = nextRun[k]
        /\ running' = running /\ Add(j, nextRun')
    BY TypeFacts
  <1>3. QueueInv /\ running
    BY DEF SchedInv
  <1>4. /\ heap' \in Seq(Jobs)
        /\ HeapSorted'
        /\ \A i, k \in DOMAIN heap' : heap'[i] = heap'[k] => i = k
        /\ \A x \in Jobs : InHeap(x)' => InHeap(x) \/ x = j
        /\ \A x \in Jobs : running /\ (InHeap(x) \/ x = j) => InHeap(x)'
        /\ at' \in [Workers -> Places]
        /\ deadline' \in [Workers -> Int]
        /\ \A v \in Workers : at'[v] # "waiting" => deadline'[v] = Infinite
        /\ \A v \in Workers : (at'[v] = "away") <=> (at[v] = "away")
        /\ \A v \in Workers : at[v] = "entering" => at'[v] = "entering"
        /\ NoMissedWakeup'
    BY <1>1, <1>2, <1>3, AddStep
  <1>5. holds' \in [Workers -> Jobs \cup {None}] /\ \A v \in Workers : holds'[v] = IF v = w THEN None ELSE holds[v]
    BY TypeFacts
  <1>6. /\ \A x \in Jobs : InHeap(x)' <=> (InHeap(x) \/ x = j)
        /\ \A x \in Jobs : Held(x)' <=> (Held(x) /\ x # j)
        /\ \A x \in Jobs : Adding(x)' <=> Adding(x)
    BY <1>1, <1>3, <1>4, <1>5, TypeFacts DEF Held, Adding
  <1>7. QueueTypeOK'
    BY <1>3, <1>4, <1>5 DEF QueueInv, QueueTypeOK
  <1>8. NoSelfOverlap'
    BY <1>1, <1>3, <1>4, <1>5, <1>6, TypeFacts DEF QueueInv, NoSelfOverlap, Held
  <1>9. QueueInv'
    BY <1>4, <1>7, <1>8 DEF QueueInv
  <1>10. TypeOK'
    BY <1>1, <1>5, <1>7, TypeFacts DEF TypeOK, SchedInv, Statuses, WorkerStates
  <1>11. OnePlace'
    <2>1. \A c \in Callers, x \in Jobs :
            cpc[c] = "adding" /\ cjob[c] = x => ~InHeap(x)' /\ ~Held(x)'
      BY <1>1, <1>6 DEF SchedInv, OnePlace, Adding
    <2>2. \A c \in Callers : cpc[c] = "adding" => cjob[c] \in Jobs
      BY TypeFacts
    <2> QED  BY <1>8, <2>1, <2>2 DEF SchedInv, OnePlace, InHeap, Held
  <1>12. Timely'
    BY <1>5, TypeFacts DEF SchedInv, Timely
  <1>13. Fresh' /\ NotLost' /\ CompletedIsFinal'
    BY <1>1, <1>6, TypeFacts DEF SchedInv, Fresh, NotLost, CompletedIsFinal
  <1> QED  BY <1>3, <1>9, <1>10, <1>11, <1>12, <1>13 DEF SchedInv

LEMMA CompleteStep ==
  ASSUME SchedInv, NEW w \in Workers, Complete(w)
  PROVE  SchedInv'
PROOF
  <1> USE DEF Complete
  <1> DEFINE j == holds[w]
  <1>1. /\ j \in Jobs /\ Held(j) /\ ~InHeap(j) /\ ~Adding(j)
        /\ \A v \in Workers : holds[v] = j => v = w
    BY TypeFacts DEF Held, Adding, SchedInv, OnePlace, NoSelfOverlap
  <1>2. holds' \in [Workers -> Jobs \cup {None}] /\ \A v \in Workers : holds'[v] = IF v = w THEN None ELSE holds[v]
    BY TypeFacts
  <1>3. /\ \A x : InHeap(x)' <=> InHeap(x)
        /\ \A x \in Jobs : Held(x)' <=> (Held(x) /\ x # j)
        /\ \A x : Adding(x)' <=> Adding(x)
    BY <1>1, <1>2, TypeFacts DEF InHeap, Held, Adding
  <1>4. QueueInv'
    <2>1. QueueTypeOK'
      BY <1>2 DEF SchedInv, QueueInv, QueueTypeOK
    <2>2. HeapSorted' /\ NoMissedWakeup'
      BY DEF SchedInv, QueueInv, HeapSorted, NoMissedWakeup
    <2>3. NoSelfOverlap'
      BY <1>2, TypeFacts DEF SchedInv, QueueInv, NoSelfOverlap, InHeap
    <2> QED  BY <2>1, <2>2, <2>3 DEF QueueInv
  <1>5. TypeOK'
    BY <1>1, <1>2, <1>4, TypeFacts DEF TypeOK, SchedInv, QueueInv, Statuses, WorkerStates
  <1>6. OnePlace'
    <2>1. \A c \in Callers, x \in Jobs :
            cpc[c] = "adding" /\ cjob[c] = x => ~InHeap(x)' /\ ~Held(x)'
      BY <1>1, <1>3 DEF SchedInv, OnePlace, Adding
    <2>2. \A c \in Callers : cpc[c] = "adding" => cjob[c] \in Jobs
      BY TypeFacts
    <2> QED  BY <1>4, <2>1, <2>2 DEF SchedInv, OnePlace, InHeap, Held, QueueInv
  <1>7. Timely'
    BY <1>2, TypeFacts DEF SchedInv, Timely
  <1>8. Fresh' /\ NotLost' /\ CompletedIsFinal'
    BY <1>1, <1>3, TypeFacts DEF SchedInv, Fresh, NotLost, CompletedIsFinal
  <1> QED  BY <1>4, <1>5, <1>6, <1>7, <1>8 DEF SchedInv

LEMMA ClockStep ==
  ASSUME SchedInv, Clock
  PROVE  SchedInv'
PROOF
  <1> USE DEF Clock, schedVars
  <1>1. QueueInv'
    BY TickStep DEF SchedInv
  <1>2. /\ \A x : InHeap(x)' <=> InHeap(x)
        /\ \A x : Held(x)' <=> Held(x)
        /\ \A x : Adding(x)' <=> Adding(x)
        /\ UNCHANGED <<heap, running, holds, nextRun, cancelled>> /\ now' = now + 1
    BY DEF Tick, InHeap, Held, Adding
  <1>3. TypeOK'
    BY <1>1, <1>2, TypeFacts DEF TypeOK, SchedInv, QueueInv
  <1>4. OnePlace'
    BY <1>1, <1>2 DEF SchedInv, OnePlace, QueueInv, InHeap, Held
  <1>5. Timely'
    <2>1. \A v \in Workers : holds[v] # None => nextRun[holds[v]] \in Nat
      BY TypeFacts
    <2> QED  BY <1>2, <2>1, TypeFacts DEF SchedInv, Timely
  <1>6. Fresh' /\ NotLost' /\ CompletedIsFinal'
    BY <1>2 DEF SchedInv, Fresh, NotLost, CompletedIsFinal
  <1> QED  BY <1>1, <1>2, <1>3, <1>4, <1>5, <1>6 DEF SchedInv

LEMMA SchedInit == Init => SchedInv
PROOF
  <1> SUFFICES ASSUME Init PROVE SchedInv
    OBVIOUS
  <1> USE QueueAssumption, SchedulerAssumption DEF Init, QueueInit
  <1>1. heap \in Seq(Jobs) /\ DOMAIN heap = {}
    BY EmptySeq, LenProperties
  <1>2. QueueInv
    <2>1. QueueTypeOK
      BY <1>1 DEF QueueTypeOK, Places, Infinite
    <2>2. HeapSorted /\ NoSelfOverlap /\ NoMissedWakeup
      BY <1>1 DEF HeapSorted, NoSelfOverlap, InHeap, NoMissedWakeup
    <2> QED  BY <2>1, <2>2 DEF QueueInv
  <1>3. TypeOK
    BY <1>2 DEF TypeOK, QueueInv, Statuses, WorkerStates, CallerStates
  <1>4. OnePlace
    BY <1>2 DEF OnePlace, QueueInv
  <1>5. Fresh
    BY <1>1 DEF Fresh, InHeap, Held, Adding
  <1>6. Timely /\ NotLost /\ CompletedIsFinal
    BY DEF Timely, NotLost, CompletedIsFinal
  <1> QED  BY <1>2, <1>3, <1>4, <1>5, <1>6 DEF SchedInv

LEMMA SchedNext == SchedInv /\ [Next]_vars => SchedInv'
PROOF
  <1> SUFFICES ASSUME SchedInv, [Next]_vars PROVE SchedInv'
    OBVIOUS
  <1>1. CASE Clock
    BY <1>1, ClockStep
  <1>2. ASSUME NEW c \in Callers, NEW j \in Jobs, NEW d \in Delays, ScheduleRegister(c, j, d)
        PROVE  SchedInv'
    BY <1>2, RegisterStep
  <1>3. ASSUME NEW c \in Callers, NEW id \in Ids, CancelRemove(c, id)
        PROVE  SchedInv'
    BY <1>3, CancelRemoveStep
  <1>4. ASSUME NEW c \in Callers, CallerStep(c)
        PROVE  SchedInv'
    BY <1>4, ScheduleAddStep, CancelFlagStep, CancelMarkStep DEF CallerStep
  <1>5. ASSUME NEW w \in Workers, WorkerStep(w)
        PROVE  SchedInv'
    BY <1>5, WorkerTakesStep, BeginRunStep, RunStep, RescheduleStep, RequeueStep, CompleteStep
    DEF WorkerStep
  <1>6. CASE UNCHANGED vars
    BY <1>6 DEF vars, SchedInv, QueueInv, QueueTypeOK, HeapSorted, NoSelfOverlap, NoMissedWakeup,
                TypeOK, OnePlace, Fresh, Timely, NotLost, CompletedIsFinal, InHeap, Held, Adding
  <1> QED  BY <1>1, <1>2, <1>3, <1>4, <1>5, <1>6 DEF Next

\* The inductive invariant holds in every reachable state.
THEOREM SchedulerInvariant == Spec => []SchedInv
BY SchedInit, SchedNext, PTL DEF Spec

\* Type correctness.
THEOREM SchedulerTypeCorrect == Spec => []TypeOK
BY SchedulerInvariant, PTL DEF SchedInv

\* No job instance ever runs concurrently with itself, with any number of
\* workers and callers and however ids are reused.
THEOREM SchedulerNoSelfOverlap == Spec => []OnePlace
BY SchedulerInvariant, PTL DEF SchedInv

\* No scheduled job is lost between its registration and its end.
THEOREM SchedulerNotLost == Spec => []NotLost
BY SchedulerInvariant, PTL DEF SchedInv

\* A completed instance is never queued or run again.
THEOREM SchedulerCompletedIsFinal == Spec => []CompletedIsFinal
BY SchedulerInvariant, PTL DEF SchedInv

\* No attempt of any run is early, at any clock resolution.
THEOREM SchedulerNeverEarly == Spec => []NeverEarly
PROOF
  <1>1. SchedInv => NeverEarly
    BY DEF SchedInv, Timely, NeverEarly, TypeOK
  <1> QED  BY <1>1, SchedulerInvariant, PTL

\* Nobody sleeps past a queued job.
THEOREM SchedulerNoMissedWakeup == Spec => []NoMissedWakeup
PROOF
  <1>1. SchedInv => NoMissedWakeup
    BY DEF SchedInv, QueueInv
  <1> QED  BY <1>1, SchedulerInvariant, PTL

-----------------------------------------------------------------------------
(* Action properties                                                         *)

\* A recurring job is rescheduled at least an interval after it was due, and
\* never into the past.
THEOREM SchedulerNoPileUp == Spec => NoPileUp
PROOF
  <1> DEFINE A == \A w \in Workers : Reschedule(w) /\ pc'[w] = "requeueing" =>
                    LET j == holds[w] IN
                      nextRun'[j] >= now /\ nextRun'[j] >= nextRun[j] + Interval[j]
  <1>1. SchedInv => [A]_vars
    <2> SUFFICES ASSUME SchedInv, NEW w \in Workers, Reschedule(w), pc'[w] = "requeueing"
                 PROVE  /\ nextRun'[holds[w]] >= now
                        /\ nextRun'[holds[w]] >= nextRun[holds[w]] + Interval[holds[w]]
      OBVIOUS
    <2>1. /\ holds[w] \in Jobs
          /\ now \in Nat /\ nextRun[holds[w]] \in Nat /\ Interval[holds[w]] \in Nat
      BY TypeFacts, SchedulerAssumption DEF Reschedule
    <2>2. nextRun' = [nextRun EXCEPT ![holds[w]] = FixedRate(@, Interval[holds[w]])]
      BY TypeFacts DEF Reschedule
    <2>3. nextRun'[holds[w]] = FixedRate(nextRun[holds[w]], Interval[holds[w]])
      BY <2>1, <2>2, TypeFacts
    <2> QED  BY <2>1, <2>3 DEF FixedRate
  <1> QED  BY <1>1, SchedulerInvariant, PTL DEF NoPileUp

-----------------------------------------------------------------------------
(* Cancel finds every queued job, when no id is scheduled twice              *)

Flagging(j) == \E c \in Callers : cpc[c] = "flagging" /\ cjob[c] = j

\* Somewhere on the way to a run that Cancel should be able to prevent.
OnTheWay(j) == InHeap(j) \/ Adding(j) \/ HeldAt(j, WorkerStates \ {"completing"})

Registered ==
  \A j \in Jobs :
    OnTheWay(j) /\ ~cancelled[j] => registry[IdOf[j]] = j \/ Flagging(j)

UniqueIds == \A i, j \in Jobs : IdOf[i] = IdOf[j] => i = j

\* A job that a step puts on its way was on its way already, or was just
\* registered: no step resurrects a job behind the registry's back.
LEMMA OnTheWayStep ==
  ASSUME SchedInv, Next, NEW j \in Jobs, OnTheWay(j)', ~cancelled'[j]
  PROVE  /\ ~cancelled[j]
         /\ OnTheWay(j) \/ \E c \in Callers, d \in Delays : ScheduleRegister(c, j, d)
PROOF
  <1> USE DEF OnTheWay, HeldAt, InHeap, Adding
  <1>1. CASE Clock
    BY <1>1 DEF Clock, Tick, schedVars
  <1>2. ASSUME NEW c \in Callers, NEW i \in Jobs, NEW d \in Delays, ScheduleRegister(c, i, d)
        PROVE  /\ ~cancelled[j]
               /\ OnTheWay(j) \/ \E b \in Callers, e \in Delays : ScheduleRegister(b, j, e)
    <2>1. i = j => \E b \in Callers, e \in Delays : ScheduleRegister(b, j, e)
      BY <1>2
    <2>2. i # j => OnTheWay(j)
      BY <1>2, TypeFacts DEF ScheduleRegister
    <2> QED  BY <1>2, <2>1, <2>2 DEF ScheduleRegister
  <1>3. ASSUME NEW c \in Callers, NEW id \in Ids, CancelRemove(c, id)
        PROVE  ~cancelled[j] /\ OnTheWay(j)
    BY <1>3, TypeFacts DEF CancelRemove, queueVars
  <1>4. ASSUME NEW c \in Callers, ScheduleAdd(c)
        PROVE  ~cancelled[j] /\ OnTheWay(j)
    <2>1. QueueInv /\ cjob[c] \in Jobs /\ ~InHeap(cjob[c]) /\ Add(cjob[c], nextRun')
      BY <1>4, TypeFacts DEF SchedInv, OnePlace, ScheduleAdd
    <2>2. \A x \in Jobs : (\E k \in DOMAIN heap' : heap'[k] = x) => InHeap(x) \/ x = cjob[c]
      <3>1. nextRun' \in [Jobs -> Nat] /\ (\A k \in Jobs \ {cjob[c]} : nextRun'[k] = nextRun[k]) /\ running' = running
        BY <1>4, TypeFacts DEF ScheduleAdd
      <3>2. \A x \in Jobs : InHeap(x)' => InHeap(x) \/ x = cjob[c]
        BY <2>1, <3>1, AddStep
      <3> QED  BY <3>2
    <2> QED  BY <1>4, <2>2, TypeFacts DEF ScheduleAdd
  <1>5. ASSUME NEW c \in Callers, CancelFlag(c) \/ CancelMark(c)
        PROVE  ~cancelled[j] /\ OnTheWay(j)
    BY <1>5, TypeFacts DEF CancelFlag, CancelMark, queueVars
  <1>6. ASSUME NEW w \in Workers, WorkerTakes(w)
        PROVE  ~cancelled[j] /\ OnTheWay(j)
    <2>1. CASE CallTakeDue(w)
      BY <1>6, <2>1 DEF CallTakeDue, WorkerTakes, schedVars
    <2>2. CASE TakeDue(w)
      <3>1. /\ \A x \in Jobs : InHeap(x)' => InHeap(x)
            /\ \A v \in Workers, x \in Jobs : holds'[v] = x /\ holds[v] # x => InHeap(x)
            /\ UNCHANGED cancelled
        <4> HIDE DEF OnTheWay, HeldAt, InHeap, Adding
        <4>1. QueueInv
          BY DEF SchedInv
        <4> QED  BY <2>2, <4>1, TakeDueStep
      <3>2. UNCHANGED schedVars
        BY <1>6 DEF WorkerTakes
      <3> QED  BY <3>1, <3>2 DEF schedVars
    <2> QED  BY <1>6, <2>1, <2>2 DEF WorkerTakes
  <1>7. ASSUME NEW w \in Workers, BeginRun(w) \/ ExecuteReturns(w) \/ ExecuteThrows(w) \/ Retry(w)
        PROVE  ~cancelled[j] /\ OnTheWay(j)
    <2>1. /\ UNCHANGED <<heap, holds, cancelled, cpc, cjob>>
          /\ pc[w] \in {"loop", "executing", "backoff"}
          /\ \A v \in Workers : v # w => pc'[v] = pc[v]
      BY <1>7, TypeFacts DEF BeginRun, ExecuteReturns, ExecuteThrows, Retry, queueVars
    <2> QED  BY <2>1 DEF WorkerStates
  <1>8. ASSUME NEW w \in Workers, Reschedule(w)
        PROVE  ~cancelled[j] /\ OnTheWay(j)
    <2>1. /\ UNCHANGED <<heap, holds, cancelled, cpc, cjob>>
          /\ pc[w] = "deciding"
          /\ \A v \in Workers : v # w => pc'[v] = pc[v]
      BY <1>8, TypeFacts DEF Reschedule
    <2> QED  BY <2>1 DEF WorkerStates
  <1>9. ASSUME NEW w \in Workers, Requeue(w)
        PROVE  ~cancelled[j] /\ OnTheWay(j)
    <2>1. QueueInv /\ holds[w] \in Jobs /\ ~InHeap(holds[w]) /\ Add(holds[w], nextRun')
      BY <1>9, TypeFacts DEF SchedInv, OnePlace, NoSelfOverlap, Requeue
    <2>2. \A x \in Jobs : (\E k \in DOMAIN heap' : heap'[k] = x) => InHeap(x) \/ x = holds[w]
      <3>1. nextRun' \in [Jobs -> Nat] /\ (\A k \in Jobs \ {holds[w]} : nextRun'[k] = nextRun[k]) /\ running' = running
        BY <1>9, TypeFacts DEF Requeue
      <3>2. \A x \in Jobs : InHeap(x)' => InHeap(x) \/ x = holds[w]
        BY <2>1, <3>1, AddStep
      <3> QED  BY <3>2
    <2>3. /\ pc[w] = "requeueing" /\ UNCHANGED <<cancelled, cpc, cjob>>
          /\ \A v \in Workers : v # w => pc'[v] = pc[v] /\ holds'[v] = holds[v]
          /\ holds'[w] = None
      BY <1>9, TypeFacts DEF Requeue
    <2> QED  BY <2>2, <2>3, TypeFacts DEF WorkerStates
  <1>10. ASSUME NEW w \in Workers, Complete(w)
         PROVE  ~cancelled[j] /\ OnTheWay(j)
    <2>1. /\ UNCHANGED <<heap, cancelled, cpc, cjob>>
          /\ \A v \in Workers : v # w => pc'[v] = pc[v] /\ holds'[v] = holds[v]
          /\ holds'[w] = None
      BY <1>10, TypeFacts DEF Complete
    <2> QED  BY <2>1, TypeFacts
  <1> QED
    BY <1>1, <1>2, <1>3, <1>4, <1>5, <1>6, <1>7, <1>8, <1>9, <1>10
    DEF Next, CallerStep, WorkerStep

\* When ids are unique, only the Cancel of a job, or its own end, takes it out
\* of the registry; the Cancel flags it.
LEMMA RegisteredStep ==
  ASSUME SchedInv, SchedInv', Registered, UniqueIds, Next
  PROVE  Registered'
PROOF
  <1> SUFFICES ASSUME NEW j \in Jobs, OnTheWay(j)', ~cancelled'[j]
               PROVE  registry'[IdOf[j]] = j \/ Flagging(j)'
    BY DEF Registered
  <1> USE DEF Flagging
  <1>0. /\ \A i \in Jobs : IdOf[i] \in Ids
        /\ \A i \in Jobs : i # j => IdOf[i] # IdOf[j]
        /\ j # None
    BY SchedulerAssumption, QueueAssumption DEF UniqueIds
  <1>1. CASE \E c \in Callers, d \in Delays : ScheduleRegister(c, j, d)
    BY <1>0, <1>1, TypeFacts DEF ScheduleRegister
  <1>2. CASE ~\E c \in Callers, d \in Delays : ScheduleRegister(c, j, d)
    <2>1. ~cancelled[j] /\ OnTheWay(j) /\ (registry[IdOf[j]] = j \/ Flagging(j))
      BY <1>2, OnTheWayStep DEF Registered
    <2>2. ASSUME NEW c \in Callers, NEW i \in Jobs, NEW d \in Delays, ScheduleRegister(c, i, d)
          PROVE  registry'[IdOf[j]] = j \/ Flagging(j)'
      <3>1. i # j
        BY <1>2, <2>2
      <3>2. registry'[IdOf[j]] = registry[IdOf[j]]
        BY <1>0, <2>2, <3>1, TypeFacts DEF ScheduleRegister
      <3>3. \A b \in Callers : cpc[b] = "flagging" => cpc'[b] = "flagging" /\ cjob'[b] = cjob[b]
        BY <2>2, TypeFacts DEF ScheduleRegister
      <3> QED  BY <2>1, <3>2, <3>3
    <2>3. ASSUME NEW c \in Callers, NEW id \in Ids, CancelRemove(c, id)
          PROVE  registry'[IdOf[j]] = j \/ Flagging(j)'
      <3>1. \A b \in Callers : cpc[b] = "flagging" => cpc'[b] = "flagging" /\ cjob'[b] = cjob[b]
        BY <2>3, TypeFacts DEF CancelRemove
      <3>2. id # IdOf[j] => registry'[IdOf[j]] = registry[IdOf[j]]
        BY <1>0, <2>3, TypeFacts DEF CancelRemove
      <3>3. id = IdOf[j] /\ registry[IdOf[j]] = j => cpc'[c] = "flagging" /\ cjob'[c] = j
        BY <2>3, TypeFacts DEF CancelRemove
      <3> QED  BY <2>1, <3>1, <3>2, <3>3
    <2>4. ASSUME NEW c \in Callers, ScheduleAdd(c) \/ CancelMark(c)
          PROVE  registry'[IdOf[j]] = j \/ Flagging(j)'
      <3>1. \A b \in Callers : cpc[b] = "flagging" => cpc'[b] = "flagging" /\ cjob'[b] = cjob[b]
        BY <2>4, TypeFacts DEF ScheduleAdd, CancelMark
      <3> QED  BY <2>1, <2>4, <3>1 DEF ScheduleAdd, CancelMark
    <2>5. ASSUME NEW c \in Callers, CancelFlag(c)
          PROVE  registry'[IdOf[j]] = j \/ Flagging(j)'
      <3>1. cjob[c] # j
        BY <2>5, TypeFacts DEF CancelFlag
      <3>2. \A b \in Callers : cpc[b] = "flagging" /\ cjob[b] = j => cpc'[b] = "flagging" /\ cjob'[b] = j
        BY <2>5, <3>1, TypeFacts DEF CancelFlag
      <3> QED  BY <2>1, <2>5, <3>2 DEF CancelFlag
    <2>6. ASSUME NEW w \in Workers, Complete(w)
          PROVE  registry'[IdOf[j]] = j \/ Flagging(j)'
      <3>1. holds[w] \in Jobs /\ Held(holds[w]) /\ pc[w] = "completing"
        BY <2>6, TypeFacts DEF Complete, Held
      <3>2. holds[w] # j
        <4>1. SUFFICES ASSUME holds[w] = j PROVE FALSE
          OBVIOUS
        <4>2. ~InHeap(j)
          BY <1>0, <4>1 DEF SchedInv, OnePlace, NoSelfOverlap
        <4>3. ~Adding(j)
          BY <4>1 DEF SchedInv, OnePlace, Adding, Held
        <4>4. \A v \in Workers : holds[v] = j => v = w
          BY <1>0, <4>1 DEF SchedInv, OnePlace, NoSelfOverlap
        <4> QED  BY <2>1, <3>1, <4>2, <4>3, <4>4 DEF OnTheWay, HeldAt
      <3>3. registry'[IdOf[j]] = registry[IdOf[j]]
        BY <1>0, <2>6, <3>1, <3>2, TypeFacts DEF Complete
      <3> QED  BY <2>1, <2>6, <3>3 DEF Complete
    <2>7. CASE UNCHANGED <<registry, cpc, cjob>>
      BY <2>1, <2>7
    <2> QED
      BY <2>2, <2>3, <2>4, <2>5, <2>6, <2>7
      DEF Next, CallerStep, WorkerStep, Clock, WorkerTakes, schedVars, BeginRun, ExecuteReturns,
          ExecuteThrows, Retry, Reschedule, Requeue
  <1> QED  BY <1>1, <1>2

\* If no id is scheduled twice, Cancel finds every queued job that is not
\* cancelled already.  (The assumption is needed: see the run on a shared id.)
THEOREM SchedulerCancellable ==
  ASSUME UniqueIds
  PROVE  Spec => []Cancellable
PROOF
  <1>1. Init => Registered
    <2> SUFFICES ASSUME Init, NEW j \in Jobs PROVE ~OnTheWay(j)
      BY DEF Registered
    <2>1. DOMAIN heap = {}
      BY EmptySeq, LenProperties DEF Init, QueueInit
    <2> QED
      BY <2>1, QueueAssumption
      DEF Init, QueueInit, OnTheWay, HeldAt, InHeap, Adding
  <1>2. SchedInv /\ SchedInv' /\ Registered /\ [Next]_vars => Registered'
    <2>1. CASE UNCHANGED vars
      BY <2>1 DEF vars, Registered, OnTheWay, HeldAt, InHeap, Adding, Flagging
    <2> QED  BY <2>1, RegisteredStep
  <1>3. Registered => Cancellable
    BY DEF Registered, Cancellable, OnTheWay, Flagging
  <1> QED  BY <1>1, <1>2, <1>3, SchedulerInvariant, PTL DEF Spec

-----------------------------------------------------------------------------
(* The scheduler implements JobLifecycle: every step is a step of the         *)
(* lifecycle of one job, or changes nothing that a caller can tell.           *)

\* Whatever is registered, or in the hands of a call, was scheduled.
Known ==
  /\ \A id \in Ids : registry[id] # None => status[registry[id]] # "New"
  /\ \A c \in Callers : cpc[c] # "idle" => status[cjob[c]] # "New"

\* A job of which no step can tell a difference stays in its phase.
LEMMA SamePhase ==
  ASSUME NEW j \in Jobs, status'[j] = "New" <=> status[j] = "New",
         Pending(j)' <=> Pending(j), InRun(j)' <=> InRun(j)
  PROVE  PhaseOf(j)' = PhaseOf(j)
BY DEF PhaseOf, Pending, InRun

\* A step that changes no phase, time or flag is a stutter of the lifecycle.
LEMMA LifecycleStutters ==
  ASSUME UNCHANGED <<now, nextRun, cancelled>>,
         \A j \in Jobs : (status'[j] = "New" <=> status[j] = "New")
                       /\ (Pending(j)' <=> Pending(j)) /\ (InRun(j)' <=> InRun(j))
  PROVE  UNCHANGED Lifecycle!lifeVars
PROOF
  <1>1. \A j \in Jobs : PhaseOf(j)' = PhaseOf(j)
    BY SamePhase
  <1> QED  BY <1>1 DEF Lifecycle!lifeVars

\* A step that moves one job to another phase.
LEMMA OnePhaseMoves ==
  ASSUME NEW k \in Jobs, NEW p, PhaseOf(k)' = p,
         \A j \in Jobs \ {k} : (status'[j] = "New" <=> status[j] = "New")
                             /\ (Pending(j)' <=> Pending(j)) /\ (InRun(j)' <=> InRun(j))
  PROVE  [j \in Jobs |-> PhaseOf(j)]' = [[j \in Jobs |-> PhaseOf(j)] EXCEPT ![k] = p]
PROOF
  <1>1. \A j \in Jobs \ {k} : PhaseOf(j)' = PhaseOf(j)
    BY SamePhase
  <1> QED  BY <1>1

\* A worker's job is in its hands only, and was scheduled.
LEMMA HeldFacts ==
  ASSUME SchedInv, NEW w \in Workers, holds[w] # None
  PROVE  /\ holds[w] \in Jobs /\ status[holds[w]] # "New"
         /\ ~InHeap(holds[w]) /\ ~Adding(holds[w])
         /\ \A S : HeldAt(holds[w], S) <=> pc[w] \in S
PROOF
  <1>1. holds[w] \in Jobs
    BY TypeFacts
  <1>2. Held(holds[w])
    BY DEF Held
  <1>3. status[holds[w]] # "New" /\ ~InHeap(holds[w])
    BY <1>1, <1>2 DEF SchedInv, Fresh, OnePlace, NoSelfOverlap
  <1>4. ~Adding(holds[w])
    BY <1>2 DEF SchedInv, OnePlace, Adding
  <1>5. \A v \in Workers : holds[v] = holds[w] => v = w
    BY DEF SchedInv, OnePlace, NoSelfOverlap
  <1> QED  BY <1>1, <1>3, <1>4, <1>5 DEF HeldAt

\* No job is ever unscheduled.
LEMMA KnownStep ==
  ASSUME SchedInv, Known, [Next]_vars
  PROVE  Known'
PROOF
  <1> USE TypeFacts, QueueAssumption
  <1>1. CASE \E c \in Callers, j \in Jobs, d \in Delays : ScheduleRegister(c, j, d)
    BY <1>1, SchedulerAssumption DEF ScheduleRegister, Known, Statuses
  <1>2. CASE \E c \in Callers, id \in Ids : CancelRemove(c, id)
    BY <1>2 DEF CancelRemove, Known
  <1>3. ASSUME NEW c \in Callers, CallerStep(c)
        PROVE  Known'
    <2>1. CASE ScheduleAdd(c) \/ CancelFlag(c)
      BY <2>1 DEF ScheduleAdd, CancelFlag, Known
    <2>2. CASE CancelMark(c)
      <3>1. \A j \in Jobs : status[j] # "New" => status'[j] # "New"
        BY <2>2 DEF CancelMark
      <3>2. UNCHANGED registry /\ \A b \in Callers : cpc'[b] # "idle" => cpc[b] # "idle" /\ cjob'[b] = cjob[b]
        BY <2>2 DEF CancelMark
      <3> QED  BY <3>1, <3>2 DEF Known
    <2> QED  BY <1>3, <2>1, <2>2 DEF CallerStep
  <1>4. ASSUME NEW w \in Workers, WorkerStep(w)
        PROVE  Known'
    <2>1. CASE BeginRun(w) \/ Requeue(w) \/ Complete(w)
      BY <2>1, SchedulerAssumption, SMTT(20) DEF BeginRun, Requeue, Complete, Known
    <2>2. CASE UNCHANGED <<registry, status, cpc, cjob>>
      BY <2>2 DEF Known
    <2> QED  BY <1>4, <2>1, <2>2 DEF WorkerStep, WorkerTakes, ExecuteReturns, ExecuteThrows, Retry,
                                   Reschedule, schedVars
  <1>5. CASE Clock \/ UNCHANGED vars
    BY <1>5 DEF Clock, schedVars, vars, Known
  <1> QED  BY <1>1, <1>2, <1>3, <1>4, <1>5 DEF Next

\* Schedule submits a job with the registration.
LEMMA RegisterSubmits ==
  ASSUME SchedInv, NEW c \in Callers, NEW j \in Jobs, NEW d \in Delays, ScheduleRegister(c, j, d)
  PROVE  Lifecycle!Submit(j, d)
PROOF
  <1>1. /\ cpc[c] = "idle" /\ status[j] = "New"
        /\ nextRun' = [nextRun EXCEPT ![j] = now + d]
        /\ status' = [status EXCEPT ![j] = "Scheduled"]
        /\ cpc' = [cpc EXCEPT ![c] = "adding"] /\ cjob' = [cjob EXCEPT ![c] = j]
        /\ UNCHANGED <<now, heap, holds, cancelled, pc>>
    BY DEF ScheduleRegister
  <1>2. PhaseOf(j) = "new"
    BY <1>1 DEF PhaseOf
  <1>3. Adding(j)' /\ status'[j] # "New"
    BY <1>1, TypeFacts DEF Adding
  <1>4. PhaseOf(j)' = "pending"
    BY <1>3 DEF PhaseOf, Pending
  <1>5. ASSUME NEW k \in Jobs \ {j}
        PROVE  /\ status'[k] = "New" <=> status[k] = "New"
               /\ Pending(k)' <=> Pending(k)
               /\ InRun(k)' <=> InRun(k)
    <2>1. Adding(k)' <=> Adding(k)
      BY <1>1, TypeFacts DEF Adding
    <2>2. (InHeap(k)' <=> InHeap(k)) /\ \A S : HeldAt(k, S)' <=> HeldAt(k, S)
      BY <1>1 DEF InHeap, HeldAt
    <2> QED  BY <1>1, <2>1, <2>2, TypeFacts DEF Pending, InRun
  <1>6. [k \in Jobs |-> PhaseOf(k)]' = [[k \in Jobs |-> PhaseOf(k)] EXCEPT ![j] = "pending"]
    BY <1>4, <1>5, OnePhaseMoves
  <1> QED  BY <1>1, <1>2, <1>6 DEF Lifecycle!Submit

\* The flag is the cancellation.
LEMMA FlagCancels ==
  ASSUME SchedInv, Known, NEW c \in Callers, CancelFlag(c)
  PROVE  Lifecycle!CancelJob(cjob[c])
PROOF
  <1>1. cjob[c] \in Jobs /\ status[cjob[c]] # "New"
    BY TypeFacts DEF CancelFlag, Known
  <1>2. \A j \in Jobs : PhaseOf(j)' = PhaseOf(j)
    <2> SUFFICES ASSUME NEW j \in Jobs PROVE PhaseOf(j)' = PhaseOf(j)
      OBVIOUS
    <2>1. Adding(j)' <=> Adding(j)
      BY TypeFacts DEF CancelFlag, Adding
    <2>2. (InHeap(j)' <=> InHeap(j)) /\ \A S : HeldAt(j, S)' <=> HeldAt(j, S)
      BY DEF CancelFlag, InHeap, HeldAt
    <2> QED  BY <2>1, <2>2, SamePhase DEF CancelFlag, Pending, InRun
  <1>3. PhaseOf(cjob[c]) # "new"
    BY <1>1 DEF PhaseOf
  <1> QED  BY <1>1, <1>2, <1>3 DEF CancelFlag, Lifecycle!CancelJob

\* The other steps of a call change nothing that the lifecycle shows: from the
\* registration to the heap a job is pending all along.
LEMMA CallsStutter ==
  ASSUME SchedInv, Known, NEW c \in Callers,
         ScheduleAdd(c) \/ CancelMark(c) \/ \E id \in Ids : CancelRemove(c, id)
  PROVE  UNCHANGED Lifecycle!lifeVars
PROOF
  <1>1. CASE ScheduleAdd(c)
    <2> USE <1>1 DEF ScheduleAdd
    <2> DEFINE j == cjob[c]
    <2>1. j \in Jobs /\ ~InHeap(j) /\ QueueInv /\ running /\ running' = running
      BY TypeFacts DEF SchedInv, OnePlace
    <2>2. \A x \in Jobs : InHeap(x)' <=> (InHeap(x) \/ x = j)
      <3>1. nextRun' \in [Jobs -> Nat] /\ (\A k \in Jobs \ {j} : nextRun'[k] = nextRun[k]) /\ Add(j, nextRun')
        BY TypeFacts
      <3> HIDE DEF j
      <3> QED  BY <2>1, <3>1, AddStep
    <2>3. \A x \in Jobs : Adding(x)' <=> (Adding(x) /\ x # j)
      <3>1. \A b \in Callers : cpc[b] = "adding" /\ cjob[b] = j => b = c
        BY DEF SchedInv, OnePlace
      <3> QED  BY <2>1, <3>1, TypeFacts DEF Adding
    <2>4. Adding(j)
      BY DEF Adding
    <2>5. \A x \in Jobs : \A S : HeldAt(x, S)' <=> HeldAt(x, S)
      BY DEF HeldAt
    <2>6. \A x \in Jobs : (Pending(x)' <=> Pending(x)) /\ (InRun(x)' <=> InRun(x))
      <3> HIDE <1>1
      <3> HIDE DEF j
      <3> QED  BY <2>2, <2>3, <2>4, <2>5 DEF Pending, InRun
    <2> QED  BY <2>6, LifecycleStutters
  <1>2. CASE CancelMark(c) \/ \E id \in Ids : CancelRemove(c, id)
    <2>1. /\ cpc[c] # "adding" /\ cpc'[c] # "adding"
          /\ \A b \in Callers \ {c} : cpc'[b] = cpc[b] /\ cjob'[b] = cjob[b]
          /\ UNCHANGED <<now, heap, holds, nextRun, cancelled, pc>>
      BY <1>2, TypeFacts DEF CancelMark, CancelRemove, queueVars
    <2>2. \A j \in Jobs : status'[j] = "New" <=> status[j] = "New"
      <3>1. CASE CancelMark(c)
        <4>1. cjob[c] \in Jobs /\ status[cjob[c]] # "New" /\ status' = [status EXCEPT ![cjob[c]] = "Cancelled"]
          BY <3>1, TypeFacts DEF CancelMark, Known
        <4> QED  BY <4>1, TypeFacts
      <3>2. CASE UNCHANGED status
        BY <3>2
      <3> QED  BY <1>2, <3>1, <3>2 DEF CancelRemove
    <2>3. \A x \in Jobs : Adding(x)' <=> Adding(x)
      BY <2>1 DEF Adding
    <2>4. \A x \in Jobs : (InHeap(x)' <=> InHeap(x)) /\ \A S : HeldAt(x, S)' <=> HeldAt(x, S)
      BY <2>1 DEF InHeap, HeldAt
    <2>5. \A x \in Jobs : (Pending(x)' <=> Pending(x)) /\ (InRun(x)' <=> InRun(x))
      BY <2>3, <2>4 DEF Pending, InRun
    <2> QED  BY <2>1, <2>2, <2>5, LifecycleStutters
  <1> QED  BY <1>1, <1>2

\* Waiting for a job changes nothing that the lifecycle shows.
LEMMA WaitsStutter ==
  ASSUME NEW w \in Workers, WorkerTakes(w), ~DropCancelled(w), ~TakeHead(w)
  PROVE  UNCHANGED Lifecycle!lifeVars
PROOF
  <1>1. UNCHANGED <<now, heap, holds, nextRun, cancelled, status, pc, cpc, cjob>>
    BY DEF WorkerTakes, schedVars, CallTakeDue, TakeDue, TakeNothing, WaitForAJob, WaitForTheHead, WaitTimesOut
  <1>2. \A x \in Jobs : (Pending(x)' <=> Pending(x)) /\ (InRun(x)' <=> InRun(x))
    BY <1>1 DEF Pending, InRun, InHeap, Adding, HeldAt
  <1> QED  BY <1>1, <1>2, LifecycleStutters

\* The steps of a run, retries included, are inside one phase.
LEMMA RunStutters ==
  ASSUME SchedInv, NEW w \in Workers,
         BeginRun(w) \/ ExecuteReturns(w) \/ ExecuteThrows(w) \/ Retry(w)
  PROVE  UNCHANGED Lifecycle!lifeVars
PROOF
  <1>1. /\ UNCHANGED <<now, heap, holds, nextRun, cancelled, cpc, cjob>>
        /\ pc[w] \in {"loop", "executing", "backoff", "deciding"}
        /\ holds[w] # None
        /\ \E s \in {"executing", "backoff", "deciding"} : pc' = [pc EXCEPT ![w] = s]
    BY TypeFacts DEF BeginRun, ExecuteReturns, ExecuteThrows, Retry, queueVars
  <1>2. \A j \in Jobs : status'[j] = "New" <=> status[j] = "New"
    <2>1. holds[w] \in Jobs /\ status[holds[w]] # "New"
      BY <1>1, HeldFacts
    <2>2. status' = status \/ status' = [status EXCEPT ![holds[w]] = "Running"]
      BY DEF BeginRun, ExecuteReturns, ExecuteThrows, Retry
    <2> QED  BY <2>1, <2>2, TypeFacts
  <1>3. \A x \in Jobs : (InHeap(x)' <=> InHeap(x)) /\ (Adding(x)' <=> Adding(x))
    BY <1>1 DEF InHeap, Adding
  <1>4. \A x \in Jobs : /\ HeldAt(x, {"requeueing"})' <=> HeldAt(x, {"requeueing"})
                        /\ HeldAt(x, {"loop", "executing", "backoff", "deciding"})'
                             <=> HeldAt(x, {"loop", "executing", "backoff", "deciding"})
    <2>1. \A v \in Workers : /\ pc'[v] = "requeueing" <=> pc[v] = "requeueing"
                             /\ pc'[v] \in {"loop", "executing", "backoff", "deciding"}
                                  <=> pc[v] \in {"loop", "executing", "backoff", "deciding"}
      BY <1>1, TypeFacts
    <2> QED  BY <1>1, <2>1 DEF HeldAt
  <1>5. \A x \in Jobs : (Pending(x)' <=> Pending(x)) /\ (InRun(x)' <=> InRun(x))
    BY <1>3, <1>4 DEF Pending, InRun
  <1> QED  BY <1>1, <1>2, <1>5, LifecycleStutters

\* What a worker that lets go of its job does to the others.
LEMMA LetsGo ==
  ASSUME SchedInv, NEW w \in Workers, NEW j \in Jobs, holds[w] = j,
         holds' = [holds EXCEPT ![w] = None], pc' = [pc EXCEPT ![w] = "loop"],
         UNCHANGED <<cpc, cjob>>
  PROVE  /\ \A x \in Jobs \ {j} : (Adding(x)' <=> Adding(x)) /\ \A S : HeldAt(x, S)' <=> HeldAt(x, S)
         /\ ~Adding(j)' /\ \A S : ~HeldAt(j, S)'
PROOF
  <1>1. /\ ~Adding(j) /\ None \notin Jobs
        /\ \A v \in Workers : holds[v] = j => v = w
    BY TypeFacts, HeldFacts DEF SchedInv, OnePlace, NoSelfOverlap
  <1>2. \A v \in Workers : v # w => holds'[v] = holds[v] /\ pc'[v] = pc[v]
    BY TypeFacts
  <1>3. holds'[w] = None
    BY TypeFacts
  <1>4. \A x \in Jobs : Adding(x)' <=> Adding(x)
    BY DEF Adding
  <1>5. ASSUME NEW x \in Jobs \ {j}, NEW S
        PROVE  HeldAt(x, S)' <=> HeldAt(x, S)
    BY <1>1, <1>2, <1>3 DEF HeldAt
  <1>6. \A S : ~HeldAt(j, S)'
    BY <1>1, <1>2, <1>3 DEF HeldAt
  <1> QED  BY <1>1, <1>4, <1>5, <1>6

\* A recurring job is pending from Reschedule to the heap, and one that
\* Reschedule gives up is gone already when Complete forgets it.
LEMMA HandsBackStutter ==
  ASSUME SchedInv, NEW w \in Workers, Requeue(w) \/ Complete(w)
  PROVE  UNCHANGED Lifecycle!lifeVars
PROOF
  <1>1. /\ holds[w] # None
        /\ holds' = [holds EXCEPT ![w] = None] /\ pc' = [pc EXCEPT ![w] = "loop"]
        /\ UNCHANGED <<now, nextRun, cancelled, cpc, cjob>>
        /\ pc[w] \in {"requeueing", "completing"}
    BY TypeFacts DEF Requeue, Complete
  <1>0. PICK j \in Jobs : holds[w] = j
    BY <1>1, TypeFacts
  <1>2. /\ status[j] # "New" /\ ~InHeap(j) /\ ~Adding(j)
        /\ \A S : HeldAt(j, S) <=> pc[w] \in S
    BY <1>0, <1>1, HeldFacts
  <1>3. /\ \A x \in Jobs \ {j} : (Adding(x)' <=> Adding(x)) /\ \A S : HeldAt(x, S)' <=> HeldAt(x, S)
        /\ ~Adding(j)' /\ \A S : ~HeldAt(j, S)'
    BY <1>0, <1>1, LetsGo
  <1>4. \A x \in Jobs : status'[x] = "New" <=> status[x] = "New"
    BY <1>0, <1>2, TypeFacts DEF Requeue, Complete
  <1>5. (\A x \in Jobs \ {j} : InHeap(x)' <=> InHeap(x)) /\ (InHeap(j)' <=> pc[w] = "requeueing")
    <2>1. CASE Requeue(w)
      <3>1. QueueInv /\ Add(j, nextRun') /\ running /\ running' = running /\ nextRun' \in [Jobs -> Nat]
            /\ \A k \in Jobs \ {j} : nextRun'[k] = nextRun[k]
        BY <1>0, <2>1, TypeFacts DEF Requeue, SchedInv
      <3>2. \A x \in Jobs : InHeap(x)' <=> (InHeap(x) \/ x = j)
        BY <1>2, <3>1, AddStep
      <3> QED  BY <1>2, <2>1, <3>2 DEF Requeue
    <2>2. CASE Complete(w)
      BY <1>2, <2>2 DEF Complete, InHeap
    <2> QED  BY <2>1, <2>2
  <1>6. \A x \in Jobs : (Pending(x)' <=> Pending(x)) /\ (InRun(x)' <=> InRun(x))
    <2>1. \A x \in Jobs \ {j} : (Pending(x)' <=> Pending(x)) /\ (InRun(x)' <=> InRun(x))
      BY <1>3, <1>5 DEF Pending, InRun
    <2>2. (Pending(j)' <=> Pending(j)) /\ (InRun(j)' <=> InRun(j))
      BY <1>1, <1>2, <1>3, <1>5 DEF Pending, InRun
    <2> QED  BY <2>1, <2>2
  <1> QED  BY <1>1, <1>4, <1>6, LifecycleStutters

\* A cancelled job at the head of the heap is dropped.
LEMMA DropsHead ==
  ASSUME SchedInv, NEW w \in Workers, WorkerTakes(w), DropCancelled(w)
  PROVE  Lifecycle!Drop(Head(heap))
PROOF
  <1>0. PICK j \in Jobs : j = Head(heap)
    BY TypeFacts, TailFacts DEF DropCancelled, TakeHead, HeadDue
  <1>1. /\ heap # <<>> /\ cancelled[j] /\ heap' = Tail(heap)
        /\ UNCHANGED <<now, holds, nextRun, cancelled, status, pc, cpc, cjob>>
    BY <1>0 DEF DropCancelled, HeadDue, WorkerTakes, schedVars
  <1>2. InHeap(j) /\ \A x \in Jobs : InHeap(x)' <=> (InHeap(x) /\ x # j)
    BY <1>0, <1>1, TypeFacts, RemoveHead DEF SchedInv, QueueInv, NoSelfOverlap
  <1>3. status[j] # "New" /\ ~Held(j) /\ ~Adding(j)
    <2>1. status[j] # "New"
      BY <1>2 DEF SchedInv, Fresh
    <2>2. ~Held(j)
      <3> SUFFICES ASSUME NEW v \in Workers, holds[v] = j PROVE FALSE
        BY DEF Held
      <3>1. ~InHeap(holds[v])
        BY TypeFacts DEF SchedInv, OnePlace, NoSelfOverlap
      <3> QED  BY <1>2, <3>1
    <2>3. ~Adding(j)
      BY <1>2 DEF SchedInv, OnePlace, Adding
    <2> QED  BY <2>1, <2>2, <2>3
  <1>4. \A x \in Jobs : (Adding(x)' <=> Adding(x)) /\ \A S : HeldAt(x, S)' <=> HeldAt(x, S)
    BY <1>1 DEF Adding, HeldAt
  <1>5. \A S : ~HeldAt(j, S)
    BY <1>3 DEF HeldAt, Held
  <1>6. PhaseOf(j) = "pending" /\ PhaseOf(j)' = "gone"
    BY <1>1, <1>2, <1>3, <1>4, <1>5 DEF PhaseOf, Pending, InRun
  <1>7. \A x \in Jobs \ {j} : (status'[x] = "New" <=> status[x] = "New")
                            /\ (Pending(x)' <=> Pending(x)) /\ (InRun(x)' <=> InRun(x))
    BY <1>1, <1>2, <1>4 DEF Pending, InRun
  <1>8. [x \in Jobs |-> PhaseOf(x)]' = [[x \in Jobs |-> PhaseOf(x)] EXCEPT ![j] = "gone"]
    BY <1>2, <1>6, <1>7, OnePhaseMoves
  <1>9. Lifecycle!Drop(j)
    BY <1>1, <1>2, <1>6, <1>8 DEF Lifecycle!Drop
  <1> QED  BY <1>0, <1>9

\* Every running job is in the hands of a worker of its own, so while one
\* worker is free there are fewer runs than workers.
LEMMA RoomInThePool ==
  ASSUME SchedInv, IsFiniteSet(Workers), NEW w \in Workers, holds[w] = None
  PROVE  Cardinality({k \in Jobs : PhaseOf(k) = "running"}) < Cardinality(Workers)
PROOF
  <1> DEFINE R == {k \in Jobs : PhaseOf(k) = "running"}
             others == Workers \ {w}
             hands == [k \in R |-> CHOOSE v \in Workers : holds[v] = k]
  <1>1. ASSUME NEW k \in R
        PROVE  hands[k] \in others /\ holds[hands[k]] = k
    <2>1. InRun(k)
      BY DEF PhaseOf
    <2>2. \E v \in Workers : holds[v] = k
      BY <2>1 DEF InRun, HeldAt
    <2>3. hands[k] \in Workers /\ holds[hands[k]] = k
      BY <2>2
    <2>4. k # None
      BY TypeFacts
    <2> QED  BY <2>3, <2>4
  <1>2. hands \in Injection(R, others)
    <2>1. hands \in [R -> others]
      BY <1>1
    <2>2. \A a, b \in R : hands[a] = hands[b] => a = b
      BY <1>1
    <2> QED  BY <2>1, <2>2 DEF Injection, IsInjective
  <1> HIDE DEF hands, R
  <1>3. IsFiniteSet(others) /\ Cardinality(others) = Cardinality(Workers) - 1
    BY FS_RemoveElement
  <1> HIDE DEF others
  <1>4. IsFiniteSet(R) /\ Cardinality(R) <= Cardinality(others)
    BY <1>2, <1>3, FS_Injection
  <1>5. Cardinality(R) \in Nat /\ Cardinality(Workers) \in Nat
    BY <1>4, FS_CardinalityType
  <1>6. Cardinality(R) < Cardinality(Workers)
    BY <1>3, <1>4, <1>5
  <1> QED  BY <1>6 DEF R

\* The lifecycle counts as the scheduler does.
LEMMA SameCount ==
  ASSUME NEW S
  PROVE  Lifecycle!Cardinality(S) = Cardinality(S)
BY DEF Lifecycle!Cardinality, Cardinality, Lifecycle!IsFiniteSet, IsFiniteSet

\* A due job at the head of the heap starts.
LEMMA TakesHead ==
  ASSUME SchedInv, IsFiniteSet(Workers), NEW w \in Workers, WorkerTakes(w), TakeHead(w)
  PROVE  Lifecycle!Start(Head(heap))
PROOF
  <1>0. PICK j \in Jobs : j = Head(heap)
    BY TypeFacts, TailFacts DEF DropCancelled, TakeHead, HeadDue
  <1>1. /\ heap # <<>> /\ nextRun[j] <= now /\ ~cancelled[j] /\ heap' = Tail(heap)
        /\ holds' = [holds EXCEPT ![w] = j] /\ pc[w] = "loop"
        /\ UNCHANGED <<now, nextRun, cancelled, status, pc, cpc, cjob>>
    BY <1>0 DEF TakeHead, HandOut, HeadDue, WorkerTakes, schedVars
  <1>2. InHeap(j) /\ \A x \in Jobs : InHeap(x)' <=> (InHeap(x) /\ x # j)
    BY <1>0, <1>1, TypeFacts, RemoveHead DEF SchedInv, QueueInv, NoSelfOverlap
  <1>3. holds[w] = None
    BY DEF TakeHead, HandOut, HasLock, SchedInv, QueueInv, QueueTypeOK
  <1>4. status[j] # "New" /\ ~Held(j) /\ ~Adding(j)
    BY <1>2, TypeFacts DEF SchedInv, Fresh, OnePlace, NoSelfOverlap, Held, Adding
  <1>5. \A x \in Jobs : Adding(x)' <=> Adding(x)
    BY <1>1 DEF Adding
  <1>6. /\ holds'[w] = j /\ \A v \in Workers : v # w => holds'[v] = holds[v]
        /\ None \notin Jobs
    BY <1>1, TypeFacts
  <1>7. \A x \in Jobs \ {j} : \A S : HeldAt(x, S)' <=> HeldAt(x, S)
    BY <1>1, <1>3, <1>6 DEF HeldAt
  <1>8. \A S : HeldAt(j, S)' <=> pc[w] \in S
    BY <1>1, <1>4, <1>6 DEF HeldAt, Held
  <1>9. PhaseOf(j) = "pending"
    BY <1>2, <1>4 DEF PhaseOf, Pending
  <1>10. PhaseOf(j)' = "running"
    <2>1. ~Pending(j)'
      BY <1>1, <1>2, <1>4, <1>5, <1>8 DEF Pending
    <2>2. InRun(j)'
      BY <1>1, <1>8 DEF InRun
    <2> QED  BY <1>1, <1>4, <2>1, <2>2 DEF PhaseOf
  <1>11. \A x \in Jobs \ {j} : (status'[x] = "New" <=> status[x] = "New")
                             /\ (Pending(x)' <=> Pending(x)) /\ (InRun(x)' <=> InRun(x))
    BY <1>1, <1>2, <1>5, <1>7 DEF Pending, InRun
  <1>12. [x \in Jobs |-> PhaseOf(x)]' = [[x \in Jobs |-> PhaseOf(x)] EXCEPT ![j] = "running"]
    BY <1>2, <1>10, <1>11, OnePhaseMoves
  <1>13. Cardinality({k \in Jobs : PhaseOf(k) = "running"}) < Cardinality(Workers)
    BY <1>3, RoomInThePool
  <1>14. Cardinality({k \in Jobs : [x \in Jobs |-> PhaseOf(x)][k] = "running"}) < Cardinality(Workers)
    <2>1. {k \in Jobs : [x \in Jobs |-> PhaseOf(x)][k] = "running"} = {k \in Jobs : PhaseOf(k) = "running"}
      OBVIOUS
    <2> QED  BY <1>13, <2>1
  <1>15. Lifecycle!Start(j)
    BY <1>1, <1>2, <1>9, <1>12, <1>14, SameCount DEF Lifecycle!Start
  <1> QED  BY <1>0, <1>15

\* The outcome of a run: the job waits for its next slot, or has ended.
LEMMA RescheduleDecides ==
  ASSUME SchedInv, NEW w \in Workers, Reschedule(w)
  PROVE  \E j \in Jobs : Lifecycle!Again(j) \/ Lifecycle!Finish(j)
PROOF
  <1>0. PICK j \in Jobs : holds[w] = j
    BY TypeFacts DEF Reschedule
  <1>1. /\ UNCHANGED <<now, heap, holds, cancelled, status, cpc, cjob>>
        /\ pc[w] = "deciding"
        /\ \A v \in Workers : v # w => pc'[v] = pc[v]
    BY TypeFacts DEF Reschedule
  <1>2. /\ status[j] # "New" /\ ~InHeap(j) /\ ~Adding(j)
        /\ \A v \in Workers : holds[v] = j => v = w
    BY <1>0, TypeFacts, HeldFacts DEF SchedInv, OnePlace, NoSelfOverlap
  <1>3. \A x \in Jobs : (InHeap(x)' <=> InHeap(x)) /\ (Adding(x)' <=> Adding(x))
    BY <1>1 DEF InHeap, Adding
  <1>4. \A x \in Jobs \ {j} : \A S : HeldAt(x, S)' <=> HeldAt(x, S)
    BY <1>0, <1>1 DEF HeldAt
  <1>5. \A S : (HeldAt(j, S) <=> "deciding" \in S) /\ (HeldAt(j, S)' <=> pc'[w] \in S)
    BY <1>0, <1>1, <1>2 DEF HeldAt
  <1>6. \A x \in Jobs \ {j} : (status'[x] = "New" <=> status[x] = "New")
                            /\ (Pending(x)' <=> Pending(x)) /\ (InRun(x)' <=> InRun(x))
    BY <1>1, <1>3, <1>4 DEF Pending, InRun
  <1>7. PhaseOf(j) = "running"
    BY <1>2, <1>5 DEF PhaseOf, Pending, InRun
  <1>8. CASE j \notin OneTime /\ ~cancelled[j]
    <2>1. /\ nextRun' = [nextRun EXCEPT ![j] = FixedRate(@, Interval[j])]
          /\ pc'[w] = "requeueing"
      BY <1>0, <1>8, TypeFacts DEF Reschedule
    <2>2. PhaseOf(j)' = "pending"
      BY <1>1, <1>2, <1>5, <2>1 DEF PhaseOf, Pending
    <2>3. [x \in Jobs |-> PhaseOf(x)]' = [[x \in Jobs |-> PhaseOf(x)] EXCEPT ![j] = "pending"]
      BY <1>6, <2>2, OnePhaseMoves
    <2>4. nextRun' = [nextRun EXCEPT ![j] = IF @ + Interval[j] > now THEN @ + Interval[j] ELSE now]
      <3> DEFINE slot == nextRun[j] + Interval[j]
      <3>1. slot \in Nat /\ now \in Nat
        BY TypeFacts, SchedulerAssumption
      <3>2. FixedRate(nextRun[j], Interval[j]) = IF slot > now THEN slot ELSE now
        BY <3>1 DEF FixedRate
      <3> QED  BY <2>1, <3>2
    <2>5. Lifecycle!Again(j)
      BY <1>1, <1>7, <1>8, <2>3, <2>4 DEF Lifecycle!Again
    <2> QED  BY <2>5
  <1>9. CASE j \in OneTime \/ cancelled[j]
    <2>1. nextRun' = nextRun /\ pc'[w] = "completing"
      BY <1>0, <1>9, TypeFacts DEF Reschedule
    <2>2. PhaseOf(j)' = "gone"
      BY <1>1, <1>2, <1>3, <1>5, <2>1 DEF PhaseOf, Pending, InRun
    <2>3. [x \in Jobs |-> PhaseOf(x)]' = [[x \in Jobs |-> PhaseOf(x)] EXCEPT ![j] = "gone"]
      BY <1>6, <2>2, OnePhaseMoves
    <2>4. Lifecycle!Finish(j)
      BY <1>1, <1>7, <1>9, <2>1, <2>3 DEF Lifecycle!Finish
    <2> QED  BY <2>4
  <1> QED  BY <1>8, <1>9

\* Initially every job is new.
LEMMA InitMaps ==
  ASSUME Init
  PROVE  Known /\ Lifecycle!Init
PROOF
  <1>1. \A j \in Jobs : PhaseOf(j) = "new"
    BY DEF Init, PhaseOf
  <1> QED  BY <1>1 DEF Init, QueueInit, Known, Lifecycle!Init

\* Every step of the scheduler is a step of the lifecycle or a stutter.
LEMMA StepMaps ==
  ASSUME IsFiniteSet(Workers), SchedInv, Known, [Next]_vars
  PROVE  [Lifecycle!Next]_(Lifecycle!lifeVars)
PROOF
  <1>1. CASE Clock
    <2>1. UNCHANGED <<heap, holds, nextRun, cancelled, status, pc, cpc, cjob>>
      BY <1>1 DEF Clock, Tick, schedVars
    <2>2. \A x \in Jobs : PhaseOf(x)' = PhaseOf(x)
      BY <2>1 DEF PhaseOf, Pending, InRun, InHeap, Adding, HeldAt
    <2>3. Lifecycle!Pass
      BY <1>1, <2>1, <2>2 DEF Clock, Tick, Lifecycle!Pass
    <2> QED  BY <2>3 DEF Lifecycle!Next
  <1>2. ASSUME NEW c \in Callers, NEW j \in Jobs, NEW d \in Delays, ScheduleRegister(c, j, d)
        PROVE  Lifecycle!Next
    BY <1>2, RegisterSubmits DEF Lifecycle!Next
  <1>3. ASSUME NEW c \in Callers, CancelFlag(c)
        PROVE  Lifecycle!Next
    <2>1. cjob[c] \in Jobs
      BY <1>3, TypeFacts DEF CancelFlag
    <2> QED  BY <1>3, <2>1, FlagCancels DEF Lifecycle!Next
  <1>4. ASSUME NEW c \in Callers, ScheduleAdd(c) \/ CancelMark(c) \/ \E id \in Ids : CancelRemove(c, id)
        PROVE  UNCHANGED Lifecycle!lifeVars
    BY <1>4, CallsStutter
  <1>5. ASSUME NEW w \in Workers, WorkerStep(w)
        PROVE  [Lifecycle!Next]_(Lifecycle!lifeVars)
    <2>1. ASSUME WorkerTakes(w), DropCancelled(w) \/ TakeHead(w)
          PROVE  Lifecycle!Next
      <3>1. Head(heap) \in Jobs
        BY <2>1, TypeFacts, TailFacts DEF DropCancelled, TakeHead, HeadDue
      <3> QED  BY <2>1, <3>1, DropsHead, TakesHead DEF Lifecycle!Next
    <2>2. ASSUME WorkerTakes(w), ~DropCancelled(w), ~TakeHead(w)
          PROVE  UNCHANGED Lifecycle!lifeVars
      BY <2>2, WaitsStutter
    <2>3. ASSUME Reschedule(w) PROVE Lifecycle!Next
      BY <2>3, RescheduleDecides DEF Lifecycle!Next
    <2>4. ASSUME BeginRun(w) \/ ExecuteReturns(w) \/ ExecuteThrows(w) \/ Retry(w)
          PROVE  UNCHANGED Lifecycle!lifeVars
      BY <2>4, RunStutters
    <2>5. ASSUME Requeue(w) \/ Complete(w)
          PROVE  UNCHANGED Lifecycle!lifeVars
      BY <2>5, HandsBackStutter
    <2> QED  BY <1>5, <2>1, <2>2, <2>3, <2>4, <2>5 DEF WorkerStep
  <1>6. ASSUME UNCHANGED vars
        PROVE  UNCHANGED Lifecycle!lifeVars
    <2>1. \A x \in Jobs : (Pending(x)' <=> Pending(x)) /\ (InRun(x)' <=> InRun(x))
      BY <1>6 DEF vars, Pending, InRun, InHeap, Adding, HeldAt
    <2>2. UNCHANGED <<now, nextRun, cancelled, status>>
      BY <1>6 DEF vars
    <2> QED  BY <2>1, <2>2, LifecycleStutters
  <1> QED  BY <1>1, <1>2, <1>3, <1>4, <1>5, <1>6 DEF Next, CallerStep

\* The scheduler keeps what JobLifecycle promises: a job starts at or after
\* its due time and not once it is cancelled, runs in one place at a time and
\* never more jobs than workers, and waits again or ends after every run.
THEOREM SchedulerImplementsLifecycle ==
  ASSUME IsFiniteSet(Workers)
  PROVE  Spec => ImplementsLifecycle
PROOF
  <1>1. Init => Known /\ Lifecycle!Init
    BY InitMaps
  <1>2. SchedInv /\ Known /\ [Next]_vars => Known'
    BY KnownStep
  <1>3. SchedInv /\ Known /\ [Next]_vars => [Lifecycle!Next]_(Lifecycle!lifeVars)
    BY StepMaps
  <1> QED  BY <1>1, <1>2, <1>3, SchedulerInvariant, PTL DEF Spec, ImplementsLifecycle, Lifecycle!Spec

=============================================================================
