------------------------------ MODULE LfuCache -------------------------------
(* The O(1) LFU cache (03-advanced-problems): a list per frequency, ordered   *)
(* by recency, and minFrequency, which points at the list to evict from.  A   *)
(* node is named by its key; its value plays no part.                         *)
EXTENDS Naturals, FiniteSets, SequencesExt

CONSTANTS LfuKeys, LfuCapacity,
          MaxFrequency   \* bound: a key of this frequency is not used again

ASSUME LfuAssumption == LfuCapacity \in Nat /\ MaxFrequency \in Nat \ {0}

VARIABLES
  frequency,     \* Frequency of the node of each key, 0 for a key without node
  bucket,        \* listsByFrequency: an empty one is not in the dictionary
  minFrequency,
  uses,          \* (history) uses of each key since it was put
  latest         \* (history) the keys by their last use, the latest first

lfuVars == <<frequency, bucket, minFrequency, uses, latest>>

LfuInit ==
  /\ frequency = [k \in LfuKeys |-> 0]
  /\ bucket = [f \in 1..MaxFrequency |-> <<>>]
  /\ minFrequency = 0
  /\ uses = [k \in LfuKeys |-> 0]
  /\ latest = <<>>

Kept == {k \in LfuKeys : frequency[k] > 0}
Note(k, n) ==
  /\ uses' = [uses EXCEPT ![k] = n]
  /\ latest' = <<k>> \o RemoveFirst(latest, k)

\* Mutant: AddLast in place of AddFirst.
TouchAddingLast(k) ==
  LET f == frequency[k] IN
  /\ bucket' = [bucket EXCEPT ![f] = RemoveFirst(@, k), ![f + 1] = Append(@, k)]
  /\ minFrequency' = IF bucket[f] = <<k>> /\ minFrequency = f THEN f + 1 ELSE minFrequency
  /\ frequency' = [frequency EXCEPT ![k] = f + 1]

\* Touch: from its list to the front of the next one.
Touch(k) ==
  LET f == frequency[k] IN
  /\ bucket' = [bucket EXCEPT ![f] = RemoveFirst(@, k), ![f + 1] = <<k>> \o @]
  /\ minFrequency' = IF bucket[f] = <<k>> /\ minFrequency = f THEN f + 1 ELSE minFrequency
  /\ frequency' = [frequency EXCEPT ![k] = f + 1]

\* Get of a key that is cached, and Put of one; Get of another changes nothing.
UseCached(k) ==
  /\ frequency[k] \in 1..MaxFrequency - 1
  /\ Touch(k)
  /\ Note(k, uses[k] + 1)

\* Put of a new key: RemoveLast of the list of minFrequency when it is full.
PutNew(k) ==
  /\ LfuCapacity # 0 /\ frequency[k] = 0
  /\ LET full == Cardinality(Kept) = LfuCapacity
         victims == IF full THEN {Last(bucket[minFrequency])} ELSE {}
         left == IF full THEN [bucket EXCEPT ![minFrequency] = Front(@)] ELSE bucket
     IN /\ frequency' = [l \in LfuKeys |->
             IF l = k THEN 1 ELSE IF l \in victims THEN 0 ELSE frequency[l]]
        /\ bucket' = [left EXCEPT ![1] = <<k>> \o @]
  /\ minFrequency' = 1
  /\ Note(k, 1)

LfuNext == \E k \in LfuKeys : UseCached(k) \/ PutNew(k)
LfuSpec == LfuInit /\ [][LfuNext]_lfuVars

-----------------------------------------------------------------------------
LastUse(k) == CHOOSE i \in DOMAIN latest : latest[i] = k

\* A key that is evicted was used least often of all that were cached, and of
\* those used as seldom it was used longest ago: although the code never
\* compares two keys, and minFrequency moves only in Touch and PutNew.
EvictsLeastFrequent ==
  [][\A v \in Kept, k \in Kept : frequency'[v] = 0 =>
       uses[v] < uses[k] \/ (uses[v] = uses[k] /\ LastUse(v) >= LastUse(k))]_lfuVars
=============================================================================
