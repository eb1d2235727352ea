------------------------------ MODULE LinkedLists ------------------------------
(* The linked-list solutions of 02-standard-problems, pointer by pointer, and  *)
(* the merges of sorted lists.  Node i of a list holds the i-th number; `next` *)
(* maps each node to the one after it, and 0 is null.                          *)
EXTENDS Searches

Null == 0
Linked(nums) == [i \in DOMAIN nums |-> IF i = Len(nums) THEN Null ELSE i + 1]
HeadOf(nums) == IF nums = <<>> THEN Null ELSE 1

RECURSIVE ListFrom(_, _)
\* The nodes from a node on.
ListFrom(next, node) == IF node = Null THEN <<>> ELSE <<node>> \o ListFrom(next, next[node])

RECURSIVE ReverseList(_, _, _)
ReverseList(next, prev, head) ==
  IF head = Null THEN [next |-> next, head |-> prev]
  ELSE ReverseList([next EXCEPT ![head] = prev], head, next[head])

-----------------------------------------------------------------------------
RemoveNthFromEnd(nums, n) ==
  LET dummy == Len(nums) + 1
      next == [i \in 1..dummy |-> IF i = dummy THEN HeadOf(nums) ELSE Linked(nums)[i]]
      current == FoldSet(LAMBDA i, node : next[node], dummy, 1..Len(nums) - n)
  IN ListFrom([next EXCEPT ![current] = next[next[current]]],
           IF current = dummy THEN next[next[dummy]] ELSE next[dummy])

RemoveNthRight(nums) ==
  \A n \in DOMAIN nums : RemoveNthFromEnd(nums, n) = RemoveAt(Indices(nums), Len(nums) + 1 - n)

RECURSIVE Halfway(_, _, _), Agree(_, _, _, _), Weave(_, _, _)
\* fast takes two steps for one of slow.
Halfway(next, slow, fast) ==
  IF fast = Null THEN slow
  ELSE IF next[fast] = Null THEN next[slow]
  ELSE Halfway(next, next[slow], next[next[fast]])

Agree(nums, next, first, second) ==
  second = Null \/ (nums[first] = nums[second] /\ Agree(nums, next, next[first], next[second]))

\* The second half is reversed in place, then compared with the first.
IsPalindromeList(nums) ==
  LET next == Linked(nums)
      half == ReverseList(next, Null, Halfway(next, 1, 1))
  IN Len(nums) < 2 \/ Agree(nums, half.next, 1, half.head)

PalindromeListRight(nums) == IsPalindromeList(nums) <=> nums = Reverse(nums)

Weave(next, first, second) ==
  IF second = Null THEN next
  ELSE Weave([next EXCEPT ![first] = second, ![second] = next[first]], next[first], next[second])

RECURSIVE LastOfFirstHalf(_, _, _)
LastOfFirstHalf(next, slow, fast) ==
  IF next[fast] = Null THEN slow
  ELSE IF next[next[fast]] = Null THEN slow
  ELSE LastOfFirstHalf(next, next[slow], next[next[fast]])

ReorderList(nums) ==
  LET next == Linked(nums)
      slow == LastOfFirstHalf(next, 1, 1)
      second == ReverseList(next, Null, next[slow])
  IN IF Len(nums) < 2 THEN Indices(nums)
     ELSE ListFrom(Weave([second.next EXCEPT ![slow] = Null], 1, second.head), 1)

\* First, last, second, last but one ...
ReorderRight(nums) ==
  ReorderList(nums) =
    [i \in DOMAIN nums |-> IF i % 2 = 1 THEN (i + 1) \div 2 ELSE Len(nums) + 1 - i \div 2]

-----------------------------------------------------------------------------
(* A list whose nodes also point at random ones: node i's copy is n + i.     *)

\* Copies are laid between the originals, then both lists are taken apart.
CopyRandomList(nums, random) ==
  LET n == Len(nums)
      laid == [i \in 1..2 * n |-> IF i <= n THEN n + i ELSE Linked(nums)[i - n]]
      copied == [c \in n + 1..2 * n |->
        IF random[c - n] = Null THEN Null ELSE laid[random[c - n]]]
      apart == FoldSet(LAMBDA i, next :
                 LET copy == next[i] IN [next EXCEPT ![i] = next[copy]], laid, 1..n)
      ends == [i \in 1..2 * n |-> IF i <= n \/ apart[i] = Null THEN apart[i] ELSE laid[apart[i]]]
  IN [next |-> ends, random |-> copied]

CopyByDictionary(nums, random) ==
  LET n == Len(nums)
      copies(i) == IF i = Null THEN Null ELSE n + i
  IN [next |-> [i \in 1..2 * n |-> IF i <= n THEN Linked(nums)[i] ELSE copies(Linked(nums)[i - n])],
      random |-> [c \in n + 1..2 * n |-> copies(random[c - n])]]

\* The copies form a list of their own with the same shape; the list is as before.
CopyRight(nums, random) ==
  LET n == Len(nums) IN
  \A copy \in {CopyRandomList(nums, random), CopyByDictionary(nums, random)} :
    /\ nums # <<>> => ListFrom(copy.next, n + 1) = [i \in 1..n |-> n + i]
    /\ nums # <<>> => ListFrom(copy.next, 1) = Indices(nums)
    /\ \A i \in 1..n : copy.random[n + i] = IF random[i] = Null THEN Null ELSE n + random[i]

-----------------------------------------------------------------------------
RECURSIVE MergeTwoLists(_, _), MergeKLists(_)
MergeTwoLists(list1, list2) ==
  IF list1 = <<>> \/ list2 = <<>> THEN list1 \o list2
  ELSE IF Head(list1) <= Head(list2) THEN <<Head(list1)>> \o MergeTwoLists(Tail(list1), list2)
  ELSE <<Head(list2)>> \o MergeTwoLists(list1, Tail(list2))

\* A heap of what is left of each list, the least head first.
MergeKLists(lists) ==
  LET left == {k \in DOMAIN lists : lists[k] # <<>>}
      k == CHOOSE j \in left : \A l \in left : Head(lists[j]) <= Head(lists[l])
  IN IF left = {} THEN <<>>
     ELSE <<Head(lists[k])>> \o MergeKLists([lists EXCEPT ![k] = Tail(@)])

MergesRight(nums) ==
  \A cut \in 0..Len(nums) :
    LET one == Ascending(SubSeq(nums, 1, cut))
        two == Ascending(SubSeq(nums, cut + 1, Len(nums)))
    IN /\ MergeTwoLists(one, two) = Ascending(nums)
       /\ MergeKLists(<<one, two, <<>>, one>>) = Ascending(nums \o one)

-----------------------------------------------------------------------------
(* Pairs and counts of numbers.                                              *)

RECURSIVE Inwards(_, _, _, _)
\* Sorted numbers; the pair it returns, <<>> when there is none.
Inwards(numbers, target, left, right) ==
  LET sum == numbers[left] + numbers[right] IN
  IF left >= right THEN <<>>
  ELSE IF sum = target THEN <<left, right>>
  ELSE IF sum < target THEN Inwards(numbers, target, left + 1, right)
  ELSE Inwards(numbers, target, left, right - 1)

TwoSumRight(nums, target) ==
  LET sorted == Ascending(nums)
      found == IF nums = <<>> THEN <<>> ELSE Inwards(sorted, target, 1, Len(sorted))
  IN IF \E i, j \in DOMAIN nums : i < j /\ nums[i] + nums[j] = target
       THEN found # <<>> /\ sorted[found[1]] + sorted[found[2]] = target
       ELSE found = <<>>

RECURSIVE ThirdsFrom(_, _, _, _)
\* The numbers after the first, those seen kept; after a hit its repeats are skipped.
ThirdsFrom(nums, i, j, seen) ==
  LET need == -nums[i] - nums[j]
      next == Min({n \in j + 1..Len(nums) + 1 : n > Len(nums) \/ nums[n] # nums[j]})
  IN IF j > Len(nums) THEN <<>>
     ELSE IF need \in seen THEN <<<<nums[i], need, nums[j]>>>> \o ThirdsFrom(nums, i, next, seen)
     ELSE ThirdsFrom(nums, i, j + 1, seen \cup {nums[j]})

ThreeSum(numbers) ==
  LET nums == Ascending(numbers) IN
  FoldLeft(LAMBDA acc, i :
      IF i > 1 /\ nums[i] = nums[i - 1] THEN acc ELSE acc \o ThirdsFrom(nums, i, i + 1, {}),
    <<>>, [i \in 1..Len(nums) - 2 |-> i])

\* Every triple of places that adds up to nothing, each triple of values once.
ThreeSumRight(nums) ==
  /\ IsInjective(ThreeSum(nums))
  /\ ToSet(ThreeSum(nums)) =
       {Ascending(<<nums[i[1]], nums[i[2]], nums[i[3]]>>) :
          i \in {j \in (DOMAIN nums) \X (DOMAIN nums) \X (DOMAIN nums) :
                   j[1] < j[2] /\ j[2] < j[3] /\ nums[j[1]] + nums[j[2]] + nums[j[3]] = 0}}

\* In place: the array and how much of it counts.
RemoveDuplicates(nums) ==
  FoldLeft(LAMBDA acc, fast :
      IF acc.nums[fast] # acc.nums[fast - 1]
        THEN [slow |-> acc.slow + 1, nums |-> [acc.nums EXCEPT ![acc.slow + 1] = acc.nums[fast]]]
        ELSE acc,
    [slow |-> Smaller(1, Len(nums)), nums |-> nums], [i \in 1..Len(nums) - 1 |-> i + 1])

RemoveDuplicatesRight(nums) ==
  LET end == RemoveDuplicates(Ascending(nums))
  IN SubSeq(end.nums, 1, end.slow) = Ascending(SetToSeq(ToSet(nums)))

Frequencies(nums) == [v \in ToSet(nums) |-> Occurrences(nums, v)]

\* A heap of the k most frequent so far; of equal counts it drops any.
TopKByHeap(nums, k) ==
  LET frequency == Frequencies(nums) IN
  FoldSet(LAMBDA v, heap :
      LET now == heap \cup {v}
          least == CHOOSE a \in now : \A b \in now : frequency[a] <= frequency[b]
      IN IF Cardinality(now) > k THEN now \ {least} ELSE now,
    {}, ToSet(nums))

\* From the bucket of the greatest count down, until there are k.
TopKByBuckets(nums, k) ==
  LET frequency == Frequencies(nums)
      buckets == [f \in 1..Len(nums) |-> {v \in ToSet(nums) : frequency[v] = f}]
  IN ToSet(SubSeq(FoldLeft(LAMBDA acc, f : acc \o SetToSeq(buckets[f]), <<>>, Reverse(Indices(nums))), 1, k))

TopKRight(nums) ==
  \A k \in 1..Cardinality(ToSet(nums)) :
    \A top \in {TopKByHeap(nums, k), TopKByBuckets(nums, k)} :
      /\ Cardinality(top) = k
      /\ \A a \in top, b \in ToSet(nums) \ top : Occurrences(nums, a) >= Occurrences(nums, b)

-----------------------------------------------------------------------------
\* Every list ends as its problem asks for, with no node lost, repeated or left
\* in a cycle, whatever its length; pairs, triples and counts are complete.
ListsRight(nums) ==
  /\ RemoveNthRight(nums) /\ PalindromeListRight(nums) /\ ReorderRight(nums) /\ MergesRight(nums)
  /\ CopyRight(nums, [i \in DOMAIN nums |-> (nums[i] + i) % (Len(nums) + 1)])
  /\ ThreeSumRight(nums) /\ RemoveDuplicatesRight(nums) /\ TopKRight(nums)
  /\ \A target \in -1..4 : TwoSumRight(nums, target)
=============================================================================
