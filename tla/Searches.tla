------------------------------- MODULE Searches -------------------------------
(* Solutions by binary search, heaps and merging (02-standard-problems,       *)
(* 03-advanced-problems), each next to the plain definition of what it        *)
(* computes; where the notes give several approaches, all of them.            *)
EXTENDS WindowsAndStacks

Ascending(s) == SortSeq(s, <)
Mid(left, right) == left + (right - left) \div 2

-----------------------------------------------------------------------------
(* Binary search in a rotated ascending array, and on the answer.            *)

RECURSIVE Probe(_, _, _, _), Lowest(_, _, _)
Probe(nums, target, left, right) ==
  LET mid == Mid(left, right)
      leftHalf == nums[left] <= nums[mid]
      inLeft == nums[left] <= target /\ target < nums[mid]
      inRight == nums[mid] < target /\ target <= nums[right]
  IN IF left > right THEN 0
     ELSE IF nums[mid] = target THEN mid
     ELSE IF (leftHalf /\ inLeft) \/ (~leftHalf /\ ~inRight) THEN Probe(nums, target, left, mid - 1)
     ELSE Probe(nums, target, mid + 1, right)

\* The place of target, or 0 (the code's -1).
Search(nums, target) == Probe(nums, target, 1, Len(nums))

Lowest(nums, left, right) ==
  LET mid == Mid(left, right) IN
  IF left >= right THEN nums[right]
  ELSE IF nums[mid] > nums[right] THEN Lowest(nums, mid + 1, right)
  ELSE Lowest(nums, left, mid)

FindMin(nums) == Lowest(nums, 1, Len(nums))

\* n even numbers, rotated; the odd ones are not there.
RotatedSearchRight(n) ==
  \A k \in 0..n - 1 :
    LET nums == Rotate([i \in 1..n |-> 2 * i], k) IN
    /\ FindMin(nums) = 2
    /\ \A target \in 1..2 * n + 1 :
         Search(nums, target) = Max({0} \cup {i \in 1..n : nums[i] = target})

HoursNeeded(piles, speed) == Sum([i \in DOMAIN piles |-> (piles[i] + speed - 1) \div speed])

RECURSIVE Slowest(_, _, _, _), LeastSum(_, _, _, _)
Slowest(piles, h, left, right) ==
  LET speed == Mid(left, right) IN
  IF left > right THEN left
  ELSE IF HoursNeeded(piles, speed) <= h THEN Slowest(piles, h, left, speed - 1)
  ELSE Slowest(piles, h, speed + 1, right)

MinEatingSpeed(piles, h) == Slowest(piles, h, 1, Max(ToSet(piles)))
MinEatingSpeedBruteForce(piles, h) ==
  LET enough == {speed \in 1..Max(ToSet(piles)) : HoursNeeded(piles, speed) <= h}
  IN IF enough = {} THEN Max(ToSet(piles)) ELSE Min(enough)

\* Hours enough for a pile an hour, as the problem promises.
EatingSpeedRight(piles, h) ==
  h >= Len(piles) => MinEatingSpeed(piles, h) = MinEatingSpeedBruteForce(piles, h)

CountGroups(nums, maxAllowed) ==
  FoldLeft(LAMBDA acc, num :
      IF acc.sum + num > maxAllowed THEN [groups |-> acc.groups + 1, sum |-> num]
      ELSE [acc EXCEPT !.sum = @ + num],
    [groups |-> 1, sum |-> 0], nums).groups

LeastSum(nums, m, left, right) ==
  LET mid == Mid(left, right) IN
  IF left >= right THEN left
  ELSE IF CountGroups(nums, mid) <= m THEN LeastSum(nums, m, left, mid)
  ELSE LeastSum(nums, m, mid + 1, right)

\* Numbers are not negative: their maximum is at least the 0 left starts from.
SplitArray(nums, m) == LeastSum(nums, m, Max(ToSet(nums)), Sum(nums))

\* Infinity stands for the states no split reaches.
SplitArrayDp(nums, m) ==
  LET n == Len(nums)
      infinity == Sum(nums) + 1
      dp[i \in 0..n, groups \in 0..m] ==
        IF i = 0 /\ groups = 0 THEN 0
        ELSE Min({infinity} \cup
                 {Larger(dp[split, groups - 1], Sum(SubSeq(nums, split + 1, i))) :
                    split \in IF groups \in 1..Smaller(i, m) THEN 0..i - 1 ELSE {}})
  IN dp[n, m]

RECURSIVE SplitArrayBruteForce(_, _)
SplitArrayBruteForce(nums, groupsRemaining) ==
  IF groupsRemaining = 1 THEN Sum(nums)
  ELSE Min({Larger(Sum(SubSeq(nums, 1, end)),
                   SplitArrayBruteForce(SubSeq(nums, end + 1, Len(nums)), groupsRemaining - 1)) :
              end \in 1..Len(nums) - groupsRemaining + 1})

SplitArrayRight(nums, m) ==
  LET n == Len(nums)
      Parts(ends) == {Sum(SubSeq(nums, Max({0} \cup {f \in ends : f < e}) + 1, e)) : e \in ends}
      best == Min({Max(Parts(ends \cup {n})) : ends \in kSubset(m - 1, 1..n - 1)})
  IN /\ SplitArray(nums, m) = best /\ SplitArrayDp(nums, m) = best
     /\ SplitArrayBruteForce(nums, m) = best

-----------------------------------------------------------------------------
(* The median, twice itself here: the code halves it as a double.            *)

At2(merged) ==
  LET n == Len(merged) IN
  IF n % 2 = 1 THEN 2 * merged[n \div 2 + 1] ELSE merged[n \div 2] + merged[n \div 2 + 1]

FindMedianSortedArraysBruteForce(nums1, nums2) == At2(Ascending(nums1 \o nums2))

FindMedianSortedArraysTwoPointers(nums1, nums2) ==
  LET total == Len(nums1) + Len(nums2)
      end == FoldLeft(LAMBDA acc, count :
          IF /\ acc.i <= Len(nums1)
             /\ acc.j > Len(nums2) \/ nums1[acc.i] <= nums2[acc.j]
          THEN [i |-> acc.i + 1, j |-> acc.j, previous |-> acc.current, current |-> nums1[acc.i]]
          ELSE [i |-> acc.i, j |-> acc.j + 1, previous |-> acc.current, current |-> nums2[acc.j]],
        [i |-> 1, j |-> 1, previous |-> 0, current |-> 0], [c \in 1..total \div 2 + 1 |-> c])
  IN IF total % 2 = 1 THEN 2 * end.current ELSE end.previous + end.current

TooFar(left, right) == left > right

RECURSIVE Cut(_, _, _, _)
\* i numbers of nums1 and j of nums2 make up the left half.
Cut(nums1, nums2, left, right) ==
  LET m == Len(nums1)
      n == Len(nums2)
      far == 1 + Max({Abs(v) : v \in ToSet(nums1 \o nums2)})
      i == Mid(left, right)
      j == (m + n + 1) \div 2 - i
      nums1Left == IF i = 0 THEN -far ELSE nums1[i]
      nums1Right == IF i = m THEN far ELSE nums1[i + 1]
      nums2Left == IF j = 0 THEN -far ELSE nums2[j]
      nums2Right == IF j = n THEN far ELSE nums2[j + 1]
      leftMax == Larger(nums1Left, nums2Left)
  IN IF ~TooFar(nums1Left, nums2Right) /\ ~TooFar(nums2Left, nums1Right)
       THEN IF (m + n) % 2 = 1 THEN 2 * leftMax ELSE leftMax + Smaller(nums1Right, nums2Right)
     ELSE IF TooFar(nums1Left, nums2Right) THEN Cut(nums1, nums2, left, i - 1)
     ELSE Cut(nums1, nums2, i + 1, right)

FindMedianSortedArrays(nums1, nums2) ==
  IF Len(nums1) > Len(nums2) THEN Cut(nums2, nums1, 0, Len(nums2))
  ELSE Cut(nums1, nums2, 0, Len(nums1))

MedianRight(nums1, nums2) ==
  LET median == FindMedianSortedArraysBruteForce(nums1, nums2) IN
  /\ FindMedianSortedArraysTwoPointers(nums1, nums2) = median
  /\ FindMedianSortedArrays(nums1, nums2) = median

\* The heaps as ascending sequences: the top of lower is its last.
Added(heap, num) == Ascending(Append(heap, num))

AddNum(finder, num) ==
  LET low == finder.lower = <<>> \/ num <= Last(finder.lower)
      lower == IF low THEN Added(finder.lower, num) ELSE finder.lower
      upper == IF low THEN finder.upper ELSE Added(finder.upper, num)
  IN IF Len(lower) > Len(upper) + 1
       THEN [lower |-> Front(lower), upper |-> Added(upper, Last(lower))]
     ELSE IF Len(upper) > Len(lower)
       THEN [lower |-> Added(lower, Head(upper)), upper |-> Tail(upper)]
     ELSE [lower |-> lower, upper |-> upper]

FindMedian(finder) ==
  IF Len(finder.lower) = Len(finder.upper) THEN Last(finder.lower) + Head(finder.upper)
  ELSE 2 * Last(finder.lower)

MedianFinderRight(nums) ==
  FindMedian(FoldLeft(AddNum, [lower |-> <<>>, upper |-> <<>>], nums)) = At2(Ascending(nums))

-----------------------------------------------------------------------------
(* Task Scheduler: a heap of the counts left, and a queue of cooling tasks.  *)

Counts(tasks) == [i \in 1..Cardinality(ToSet(tasks)) |-> Occurrences(tasks, SetToSeq(ToSet(tasks))[i])]

RECURSIVE Simulated(_, _, _, _)
Simulated(heap, cooling, time, cooldown) ==
  IF heap = <<>> /\ cooling = <<>> THEN time
  ELSE LET now == time + 1
           ready == SelectSeq(cooling, LAMBDA c : c.availableAt <= now)
           still == SelectSeq(cooling, LAMBDA c : c.availableAt > now)
           tops == Ascending(heap \o [i \in DOMAIN ready |-> ready[i].remaining])
           remaining == Last(tops) - 1
       IN IF tops = <<>> THEN Simulated(<<>>, still, now, cooldown)
          ELSE Simulated(Front(tops),
                 IF remaining > 0
                   THEN Append(still, [remaining |-> remaining, availableAt |-> now + cooldown + 1])
                   ELSE still, now, cooldown)

LeastIntervalSimulated(tasks, cooldown) == Simulated(Counts(tasks), <<>>, 0, cooldown)

LeastInterval(tasks, cooldown) ==
  LET most == Max(ToSet(Counts(tasks)))
  IN Larger(Len(tasks), (most - 1) * (cooldown + 1) + Occurrences(Counts(tasks), most))

\* The time at which the tasks are done when they are run in their order, each
\* as early as it may: after the one before it, and after the pause that the
\* last one like it asks for.
DoneInOrder(tasks, cooldown) ==
  LET at[i \in 0..Len(tasks)] ==
        IF i = 0 THEN 0
        ELSE Max({at[i - 1] + 1} \cup
                 {at[j] + cooldown + 1 : j \in {j \in 1..i - 1 : tasks[j] = tasks[i]}})
  IN at[Len(tasks)]

\* The least over all orders.
LeastIntervalRight(tasks, cooldown) ==
  LET orders == {[i \in DOMAIN tasks |-> tasks[p[i]]] : p \in Permutations(DOMAIN tasks)}
      least == Min({DoneInOrder(order, cooldown) : order \in orders})
  IN LeastIntervalSimulated(tasks, cooldown) = least /\ LeastInterval(tasks, cooldown) = least

-----------------------------------------------------------------------------
(* Smaller numbers after each: a merge sort of indices, and a Fenwick tree.  *)

RECURSIVE Merged(_, _, _, _, _, _), MergeSort(_, _, _)
Merged(nums, ls, rs, rightTaken, counts, out) ==
  IF ls = <<>> THEN [indices |-> out \o rs, counts |-> counts]
  ELSE IF rs # <<>> /\ nums[Head(rs)] < nums[Head(ls)]
    THEN Merged(nums, ls, Tail(rs), rightTaken + 1, counts, Append(out, Head(rs)))
  ELSE Merged(nums, Tail(ls), rs, rightTaken, [counts EXCEPT ![Head(ls)] = @ + rightTaken],
              Append(out, Head(ls)))

MergeSort(nums, indices, counts) ==
  LET mid == Mid(1, Len(indices))
      l == MergeSort(nums, SubSeq(indices, 1, mid), counts)
      r == MergeSort(nums, SubSeq(indices, mid + 1, Len(indices)), l.counts)
  IN IF Len(indices) <= 1 THEN [indices |-> indices, counts |-> counts]
     ELSE Merged(nums, l.indices, r.indices, 0, r.counts, <<>>)

CountSmaller(nums) == MergeSort(nums, Indices(nums), [i \in DOMAIN nums |-> 0]).counts

\* index & -index.
LowBit(index) == Max({d \in {1, 2, 4, 8, 16} : index % d = 0})

RECURSIVE UpdateTree(_, _), QueryTree(_, _)
UpdateTree(tree, index) ==
  IF index \notin DOMAIN tree THEN tree
  ELSE UpdateTree([tree EXCEPT ![index] = @ + 1], index + LowBit(index))
QueryTree(tree, index) ==
  IF index = 0 THEN 0 ELSE tree[index] + QueryTree(tree, index - LowBit(index))

CountSmallerFenwick(nums) ==
  LET Rank(num) == Cardinality({v \in ToSet(nums) : v <= num})
      size == Cardinality(ToSet(nums)) + 1
  IN FoldRight(LAMBDA num, acc :
        [counts |-> <<QueryTree(acc.tree, Rank(num) - 1)>> \o acc.counts,
         tree |-> UpdateTree(acc.tree, Rank(num))],
      nums, [counts |-> <<>>, tree |-> [i \in 1..size |-> 0]]).counts

CountSmallerBruteForce(nums) ==
  [i \in DOMAIN nums |-> Cardinality({j \in i + 1..Len(nums) : nums[j] < nums[i]})]

CountSmallerRight(nums) ==
  /\ CountSmaller(nums) = CountSmallerBruteForce(nums)
  /\ CountSmallerFenwick(nums) = CountSmallerBruteForce(nums)

-----------------------------------------------------------------------------
\* Every search finds what its problem asks for, at the ends of its range too:
\* no half that holds the answer is given up, with ties, empty arrays and cuts
\* at either end.
SearchesRight(nums) ==
  nums # <<>> =>
    LET naturals == Shifted(nums, 1) IN
    /\ RotatedSearchRight(Len(nums))
    /\ \A h \in 1..Len(nums) + 3 : EatingSpeedRight(Shifted(nums, 2), h)
    /\ \A m \in 1..Len(nums) : SplitArrayRight(naturals, m)
    /\ \A n \in 0..Len(nums) : MedianRight(Ascending(SubSeq(nums, 1, n)),
                                           Ascending(SubSeq(nums, n + 1, Len(nums))))
    /\ MedianFinderRight(nums)
    /\ \A cooldown \in 0..3 : LeastIntervalRight(nums, cooldown)
    /\ CountSmallerRight(nums)
=============================================================================
