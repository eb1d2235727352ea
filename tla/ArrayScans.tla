------------------------------ MODULE ArrayScans ------------------------------
(* Solutions of the array problems in 02-standard-problems: one pass, two     *)
(* pointers, or marks in the array, each next to the plain definition of what *)
(* it computes.  A sequence counts from 1 where the C# arrays count from 0.   *)
EXTENDS Integers, Sequences, FiniteSetsExt, SequencesExt

Larger(a, b) == IF a > b THEN a ELSE b
Smaller(a, b) == IF a < b THEN a ELSE b
Abs(a) == IF a < 0 THEN -a ELSE a
Sum(s) == SumFunction(s)
Product(s) ==
  LET product[i \in 0..Len(s)] == IF i = 0 THEN 1 ELSE product[i - 1] * s[i]
  IN product[Len(s)]
Occurrences(s, v) == Cardinality({i \in DOMAIN s : s[i] = v})

\* The non-empty segments of s, as pairs of a first and a last index.
Segments(s) == {ij \in (DOMAIN s) \X (DOMAIN s) : ij[1] <= ij[2]}
Segment(s, ij) == SubSeq(s, ij[1], ij[2])

-----------------------------------------------------------------------------
MaxSubArray(nums) ==
  LET n == Len(nums)
      running[i \in 1..n] == IF i = 1 THEN nums[1] ELSE Larger(nums[i], running[i - 1] + nums[i])
      best[i \in 1..n] == IF i = 1 THEN nums[1] ELSE Larger(best[i - 1], running[i])
  IN best[n]

MaxSubArrayRight(nums) ==
  MaxSubArray(nums) = Max({Sum(Segment(nums, ij)) : ij \in Segments(nums)})

\* From the last day to the first.
MaxProfit(prices) ==
  LET n == Len(prices)
      maxSell[i \in 1..n] == IF i = n THEN prices[n] ELSE Larger(maxSell[i + 1], prices[i])
      best[i \in 1..n] == IF i = n THEN 0 ELSE Larger(best[i + 1], maxSell[i + 1] - prices[i])
  IN IF n = 0 THEN 0 ELSE best[1]

MaxProfitRight(prices) ==
  MaxProfit(prices) = Max({prices[ij[2]] - prices[ij[1]] : ij \in Segments(prices)})

\* Mutant: the product goes on over a zero.
SignedPastZero(product, num) == product * num
Signed(product, num) == (IF product = 0 THEN 1 ELSE product) * num

\* Prefixes and suffixes grow together; a zero starts a new one.
MaxProduct(nums) ==
  LET n == Len(nums)
      prefix[i \in 0..n] == IF i = 0 THEN 1 ELSE Signed(prefix[i - 1], nums[i])
      suffix[i \in 0..n] == IF i = 0 THEN 1 ELSE Signed(suffix[i - 1], nums[n + 1 - i])
  IN Max({prefix[i] : i \in 1..n} \cup {suffix[i] : i \in 1..n})

MaxProductRight(nums) ==
  MaxProduct(nums) = Max({Product(Segment(nums, ij)) : ij \in Segments(nums)})

\* Boyer-Moore: a candidate and how far it leads.
Lead(acc, num) ==
  LET candidate == IF acc.count = 0 THEN num ELSE acc.candidate
  IN [candidate |-> candidate, count |-> acc.count + (IF num = candidate THEN 1 ELSE -1)]

MajorityElement(nums) ==
  LET lead[i \in 0..Len(nums)] ==
        IF i = 0 THEN [candidate |-> 0, count |-> 0] ELSE Lead(lead[i - 1], nums[i])
  IN lead[Len(nums)].candidate

MajorityRight(nums) ==
  \A v \in ToSet(nums) : 2 * Occurrences(nums, v) > Len(nums) => MajorityElement(nums) = v

ProductExceptSelf(nums) ==
  LET n == Len(nums)
      prefix[i \in 1..n] == IF i = 1 THEN 1 ELSE prefix[i - 1] * nums[i - 1]
      suffix[i \in 1..n] == IF i = n THEN 1 ELSE suffix[i + 1] * nums[i + 1]
  IN [i \in 1..n |-> prefix[i] * suffix[i]]

ProductExceptSelfRight(nums) ==
  ProductExceptSelf(nums) = [i \in DOMAIN nums |-> Product(RemoveAt(nums, i))]

\* The sums of the prefixes seen so far take the place of prefixCount.
Counted(acc, num, k) ==
  LET sum == acc.sum + num
  IN [sum |-> sum, count |-> acc.count + Occurrences(acc.seen, sum - k),
      seen |-> Append(acc.seen, sum)]

SubarraySum(nums, k) ==
  LET counted[i \in 0..Len(nums)] ==
        IF i = 0 THEN [sum |-> 0, count |-> 0, seen |-> <<0>>]
        ELSE Counted(counted[i - 1], nums[i], k)
  IN counted[Len(nums)].count

SubarraySumRight(nums, k) ==
  SubarraySum(nums, k) = Cardinality({ij \in Segments(nums) : Sum(Segment(nums, ij)) = k})

\* Only a number whose predecessor is missing starts a run.
LongestConsecutive(nums) ==
  LET values == ToSet(nums)
      Length(num) == Min({l \in 1..Len(nums) : num + l \notin values})
  IN Max({0} \cup {Length(num) : num \in {v \in values : v - 1 \notin values}})

LongestConsecutiveRight(nums) ==
  LET values == ToSet(nums)
      runs == {u..v : u, v \in values} \cap SUBSET values
  IN LongestConsecutive(nums) = Max({Cardinality(run) : run \in runs})

-----------------------------------------------------------------------------
(* Marks and cycles: n numbers that index the array they are in.             *)

\* A number is negated when its index is met, so a negative one was met before.
Marked(acc, i) ==
  LET index == Abs(acc.nums[i]) IN
  IF acc.nums[index] < 0 THEN [acc EXCEPT !.result = Append(@, index)]
  ELSE [acc EXCEPT !.nums[index] = -@]

FindDuplicates(nums) ==
  LET marked[i \in 0..Len(nums)] ==
        IF i = 0 THEN [nums |-> nums, result |-> <<>>] ELSE Marked(marked[i - 1], i)
  IN marked[Len(nums)].result

FindDuplicatesRight(nums) ==
  (\A v \in ToSet(nums) : v \in 1..Len(nums) /\ Occurrences(nums, v) <= 2) =>
    /\ ToSet(FindDuplicates(nums)) = {v \in ToSet(nums) : Occurrences(nums, v) = 2}
    /\ IsInjective(FindDuplicates(nums))

\* Floyd: the hare moves two steps until it meets the tortoise, and then both
\* move one, the tortoise from the start.  path[k] is k steps from the start.
FindDuplicate(nums) ==
  LET n == Len(nums)
      path[k \in 0..2 * n] == IF k = 0 THEN nums[1] ELSE nums[path[k - 1] + 1]
      meet == Min({k \in 1..n : path[k] = path[2 * k]})
      together == Min({k \in 0..n : path[k] = path[meet + k]})
  IN path[together]

FindDuplicateRight(nums) ==
  LET repeated == {v \in ToSet(nums) : Occurrences(nums, v) > 1} IN
  Len(nums) > 1 /\ ToSet(nums) \subseteq 1..Len(nums) - 1 /\ Cardinality(repeated) = 1 =>
    FindDuplicate(nums) \in repeated

-----------------------------------------------------------------------------
(* Permutations in place.                                                    *)

Swap(s, i, j) == [s EXCEPT ![i] = s[j], ![j] = s[i]]
Sorted(s) == \A i \in 1..Len(s) - 1 : s[i] <= s[i + 1]
SameElements(s, t) == Len(s) = Len(t) /\ \A v \in ToSet(s) : Occurrences(s, v) = Occurrences(t, v)

\* One turn of the loop.  Each takes one number off mid..high, so that Len(nums)
\* turns end it.
Colored(s) ==
  IF s.mid > s.high THEN s
  ELSE IF s.nums[s.mid] = 0
    THEN [nums |-> Swap(s.nums, s.low, s.mid), low |-> s.low + 1, mid |-> s.mid + 1, high |-> s.high]
  ELSE IF s.nums[s.mid] = 1 THEN [s EXCEPT !.mid = @ + 1]
  ELSE [s EXCEPT !.nums = Swap(@, s.mid, s.high), !.high = @ - 1]

SortColors(nums) ==
  LET colored[i \in 0..Len(nums)] ==
        IF i = 0 THEN [nums |-> nums, low |-> 1, mid |-> 1, high |-> Len(nums)]
        ELSE Colored(colored[i - 1])
  IN colored[Len(nums)].nums

SortColorsRight(nums) ==
  ToSet(nums) \subseteq {0, 1, 2} =>
    Sorted(SortColors(nums)) /\ SameElements(nums, SortColors(nums))

Reversed(s, left, right) ==
  [i \in DOMAIN s |-> IF i \in left..right THEN s[left + right - i] ELSE s[i]]

Rotate(nums, k) ==
  LET n == Len(nums) IN
  Reversed(Reversed(Reversed(nums, 1, n), 1, k % n), (k % n) + 1, n)

RotateRight(nums, k) ==
  Rotate(nums, k) = [i \in DOMAIN nums |-> nums[((i - 1 - k) % Len(nums)) + 1]]

\* The pivot is the last ascent, its successor the last number above it.
NextPermutation(nums) ==
  LET n == Len(nums)
      ascents == {i \in 1..n - 1 : nums[i] < nums[i + 1]}
      pivot == Max({0} \cup ascents)
      successor == Max({i \in 1..n : nums[i] > nums[pivot]})
  IN Reversed(IF pivot = 0 THEN nums ELSE Swap(nums, pivot, successor), pivot + 1, n)

Below(s, t) ==
  \E i \in DOMAIN s : s[i] < t[i] /\ \A j \in 1..i - 1 : s[j] = t[j]

NextPermutationRight(nums) ==
  LET next == NextPermutation(nums)
      all == {t \in [DOMAIN nums -> ToSet(nums)] : SameElements(nums, t)}
  IN IF \E t \in all : Below(nums, t)
       THEN /\ next \in all /\ Below(nums, next)
            /\ \A t \in all : Below(nums, t) => t = next \/ Below(next, t)
       ELSE next \in all /\ Sorted(next)

-----------------------------------------------------------------------------
(* Two pointers over heights.                                                *)

\* One turn of each loop: the lower of the two ends moves inwards.
Narrowed(height, s) ==
  IF s.left >= s.right THEN s
  ELSE LET area == (s.right - s.left) * Smaller(height[s.left], height[s.right])
           onLeft == height[s.left] < height[s.right]
       IN [left |-> IF onLeft THEN s.left + 1 ELSE s.left,
           right |-> IF onLeft THEN s.right ELSE s.right - 1,
           best |-> Larger(s.best, area)]

MaxArea(height) ==
  LET narrowed[i \in 0..Len(height)] ==
        IF i = 0 THEN [left |-> 1, right |-> Len(height), best |-> 0]
        ELSE Narrowed(height, narrowed[i - 1])
  IN narrowed[Len(height)].best

MaxAreaRight(height) ==
  MaxArea(height) =
    Max({(ij[2] - ij[1]) * Smaller(height[ij[1]], height[ij[2]]) : ij \in Segments(height)})

Watered(height, s) ==
  IF s.left >= s.right THEN s
  ELSE IF height[s.left] < height[s.right]
    THEN LET m == Larger(s.maxLeft, height[s.left])
         IN [s EXCEPT !.left = @ + 1, !.maxLeft = m, !.water = @ + m - height[s.left]]
    ELSE LET m == Larger(s.maxRight, height[s.right])
         IN [s EXCEPT !.right = @ - 1, !.maxRight = m, !.water = @ + m - height[s.right]]

Trap(height) ==
  LET watered[i \in 0..Len(height)] ==
        IF i = 0 THEN [left |-> 1, right |-> Len(height), maxLeft |-> 0, maxRight |-> 0, water |-> 0]
        ELSE Watered(height, watered[i - 1])
  IN watered[Len(height)].water

TrapByMaxima(height) ==
  LET n == Len(height)
      prefixMax[i \in 1..n] == IF i = 1 THEN height[1] ELSE Larger(prefixMax[i - 1], height[i])
      suffixMax[i \in 1..n] == IF i = n THEN height[n] ELSE Larger(suffixMax[i + 1], height[i])
  IN Sum([i \in 1..n |-> Smaller(prefixMax[i], suffixMax[i]) - height[i]])

\* Water stands in a cell of a level that has a bar of that level on each side.
TrapRight(height) ==
  LET n == Len(height)
      cells == {cell \in (1..n) \X (1..Max(ToSet(height))) :
        /\ height[cell[1]] < cell[2]
        /\ \E i \in 1..cell[1], j \in cell[1]..n : height[i] >= cell[2] /\ height[j] >= cell[2]}
  IN Trap(height) = Cardinality(cells) /\ TrapByMaxima(height) = Cardinality(cells)

-----------------------------------------------------------------------------
Shifted(nums, by) == [i \in DOMAIN nums |-> nums[i] + by]

\* Every solution returns what its problem asks for: the tricks that spare a
\* second pass (a candidate, a sign, a pointer that never goes back) lose
\* nothing, whatever the numbers, their repetitions, zeros and signs.
ArraysRight(nums) ==
  nums # <<>> =>
    /\ MaxSubArrayRight(nums) /\ MaxProfitRight(nums) /\ MaxProductRight(nums)
    /\ MajorityRight(nums) /\ ProductExceptSelfRight(nums)
    /\ \A k \in -1..1 : SubarraySumRight(nums, k)
    /\ LongestConsecutiveRight(nums)
    /\ SortColorsRight(nums) /\ NextPermutationRight(nums)
    /\ \A k \in 0..Len(nums) : RotateRight(nums, k)
    /\ FindDuplicatesRight(Shifted(nums, 2)) /\ FindDuplicateRight(Shifted(nums, 2))
    /\ MaxAreaRight(Shifted(nums, 1)) /\ TrapRight(Shifted(nums, 1))
=============================================================================
