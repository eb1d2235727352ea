--------------------------- MODULE WindowsAndStacks ---------------------------
(* Solutions that slide a window, or keep a stack, over a sequence            *)
(* (02-standard-problems, 03-advanced-problems), each next to the plain       *)
(* definition of what it computes.  Letters and digits are numbers.           *)
EXTENDS ArrayScans

Indices(s) == [i \in 1..Len(s) |-> i]

\* while (stack.Count > 0 && Test(stack.Peek())) stack.Pop(), at most `most` times.
PopWhile(stack, Test(_), most) ==
  LET keep == {n \in 0..Len(stack) : n = 0 \/ Len(stack) - n >= most \/ ~Test(stack[n])}
  IN SubSeq(stack, 1, Max(keep))

-----------------------------------------------------------------------------
(* Windows: the state is the left end, and what is known of the window.      *)

\* The first letters leave until the next one can be added.
LongestByWindow(s) ==
  FoldLeft(LAMBDA acc, right :
      LET left == Min({l \in acc.left..right : s[right] \notin {s[j] : j \in l..right - 1}})
      IN [left |-> left, best |-> Larger(acc.best, right - left + 1)],
    [left |-> 1, best |-> 0], Indices(s)).best

\* left jumps past the last place of the letter, and never goes back.
LengthOfLongestSubstring(s) ==
  FoldLeft(LAMBDA acc, right :
      LET lastSeen == Max({0} \cup {j \in 1..right - 1 : s[j] = s[right]})
          left == Larger(acc.left, lastSeen + 1)
      IN [left |-> left, best |-> Larger(acc.best, right - left + 1)],
    [left |-> 1, best |-> 0], Indices(s)).best

LongestSubstringRight(s) ==
  LET best == Max({ij[2] - ij[1] + 1 : ij \in {kl \in Segments(s) : IsInjective(Segment(s, kl))}})
  IN LengthOfLongestSubstring(s) = best /\ LongestByWindow(s) = best

\* maxFrequency is not lowered when the window shrinks.
CharacterReplacement(s, k) ==
  FoldLeft(LAMBDA acc, right :
      LET most == Larger(acc.maxFrequency, Occurrences(SubSeq(s, acc.left, right), s[right]))
          left == Larger(acc.left, right + 1 - most - k)
      IN [left |-> left, maxFrequency |-> most, best |-> Larger(acc.best, right - left + 1)],
    [left |-> 1, maxFrequency |-> 0, best |-> 0], Indices(s)).best

CharacterReplacementRight(s, k) ==
  CharacterReplacement(s, k) =
    Max({0} \cup {Len(w) : w \in {v \in {Segment(s, ij) : ij \in Segments(s)} :
                                    \E ch \in ToSet(v) : Len(v) - Occurrences(v, ch) <= k}})

RECURSIVE Shrunk(_, _, _, _)
\* while (formed == required): the window is recorded, its first letter leaves.
Shrunk(s, need, right, acc) ==
  IF acc.formed # Cardinality({ch \in DOMAIN need : need[ch] > 0}) THEN acc
  ELSE LET ch == s[acc.left]
           better == acc.bestLength = 0 \/ right - acc.left + 1 < acc.bestLength
       IN Shrunk(s, need, right,
            [left |-> acc.left + 1,
             window |-> [acc.window EXCEPT ![ch] = @ - 1],
             formed |-> IF need[ch] > 0 /\ acc.window[ch] - 1 < need[ch]
                          THEN acc.formed - 1 ELSE acc.formed,
             bestStart |-> IF better THEN acc.left ELSE acc.bestStart,
             bestLength |-> IF better THEN right - acc.left + 1 ELSE acc.bestLength])

MinWindow(s, t) ==
  LET letters == ToSet(s) \cup ToSet(t)
      need == [ch \in letters |-> Occurrences(t, ch)]
      end == FoldLeft(LAMBDA acc, right :
          LET window == [acc.window EXCEPT ![s[right]] = @ + 1]
              formed == IF need[s[right]] > 0 /\ window[s[right]] = need[s[right]]
                          THEN acc.formed + 1 ELSE acc.formed
          IN Shrunk(s, need, right, [acc EXCEPT !.window = window, !.formed = formed]),
        [left |-> 1, window |-> [ch \in letters |-> 0], formed |-> 0,
         bestStart |-> 1, bestLength |-> 0], Indices(s))
  IN IF Len(s) < Len(t) THEN <<>> ELSE SubSeq(s, end.bestStart, end.bestStart + end.bestLength - 1)

MinWindowRight(s, t) ==
  LET covering == {w \in {Segment(s, ij) : ij \in Segments(s)} :
                     \A ch \in ToSet(t) : Occurrences(w, ch) >= Occurrences(t, ch)}
  IN IF covering = {} THEN MinWindow(s, t) = <<>>
     ELSE MinWindow(s, t) \in {w \in covering : \A v \in covering : Len(w) <= Len(v)}

\* For every right end, the least left end whose product is below k.
NumSubarrayProductLessThanK(nums, k) ==
  IF k <= 1 THEN 0
  ELSE FoldLeft(LAMBDA acc, right :
      LET left == Min({l \in acc.left..right + 1 : Product(SubSeq(nums, l, right)) < k})
      IN [left |-> left, count |-> acc.count + right - left + 1],
    [left |-> 1, count |-> 0], Indices(nums)).count

SubarrayProductRight(nums, k) ==
  NumSubarrayProductLessThanK(nums, k) =
    Cardinality({ij \in Segments(nums) : Product(Segment(nums, ij)) < k})

\* A deque of indices whose numbers descend; its first is the window's maximum.
MaxSlidingWindow(nums, k) ==
  FoldLeft(LAMBDA acc, i :
      LET inside == SelectSeq(acc.deque, LAMBDA j : j > i - k)
          deque == Append(PopWhile(inside, LAMBDA j : nums[j] <= nums[i], Len(nums)), i)
      IN [deque |-> deque,
          result |-> IF i >= k THEN Append(acc.result, nums[deque[1]]) ELSE acc.result],
    [deque |-> <<>>, result |-> <<>>], Indices(nums)).result

\* A heap of numbers with their indices, from whose top those outside the
\* window are dropped; among equal numbers any may be on top.
MaxSlidingWindowByHeap(nums, k) ==
  LET n == Len(nums)
      heap[i \in 0..n] ==
        IF i = 0 THEN {}
        ELSE LET added == heap[i - 1] \cup {i}
                 live == {j \in added : j > i - k}
                 top == Max({nums[j] : j \in live})
             IN {j \in added : j \in live \/ nums[j] <= top}
  IN [m \in 1..n - k + 1 |-> Max({nums[j] : j \in heap[m + k - 1]})]

MaxSlidingWindowRight(nums, k) ==
  LET maxima == [m \in 1..Len(nums) - k + 1 |-> Max({nums[j] : j \in m..m + k - 1})]
  IN MaxSlidingWindow(nums, k) = maxima /\ MaxSlidingWindowByHeap(nums, k) = maxima

-----------------------------------------------------------------------------
(* Stacks.                                                                   *)

\* Brackets: an opening one, positive, is closed by its negative.
IsValid(s) ==
  LET end == FoldLeft(LAMBDA acc, ch :
          IF ch > 0 THEN [acc EXCEPT !.stack = Append(@, -ch)]
          ELSE IF acc.stack = <<>> \/ Last(acc.stack) # ch THEN [acc EXCEPT !.ok = FALSE]
          ELSE [acc EXCEPT !.stack = Front(@)],
        [stack |-> <<>>, ok |-> TRUE], s)
  IN end.ok /\ end.stack = <<>>

RECURSIVE Balanced(_)
Balanced(s) ==
  \/ s = <<>>
  \/ \E i \in 1..Len(s) - 1 : s[i] > 0 /\ s[i + 1] = -s[i] /\ Balanced(RemoveAt(RemoveAt(s, i), i))

\* Two rounds over the circle; the numbers wait for a greater one on the stack.
NextGreaterElements(nums) ==
  LET n == Len(nums) IN
  FoldLeft(LAMBDA acc, i :
      LET index == ((i - 1) % n) + 1
          stack == PopWhile(acc.stack, LAMBDA j : nums[j] < nums[index], n)
          popped == {acc.stack[d] : d \in Len(stack) + 1..Len(acc.stack)}
      IN [stack |-> IF i <= n THEN Append(stack, index) ELSE stack,
          result |-> [j \in 1..n |-> IF j \in popped THEN nums[index] ELSE acc.result[j]]],
    [stack |-> <<>>, result |-> [j \in 1..n |-> -1]], [i \in 1..2 * n |-> i]).result

NextGreaterRight(nums) ==
  LET n == Len(nums)
      At(i, d) == nums[((i + d - 1) % n) + 1]
      greater(i) == {d \in 1..n : At(i, d) > nums[i]}
  IN NextGreaterElements(nums) =
       [i \in 1..n |-> IF greater(i) = {} THEN -1 ELSE At(i, Min(greater(i)))]

\* Mutant: digits that are equal are popped as well.
FallsOrStays(top, digit) == top >= digit
Falls(top, digit) == top > digit

WithoutZeros(num) == SubSeq(num, Min({i \in 1..Len(num) + 1 : i > Len(num) \/ num[i] # 0}), Len(num))
OrZero(num) == IF num = <<>> THEN <<0>> ELSE num

\* A digit drops the greater ones before it while k allows; then the last
\* digits go, and the leading zeros.
RemoveKdigits(num, k) ==
  LET end == FoldLeft(LAMBDA acc, digit :
          LET stack == PopWhile(acc.stack, LAMBDA top : Falls(top, digit), acc.k)
          IN [stack |-> Append(stack, digit), k |-> acc.k - (Len(acc.stack) - Len(stack))],
        [stack |-> <<>>, k |-> k], num)
  IN OrZero(WithoutZeros(SubSeq(end.stack, 1, Len(end.stack) - end.k)))

Kept(num, places) == [i \in 1..Cardinality(places) |-> num[SetToSortSeq(places, <)[i]]]

RemoveKdigitsRight(num, k) ==
  LET left == {Kept(num, places) : places \in kSubset(Len(num) - k, DOMAIN num)}
      least == CHOOSE t \in left : \A u \in left : t = u \/ Below(t, u)
  IN RemoveKdigits(num, k) = OrZero(WithoutZeros(least))

\* For each bar the nearest lower one in the order of the pass, or none.
NearestSmaller(heights, order, none) ==
  FoldLeft(LAMBDA acc, i :
      LET stack == PopWhile(acc.stack, LAMBDA j : heights[j] >= heights[i], Len(heights))
      IN [stack |-> Append(stack, i),
          found |-> [acc.found EXCEPT ![i] = IF stack = <<>> THEN none ELSE Last(stack)]],
    [stack |-> <<>>, found |-> [i \in DOMAIN heights |-> none]], order).found

LargestRectangleArea(heights) ==
  LET n == Len(heights)
      leftSmaller == NearestSmaller(heights, Indices(heights), 0)
      rightSmaller == NearestSmaller(heights, Reverse(Indices(heights)), n + 1)
  IN Max({0} \cup {heights[i] * (rightSmaller[i] - leftSmaller[i] - 1) : i \in 1..n})

LargestRectangleRight(heights) ==
  LargestRectangleArea(heights) =
    Max({(ij[2] - ij[1] + 1) * Min(ToSet(Segment(heights, ij))) : ij \in Segments(heights)})

RECURSIVE Collide(_, _), Settled(_)
\* A new asteroid against the stack: it destroys, is destroyed, or both go.
Collide(stack, current) ==
  IF current >= 0 \/ stack = <<>> \/ Last(stack) <= 0 THEN Append(stack, current)
  ELSE IF Last(stack) < -current THEN Collide(Front(stack), current)
  ELSE IF Last(stack) = -current THEN Front(stack)
  ELSE stack

AsteroidCollision(asteroids) == FoldLeft(Collide, <<>>, asteroids)

\* The first pair that collides is resolved, and the scan starts again.
Settled(current) ==
  LET pairs == {i \in 1..Len(current) - 1 : current[i] > 0 /\ current[i + 1] < 0}
      i == Min(pairs)
      left == current[i]
      right == -current[i + 1]
  IN IF pairs = {} THEN current
     ELSE IF left > right THEN Settled(RemoveAt(current, i + 1))
     ELSE IF left < right THEN Settled(RemoveAt(current, i))
     ELSE Settled(RemoveAt(RemoveAt(current, i + 1), i))

AsteroidsRight(asteroids) == AsteroidCollision(asteroids) = Settled(asteroids)

\* Cars in the order of the road, the foremost last, that all drive to the
\* target; Later compares the times the quotients of whole numbers stand for.
Distances(speed) == [i \in DOMAIN speed |-> Len(speed) + 1 - i]
Later(speed, i, j) == Distances(speed)[i] * speed[j] > Distances(speed)[j] * speed[i]

\* A car that is not later than the fleet ahead joins it.
CarFleet(speed) ==
  FoldRight(LAMBDA i, acc :
      IF acc.count = 0 \/ Later(speed, i, acc.last)
        THEN [count |-> acc.count + 1, last |-> i] ELSE acc,
    Indices(speed), [count |-> 0, last |-> 0]).count

RECURSIVE FleetsMerged(_, _)
\* Approach 1: a car is removed when it is not later than the one ahead of it.
FleetsMerged(speed, cars) ==
  LET joins == {c \in 1..Len(cars) - 1 : ~Later(speed, cars[c], cars[c + 1])}
  IN IF joins = {} THEN Len(cars) ELSE FleetsMerged(speed, RemoveAt(cars, Max(joins)))

CarFleetRight(speed) ==
  LET leaders == {i \in DOMAIN speed : \A j \in i + 1..Len(speed) : Later(speed, i, j)}
  IN /\ CarFleet(speed) = Cardinality(leaders)
     /\ FleetsMerged(speed, Indices(speed)) = Cardinality(leaders)

\* The part ends where the index reaches the farthest last place seen.
PartitionLabels(s) ==
  FoldLeft(LAMBDA acc, i :
      LET end == Larger(acc.end, Max({j \in DOMAIN s : s[j] = s[i]}))
      IN IF i = end THEN [result |-> Append(acc.result, end - acc.start + 1), start |-> i + 1, end |-> end]
         ELSE [acc EXCEPT !.end = end],
    [result |-> <<>>, start |-> 1, end |-> 0], Indices(s)).result

LastIndex(s, target) == Max({i \in DOMAIN s : s[i] = target})

RECURSIVE PartitionLabelsFrom(_, _, _, _)
\* The part grows to the last place of every letter met in it.
PartitionLabelsFrom(s, start, i, end) ==
  IF i < end THEN PartitionLabelsFrom(s, start, i + 1, Larger(end, LastIndex(s, s[i])))
  ELSE <<end - start + 1>> \o
       (IF end = Len(s) THEN <<>>
        ELSE PartitionLabelsFrom(s, end + 1, end + 1, LastIndex(s, s[end + 1])))
PartitionLabelsBruteForce(s) == PartitionLabelsFrom(s, 1, 1, LastIndex(s, s[1]))

\* The sums of the first parts are the places with no letter on both sides.
PartitionLabelsRight(s) ==
  LET parts == PartitionLabels(s)
      cuts == {i \in DOMAIN s : ToSet(SubSeq(s, 1, i)) \cap ToSet(SubSeq(s, i + 1, Len(s))) = {}}
  IN /\ {Sum(SubSeq(parts, 1, p)) : p \in DOMAIN parts} = cuts /\ Len(parts) = Cardinality(cuts)
     /\ PartitionLabelsBruteForce(s) = parts

-----------------------------------------------------------------------------
\* Every window and every stack gives what its problem asks for: an element that
\* was dropped from the left end or popped is never needed again, whatever the
\* ties, the lengths and the bounds.
WindowsRight(nums) ==
  nums # <<>> =>
    LET naturals == Shifted(nums, 1)
        positives == Shifted(nums, 2)
        brackets == [i \in DOMAIN nums |-> IF nums[i] = 0 THEN -2 ELSE nums[i]]
    IN /\ LongestSubstringRight(nums)
       /\ \A k \in 0..2 : CharacterReplacementRight(nums, k)
       /\ \A n \in 1..Smaller(2, Len(nums)) : MinWindowRight(SubSeq(nums, n + 1, Len(nums)), SubSeq(nums, 1, n))
       /\ \A k \in {0, 1, 2, 5, 9} : SubarrayProductRight(positives, k)
       /\ \A k \in 1..Len(nums) : MaxSlidingWindowRight(nums, k)
       /\ IsValid(brackets) = Balanced(brackets)
       /\ NextGreaterRight(nums) /\ LargestRectangleRight(naturals)
       /\ \A k \in 0..Len(nums) : RemoveKdigitsRight(naturals, k)
       /\ AsteroidsRight(nums) /\ AsteroidsRight(Shifted(nums, -1))
       /\ CarFleetRight(positives) /\ PartitionLabelsRight(nums)
=============================================================================
