-------------------------- MODULE DynamicProgrammes ---------------------------
(* Greedy and dynamic-programming solutions (02-standard-problems,            *)
(* 03-advanced-problems), each next to the plain definition of what it        *)
(* computes.  A table that is filled row by row is a recursive function.      *)
EXTENDS Searches

-----------------------------------------------------------------------------
(* Jumps and stations.                                                       *)

CanJump(nums) ==
  FoldLeft(LAMBDA acc, i :
      IF ~acc.ok \/ i > acc.maxReach THEN [acc EXCEPT !.ok = FALSE]
      ELSE [acc EXCEPT !.maxReach = Larger(@, i + nums[i])],
    [ok |-> TRUE, maxReach |-> 1], Indices(nums)).ok

Jump(nums) ==
  FoldLeft(LAMBDA acc, i :
      LET farthest == Larger(acc.farthest, i + nums[i]) IN
      IF i = acc.currentEnd
        THEN [jumps |-> acc.jumps + 1, currentEnd |-> farthest, farthest |-> farthest]
        ELSE [acc EXCEPT !.farthest = farthest],
    [jumps |-> 0, currentEnd |-> 1, farthest |-> 1], Indices(Front(nums))).jumps

JumpsRight(nums) ==
  LET n == Len(nums)
      reached[d \in 0..n] ==
        IF d = 0 THEN {1}
        ELSE {j \in 1..n : \E i \in reached[d - 1] : j \in i..i + nums[i]}
  IN /\ CanJump(nums) <=> n \in reached[n]
     /\ n \in reached[n] => Jump(nums) = Min({d \in 0..n : n \in reached[d]})

\* The start is moved behind every place where the tank would run dry; 0 is the
\* code's -1.
CanCompleteCircuit(gas, cost) ==
  LET end == FoldLeft(LAMBDA acc, i :
          LET diff == gas[i] - cost[i] IN
          IF acc.tank + diff < 0 THEN [total |-> acc.total + diff, tank |-> 0, start |-> i + 1]
          ELSE [total |-> acc.total + diff, tank |-> acc.tank + diff, start |-> acc.start],
        [total |-> 0, tank |-> 0, start |-> 1], Indices(gas))
  IN IF end.total >= 0 THEN end.start ELSE 0

CircuitRight(gas, cost) ==
  LET n == Len(gas)
      diff == [i \in 1..n |-> gas[i] - cost[i]]
      starts == {s \in 1..n : \A l \in 1..n : Sum(SubSeq(diff \o diff, s, s + l - 1)) >= 0}
  IN IF starts = {} THEN CanCompleteCircuit(gas, cost) = 0
     ELSE CanCompleteCircuit(gas, cost) \in starts

-----------------------------------------------------------------------------
(* Tables over one sequence.                                                 *)

ClimbStairs(n) ==
  LET dp[i \in 0..n] == IF i <= 2 THEN i ELSE dp[i - 1] + dp[i - 2] IN dp[n]

ClimbRight(n) ==
  ClimbStairs(n) = Cardinality({s \in UNION {[1..l -> {1, 2}] : l \in 1..n} : Sum(s) = n})

UniquePaths(m, n) ==
  LET dp[r \in 1..m, c \in 1..n] ==
        IF r = 1 \/ c = 1 THEN 1 ELSE dp[r - 1, c] + dp[r, c - 1]
  IN dp[m, n]

\* The steps down among all steps.
UniquePathsRight(m, n) ==
  UniquePaths(m, n) = Cardinality(kSubset(m - 1, 1..m + n - 2))

\* Mutant: the neighbour's house is robbed as well.
TwoBackOff(i) == i - 1
TwoBack(i) == i - 2

\* Mutant: the first house is forgotten when the second is filled in.
UpToSecondOnly(nums) == nums[2]
UpToSecond(nums) == Larger(nums[1], nums[2])

\* The table of the loop, over its first two entries.
Robbed(nums, first, second) ==
  LET dp[i \in DOMAIN nums] ==
        CASE i = 1 -> first
          [] i = 2 -> second
          [] OTHER -> Larger(nums[i] + dp[TwoBack(i)], dp[i - 1])
  IN dp

Rob(nums) ==
  CASE nums = <<>> -> 0
    [] Len(nums) = 1 -> nums[1]
    [] OTHER -> Robbed(nums, nums[1], UpToSecond(nums))[Len(nums)]

\* Without the last house, and without the first.
RobCircle(nums) ==
  LET n == Len(nums)
      takeFirst == Robbed(nums, nums[1], UpToSecond(nums))
      skipFirst == Robbed(nums, 0, nums[2])
  IN CASE n = 0 -> 0
       [] n = 1 -> nums[1]
       [] n = 2 -> Larger(nums[1], nums[2])
       [] OTHER -> Larger(takeFirst[n - 1], skipFirst[n])

LootOf(nums, houses) == MapThenSumSet(LAMBDA i : nums[i], houses)
RobRight(nums) ==
  LET n == Len(nums)
      quiet == {houses \in SUBSET (1..n) : \A i \in houses : i + 1 \notin houses}
      circle == {houses \in quiet : n > 1 => ~({1, n} \subseteq houses)}
  IN /\ Rob(nums) = Max({LootOf(nums, houses) : houses \in quiet})
     /\ RobCircle(nums) = Max({LootOf(nums, houses) : houses \in circle})

NumDecodings(s) ==
  LET dp[i \in 0..Len(s)] ==
        IF i <= 1 THEN 1
        ELSE (IF s[i] # 0 THEN dp[i - 1] ELSE 0)
             + (IF s[i - 1] * 10 + s[i] \in 10..26 THEN dp[i - 2] ELSE 0)
  IN IF s[1] = 0 THEN 0 ELSE dp[Len(s)]

\* The sets of places where s may be cut, its end among them, into good pieces.
Cuttings(s, Good(_)) ==
  LET n == Len(s)
      Piece(ends, e) == SubSeq(s, Max({0} \cup {f \in ends : f < e}) + 1, e)
  IN {ends \in SUBSET (1..n) : n \in ends /\ \A e \in ends : Good(Piece(ends, e))}

Code(piece) ==
  \/ Len(piece) = 1 /\ piece[1] \in 1..9
  \/ Len(piece) = 2 /\ piece[1] * 10 + piece[2] \in 10..26

DecodingsRight(s) == NumDecodings(s) = Cardinality(Cuttings(s, Code))

WordBreak(s, words) ==
  LET dp[i \in 0..Len(s)] ==
        i = 0 \/ \E j \in 0..i - 1 : dp[j] /\ SubSeq(s, j + 1, i) \in words
  IN dp[Len(s)]

WordBreakRight(s, words) ==
  WordBreak(s, words) <=> Cuttings(s, LAMBDA piece : piece \in words) # {}

\* The sums that can be reached, num by num.
CanPartition(nums) ==
  LET target == Sum(nums) \div 2
      dp == FoldLeft(LAMBDA sums, num :
                sums \cup {sum \in num..target : sum - num \in sums}, {0}, nums)
  IN Sum(nums) % 2 = 0 /\ target \in dp

CanPartitionRight(nums) ==
  CanPartition(nums) <=> \E half \in SUBSET DOMAIN nums : 2 * LootOf(nums, half) = Sum(nums)

\* hold starts so low that nothing sold from it counts.
CooldownProfit(prices) ==
  LET end == FoldLeft(LAMBDA acc, price :
          [hold |-> Larger(acc.hold, acc.rest - price), sold |-> acc.hold + price,
           rest |-> Larger(acc.rest, acc.sold)],
        [hold |-> -1000, sold |-> 0, rest |-> 0], prices)
  IN Larger(end.sold, end.rest)

\* Days to buy and sell in turn, with a day's pause after each sale.
CooldownRight(prices) ==
  LET Days(days) == SetToSortSeq(days, <)
      Paused(d) == Len(d) % 2 = 0 /\ \A i \in 2..Len(d) - 1 : i % 2 = 0 => d[i + 1] > d[i] + 1
      Gain(d) == Sum([i \in DOMAIN d |-> IF i % 2 = 0 THEN prices[d[i]] ELSE -prices[d[i]]])
      trades == {d \in {Days(days) : days \in SUBSET DOMAIN prices} : Paused(d)}
  IN CooldownProfit(prices) = Max({Gain(d) : d \in trades})

\* The last balloon burst between two that stay.
MaxCoins(nums) ==
  LET n == Len(nums)
      values == <<1>> \o nums \o <<1>>
      dp[left \in 1..n + 2, right \in 1..n + 2] ==
        Max({0} \cup {dp[left, last] + dp[last, right] + values[left] * values[last] * values[right] :
                        last \in left + 1..right - 1})
  IN dp[1, n + 2]

RECURSIVE MostCoins(_)
MostCoins(nums) ==
  IF nums = <<>> THEN 0
  ELSE LET values == <<1>> \o nums \o <<1>> IN
       Max({values[i] * values[i + 1] * values[i + 2] + MostCoins(RemoveAt(nums, i)) : i \in DOMAIN nums})

-----------------------------------------------------------------------------
(* Tables over two sequences, and over a grid.                               *)

MinDistance(word1, word2) ==
  LET dp[i \in 0..Len(word1), j \in 0..Len(word2)] ==
        IF i = 0 \/ j = 0 THEN i + j
        ELSE IF word1[i] = word2[j] THEN dp[i - 1, j - 1]
        ELSE 1 + Min({dp[i - 1, j], dp[i, j - 1], dp[i - 1, j - 1]})
  IN dp[Len(word1), Len(word2)]

\* The letters that are kept or replaced, pair by pair in order; the others are
\* deleted from the one word and inserted from the other.
EditRight(word1, word2) ==
  LET pairings == {p \in SUBSET ((DOMAIN word1) \X (DOMAIN word2)) :
                     \A x, y \in p : x # y => (x[1] < y[1] /\ x[2] < y[2]) \/ (y[1] < x[1] /\ y[2] < x[2])}
      Cost(p) == Len(word1) + Len(word2) - 2 * Cardinality(p)
                 + Cardinality({x \in p : word1[x[1]] # word2[x[2]]})
  IN MinDistance(word1, word2) = Min({Cost(p) : p \in pairings})

Dot == 0
Star == -1
OneMatches(p, s) == p = s \/ p = Dot

RECURSIVE IsMatchRecursive(_, _)
IsMatchRecursive(s, p) ==
  LET firstMatches == s # <<>> /\ OneMatches(p[1], s[1]) IN
  IF p = <<>> THEN s = <<>>
  ELSE IF Len(p) > 1 /\ p[2] = Star
    THEN \/ IsMatchRecursive(s, SubSeq(p, 3, Len(p)))
         \/ firstMatches /\ IsMatchRecursive(Tail(s), p)
  ELSE firstMatches /\ IsMatchRecursive(Tail(s), Tail(p))

IsMatch(s, p) ==
  LET dp[i \in 0..Len(s), j \in 0..Len(p)] ==
        IF j = 0 THEN i = 0
        ELSE IF i = 0 THEN j >= 2 /\ p[j] = Star /\ dp[0, j - 2]
        ELSE IF p[j] # Star THEN OneMatches(p[j], s[i]) /\ dp[i - 1, j - 1]
        ELSE dp[i, j - 2] \/ (OneMatches(p[j - 1], s[i]) /\ dp[i - 1, j])
  IN dp[Len(s), Len(p)]

\* Each letter of the pattern takes a piece of the text, a star after it one of
\* any length.
Matches(s, p) ==
  LET letters == SelectSeq(Indices(p), LAMBDA j : p[j] # Star)
      Starred(k) == letters[k] < Len(p) /\ p[letters[k] + 1] = Star
      Takes(k, from, to) == /\ from <= to
                            /\ Starred(k) \/ to = from + 1
                            /\ \A i \in from + 1..to : OneMatches(p[letters[k]], s[i])
  IN \E cuts \in [0..Len(letters) -> 0..Len(s)] :
       /\ cuts[0] = 0 /\ cuts[Len(letters)] = Len(s)
       /\ \A k \in DOMAIN letters : Takes(k, cuts[k - 1], cuts[k])

\* For a text without wildcards and a pattern whose stars follow a letter.
MatchRight(s, p) ==
  /\ ToSet(s) \cap {Dot, Star} = {}
  /\ \A i \in DOMAIN p : p[i] = Star => i > 1 /\ p[i - 1] # Star
  => /\ IsMatch(s, p) <=> Matches(s, p)
     /\ IsMatchRecursive(s, p) <=> Matches(s, p)

\* A grid of two rows.
Grid(nums) == LET cols == Len(nums) \div 2
              IN [rc \in (1..2) \X (1..cols) |-> nums[(rc[1] - 1) * cols + rc[2]]]

MinPathSum(grid, rows, cols) ==
  LET dp[r \in 1..rows, c \in 1..cols] ==
        grid[<<r, c>>] +
          (IF r = 1 /\ c = 1 THEN 0
           ELSE IF c = 1 THEN dp[r - 1, c]
           ELSE IF r = 1 THEN dp[r, c - 1]
           ELSE Smaller(dp[r - 1, c], dp[r, c - 1]))
  IN dp[rows, cols]

MinPathRight(nums) ==
  LET cols == Len(nums) \div 2
      Down(c) == Sum(SubSeq(nums, 1, c)) + Sum(SubSeq(nums, cols + c, 2 * cols))
  IN cols > 0 => MinPathSum(Grid(nums), 2, cols) = Min({Down(c) : c \in 1..cols})

Beside(a, b) == Abs(a[1] - b[1]) + Abs(a[2] - b[2]) = 1

LongestIncreasingPath(matrix) ==
  LET best[cell \in DOMAIN matrix] ==
        1 + Max({0} \cup {best[next] : next \in {b \in DOMAIN matrix : Beside(cell, b) /\ matrix[b] > matrix[cell]}})
  IN Max({best[cell] : cell \in DOMAIN matrix})

IncreasingPathRight(nums) ==
  LET matrix == Grid(nums)
      Path(cells) == \A a, b \in cells : a # b =>
        /\ matrix[a] # matrix[b]
        /\ Beside(a, b) \/ \E c \in cells : (matrix[c] - matrix[a]) * (matrix[b] - matrix[c]) > 0
  IN Len(nums) > 1 =>
       LongestIncreasingPath(matrix) = Max({Cardinality(cells) : cells \in {cs \in SUBSET DOMAIN matrix : Path(cs)}})

-----------------------------------------------------------------------------
(* Partition to K Equal Sum Subsets, by backtracking and by masks.           *)

RECURSIVE PlaceAll(_, _, _, _)
\* All turns of the loop work on one array of buckets: a number that led nowhere
\* is taken out again.  A bucket as full as one tried before is skipped, and once
\* the number was alone in its bucket the loop is over.
PlaceAll(nums, index, buckets, target) ==
  LET value == nums[index]
      Skipped(try, b) == \/ try.placed \/ try.over
                         \/ try.buckets[b] + value > target
                         \/ try.buckets[b] \in try.seenLoads
      Turn(try, b) ==
        LET next == PlaceAll(nums, index + 1, [try.buckets EXCEPT ![b] = @ + value], target)
            seenLoads == try.seenLoads \cup {try.buckets[b]}
            undone == [next.buckets EXCEPT ![b] = @ - value]
        IN CASE Skipped(try, b) -> try
             [] next.placed -> next
             [] OTHER -> [buckets |-> undone, placed |-> FALSE, over |-> undone[b] = 0,
                          seenLoads |-> seenLoads]
      start == [buckets |-> buckets, placed |-> index > Len(nums), over |-> FALSE, seenLoads |-> {}]
  IN FoldLeft(Turn, start, Indices(buckets))

CanPartitionKSubsetsBacktracking(nums, k) ==
  LET total == Sum(nums)
      descending == Reverse(Ascending(nums))
  IN /\ total % k = 0
     /\ descending[1] <= total \div k
     /\ PlaceAll(descending, 1, [b \in 1..k |-> 0], total \div k).placed

CanPartitionKSubsets(nums, k) ==
  LET target == Sum(nums) \div k
      Fill(mask) == LootOf(nums, mask) % target
      reachable[mask \in SUBSET DOMAIN nums] ==
        mask = {} \/ \E i \in mask : /\ reachable[mask \ {i}]
                                     /\ Fill(mask \ {i}) + nums[i] <= target
  IN Sum(nums) % k = 0 /\ reachable[DOMAIN nums]

KSubsetsRight(nums, k) ==
  LET equal == \E f \in [DOMAIN nums -> 1..k] :
        \A b \in 1..k : k * LootOf(nums, {i \in DOMAIN nums : f[i] = b}) = Sum(nums)
  IN /\ CanPartitionKSubsetsBacktracking(nums, k) <=> equal
     /\ CanPartitionKSubsets(nums, k) <=> equal

-----------------------------------------------------------------------------
\* Every table and every greedy choice gives what its problem asks for: no case
\* is left out of the recurrence or counted twice, with empty words, zeros,
\* stars and numbers that repeat.
ProgrammesRight(nums) ==
  /\ RobRight(Shifted(nums, 1))
  /\ nums # <<>> =>
    LET naturals == Shifted(nums, 1)
        positives == Shifted(nums, 2)
        ones == [i \in DOMAIN nums |-> 1]
        Word1(n) == SubSeq(nums, 1, n)
        Word2(n) == SubSeq(nums, n + 1, Len(nums))
    IN /\ JumpsRight(naturals)
       /\ CircuitRight(naturals, ones) /\ CircuitRight(naturals, Reverse(naturals))
       /\ ClimbRight(Len(nums)) /\ \A m \in 1..3 : UniquePathsRight(m, Len(nums))
       /\ DecodingsRight(naturals)
       /\ WordBreakRight(nums, {<<-1, 0>>, <<0>>, <<1, 2>>, <<2, -1, 0>>})
       /\ CanPartitionRight(positives) /\ CooldownRight(naturals)
       /\ (Len(nums) <= 4 => MaxCoins(naturals) = MostCoins(naturals))
       /\ \A n \in 0..Len(nums) : EditRight(Word1(n), Word2(n)) /\ MatchRight(Word1(n), Word2(n))
       /\ MinPathRight(naturals) /\ IncreasingPathRight(nums)
       /\ \A k \in 1..3 : KSubsetsRight(positives, k)
=============================================================================
