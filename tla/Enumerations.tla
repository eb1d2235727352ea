----------------------------- MODULE Enumerations -----------------------------
(* The backtracking solutions (02-standard-problems, 03-advanced-problems):   *)
(* each next to the set of results the problem asks for.  A call works on the *)
(* state it shares with its caller (`found`, the results in the order they    *)
(* are added, `current`, what has been chosen, and the marks of what is in    *)
(* use) and returns it, with what it chose undone.                            *)
EXTENDS DynamicProgrammes

Nothing == [found |-> <<>>, current |-> <<>>]
Noted(st) == [st EXCEPT !.found = Append(@, st.current)]
Chosen(st, choice) == [st EXCEPT !.current = Append(@, choice)]

\* Mutant: the choice is not removed after the recursive call.
UndoneNot(st) == st
Undone(st) == [st EXCEPT !.current = Front(@)]

From(i, s) == [d \in 1..Len(s) - i + 1 |-> i + d - 1]

\* Each result once, and those of the set.
Lists(results, set) == IsInjective(results) /\ ToSet(results) = set
Sublists(s) == {Kept(s, places) : places \in SUBSET DOMAIN s}

-----------------------------------------------------------------------------
RECURSIVE SubsetsFrom(_, _, _), WithDupFrom(_, _, _)
SubsetsFrom(nums, index, st) ==
  IF index > Len(nums) THEN Noted(st)
  ELSE LET with == SubsetsFrom(nums, index + 1, Chosen(st, nums[index]))
       IN SubsetsFrom(nums, index + 1, Undone(with))

\* One result for each set of places.
SubsetsRight(nums) ==
  LET subsets == SubsetsFrom(nums, 1, Nothing).found
  IN Len(subsets) = 2 ^ Len(nums) /\ ToSet(subsets) = Sublists(nums)

\* A number equal to the one before it is taken only at the start of the loop.
Fresh(s, i, start) == i = start \/ s[i] # s[i - 1]

WithDupFrom(nums, start, st) ==
  FoldLeft(LAMBDA acc, i :
      IF Fresh(nums, i, start) THEN Undone(WithDupFrom(nums, i + 1, Chosen(acc, nums[i]))) ELSE acc,
    Noted(st), From(start, nums))

SubsetsWithDup(nums) == WithDupFrom(Ascending(nums), 1, Nothing).found

RECURSIVE PermuteUsing(_, _), PermuteBySwaps(_, _)
Used(st, i) == [st EXCEPT !.used = @ \cup {i}]
Unused(st, i) == [st EXCEPT !.used = @ \ {i}]

PermuteUsing(nums, st) ==
  IF Len(st.current) = Len(nums) THEN Noted(st)
  ELSE FoldLeft(LAMBDA acc, i :
           IF i \in acc.used THEN acc
           ELSE Unused(Undone(PermuteUsing(nums, Chosen(Used(acc, i), nums[i]))), i),
         st, Indices(nums))

\* What has been chosen stands in front, in the array of the numbers itself.
Exchanged(st, i, j) == [st EXCEPT !.current = Swap(@, i, j)]

PermuteBySwaps(st, start) ==
  IF start > Len(st.current) THEN Noted(st)
  ELSE FoldLeft(LAMBDA acc, i : Exchanged(PermuteBySwaps(Exchanged(acc, start, i), start + 1), start, i),
         st, From(start, st.current))

\* Distinct numbers; the array is left as it was.
PermuteRight(nums) ==
  LET all == {[i \in DOMAIN nums |-> nums[p[i]]] : p \in Permutations(DOMAIN nums)}
      swaps == PermuteBySwaps([Nothing EXCEPT !.current = nums], 1)
      usings == PermuteUsing(nums, [found |-> <<>>, current |-> <<>>, used |-> {}])
  IN IsInjective(nums) => Lists(usings.found, all) /\ Lists(swaps.found, all) /\ swaps.current = nums

RECURSIVE CombineFrom(_, _, _, _), Combine2From(_, _, _, _)
\* Ascending: the first candidate that is too great ends the loop.  A candidate
\* may be used again.
CombineFrom(candidates, start, remaining, st) ==
  IF remaining = 0 THEN Noted(st)
  ELSE FoldLeft(LAMBDA acc, i :
           IF candidates[i] > remaining THEN acc
           ELSE Undone(CombineFrom(candidates, i, remaining - candidates[i], Chosen(acc, candidates[i]))),
         st, From(start, candidates))

CombinationSum(candidates, target) == CombineFrom(Ascending(candidates), 1, target, Nothing).found

CombinationSumRight(candidates, target) ==
  IsInjective(candidates) =>
    Lists(CombinationSum(candidates, target),
          {s \in UNION {[1..l -> ToSet(candidates)] : l \in 0..target} : Sorted(s) /\ Sum(s) = target})

\* Mutant: a repeated candidate is not skipped.
FreshOnce(s, i, start) == TRUE
FreshCandidate(s, i, start) == Fresh(s, i, start)

Combine2From(candidates, start, remaining, st) ==
  IF remaining = 0 THEN Noted(st)
  ELSE FoldLeft(LAMBDA acc, i :
           IF ~FreshCandidate(candidates, i, start) \/ candidates[i] > remaining THEN acc
           ELSE Undone(Combine2From(candidates, i + 1, remaining - candidates[i],
                                    Chosen(acc, candidates[i]))),
         st, From(start, candidates))

CombinationSum2(candidates, target) == Combine2From(Ascending(candidates), 1, target, Nothing).found

CombinationSum2Right(candidates, target) ==
  Lists(CombinationSum2(candidates, target),
        {s \in Sublists(Ascending(candidates)) : Sum(s) = target})

-----------------------------------------------------------------------------
RECURSIVE Parentheses(_, _, _, _)
\* 1 opens, -1 closes.
Parentheses(n, open, close, st) ==
  LET opened == IF open < n THEN Undone(Parentheses(n, open + 1, close, Chosen(st, 1))) ELSE st
  IN IF Len(st.current) = 2 * n THEN Noted(st)
     ELSE IF close < open THEN Undone(Parentheses(n, open, close + 1, Chosen(opened, -1)))
     ELSE opened

GenerateParenthesis(n) == Parentheses(n, 0, 0, Nothing).found
ParenthesesRight(n) ==
  Lists(GenerateParenthesis(n), {s \in [1..2 * n -> {1, -1}] : IsValid(s)})

RECURSIVE Queens(_, _, _)
\* position is overwritten, never cleared; the three sets are.
Queens(n, row, st) ==
  LET Taken(now, col) == \/ col \in now.columns
                         \/ row - col \in now.diagonal
                         \/ row + col \in now.antiDiagonal
      Placed(now, col) == [now EXCEPT !.columns = @ \cup {col}, !.diagonal = @ \cup {row - col},
                                      !.antiDiagonal = @ \cup {row + col}, !.current[row] = col]
      Lifted(now, col) == [now EXCEPT !.columns = @ \ {col}, !.diagonal = @ \ {row - col},
                                      !.antiDiagonal = @ \ {row + col}]
  IN IF row > n THEN Noted(st)
     ELSE FoldLeft(LAMBDA now, col :
              IF Taken(now, col) THEN now ELSE Lifted(Queens(n, row + 1, Placed(now, col)), col),
            st, [col \in 1..n |-> col])

SolveNQueens(n) ==
  Queens(n, 1, [found |-> <<>>, current |-> [row \in 1..n |-> 1],
                columns |-> {}, diagonal |-> {}, antiDiagonal |-> {}]).found

\* A queen in every row, and only then a look at the board.
SolveNQueensBruteForce(n) ==
  {position \in [1..n -> 1..n] :
    \A i, j \in 1..n : i < j => /\ position[i] # position[j]
                                /\ Abs(position[i] - position[j]) # j - i}

QueensRight(n) == Lists(SolveNQueens(n), SolveNQueensBruteForce(n))

Keypad == <<<<>>, <<"a", "b", "c">>, <<"d", "e", "f">>, <<"g", "h", "i">>, <<"j", "k", "l">>,
            <<"m", "n", "o">>, <<"p", "q", "r", "s">>, <<"t", "u", "v">>, <<"w", "x", "y", "z">>>>

RECURSIVE Letterings(_, _, _)
\* Each letter overwrites the one before it: there is nothing to undo.
Letterings(digits, index, st) ==
  IF index > Len(digits) THEN Noted(st)
  ELSE FoldLeft(LAMBDA acc, letter : Letterings(digits, index + 1, [acc EXCEPT !.current[index] = letter]),
         st, Keypad[digits[index]])

LetterCombinations(digits) ==
  IF digits = <<>> THEN <<>>
  ELSE Letterings(digits, 1, [found |-> <<>>, current |-> [i \in DOMAIN digits |-> ""]]).found

LettersRight(digits) ==
  Lists(LetterCombinations(digits),
        {w \in [DOMAIN digits -> UNION {ToSet(Keypad[d]) : d \in ToSet(digits)}] :
           digits # <<>> /\ \A i \in DOMAIN digits : w[i] \in ToSet(Keypad[digits[i]])})

-----------------------------------------------------------------------------
(* Palindromes.                                                              *)

IsPalindrome(s) == s = Reverse(s)

Expand(s, left, right) ==
  Cardinality({d \in 0..Len(s) : \A e \in 0..d :
    left - e >= 1 /\ right + e <= Len(s) /\ s[left - e] = s[right + e]})
CountByCenters(s) == Sum([c \in DOMAIN s |-> Expand(s, c, c) + Expand(s, c, c + 1)])

PalindromeTable(s) ==
  LET dp[left \in DOMAIN s, right \in DOMAIN s] ==
        left <= right /\ s[left] = s[right] /\ (right - left < 2 \/ dp[left + 1, right - 1])
  IN dp
CountByTable(s) == Cardinality({ij \in Segments(s) : PalindromeTable(s)[ij[1], ij[2]]})

CountSubstringsRight(s) ==
  LET count == Cardinality({ij \in Segments(s) : IsPalindrome(Segment(s, ij))})
  IN CountByCenters(s) = count /\ CountByTable(s) = count

RECURSIVE PartitionFrom(_, _, _), PartitionBruteForce(_, _, _)
PartitionBruteForce(s, start, st) ==
  IF start > Len(s) THEN Noted(st)
  ELSE FoldLeft(LAMBDA acc, end :
           IF ~IsPalindrome(SubSeq(s, start, end)) THEN acc
           ELSE Undone(PartitionBruteForce(s, end + 1, Chosen(acc, SubSeq(s, start, end)))),
         st, From(start, s))

PartitionFrom(s, start, st) ==
  IF start > Len(s) THEN Noted(st)
  ELSE FoldLeft(LAMBDA acc, end :
           IF ~PalindromeTable(s)[start, end] THEN acc
           ELSE Undone(PartitionFrom(s, end + 1, Chosen(acc, SubSeq(s, start, end)))),
         st, From(start, s))

\* A partition for each way to cut s into palindromes.
PalindromePartitionsRight(s) ==
  LET partitions == PartitionFrom(s, 1, Nothing).found IN
  /\ PartitionBruteForce(s, 1, Nothing).found = partitions
  /\ IsInjective(partitions)
  /\ Len(partitions) = Cardinality(Cuttings(s, IsPalindrome))
  /\ \A p \in ToSet(partitions) : FlattenSeq(p) = s /\ \A i \in DOMAIN p : IsPalindrome(p[i])

-----------------------------------------------------------------------------
\* Backtracking lists every result once and nothing else: what is undone after a
\* choice, in the state all calls share, is what the choice did, and the pruning
\* loses no result and lets no result through twice, when numbers repeat too.
EnumerationsRight(nums) ==
  nums # <<>> /\ Len(nums) <= 4 =>
    LET positives == Shifted(nums, 2) IN
    /\ SubsetsRight(nums) /\ Lists(SubsetsWithDup(nums), Sublists(Ascending(nums)))
    /\ PermuteRight(nums)
    /\ \A target \in 1..4 : CombinationSumRight(positives, target)
    /\ \A target \in 1..6 : CombinationSum2Right(positives, target)
    /\ (ToSet(nums) = {0} => ParenthesesRight(Len(nums)) /\ QueensRight(Len(nums)))
    /\ CountSubstringsRight(nums) /\ PalindromePartitionsRight(nums)
    /\ (Len(nums) <= 3 => LettersRight(Shifted(nums, 7)))
=============================================================================
