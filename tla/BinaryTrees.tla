------------------------------ MODULE BinaryTrees ------------------------------
(* The tree solutions of 02-standard-problems and 03-advanced-problems, and    *)
(* the evaluation of expressions.  A tree is <<>> (null) or a triple <<value,  *)
(* left, right>>; a sequence of numbers lays one out as a heap does, with no   *)
(* node where it has a zero.                                                   *)
EXTENDS LinkedLists

Leaf(v) == <<v, <<>>, <<>>>>
Val(t) == t[1]
Left(t) == t[2]
Right(t) == t[3]

RECURSIVE TreeOf(_, _), InOrder(_), PreOrder(_), Subtrees(_), Numbered(_, _)
TreeOf(nums, i) ==
  IF i > Len(nums) THEN <<>>
  ELSE IF nums[i] = 0 THEN <<>> ELSE <<nums[i], TreeOf(nums, 2 * i), TreeOf(nums, 2 * i + 1)>>
InOrder(t) == IF t = <<>> THEN <<>> ELSE InOrder(Left(t)) \o <<Val(t)>> \o InOrder(Right(t))
PreOrder(t) == IF t = <<>> THEN <<>> ELSE <<Val(t)>> \o PreOrder(Left(t)) \o PreOrder(Right(t))
Subtrees(t) == IF t = <<>> THEN {<<>>} ELSE {t} \cup Subtrees(Left(t)) \cup Subtrees(Right(t))
Size(t) == Len(InOrder(t))

\* The same shape with the numbers from n on in order: a search tree.
Numbered(t, n) ==
  IF t = <<>> THEN <<>>
  ELSE LET v == n + Size(Left(t)) IN <<v, Numbered(Left(t), n), Numbered(Right(t), v + 1)>>

\* The sums of the paths that go down from the root.
RECURSIVE DownSums(_)
DownSums(t) ==
  IF t = <<>> THEN <<>>
  ELSE <<Val(t)>> \o [i \in DOMAIN DownSums(Left(t)) |-> Val(t) + DownSums(Left(t))[i]]
                  \o [i \in DOMAIN DownSums(Right(t)) |-> Val(t) + DownSums(Right(t))[i]]

-----------------------------------------------------------------------------
RECURSIVE IsSame(_, _), IsSubtree(_, _), InvertTree(_), HasPathSum(_, _), LeafSums(_)
IsSame(a, b) ==
  IF a = <<>> \/ b = <<>> THEN a = <<>> /\ b = <<>>
  ELSE Val(a) = Val(b) /\ IsSame(Left(a), Left(b)) /\ IsSame(Right(a), Right(b))
IsSubtree(root, subRoot) ==
  \/ subRoot = <<>>
  \/ root # <<>> /\ (IsSame(root, subRoot) \/ IsSubtree(Left(root), subRoot) \/ IsSubtree(Right(root), subRoot))
InvertTree(t) ==
  IF t = <<>> THEN <<>> ELSE <<Val(t), InvertTree(Right(t)), InvertTree(Left(t))>>
HasPathSum(t, targetSum) ==
  /\ t # <<>>
  /\ IF Left(t) = <<>> /\ Right(t) = <<>> THEN targetSum = Val(t)
     ELSE HasPathSum(Left(t), targetSum - Val(t)) \/ HasPathSum(Right(t), targetSum - Val(t))

\* From the roots to the leaves.
LeafSums(t) ==
  IF t = <<>> THEN {}
  ELSE IF t = Leaf(Val(t)) THEN {Val(t)}
  ELSE {Val(t) + s : s \in LeafSums(Left(t)) \cup LeafSums(Right(t))}

ShapesRight(t) ==
  /\ \A s \in Subtrees(t) : IsSubtree(t, s)
  /\ \A v \in 1..2 : IsSubtree(t, Leaf(v)) <=> Leaf(v) \in Subtrees(t)
  /\ InOrder(InvertTree(t)) = Reverse(InOrder(t)) /\ InvertTree(InvertTree(t)) = t
  /\ \A targetSum \in -2..4 : HasPathSum(t, targetSum) <=> targetSum \in LeafSums(t)

-----------------------------------------------------------------------------
(* Search trees.                                                             *)

RECURSIVE IsValidRange(_, _, _)
IsValidRange(t, min, max) ==
  t = <<>> \/ (/\ Val(t) > min /\ Val(t) < max
               /\ IsValidRange(Left(t), min, Val(t)) /\ IsValidRange(Right(t), Val(t), max))
IsValidBST(t) == IsValidRange(t, -1000, 1000)

ValidBSTRight(t) ==
  IsValidBST(t) <=> \A i \in 1..Size(t) - 1 : InOrder(t)[i] < InOrder(t)[i + 1]

RECURSIVE LeftSpine(_), NextSmallest(_, _, _)
\* The nodes down the left, the last one on top.
LeftSpine(t) == IF t = <<>> THEN <<>> ELSE <<t>> \o LeftSpine(Left(t))
NextSmallest(stack, current, k) ==
  LET pushed == stack \o LeftSpine(current)
      top == Last(pushed)
  IN IF k = 1 THEN Val(top) ELSE NextSmallest(Front(pushed), Right(top), k - 1)
KthSmallest(t, k) == NextSmallest(<<>>, t, k)

RECURSIVE LcaOfBst(_, _, _), LowestCommonAncestor(_, _, _)
\* The loop and the recursion go down alike.
LcaOfBst(t, p, q) ==
  IF t = <<>> THEN <<>>
  ELSE IF p < Val(t) /\ q < Val(t) THEN LcaOfBst(Left(t), p, q)
  ELSE IF p > Val(t) /\ q > Val(t) THEN LcaOfBst(Right(t), p, q)
  ELSE t
LowestCommonAncestor(t, p, q) ==
  IF t = <<>> THEN <<>>
  ELSE IF Val(t) \in {p, q} THEN t
  ELSE LET left == LowestCommonAncestor(Left(t), p, q)
           right == LowestCommonAncestor(Right(t), p, q)
       IN IF left # <<>> /\ right # <<>> THEN t ELSE IF left # <<>> THEN left ELSE right

\* Of the subtrees that hold both, the least.
LcaRight(t) ==
  \A p, q \in ToSet(InOrder(t)) :
    LET both == {s \in Subtrees(t) : {p, q} \subseteq ToSet(InOrder(s))}
        lowest == CHOOSE s \in both : \A u \in both : Size(s) <= Size(u)
    IN LcaOfBst(t, p, q) = lowest /\ LowestCommonAncestor(t, p, q) = lowest

SearchTreeRight(t) ==
  /\ IsValidBST(t) /\ LcaRight(t)
  /\ \A k \in 1..Size(t) : KthSmallest(t, k) = InOrder(t)[k]

-----------------------------------------------------------------------------
(* Trees from sequences and back.                                            *)

RECURSIVE Build(_, _, _), Dfs(_), BuildFrom(_)
\* The tree of a stretch of the in-order and how much of the pre-order it took.
Build(preorder, inorder, used) ==
  IF inorder = <<>> THEN [tree |-> <<>>, used |-> used]
  ELSE LET mid == CHOOSE i \in DOMAIN inorder : inorder[i] = preorder[used + 1]
           left == Build(preorder, SubSeq(inorder, 1, mid - 1), used + 1)
           right == Build(preorder, SubSeq(inorder, mid + 1, Len(inorder)), left.used)
       IN [tree |-> <<preorder[used + 1], left.tree, right.tree>>, used |-> right.used]
BuildTree(preorder, inorder) == Build(preorder, inorder, 0).tree

\* A token is a value, 0 for "null" (a tree has no zeros).
Dfs(t) == IF t = <<>> THEN <<0>> ELSE <<Val(t)>> \o Dfs(Left(t)) \o Dfs(Right(t))
BuildFrom(queue) ==
  IF Head(queue) = 0 THEN [tree |-> <<>>, queue |-> Tail(queue)]
  ELSE LET left == BuildFrom(Tail(queue))
           right == BuildFrom(left.queue)
       IN [tree |-> <<Head(queue), left.tree, right.tree>>, queue |-> right.queue]

RoundTripsRight(t) ==
  /\ BuildFrom(Dfs(t)) = [tree |-> t, queue |-> <<>>]
  /\ BuildTree(PreOrder(Numbered(t, 1)), InOrder(Numbered(t, 1))) = Numbered(t, 1)

-----------------------------------------------------------------------------
(* Sums over paths and nodes.                                                *)

RECURSIVE Gain(_)
\* The gain of the best way down and the best path met so far.
Gain(t) ==
  IF t = <<>> THEN [gain |-> 0, maxPath |-> -1000]
  ELSE LET left == Gain(Left(t))
           right == Gain(Right(t))
           l == Larger(0, left.gain)
           r == Larger(0, right.gain)
       IN [gain |-> Val(t) + Larger(l, r),
           maxPath |-> Max({left.maxPath, right.maxPath, Val(t) + l + r})]
MaxPathSum(t) == Gain(t).maxPath

\* Through its highest node, down to nothing or to some node on each side.
MaxPathRight(t) ==
  t # <<>> =>
    MaxPathSum(t) = Max(UNION {{Val(s) + l + r : l \in {0} \cup ToSet(DownSums(Left(s))),
                                                r \in {0} \cup ToSet(DownSums(Right(s)))} :
                               s \in Subtrees(t) \ {<<>>}})

RECURSIVE RobFrom(_), Loots(_, _)
RobFrom(t) ==
  IF t = <<>> THEN [rob |-> 0, notRob |-> 0]
  ELSE LET left == RobFrom(Left(t))
           right == RobFrom(Right(t))
       IN [rob |-> Val(t) + left.notRob + right.notRob,
           notRob |-> Larger(left.rob, left.notRob) + Larger(right.rob, right.notRob)]
RobTree(t) == Larger(RobFrom(t).rob, RobFrom(t).notRob)

\* The sums of all choices without a node and its child.
Loots(t, free) ==
  IF t = <<>> THEN {0}
  ELSE {a + b : a \in Loots(Left(t), TRUE), b \in Loots(Right(t), TRUE)} \cup
       (IF free THEN {Val(t) + a + b : a \in Loots(Left(t), FALSE), b \in Loots(Right(t), FALSE)} ELSE {})

RECURSIVE CountFrom(_, _), PathSumBruteForce(_, _), PathsBelow(_, _, _, _), AllDownSums(_)
CountFrom(t, remaining) ==
  IF t = <<>> THEN 0
  ELSE (IF Val(t) = remaining THEN 1 ELSE 0)
       + CountFrom(Left(t), remaining - Val(t)) + CountFrom(Right(t), remaining - Val(t))
PathSumBruteForce(t, targetSum) ==
  IF t = <<>> THEN 0
  ELSE CountFrom(t, targetSum) + PathSumBruteForce(Left(t), targetSum) + PathSumBruteForce(Right(t), targetSum)

\* Mutant: a sum stays in the dictionary when the search leaves its node.
LeaveCounted(prefixCount, sum) == prefixCount
Leave(prefixCount, sum) == [prefixCount EXCEPT ![sum] = @ - 1]

\* How often each sum occurs on the path so far; the dictionary is put back.
PathsBelow(t, targetSum, currentSum, prefixCount) ==
  IF t = <<>> THEN [count |-> 0, prefixCount |-> prefixCount]
  ELSE LET sum == currentSum + Val(t)
           left == PathsBelow(Left(t), targetSum, sum, [prefixCount EXCEPT ![sum] = @ + 1])
           right == PathsBelow(Right(t), targetSum, sum, left.prefixCount)
       IN [count |-> prefixCount[sum - targetSum] + left.count + right.count,
           prefixCount |-> Leave(right.prefixCount, sum)]
PathSum(t, targetSum) ==
  PathsBelow(t, targetSum, 0, [sum \in -20..20 |-> IF sum = 0 THEN 1 ELSE 0]).count

AllDownSums(t) == IF t = <<>> THEN <<>> ELSE DownSums(t) \o AllDownSums(Left(t)) \o AllDownSums(Right(t))

SumsRight(t) ==
  /\ MaxPathRight(t) /\ RobTree(t) = Max(Loots(t, TRUE))
  /\ \A targetSum \in -1..3 :
       /\ PathSumBruteForce(t, targetSum) = Occurrences(AllDownSums(t), targetSum)
       /\ PathSum(t, targetSum) = Occurrences(AllDownSums(t), targetSum)

-----------------------------------------------------------------------------
(* Expressions.  A token is a pair of a kind and a number.                   *)

Num(n) == <<"num", n>>
Op(o) == <<o, 0>>
\* Division drops the fraction.
Quotient(a, b) == (IF (a < 0) # (b < 0) THEN -1 ELSE 1) * (Abs(a) \div Abs(b))
Apply(op, a, b) ==
  CASE op = "+" -> a + b [] op = "-" -> a - b [] op = "*" -> a * b [] op = "/" -> Quotient(a, b)

EvalRPN(tokens) ==
  Last(FoldLeft(LAMBDA stack, token :
      IF token[1] = "num" THEN Append(stack, token[2])
      ELSE LET n == Len(stack) IN
           Append(SubSeq(stack, 1, n - 2), Apply(token[1], stack[n - 1], stack[n])),
    <<>>, tokens))

Signs == {"+", "-"}
\* A run of signs counts as one, and the last sign holds until the next.
EvaluateFlat(expression) ==
  FoldLeft(LAMBDA acc, token :
      IF token[1] \in Signs
        THEN LET before == IF acc.run THEN acc.sign ELSE 1
             IN [acc EXCEPT !.run = TRUE, !.sign = IF token[1] = "-" THEN -before ELSE before]
        ELSE [acc EXCEPT !.run = FALSE, !.result = @ + acc.sign * token[2]],
    [result |-> 0, sign |-> 1, run |-> FALSE], expression).result

Digits(n) == IF n < 0 THEN <<Op("-"), Num(-n)>> ELSE <<Num(n)>>

RECURSIVE CalculateBruteForce(_)
\* The last opening parenthesis and the first closing one after it.
CalculateBruteForce(s) ==
  LET opens == {i \in DOMAIN s : s[i][1] = "("}
      open == Max(opens)
      close == Min({i \in DOMAIN s : i > open /\ s[i][1] = ")"})
  IN IF opens = {} THEN EvaluateFlat(s)
     ELSE CalculateBruteForce(SubSeq(s, 1, open - 1) \o Digits(EvaluateFlat(SubSeq(s, open + 1, close - 1)))
                              \o SubSeq(s, close + 1, Len(s)))

Calculate(s) ==
  FoldLeft(LAMBDA acc, token :
      CASE token[1] = "num" -> [acc EXCEPT !.result = @ + acc.sign * token[2]]
        [] token[1] = "+" -> [acc EXCEPT !.sign = 1]
        [] token[1] = "-" -> [acc EXCEPT !.sign = -1]
        [] token[1] = "(" -> [result |-> 0, sign |-> 1,
                              stack |-> Append(acc.stack, <<acc.result, acc.sign>>)]
        [] token[1] = ")" -> [acc EXCEPT !.stack = Front(@),
                              !.result = Last(acc.stack)[1] + Last(acc.stack)[2] * @],
    [result |-> 0, sign |-> 1, stack |-> <<>>], s).result

\* A tree as an expression: leaves are numbers, nodes are operators, a missing
\* child is a one; infix in parentheses, as negative numbers are, or postfix.
RECURSIVE Infix(_), Postfix(_, _), Worth(_, _)
Operator(v, third) == CASE v = -1 -> "-" [] v = 1 -> "+" [] OTHER -> third
Infix(t) ==
  IF t = <<>> THEN <<Num(1)>>
  ELSE IF t = Leaf(Val(t))
    THEN IF Val(t) < 0 THEN <<Op("(")>> \o Digits(Val(t)) \o <<Op(")")>> ELSE Digits(Val(t))
  ELSE <<Op("(")>> \o Infix(Left(t)) \o <<Op(Operator(Val(t), "-"))>> \o Infix(Right(t)) \o <<Op(")")>>
Postfix(t, third) ==
  IF t = <<>> THEN <<Num(1)>>
  ELSE IF t = Leaf(Val(t)) THEN <<Num(Val(t))>>
  ELSE Postfix(Left(t), third) \o Postfix(Right(t), third) \o <<Op(Operator(Val(t), third))>>
\* Its value, as a set that is empty where it divides by zero.
Worth(t, third) ==
  IF t = <<>> THEN {1}
  ELSE IF t = Leaf(Val(t)) THEN {Val(t)}
  ELSE LET op == Operator(Val(t), third)
       IN {Apply(op, a, b) : a \in Worth(Left(t), third),
                             b \in {c \in Worth(Right(t), third) : op # "/" \/ c # 0}}

ExpressionsRight(t) ==
  /\ Worth(t, "-") = {CalculateBruteForce(Infix(t))}
  /\ Worth(t, "-") = {Calculate(Infix(t))}
  /\ \A third \in {"*", "/"} : Worth(t, third) # {} => Worth(t, third) = {EvalRPN(Postfix(t, third))}

-----------------------------------------------------------------------------
\* On every tree each solution gives what its problem asks for, and an
\* expression is worth the same whichever way it is evaluated.
TreesRight(nums) ==
  LET t == TreeOf(nums, 1) IN
  /\ ShapesRight(t) /\ ValidBSTRight(t) /\ SearchTreeRight(Numbered(t, 1))
  /\ RoundTripsRight(t) /\ SumsRight(t) /\ ExpressionsRight(t)
=============================================================================
