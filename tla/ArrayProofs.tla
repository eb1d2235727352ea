----------------------------- MODULE ArrayProofs ------------------------------
(* Proofs about solutions in ArrayScans: what they return for an array of any *)
(* length and any numbers.                                                    *)
EXTENDS ArrayScans, DataLemmas

-----------------------------------------------------------------------------
(* Largest members, and sums of segments.                                     *)

\* What is in the set and above every member is what Max chooses.
LEMMA MaxIs ==
  ASSUME NEW S, S \subseteq Int, NEW m \in S, \A k \in S : k <= m
  PROVE  Max(S) = m
PROOF
  <1>1. \E x \in S : \A y \in S : x >= y
    <2>1. \A y \in S : m >= y
      <3> TAKE y \in S
      <3>1. y \in Int /\ m \in Int /\ y <= m
        OBVIOUS
      <3> QED  BY <3>1
    <2> QED  BY <2>1
  <1>2. Max(S) \in S /\ \A y \in S : Max(S) >= y
    <2> DEFINE x == CHOOSE x \in S : \A y \in S : x >= y
    <2>1. x \in S /\ \A y \in S : x >= y
      BY <1>1, Zenon
    <2>2. Max(S) = x
      BY DEF Max
    <2> QED  BY <2>1, <2>2, Zenon
  <1>3. Max(S) >= m /\ Max(S) <= m /\ Max(S) \in Int /\ m \in Int
    BY <1>2
  <1> QED  BY <1>3

LEMMA MinIs ==
  ASSUME NEW S, S \subseteq Int, NEW m \in S, \A k \in S : m <= k
  PROVE  Min(S) = m
PROOF
  <1>1. \E x \in S : \A y \in S : x <= y
    OBVIOUS
  <1>2. Min(S) \in S /\ \A y \in S : Min(S) <= y
    <2> DEFINE x == CHOOSE x \in S : \A y \in S : x <= y
    <2>1. x \in S /\ \A y \in S : x <= y
      BY <1>1, Zenon
    <2>2. Min(S) = x
      BY DEF Min
    <2> QED  BY <2>1, <2>2, Zenon
  <1>3. Min(S) <= m /\ m <= Min(S) /\ Min(S) \in Int /\ m \in Int
    BY <1>2
  <1> QED  BY <1>3

LEMMA LeastIsMin ==
  ASSUME NEW S, S \subseteq Nat, S # {}
  PROVE  Min(S) \in S /\ \A k \in S : Min(S) <= k
PROOF
  <1>1. PICK m \in S : \A k \in S : m <= k
    BY LeastNat
  <1>2. Min(S) = m
    <2>1. S \subseteq Int
      OBVIOUS
    <2> QED  BY <1>1, <2>1, MinIs
  <1> QED  BY <1>1, <1>2

LEMMA SumAppends ==
  ASSUME NEW s \in Seq(Int), NEW x \in Int
  PROVE  Sum(Append(s, x)) = Sum(s) + x /\ Sum(s) \in Int
PROOF
  <1> DEFINE t == Append(s, x)
             n == Len(s)
  <1>1. /\ n \in Nat /\ DOMAIN s = 1 .. n /\ DOMAIN t = 1 .. n + 1
        /\ t[n + 1] = x /\ \A i \in 1 .. n : t[i] = s[i] /\ s[i] \in Int
    OBVIOUS
  <1>2. IsFiniteSet(1 .. n) /\ IsFiniteSet(1 .. n + 1)
    BY <1>1, FS_Interval
  <1> HIDE DEF t, n
  <1>3. SumFunctionOnSet(t, 1 .. n) = SumFunctionOnSet(s, 1 .. n)
    BY <1>1, <1>2, SumOfEqual
  <1>4. (\A i \in 1 .. n + 1 : t[i] \in Int) /\ n + 1 \in 1 .. n + 1 /\ (1 .. n + 1) \ {n + 1} = 1 .. n
    BY <1>1
  <1>5. SumFunctionOnSet(t, 1 .. n + 1) = t[n + 1] + SumFunctionOnSet(t, (1 .. n + 1) \ {n + 1})
    BY <1>2, <1>4, SumTakesOut
  <1>6. SumFunctionOnSet(s, 1 .. n) \in Int
    BY <1>1, <1>2, SumIsInt
  <1>7. Sum(s) = SumFunctionOnSet(s, 1 .. n) /\ Sum(t) = SumFunctionOnSet(t, 1 .. n + 1)
    BY <1>1 DEF Sum, SumFunction
  <1>8. t[n + 1] = x /\ x \in Int
    BY <1>1
  <1>9. Sum(t) = Sum(s) + x /\ Sum(s) \in Int
    <2>1. SumFunctionOnSet(t, 1 .. n + 1) = t[n + 1] + SumFunctionOnSet(t, 1 .. n)
      BY <1>4, <1>5
    <2>2. SumFunctionOnSet(t, 1 .. n + 1) = x + SumFunctionOnSet(s, 1 .. n)
      BY <1>3, <1>8, <2>1
    <2> QED  BY <1>6, <1>7, <1>8, <2>2
  <1> QED  BY <1>9 DEF t

LEMMA SumOfNone == Sum(<<>>) = 0
PROOF
  <1>1. DOMAIN <<>> = {} /\ IsFiniteSet({}) /\ \A x \in {} : <<>>[x] = 0
    BY FS_EmptySet
  <1> QED  BY <1>1, SumOfZeros DEF Sum, SumFunction

LEMMA SegmentGrows ==
  ASSUME NEW nums \in Seq(Int), NEW i \in 1 .. Len(nums), NEW j \in i .. Len(nums)
  PROVE  /\ SubSeq(nums, i, j - 1) \in Seq(Int)
         /\ SubSeq(nums, i, j) = Append(SubSeq(nums, i, j - 1), nums[j])
PROOF
  <1> DEFINE a == SubSeq(nums, i, j - 1)
             b == SubSeq(nums, i, j)
             c == Append(a, nums[j])
  <1>1. Len(nums) \in Nat /\ i \in Int /\ j \in Int /\ 1 <= i /\ i <= j /\ j <= Len(nums)
        /\ \A k \in 1 .. Len(nums) : nums[k] \in Int
    OBVIOUS
  <1>2. a \in Seq(Int) /\ Len(a) = j - i /\ \A k \in 1 .. j - i : a[k] = nums[i + k - 1]
    <2>1. (\A k \in i .. j - 1 : nums[k] \in Int) /\ j - 1 \in Int
      BY <1>1
    <2>2. /\ a \in Seq(Int) /\ Len(a) = IF i <= j - 1 THEN (j - 1) - i + 1 ELSE 0
          /\ \A k \in 1 .. (j - 1) - i + 1 : a[k] = nums[i + k - 1]
      BY <1>1, <2>1, SubSeqProperties
    <2>3. (j - 1) - i + 1 = j - i /\ (IF i <= j - 1 THEN (j - 1) - i + 1 ELSE 0) = j - i
      BY <1>1
    <2> HIDE DEF a
    <2> QED  BY <2>2, <2>3
  <1>3. b \in Seq(Int) /\ Len(b) = j - i + 1 /\ \A k \in 1 .. j - i + 1 : b[k] = nums[i + k - 1]
    <2>1. \A k \in i .. j : nums[k] \in Int
      BY <1>1
    <2>2. /\ b \in Seq(Int) /\ Len(b) = IF i <= j THEN j - i + 1 ELSE 0
          /\ \A k \in 1 .. j - i + 1 : b[k] = nums[i + k - 1]
      BY <1>1, <2>1, SubSeqProperties, SMTT(20)
    <2> HIDE DEF b
    <2> QED  BY <1>1, <2>2
  <1> HIDE DEF a, b
  <1>7. nums[j] \in Int /\ Len(a) \in Nat
    BY <1>1, <1>2
  <1>4. c \in Seq(Int) /\ Len(c) = j - i + 1 /\ \A k \in 1 .. j - i + 1 : c[k] = IF k = j - i + 1 THEN nums[j] ELSE a[k]
    <2>1. c \in Seq(Int) /\ Len(c) = Len(a) + 1 /\ c[Len(a) + 1] = nums[j]
          /\ \A k \in 1 .. Len(a) : c[k] = a[k]
      BY <1>2, <1>7, AppendProperties
    <2> HIDE DEF c
    <2>2. Len(a) + 1 = j - i + 1
      BY <1>2
    <2>3. \A k \in 1 .. j - i + 1 : c[k] = IF k = j - i + 1 THEN nums[j] ELSE a[k]
      <3> TAKE k \in 1 .. j - i + 1
      <3>1. k # j - i + 1 => k \in 1 .. Len(a)
        BY <1>1, <1>2
      <3> QED  BY <2>1, <2>2, <3>1
    <2> QED  BY <2>1, <2>2, <2>3
  <1> HIDE DEF c
  <1>5. ASSUME NEW k \in 1 .. j - i + 1 PROVE b[k] = c[k]
    <2>1. CASE k = j - i + 1
      <3>1. i + k - 1 = j
        BY <1>1, <2>1
      <3> QED  BY <1>3, <1>4, <2>1, <3>1
    <2>2. CASE k # j - i + 1
      <3>1. k \in 1 .. j - i
        BY <1>1, <2>2
      <3> QED  BY <1>2, <1>3, <1>4, <2>2, <3>1
    <2> QED  BY <2>1, <2>2
  <1>6. b = c
    BY <1>3, <1>4, <1>5, SeqEqual
  <1> QED  BY <1>2, <1>6 DEF a, b, c

\* The sum of a segment, by its last number.
LEMMA SegmentSums ==
  ASSUME NEW nums \in Seq(Int), NEW i \in 1 .. Len(nums)
  PROVE  /\ Sum(SubSeq(nums, i, i)) = nums[i]
         /\ \A j \in i .. Len(nums) : Sum(SubSeq(nums, i, j)) \in Int
         /\ \A j \in i + 1 .. Len(nums) :
              Sum(SubSeq(nums, i, j)) = Sum(SubSeq(nums, i, j - 1)) + nums[j]
PROOF
  <1>1. /\ \A k \in 1 .. Len(nums) : nums[k] \in Int
        /\ i \in i .. Len(nums) /\ Len(nums) \in Nat
        /\ \A j \in i + 1 .. Len(nums) : j \in i .. Len(nums)
        /\ \A j \in i .. Len(nums) : j \in 1 .. Len(nums)
    OBVIOUS
  <1>2. ASSUME NEW j \in i .. Len(nums)
        PROVE  /\ Sum(SubSeq(nums, i, j)) = Sum(SubSeq(nums, i, j - 1)) + nums[j]
               /\ Sum(SubSeq(nums, i, j - 1)) \in Int /\ nums[j] \in Int
    <2>1. nums[j] \in Int
      BY <1>1
    <2> QED  BY <2>1, SegmentGrows, SumAppends
  <1>3. SubSeq(nums, i, i - 1) = <<>>
    BY <1>1
  <1>4. Sum(SubSeq(nums, i, i)) = 0 + nums[i] /\ nums[i] \in Int
    BY <1>1, <1>2, <1>3, SumOfNone
  <1>5. Sum(SubSeq(nums, i, i)) = nums[i]
    BY <1>4
  <1>6. ASSUME NEW j \in i .. Len(nums) PROVE Sum(SubSeq(nums, i, j)) \in Int
    <2>1. \A x, y \in Int : x + y \in Int
      OBVIOUS
    <2> QED  BY <1>2, <2>1
  <1>7. ASSUME NEW j \in i + 1 .. Len(nums)
        PROVE  Sum(SubSeq(nums, i, j)) = Sum(SubSeq(nums, i, j - 1)) + nums[j]
    <2>1. j \in i .. Len(nums)
      BY <1>1
    <2> QED  BY <1>2, <2>1
  <1> QED  BY <1>5, <1>6, <1>7

-----------------------------------------------------------------------------
(* MaxSubArray: the running sum is the largest sum of a segment that ends      *)
(* here, and best the largest so far.                                         *)

Running(nums, f) ==
  f = [i \in 1 .. Len(nums) |->
         IF i = 1 THEN nums[1] ELSE Larger(nums[i], f[i - 1] + nums[i])]
BestOf(nums, running, f) ==
  f = [i \in 1 .. Len(nums) |-> IF i = 1 THEN nums[1] ELSE Larger(f[i - 1], running[i])]

LEMMA LargerIs ==
  \A a, b \in Int : /\ Larger(a, b) \in {a, b} /\ Larger(a, b) \in Int
                    /\ a <= Larger(a, b) /\ b <= Larger(a, b)
BY DEF Larger

LEMMA RunningExists ==
  ASSUME NEW nums \in Seq(Int), nums # <<>>
  PROVE  \E f : Running(nums, f)
PROOF
  <1> DEFINE n == Len(nums)
             step == [ia \in (2 .. n) \X Int |-> Larger(nums[ia[1]], ia[2] + nums[ia[1]])]
  <1>1. n \in Nat /\ 1 <= n /\ \A i \in 1 .. n : nums[i] \in Int
    OBVIOUS
  <1>2. step \in Steps(Int, 1, n)
    <2>1. ASSUME NEW ia \in (2 .. n) \X Int
          PROVE  Larger(nums[ia[1]], ia[2] + nums[ia[1]]) \in Int
      <3>1. nums[ia[1]] \in Int /\ ia[2] + nums[ia[1]] \in Int
        BY <1>1
      <3> QED  BY <3>1, LargerIs
    <2> QED  BY <2>1 DEF Steps
  <1>3. \A i \in 2 .. n, a \in Int : step[<<i, a>>] = Larger(nums[i], a + nums[i])
    OBVIOUS
  <1> HIDE DEF step, n
  <1>4. PICK f : Follows(f, Int, 1, n, nums[1], step)
    BY <1>1, <1>2, RecursionExists
  <1>5. ASSUME NEW i \in 1 .. n
        PROVE  f[i] = IF i = 1 THEN nums[1] ELSE Larger(nums[i], f[i - 1] + nums[i])
    <2>1. CASE i = 1
      BY <1>4, <2>1 DEF Follows
    <2>2. CASE i # 1
      <3>1. i \in 1 + 1 .. n /\ i \in 2 .. n /\ i - 1 \in 1 .. n
        BY <1>1, <2>2
      <3>2. f[i - 1] \in Int /\ f[i] = step[<<i, f[i - 1]>>]
        BY <1>4, <3>1 DEF Follows
      <3> QED  BY <1>3, <2>2, <3>1, <3>2
    <2> QED  BY <2>1, <2>2
  <1>6. f = [i \in 1 .. n |-> f[i]]
    BY <1>4 DEF Follows
  <1> QED  BY <1>5, <1>6, ZenonT(30) DEF Running, n

LEMMA RunningIs ==
  ASSUME NEW nums \in Seq(Int), nums # <<>>, NEW running, Running(nums, running)
  PROVE  \A i \in 1 .. Len(nums) :
           /\ running[i] \in Int
           /\ \E k \in 1 .. i : running[i] = Sum(SubSeq(nums, k, i))
           /\ \A k \in 1 .. i : Sum(SubSeq(nums, k, i)) <= running[i]
PROOF
  <1> DEFINE n == Len(nums)
             S(k, i) == Sum(SubSeq(nums, k, i))
             right == {i \in 1 .. n : /\ running[i] \in Int
                                      /\ \E k \in 1 .. i : running[i] = S(k, i)
                                      /\ \A k \in 1 .. i : S(k, i) <= running[i]}
  <1>1. n \in Nat /\ 1 <= n /\ \A i \in 1 .. n : nums[i] \in Int
    OBVIOUS
  <1>2. /\ \A i \in 1 .. n : S(i, i) = nums[i] /\ \A j \in i .. n : S(i, j) \in Int
        /\ \A i \in 1 .. n : \A j \in i + 1 .. n : S(i, j) = S(i, j - 1) + nums[j]
    BY SegmentSums
  <1>3. running[1] = nums[1] /\ \A i \in 2 .. n : running[i] = Larger(nums[i], running[i - 1] + nums[i])
    BY <1>1 DEF Running
  <1> HIDE DEF n, S
  <1>4. 1 \in right
    BY <1>1, <1>2, <1>3
  <1>5. ASSUME NEW i \in 1 .. n - 1, i \in right PROVE i + 1 \in right
    <2> DEFINE j == i + 1
    <2>1. i \in 1 .. n /\ j \in 1 .. n /\ j \in 2 .. n /\ j - 1 = i /\ i \in Nat
      BY <1>1
    <2>2. running[j] = Larger(nums[j], running[i] + nums[j])
      BY <1>3, <2>1
    <2>3. /\ running[i] \in Int /\ \E k \in 1 .. i : running[i] = S(k, i)
          /\ \A k \in 1 .. i : S(k, i) <= running[i]
      BY <1>5
    <2>4. \A k \in 1 .. i : S(k, j) = S(k, i) + nums[j] /\ S(k, i) \in Int
      <3> TAKE k \in 1 .. i
      <3>1. k \in 1 .. n /\ j \in k + 1 .. n /\ i \in k .. n
        BY <1>1, <2>1
      <3> QED  BY <1>2, <2>1, <3>1
    <2>5. S(j, j) = nums[j] /\ nums[j] \in Int
      BY <1>1, <1>2, <2>1
    <2>6. \A k \in 1 .. j : k = j \/ k \in 1 .. i
      BY <2>1
    <2>9. j \in 1 .. j /\ \A k \in 1 .. i : k \in 1 .. j
      BY <2>1
    <2> HIDE DEF j
    <2>7. running[j] \in {nums[j], running[i] + nums[j]} /\ running[j] \in Int
          /\ nums[j] <= running[j] /\ running[i] + nums[j] <= running[j]
      <3>1. running[i] + nums[j] \in Int
        BY <2>3, <2>5
      <3> QED  BY <2>2, <2>5, <3>1, LargerIs
    <2>8. \E k \in 1 .. j : running[j] = S(k, j)
      <3>1. CASE running[j] = nums[j]
        BY <2>5, <2>9, <3>1
      <3>2. CASE running[j] = running[i] + nums[j]
        <4>1. PICK k \in 1 .. i : running[i] = S(k, i)
          BY <2>3
        <4> QED  BY <2>4, <2>9, <3>2, <4>1
      <3> QED  BY <2>7, <3>1, <3>2
    <2>10. ASSUME NEW k \in 1 .. j PROVE S(k, j) <= running[j]
      <3>1. CASE k = j
        BY <2>5, <2>7, <3>1
      <3>2. CASE k \in 1 .. i
        <4>1. S(k, j) = S(k, i) + nums[j] /\ S(k, i) \in Int /\ S(k, i) <= running[i]
          BY <2>3, <2>4, <3>2
        <4> QED  BY <2>3, <2>5, <2>7, <4>1
      <3> QED  BY <2>6, <3>1, <3>2
    <2>11. j \in right
      BY <2>1, <2>7, <2>8, <2>10
    <2> QED  BY <2>11 DEF j
  <1>6. \A i \in 1 .. n : i \in right
    <2>1. \A i \in 1 .. n - 1 : i \in right => i + 1 \in right
      BY <1>5
    <2>2. 1 \in Int /\ n \in Int
      BY <1>1
    <2> HIDE DEF right
    <2> QED  BY <1>4, <2>1, <2>2, RangeInduction
  <1> QED  BY <1>6 DEF n, S

LEMMA BestIs ==
  ASSUME NEW nums \in Seq(Int), nums # <<>>, NEW running, NEW best,
         Running(nums, running), BestOf(nums, running, best)
  PROVE  \A i \in 1 .. Len(nums) :
           /\ best[i] \in Int
           /\ \E ij \in Segments(nums) : best[i] = Sum(Segment(nums, ij))
           /\ \A ij \in Segments(nums) : ij[2] <= i => Sum(Segment(nums, ij)) <= best[i]
PROOF
  <1> DEFINE n == Len(nums)
             S(k, i) == Sum(SubSeq(nums, k, i))
             right == {i \in 1 .. n : /\ best[i] \in Int
                                      /\ \E j \in 1 .. n : \E k \in 1 .. j : best[i] = S(k, j)
                                      /\ \A j \in 1 .. i : \A k \in 1 .. j : S(k, j) <= best[i]}
  <1>1. n \in Nat /\ 1 <= n /\ DOMAIN nums = 1 .. n
    OBVIOUS
  <1>2. \A i \in 1 .. n : /\ running[i] \in Int
                          /\ \E k \in 1 .. i : running[i] = S(k, i)
                          /\ \A k \in 1 .. i : S(k, i) <= running[i]
    BY RunningIs
  <1>3. best[1] = nums[1] /\ \A i \in 2 .. n : best[i] = Larger(best[i - 1], running[i])
    BY <1>1, SMTT(20) DEF BestOf
  <1>4. running[1] = nums[1]
    BY <1>1 DEF Running
  <1>5. \A i \in 1 .. n : \A k \in 1 .. i : S(k, i) \in Int
    <2> TAKE i \in 1 .. n
    <2> TAKE k \in 1 .. i
    <2>1. k \in 1 .. n /\ i \in k .. n
      BY <1>1
    <2> QED  BY <2>1, SegmentSums
  <1> HIDE DEF n, S
  <1>6. 1 \in right
    <2>1. 1 \in 1 .. n /\ \A j \in 1 .. 1 : j = 1
      BY <1>1
    <2> QED  BY <1>2, <1>3, <1>4, <2>1
  <1>7. ASSUME NEW i \in 1 .. n - 1, i \in right PROVE i + 1 \in right
    <2> DEFINE h == i + 1
    <2>1. h \in 1 .. n /\ h \in 2 .. n /\ h - 1 = i /\ \A j \in 1 .. h : j = h \/ j \in 1 .. i
      BY <1>1
    <2>2. best[h] = Larger(best[i], running[h])
      BY <1>3, <2>1
    <2>3. /\ best[i] \in Int /\ \E j \in 1 .. n : \E k \in 1 .. j : best[i] = S(k, j)
          /\ \A j \in 1 .. i : \A k \in 1 .. j : S(k, j) <= best[i]
      BY <1>7
    <2> HIDE DEF h
    <2>4. best[h] \in {best[i], running[h]} /\ best[h] \in Int
          /\ best[i] <= best[h] /\ running[h] <= best[h]
      BY <1>2, <2>1, <2>2, <2>3, LargerIs
    <2>5. \E j \in 1 .. n : \E k \in 1 .. j : best[h] = S(k, j)
      BY <1>2, <2>1, <2>3, <2>4
    <2>6. ASSUME NEW j \in 1 .. h, NEW k \in 1 .. j PROVE S(k, j) <= best[h]
      <3>1. CASE j = h
        BY <1>2, <1>5, <2>1, <2>4, <3>1
      <3>2. CASE j \in 1 .. i
        <4>1. j \in 1 .. n
          BY <1>1, <3>2
        <4>2. S(k, j) \in Int /\ S(k, j) <= best[i]
          BY <1>5, <2>3, <3>2, <4>1
        <4> QED  BY <2>3, <2>4, <4>2
      <3> QED  BY <2>1, <3>1, <3>2
    <2>7. h \in right
      BY <2>1, <2>4, <2>5, <2>6
    <2> QED  BY <2>7 DEF h
  <1>8. \A i \in 1 .. n : i \in right
    <2>1. \A i \in 1 .. n - 1 : i \in right => i + 1 \in right
      BY <1>7
    <2>2. 1 \in Int /\ n \in Int
      BY <1>1
    <2> HIDE DEF right
    <2> QED  BY <1>6, <2>1, <2>2, RangeInduction
  <1>9. ASSUME NEW i \in 1 .. n
        PROVE  /\ best[i] \in Int
               /\ \E ij \in Segments(nums) : best[i] = S(ij[1], ij[2])
               /\ \A ij \in Segments(nums) : ij[2] <= i => S(ij[1], ij[2]) <= best[i]
    <2>1. /\ best[i] \in Int
          /\ \E j \in 1 .. n : \E k \in 1 .. j : best[i] = S(k, j)
          /\ \A j \in 1 .. i : \A k \in 1 .. j : S(k, j) <= best[i]
      BY <1>8
    <2>2. \E ij \in Segments(nums) : best[i] = S(ij[1], ij[2])
      <3>1. PICK j \in 1 .. n : \E k \in 1 .. j : best[i] = S(k, j)
        BY <2>1
      <3>2. PICK k \in 1 .. j : best[i] = S(k, j)
        BY <3>1
      <3>3. k \in 1 .. n /\ k <= j
        BY <1>1
      <3>4. <<k, j>> \in Segments(nums) /\ <<k, j>>[1] = k /\ <<k, j>>[2] = j
        BY <1>1, <3>3 DEF Segments
      <3> QED  BY <3>2, <3>4
    <2>3. ASSUME NEW ij \in Segments(nums), ij[2] <= i PROVE S(ij[1], ij[2]) <= best[i]
      <3>1. ij[1] \in 1 .. n /\ ij[2] \in 1 .. n /\ ij[1] <= ij[2]
        BY <1>1 DEF Segments
      <3>2. ij[2] \in 1 .. i /\ ij[1] \in 1 .. ij[2]
        BY <1>1, <2>3, <3>1
      <3> QED  BY <2>1, <3>2
    <2> QED  BY <2>1, <2>2, <2>3
  <1> QED  BY <1>9 DEF n, S, Segment

\* Kadane's algorithm: the running sum that drops what does not help finds the
\* largest sum of any segment, for numbers of any sign and any number of them.
THEOREM MaxSubArrayIsRight ==
  ASSUME NEW nums \in Seq(Int), nums # <<>>
  PROVE  MaxSubArrayRight(nums)
PROOF
  <1> DEFINE n == Len(nums)
             running == CHOOSE f : Running(nums, f)
             best == CHOOSE f : BestOf(nums, running, f)
             sums == {Sum(Segment(nums, ij)) : ij \in Segments(nums)}
  <1>1. MaxSubArray(nums) = best[n]
    BY DEF MaxSubArray, Running, BestOf
  <1>2. Running(nums, running)
    BY RunningExists, Zenon
  <1> HIDE DEF running
  <1>3. n \in Nat /\ 1 <= n /\ n \in 1 .. n /\ DOMAIN nums = 1 .. n /\ nums[1] \in Int
    OBVIOUS
  <1>4. \A i \in 1 .. n : running[i] \in Int
    BY <1>2, RunningIs
  <1>5. \E f : BestOf(nums, running, f)
    <2> DEFINE step == [ia \in (2 .. n) \X Int |-> Larger(ia[2], running[ia[1]])]
    <2>1. step \in Steps(Int, 1, n)
      <3>1. ASSUME NEW ia \in (2 .. n) \X Int PROVE Larger(ia[2], running[ia[1]]) \in Int
        <4>1. ia[1] \in 1 .. n /\ ia[2] \in Int
          BY <1>3
        <4> QED  BY <1>4, <4>1, LargerIs
      <3> QED  BY <3>1 DEF Steps
    <2>2. \A i \in 2 .. n, a \in Int : step[<<i, a>>] = Larger(a, running[i])
      OBVIOUS
    <2> HIDE DEF step, n
    <2>3. PICK f : Follows(f, Int, 1, n, nums[1], step)
      BY <1>3, <2>1, RecursionExists
    <2>4. ASSUME NEW i \in 1 .. n
          PROVE  f[i] = IF i = 1 THEN nums[1] ELSE Larger(f[i - 1], running[i])
      <3>1. CASE i = 1
        BY <2>3, <3>1 DEF Follows
      <3>2. CASE i # 1
        <4>1. i \in 1 + 1 .. n /\ i \in 2 .. n /\ i - 1 \in 1 .. n
          BY <1>3, <3>2
        <4>2. f[i - 1] \in Int /\ f[i] = step[<<i, f[i - 1]>>]
          BY <2>3, <4>1 DEF Follows
        <4> QED  BY <2>2, <3>2, <4>1, <4>2
      <3> QED  BY <3>1, <3>2
    <2>5. f = [i \in 1 .. n |-> f[i]]
      BY <2>3 DEF Follows
    <2> QED  BY <2>4, <2>5, ZenonT(30) DEF BestOf, n
  <1>6. BestOf(nums, running, best)
    BY <1>5, Zenon
  <1> HIDE DEF best
  <1>7. /\ best[n] \in Int
        /\ \E ij \in Segments(nums) : best[n] = Sum(Segment(nums, ij))
        /\ \A ij \in Segments(nums) : ij[2] <= n => Sum(Segment(nums, ij)) <= best[n]
    BY <1>2, <1>3, <1>6, BestIs
  <1>8. \A ij \in Segments(nums) : ij[2] <= n /\ Sum(Segment(nums, ij)) \in Int
    <2> TAKE ij \in Segments(nums)
    <2>1. ij[1] \in 1 .. n /\ ij[2] \in ij[1] .. n
      BY <1>3 DEF Segments
    <2>2. Sum(SubSeq(nums, ij[1], ij[2])) \in Int
      BY <2>1, SegmentSums
    <2> QED  BY <1>3, <2>1, <2>2 DEF Segment
  <1>9. sums \subseteq Int /\ best[n] \in sums /\ \A k \in sums : k <= best[n]
    BY <1>7, <1>8
  <1>10. Max(sums) = best[n]
    <2> HIDE DEF sums
    <2> QED  BY <1>9, MaxIs
  <1> QED  BY <1>1, <1>10 DEF MaxSubArrayRight

-----------------------------------------------------------------------------
(* MajorityElement: of the numbers seen so far, the candidate is the only one  *)
(* that may be more than half, and its lead bounds by how much.               *)

Leads == [candidate : Int, count : Nat]
Leading(nums, f) ==
  f = [i \in 0 .. Len(nums) |->
         IF i = 0 THEN [candidate |-> 0, count |-> 0] ELSE Lead(f[i - 1], nums[i])]
Seen(nums, i, v) == Cardinality({k \in 1 .. i : nums[k] = v})

LEMMA LeadIs ==
  ASSUME NEW acc \in Leads, NEW num \in Int
  PROVE  /\ Lead(acc, num) \in Leads
         /\ Lead(acc, num).candidate = IF acc.count = 0 THEN num ELSE acc.candidate
         /\ Lead(acc, num).count =
              IF acc.count = 0 \/ num = acc.candidate THEN acc.count + 1 ELSE acc.count - 1
BY DEF Leads, Lead

LEMMA LeadingExists ==
  ASSUME NEW nums \in Seq(Int)
  PROVE  \E f : Leading(nums, f)
PROOF
  <1> DEFINE n == Len(nums)
             none == [candidate |-> 0, count |-> 0]
             step == [ia \in (1 .. n) \X Leads |-> Lead(ia[2], nums[ia[1]])]
  <1>1. n \in Nat /\ (\A i \in 1 .. n : nums[i] \in Int) /\ none \in Leads
    BY DEF Leads
  <1>2. step \in Steps(Leads, 0, n)
    <2>1. ASSUME NEW ia \in (1 .. n) \X Leads PROVE Lead(ia[2], nums[ia[1]]) \in Leads
      <3>1. ia[2] \in Leads /\ nums[ia[1]] \in Int
        BY <1>1
      <3> QED  BY <3>1, LeadIs
    <2>2. 0 + 1 = 1
      OBVIOUS
    <2> QED  BY <2>1, <2>2 DEF Steps
  <1>3. \A i \in 1 .. n, a \in Leads : step[<<i, a>>] = Lead(a, nums[i])
    OBVIOUS
  <1> HIDE DEF step, n, none
  <1>4. PICK f : Follows(f, Leads, 0, n, none, step)
    <2>1. 0 \in Int /\ n \in Int /\ 0 <= n
      BY <1>1
    <2> QED  BY <1>1, <1>2, <2>1, RecursionExists
  <1>5. ASSUME NEW i \in 0 .. n
        PROVE  f[i] = IF i = 0 THEN none ELSE Lead(f[i - 1], nums[i])
    <2>1. CASE i = 0
      BY <1>4, <2>1 DEF Follows
    <2>2. CASE i # 0
      <3>1. i \in 0 + 1 .. n /\ i \in 1 .. n /\ i - 1 \in 0 .. n
        BY <1>1, <2>2
      <3>2. f[i - 1] \in Leads /\ f[i] = step[<<i, f[i - 1]>>]
        BY <1>4, <3>1 DEF Follows
      <3> QED  BY <1>3, <2>2, <3>1, <3>2
    <2> QED  BY <2>1, <2>2
  <1>6. f = [i \in 0 .. n |-> f[i]]
    BY <1>4 DEF Follows
  <1> QED  BY <1>5, <1>6 DEF Leading, n, none

LEMMA SeenCounts ==
  ASSUME NEW nums \in Seq(Int), NEW i \in 1 .. Len(nums), NEW v
  PROVE  /\ Seen(nums, i - 1, v) \in Nat
         /\ Seen(nums, i, v) = Seen(nums, i - 1, v) + IF nums[i] = v THEN 1 ELSE 0
PROOF
  <1> DEFINE A == {k \in 1 .. i - 1 : nums[k] = v}
             B == {k \in 1 .. i : nums[k] = v}
  <1>1. IsFiniteSet(A) /\ i \notin A
    <2>1. IsFiniteSet(1 .. i - 1)
      BY FS_Interval
    <2> QED  BY <2>1, FS_Subset
  <1>2. B = IF nums[i] = v THEN A \cup {i} ELSE A
    OBVIOUS
  <1>3. Cardinality(A) \in Nat /\ Cardinality(A \cup {i}) = Cardinality(A) + 1
    BY <1>1, FS_CardinalityType, FS_AddElement
  <1>4. Seen(nums, i - 1, v) = Cardinality(A) /\ Seen(nums, i, v) = Cardinality(B)
    BY DEF Seen
  <1> HIDE DEF A, B
  <1> QED  BY <1>2, <1>3, <1>4

LEMMA LeadBounds ==
  ASSUME NEW nums \in Seq(Int), NEW lead, Leading(nums, lead)
  PROVE  \A i \in 0 .. Len(nums) :
           /\ lead[i] \in Leads
           /\ \A v \in Int :
                2 * Seen(nums, i, v) <=
                  IF v = lead[i].candidate THEN i + lead[i].count ELSE i - lead[i].count
PROOF
  <1> DEFINE n == Len(nums)
             Bound(i, v) == 2 * Seen(nums, i, v) <=
                              IF v = lead[i].candidate THEN i + lead[i].count ELSE i - lead[i].count
             right == {i \in 0 .. n : lead[i] \in Leads /\ \A v \in Int : Bound(i, v)}
  <1>1. n \in Nat /\ \A i \in 1 .. n : nums[i] \in Int
    OBVIOUS
  <1>2. lead[0] = [candidate |-> 0, count |-> 0] /\ \A i \in 1 .. n : lead[i] = Lead(lead[i - 1], nums[i])
    BY <1>1, SMTT(20) DEF Leading
  <1>3. 0 \in right
    <2>1. \A v : Seen(nums, 0, v) = 0
      <3> TAKE v
      <3>1. {k \in 1 .. 0 : nums[k] = v} = {}
        OBVIOUS
      <3> QED  BY <3>1, FS_EmptySet DEF Seen
    <2> QED  BY <1>1, <1>2, <2>1 DEF Leads
  <1>4. ASSUME NEW i \in 0 .. n - 1, i \in right PROVE i + 1 \in right
    <2> DEFINE j == i + 1
               a == lead[i]
               b == lead[j]
    <2>1. j \in 1 .. n /\ j \in 0 .. n /\ j - 1 = i /\ i \in Nat /\ j = i + 1
      BY <1>1
    <2>2. b = Lead(a, nums[j]) /\ nums[j] \in Int
      BY <1>1, <1>2, <2>1
    <2>3. a \in Leads /\ \A v \in Int : Bound(i, v)
      BY <1>4
    <2>4. /\ b \in Leads
          /\ b.candidate = IF a.count = 0 THEN nums[j] ELSE a.candidate
          /\ b.count = IF a.count = 0 \/ nums[j] = a.candidate THEN a.count + 1 ELSE a.count - 1
      <3> HIDE DEF a, b, j
      <3> QED  BY <2>2, <2>3, LeadIs
    <2>5. ASSUME NEW v \in Int PROVE Bound(j, v)
      <3>1. /\ Seen(nums, i, v) \in Nat
            /\ Seen(nums, j, v) = Seen(nums, i, v) + IF nums[j] = v THEN 1 ELSE 0
        BY <2>1, SeenCounts
      <3>2. 2 * Seen(nums, i, v) <= IF v = a.candidate THEN i + a.count ELSE i - a.count
        BY <2>3
      <3>3. a.count \in Nat /\ a.candidate \in Int
        BY <2>3 DEF Leads
      <3> DEFINE s == Seen(nums, i, v)
                 t == Seen(nums, j, v)
      <3> HIDE DEF a, b, j, s, t
      <3>4. 2 * t <= IF v = b.candidate THEN j + b.count ELSE j - b.count
        <4>1. s \in Nat /\ t = s + IF nums[j] = v THEN 1 ELSE 0
          BY <3>1 DEF s, t
        <4>2. 2 * s <= IF v = a.candidate THEN i + a.count ELSE i - a.count
          BY <3>2 DEF s
        <4>3. CASE a.count = 0
          BY <2>1, <2>2, <2>4, <3>3, <4>1, <4>2, <4>3
        <4>4. CASE a.count # 0 /\ nums[j] = a.candidate
          BY <2>1, <2>2, <2>4, <3>3, <4>1, <4>2, <4>4, SMTT(20)
        <4>5. CASE a.count # 0 /\ nums[j] # a.candidate
          BY <2>1, <2>2, <2>4, <3>3, <4>1, <4>2, <4>5, SMTT(20)
        <4> QED  BY <4>3, <4>4, <4>5
      <3> QED  BY <3>4 DEF b, t
    <2> QED  BY <2>1, <2>4, <2>5
  <1>5. \A i \in 0 .. n : i \in right
    <2>1. \A i \in 0 .. n - 1 : i \in right => i + 1 \in right
      BY <1>4
    <2>2. 0 \in Int /\ n \in Int
      BY <1>1
    <2> HIDE DEF right
    <2> QED  BY <1>3, <2>1, <2>2, RangeInduction
  <1> QED  BY <1>5

\* Boyer-Moore: a number that is more than half of the array is the candidate in
\* the end, however the others are spread.
THEOREM MajorityElementIsRight ==
  ASSUME NEW nums \in Seq(Int)
  PROVE  MajorityRight(nums)
PROOF
  <1> DEFINE n == Len(nums)
             lead == CHOOSE f : Leading(nums, f)
  <1>1. MajorityElement(nums) = lead[n].candidate
    BY DEF MajorityElement, Leading
  <1>2. Leading(nums, lead)
    BY LeadingExists, Zenon
  <1> HIDE DEF lead
  <1>3. n \in Nat /\ n \in 0 .. n /\ DOMAIN nums = 1 .. n /\ ToSet(nums) \subseteq Int
    BY DEF ToSet
  <1>4. ASSUME NEW v \in ToSet(nums), 2 * Occurrences(nums, v) > Len(nums)
        PROVE  MajorityElement(nums) = v
    <2>1. Occurrences(nums, v) = Seen(nums, n, v)
      BY <1>3 DEF Occurrences, Seen
    <2>2. /\ lead[n] \in Leads
          /\ 2 * Seen(nums, n, v) <=
               IF v = lead[n].candidate THEN n + lead[n].count ELSE n - lead[n].count
      BY <1>2, <1>3, LeadBounds
    <2>3. Seen(nums, n, v) \in Nat
      <3>1. IsFiniteSet({k \in 1 .. n : nums[k] = v})
        <4>1. IsFiniteSet(1 .. n)
          BY <1>3, FS_Interval
        <4> QED  BY <4>1, FS_Subset
      <3> QED  BY <3>1, FS_CardinalityType DEF Seen
    <2>4. lead[n].count \in Nat
      BY <2>2 DEF Leads
    <2> HIDE DEF n
    <2>5. 2 * Seen(nums, n, v) > n
      BY <1>4, <2>1 DEF n
    <2> QED  BY <1>1, <1>3, <2>2, <2>3, <2>4, <2>5
  <1> QED  BY <1>4 DEF MajorityRight

-----------------------------------------------------------------------------
(* SortColors: zeros before low, ones before mid, twos after high, and the     *)
(* turns left are as many as there are numbers between mid and high.           *)

\* An exchange of places does not change how often a number occurs.
LEMMA PlacesExchanged ==
  ASSUME NEW n \in Nat, NEW s, NEW t, NEW v, DOMAIN s = 1 .. n, DOMAIN t = 1 .. n,
         NEW p \in [1 .. n -> 1 .. n],
         \A i \in 1 .. n : p[p[i]] = i /\ t[i] = s[p[i]]
  PROVE  Occurrences(t, v) = Occurrences(s, v)
PROOF
  <1> DEFINE A == {k \in 1 .. n : s[k] = v}
             B == {k \in 1 .. n : t[k] = v}
             f == [k \in B |-> p[k]]
  <1>1. f \in [B -> A]
    OBVIOUS
  <1>2. \A k \in A : p[k] \in B /\ p[p[k]] = k
    OBVIOUS
  <1>3. f \in Surjection(B, A)
    BY <1>1, <1>2 DEF Surjection
  <1>4. f \in Injection(B, A)
    <2>1. ASSUME NEW i \in B, NEW k \in B, f[i] = f[k] PROVE i = k
      <3>1. p[i] = p[k] /\ i \in 1 .. n /\ k \in 1 .. n
        BY <2>1
      <3>2. p[p[i]] = i /\ p[p[k]] = k
        BY <3>1
      <3> QED  BY <3>1, <3>2
    <2> HIDE DEF f
    <2>2. DOMAIN f = B
      BY <1>1
    <2> QED  BY <1>1, <2>1, <2>2 DEF Injection, IsInjective
  <1>5. ExistsBijection(B, A)
    BY <1>3, <1>4 DEF ExistsBijection, Bijection
  <1>6. IsFiniteSet(B)
    <2>1. IsFiniteSet(1 .. n)
      BY FS_Interval
    <2> QED  BY <2>1, FS_Subset
  <1>7. Cardinality(A) = Cardinality(B)
    BY <1>5, <1>6, FS_Bijection
  <1> QED  BY <1>7 DEF Occurrences

LEMMA SwapIs ==
  ASSUME NEW S, NEW s \in Seq(S), NEW i \in 1 .. Len(s), NEW j \in 1 .. Len(s)
  PROVE  /\ Swap(s, i, j) \in Seq(S) /\ Len(Swap(s, i, j)) = Len(s)
         /\ \A k \in 1 .. Len(s) :
              Swap(s, i, j)[k] = IF k = j THEN s[i] ELSE IF k = i THEN s[j] ELSE s[k]
         /\ \A v : Occurrences(Swap(s, i, j), v) = Occurrences(s, v)
PROOF
  <1> DEFINE n == Len(s)
             r == [s EXCEPT ![i] = s[j]]
             t == [r EXCEPT ![j] = s[i]]
  <1>1. n \in Nat /\ (\A k \in 1 .. n : s[k] \in S) /\ DOMAIN s = 1 .. n
    OBVIOUS
  <1>2. r \in Seq(S) /\ Len(r) = n /\ \A k \in 1 .. n : r[k] = IF k = i THEN s[j] ELSE s[k]
    BY <1>1, ExceptSeq
  <1> HIDE DEF r
  <1>3. t \in Seq(S) /\ Len(t) = n /\ \A k \in 1 .. n : t[k] = IF k = j THEN s[i] ELSE r[k]
    BY <1>1, <1>2, ExceptSeq
  <1>4. Swap(s, i, j) = t
    BY DEF Swap, r
  <1> HIDE DEF t
  <1>5. \A k \in 1 .. n : t[k] = IF k = j THEN s[i] ELSE IF k = i THEN s[j] ELSE s[k]
    BY <1>2, <1>3
  <1> DEFINE p == [k \in 1 .. n |-> IF k = j THEN i ELSE IF k = i THEN j ELSE k]
  <1>6. p \in [1 .. n -> 1 .. n] /\ \A k \in 1 .. n : p[p[k]] = k /\ t[k] = s[p[k]]
    BY <1>1, <1>5
  <1>7. DOMAIN t = 1 .. n
    BY <1>1, <1>3
  <1> HIDE DEF p, n
  <1>8. ASSUME NEW v PROVE Occurrences(t, v) = Occurrences(s, v)
    BY <1>1, <1>6, <1>7, PlacesExchanged, SMTT(20)
  <1> QED  BY <1>3, <1>4, <1>5, <1>8 DEF n

Zones(nums, s) ==
  /\ s.nums \in Seq({0, 1, 2}) /\ Len(s.nums) = Len(nums)
  /\ \A v : Occurrences(s.nums, v) = Occurrences(nums, v)
  /\ s.low \in 1 .. s.mid /\ s.mid \in 1 .. s.high + 1 /\ s.high \in 0 .. Len(nums)
  /\ \A k \in 1 .. Len(nums) : /\ k < s.low => s.nums[k] = 0
                               /\ s.low <= k /\ k < s.mid => s.nums[k] = 1
                               /\ s.high < k => s.nums[k] = 2

Colorings(n) == [nums : Seq({0, 1, 2}), low : Nat, mid : Nat, high : Nat]

\* What an exchange does to an array a of colours that has the elements of nums.
LEMMA SwapKeepsColors ==
  ASSUME NEW nums \in Seq({0, 1, 2}), NEW a \in Seq({0, 1, 2}), Len(a) = Len(nums),
         \A v : Occurrences(a, v) = Occurrences(nums, v),
         NEW i \in 1 .. Len(nums), NEW j \in 1 .. Len(nums)
  PROVE  /\ Swap(a, i, j) \in Seq({0, 1, 2}) /\ Len(Swap(a, i, j)) = Len(nums)
         /\ \A k \in 1 .. Len(nums) :
              Swap(a, i, j)[k] = IF k = j THEN a[i] ELSE IF k = i THEN a[j] ELSE a[k]
         /\ \A v : Occurrences(Swap(a, i, j), v) = Occurrences(nums, v)
PROOF
  <1> DEFINE S == {0, 1, 2}
  <1>1. a \in Seq(S) /\ i \in 1 .. Len(a) /\ j \in 1 .. Len(a)
    OBVIOUS
  <1> HIDE DEF S
  <1>2. /\ Swap(a, i, j) \in Seq(S) /\ Len(Swap(a, i, j)) = Len(a)
        /\ \A k \in 1 .. Len(a) :
             Swap(a, i, j)[k] = IF k = j THEN a[i] ELSE IF k = i THEN a[j] ELSE a[k]
        /\ \A v : Occurrences(Swap(a, i, j), v) = Occurrences(a, v)
    BY <1>1, SwapIs, SMTT(20)
  <1> QED  BY <1>2 DEF S

LEMMA ColoredKeepsZones ==
  ASSUME NEW nums \in Seq({0, 1, 2}), NEW s \in Colorings(Len(nums)), Zones(nums, s)
  PROVE  /\ Zones(nums, Colored(s)) /\ Colored(s) \in Colorings(Len(nums))
         /\ s.mid > s.high => Colored(s) = s
         /\ ~(s.mid > s.high) => Colored(s).high - Colored(s).mid = s.high - s.mid - 1
PROOF
  <1> DEFINE n == Len(nums)
             t == Colored(s)
  <1>1. /\ n \in Nat /\ s.low \in Nat /\ s.mid \in Nat /\ s.high \in Nat /\ Len(s.nums) = n
        /\ s.nums \in Seq({0, 1, 2}) /\ 1 <= s.low /\ s.low <= s.mid /\ s.mid <= s.high + 1
        /\ s.high <= n
        /\ \A k \in 1 .. n : s.nums[k] \in {0, 1, 2}
        /\ \A k \in 1 .. n : /\ k < s.low => s.nums[k] = 0
                             /\ s.low <= k /\ k < s.mid => s.nums[k] = 1
                             /\ s.high < k => s.nums[k] = 2
        /\ \A v : Occurrences(s.nums, v) = Occurrences(nums, v)
    <2>1. n \in Nat
      OBVIOUS
    <2>2. s.low \in Nat /\ s.mid \in Nat /\ s.high \in Nat /\ s.nums \in Seq({0, 1, 2})
      BY DEF Colorings
    <2> HIDE DEF n
    <2> QED  BY <2>1, <2>2 DEF Zones, n
  <1>2. CASE s.mid > s.high
    BY <1>2 DEF Colored
  <1>3. CASE ~(s.mid > s.high) /\ s.nums[s.mid] = 0
    <2>1. s.low \in 1 .. n /\ s.mid \in 1 .. n
      BY <1>1, <1>3
    <2> DEFINE w == Swap(s.nums, s.low, s.mid)
    <2>2. /\ w \in Seq({0, 1, 2}) /\ Len(w) = n
          /\ \A k \in 1 .. n : w[k] = IF k = s.mid THEN s.nums[s.low]
                                      ELSE IF k = s.low THEN s.nums[s.mid] ELSE s.nums[k]
          /\ \A v : Occurrences(w, v) = Occurrences(nums, v)
      <3> DEFINE a == s.nums  i == s.low  j == s.mid
      <3>1. /\ a \in Seq({0, 1, 2}) /\ Len(a) = Len(nums)
            /\ \A v : Occurrences(a, v) = Occurrences(nums, v)
            /\ i \in 1 .. Len(nums) /\ j \in 1 .. Len(nums)
        BY <1>1, <2>1
      <3> HIDE DEF a, i, j
      <3>2. /\ Swap(a, i, j) \in Seq({0, 1, 2}) /\ Len(Swap(a, i, j)) = Len(nums)
            /\ \A k \in 1 .. Len(nums) :
                 Swap(a, i, j)[k] = IF k = j THEN a[i] ELSE IF k = i THEN a[j] ELSE a[k]
            /\ \A v : Occurrences(Swap(a, i, j), v) = Occurrences(nums, v)
        BY <3>1, SwapKeepsColors
      <3> QED  BY <3>2 DEF a, i, j, n
    <2>3. t = [nums |-> w, low |-> s.low + 1, mid |-> s.mid + 1, high |-> s.high]
      BY <1>3 DEF Colored
    <2> HIDE DEF w, t
    <2>4. t.nums = w /\ t.low = s.low + 1 /\ t.mid = s.mid + 1 /\ t.high = s.high
      BY <2>3
    <2>5. ASSUME NEW k \in 1 .. n
          PROVE  /\ k < s.low + 1 => w[k] = 0
                 /\ s.low + 1 <= k /\ k < s.mid + 1 => w[k] = 1
                 /\ s.high < k => w[k] = 2
      <3>1. CASE k = s.mid /\ k = s.low
        BY <1>1, <1>3, <2>1, <2>2, <3>1
      <3>2. CASE k = s.mid /\ k # s.low
        <4>1. w[k] = s.nums[s.low] /\ s.low < s.mid
          BY <1>1, <2>1, <2>2, <3>2
        <4>2. s.nums[s.low] = 1
          BY <1>1, <2>1, <4>1
        <4> QED  BY <1>1, <1>3, <3>2, <4>1, <4>2
      <3>3. CASE k # s.mid /\ k = s.low
        <4>1. w[k] = 0
          BY <1>3, <2>1, <2>2, <3>3
        <4> QED  BY <1>1, <1>3, <3>3, <4>1
      <3>4. CASE k # s.mid /\ k # s.low
        <4>1. w[k] = s.nums[k]
          BY <2>2, <3>4
        <4> QED  BY <1>1, <1>3, <3>4, <4>1
      <3> QED  BY <3>1, <3>2, <3>3, <3>4
    <2>6. Zones(nums, t)
      BY <1>1, <1>3, <2>2, <2>4, <2>5 DEF Zones
    <2>7. t \in Colorings(n)
      BY <1>1, <2>2, <2>3 DEF Colorings
    <2> QED  BY <1>1, <1>3, <2>4, <2>6, <2>7 DEF t
  <1>4. CASE ~(s.mid > s.high) /\ s.nums[s.mid] = 1
    <2>1. t = [s EXCEPT !.mid = s.mid + 1]
      BY <1>4 DEF Colored
    <2> HIDE DEF t
    <2>2. t.nums = s.nums /\ t.low = s.low /\ t.mid = s.mid + 1 /\ t.high = s.high
          /\ t \in Colorings(n)
      BY <1>1, <2>1 DEF Colorings
    <2>3. Zones(nums, t)
      BY <1>1, <1>4, <2>2 DEF Zones
    <2> QED  BY <1>1, <1>4, <2>2, <2>3 DEF t
  <1>5. CASE ~(s.mid > s.high) /\ s.nums[s.mid] = 2
    <2>1. s.high \in 1 .. n /\ s.mid \in 1 .. n
      BY <1>1, <1>5
    <2> DEFINE w == Swap(s.nums, s.mid, s.high)
    <2>2. /\ w \in Seq({0, 1, 2}) /\ Len(w) = n
          /\ \A k \in 1 .. n : w[k] = IF k = s.high THEN s.nums[s.mid]
                                      ELSE IF k = s.mid THEN s.nums[s.high] ELSE s.nums[k]
          /\ \A v : Occurrences(w, v) = Occurrences(nums, v)
      <3> DEFINE a == s.nums  i == s.mid  j == s.high
      <3>1. /\ a \in Seq({0, 1, 2}) /\ Len(a) = Len(nums)
            /\ \A v : Occurrences(a, v) = Occurrences(nums, v)
            /\ i \in 1 .. Len(nums) /\ j \in 1 .. Len(nums)
        BY <1>1, <2>1
      <3> HIDE DEF a, i, j
      <3>2. /\ Swap(a, i, j) \in Seq({0, 1, 2}) /\ Len(Swap(a, i, j)) = Len(nums)
            /\ \A k \in 1 .. Len(nums) :
                 Swap(a, i, j)[k] = IF k = j THEN a[i] ELSE IF k = i THEN a[j] ELSE a[k]
            /\ \A v : Occurrences(Swap(a, i, j), v) = Occurrences(nums, v)
        BY <3>1, SwapKeepsColors
      <3> QED  BY <3>2 DEF a, i, j, n
    <2>3. t = [s EXCEPT !.nums = w, !.high = s.high - 1]
      BY <1>5 DEF Colored
    <2> HIDE DEF w, t
    <2>4. t.nums = w /\ t.low = s.low /\ t.mid = s.mid /\ t.high = s.high - 1
          /\ t \in Colorings(n)
      <3>1. s.high - 1 \in Nat
        BY <2>1
      <3> QED  BY <2>2, <2>3, <3>1 DEF Colorings
    <2>5. ASSUME NEW k \in 1 .. n
          PROVE  /\ k < s.low => w[k] = 0
                 /\ s.low <= k /\ k < s.mid => w[k] = 1
                 /\ s.high - 1 < k => w[k] = 2
      BY <1>1, <1>5, <2>1, <2>2, SMTT(20)
    <2>6. Zones(nums, t)
      BY <1>1, <1>5, <2>1, <2>2, <2>4, <2>5 DEF Zones
    <2> QED  BY <1>1, <1>5, <2>4, <2>6 DEF t
  <1>6. s.mid > s.high \/ s.nums[s.mid] \in {0, 1, 2}
    BY <1>1
  <1> QED  BY <1>2, <1>3, <1>4, <1>5, <1>6

Coloring(nums, f) ==
  f = [i \in 0 .. Len(nums) |->
         IF i = 0 THEN [nums |-> nums, low |-> 1, mid |-> 1, high |-> Len(nums)]
         ELSE Colored(f[i - 1])]

\* The states of the loop that a run on nums can be in.
ZonesOf(nums) == {s \in Colorings(Len(nums)) : Zones(nums, s)}

LEMMA ColoringExists ==
  ASSUME NEW nums \in Seq({0, 1, 2})
  PROVE  /\ \E f : Coloring(nums, f)
         /\ [nums |-> nums, low |-> 1, mid |-> 1, high |-> Len(nums)] \in ZonesOf(nums)
PROOF
  <1> DEFINE n == Len(nums)
             A == ZonesOf(nums)
             first == [nums |-> nums, low |-> 1, mid |-> 1, high |-> n]
             step == [ia \in (1 .. n) \X A |-> Colored(ia[2])]
  <1>1. n \in Nat /\ \A i \in 1 .. n : nums[i] \in {0, 1, 2}
    OBVIOUS
  <1>2. first \in A
    BY <1>1 DEF ZonesOf, Zones, Colorings
  <1>3. step \in Steps(A, 0, n)
    <2>1. ASSUME NEW ia \in (1 .. n) \X A PROVE Colored(ia[2]) \in A
      <3>1. ia[2] \in Colorings(n) /\ Zones(nums, ia[2])
        BY DEF ZonesOf
      <3> QED  BY <3>1, ColoredKeepsZones DEF ZonesOf
    <2>2. 0 + 1 = 1
      OBVIOUS
    <2> HIDE DEF A
    <2> QED  BY <2>1, <2>2 DEF Steps
  <1>4. \A i \in 1 .. n, a \in A : step[<<i, a>>] = Colored(a)
    OBVIOUS
  <1> HIDE DEF step, n, first, A
  <1>5. PICK f : Follows(f, A, 0, n, first, step)
    <2>1. 0 \in Int /\ n \in Int /\ 0 <= n
      BY <1>1
    <2> QED  BY <1>2, <1>3, <2>1, RecursionExists
  <1>6. ASSUME NEW i \in 0 .. n
        PROVE  f[i] = IF i = 0 THEN first ELSE Colored(f[i - 1])
    <2>1. CASE i = 0
      BY <1>5, <2>1 DEF Follows
    <2>2. CASE i # 0
      <3>1. i \in 0 + 1 .. n /\ i \in 1 .. n /\ i - 1 \in 0 .. n
        BY <1>1, <2>2
      <3>2. f[i - 1] \in A /\ f[i] = step[<<i, f[i - 1]>>]
        BY <1>5, <3>1 DEF Follows
      <3> QED  BY <1>4, <2>2, <3>1, <3>2
    <2> QED  BY <2>1, <2>2
  <1>7. f = [i \in 0 .. n |-> f[i]]
    BY <1>5 DEF Follows
  <1> QED  BY <1>2, <1>6, <1>7 DEF Coloring, n, first, A

LEMMA ColoringEnds ==
  ASSUME NEW nums \in Seq({0, 1, 2}), NEW colored, Coloring(nums, colored)
  PROVE  \A i \in 0 .. Len(nums) :
           /\ colored[i] \in ZonesOf(nums)
           /\ colored[i].high - colored[i].mid < Len(nums) - i
PROOF
  <1> DEFINE n == Len(nums)
             A == ZonesOf(nums)
             right == {i \in 0 .. n : colored[i] \in A /\ colored[i].high - colored[i].mid < n - i}
  <1>1. n \in Nat
    OBVIOUS
  <1>2. /\ colored[0] = [nums |-> nums, low |-> 1, mid |-> 1, high |-> n]
        /\ \A i \in 1 .. n : colored[i] = Colored(colored[i - 1])
    BY <1>1 DEF Coloring
  <1>3. 0 \in right
    BY <1>1, <1>2, ColoringExists
  <1>4. ASSUME NEW i \in 0 .. n - 1, i \in right PROVE i + 1 \in right
    <2> DEFINE s == colored[i]
               t == colored[i + 1]
    <2>1. i + 1 \in 1 .. n /\ (i + 1) - 1 = i /\ i \in Int
      BY <1>1
    <2>2. t = Colored(s)
      BY <1>2, <2>1
    <2>3. s \in Colorings(n) /\ Zones(nums, s) /\ s.high - s.mid < n - i
      BY <1>4 DEF ZonesOf
    <2>4. s.high \in Nat /\ s.mid \in Nat
      BY <2>3 DEF Colorings
    <2> HIDE DEF s, t
    <2>5. t \in Colorings(n) /\ Zones(nums, t) /\ t.high - t.mid < n - (i + 1)
      <3>1. /\ Zones(nums, t) /\ t \in Colorings(n)
            /\ s.mid > s.high => t = s
            /\ ~(s.mid > s.high) => t.high - t.mid = s.high - s.mid - 1
        BY <2>2, <2>3, ColoredKeepsZones
      <3>2. t.high \in Nat /\ t.mid \in Nat
        BY <3>1 DEF Colorings
      <3>3. CASE s.mid > s.high
        BY <1>1, <2>1, <2>3, <2>4, <3>1, <3>3
      <3>4. CASE ~(s.mid > s.high)
        BY <1>1, <2>1, <2>3, <2>4, <3>1, <3>2, <3>4
      <3> QED  BY <3>1, <3>3, <3>4
    <2> QED  BY <2>1, <2>5 DEF t, ZonesOf
  <1>5. \A i \in 0 .. n : i \in right
    <2>1. \A i \in 0 .. n - 1 : i \in right => i + 1 \in right
      BY <1>4
    <2>2. 0 \in Int /\ n \in Int
      BY <1>1
    <2> HIDE DEF right
    <2> QED  BY <1>3, <2>1, <2>2, RangeInduction
  <1> QED  BY <1>5

\* The Dutch flag: one pass of exchanges leaves the same zeros, ones and twos,
\* in order.
THEOREM SortColorsIsRight ==
  ASSUME NEW nums \in Seq(Int)
  PROVE  SortColorsRight(nums)
PROOF
  <1> SUFFICES ASSUME ToSet(nums) \subseteq {0, 1, 2}
               PROVE  Sorted(SortColors(nums)) /\ SameElements(nums, SortColors(nums))
    BY DEF SortColorsRight
  <1> DEFINE n == Len(nums)
             colored == CHOOSE f : Coloring(nums, f)
             s == colored[n]
  <1>1. nums \in Seq({0, 1, 2}) /\ n \in Nat /\ n \in 0 .. n
    <2>1. n \in Nat /\ \A i \in 1 .. n : nums[i] \in {0, 1, 2}
      BY DEF ToSet
    <2> QED  BY <2>1
  <1>2. SortColors(nums) = s.nums
    BY DEF SortColors, Coloring
  <1>3. Coloring(nums, colored)
    BY <1>1, ColoringExists, Zenon
  <1> HIDE DEF colored
  <1>4. s \in ZonesOf(nums) /\ s.high - s.mid < n - n
    BY <1>1, <1>3, ColoringEnds
  <1>5. s.high \in Nat /\ s.mid \in Nat /\ s.low \in Nat /\ Zones(nums, s)
    BY <1>4 DEF ZonesOf, Colorings
  <1> HIDE DEF s
  <1>6. s.high < s.mid
    BY <1>1, <1>4, <1>5
  <1>7. Len(s.nums) = n /\ \A k \in 1 .. n : /\ k < s.low => s.nums[k] = 0
                                             /\ s.low <= k /\ k < s.mid => s.nums[k] = 1
                                             /\ s.mid <= k => s.nums[k] = 2
    BY <1>1, <1>5, <1>6 DEF Zones
  <1>8. Sorted(s.nums)
    <2>1. ASSUME NEW k \in 1 .. n - 1 PROVE s.nums[k] <= s.nums[k + 1]
      <3>1. k \in 1 .. n /\ k + 1 \in 1 .. n
        BY <1>1
      <3>2. s.low <= s.mid
        BY <1>5 DEF Zones
      <3> HIDE DEF n
      <3>3. k \in Nat /\ (k < s.low \/ (s.low <= k /\ k < s.mid) \/ s.mid <= k)
        BY <1>5, <3>1
      <3>4. CASE k < s.low
        <4>1. s.nums[k] = 0 /\ s.nums[k + 1] \in {0, 1, 2}
          BY <1>5, <1>7, <3>1, <3>4
        <4> QED  BY <4>1
      <3>5. CASE s.low <= k /\ k < s.mid
        <4>1. s.nums[k] = 1 /\ (k + 1 < s.mid \/ s.mid <= k + 1) /\ s.low <= k + 1
          BY <1>5, <1>7, <3>1, <3>3, <3>5
        <4>2. s.nums[k + 1] \in {1, 2}
          BY <1>7, <3>1, <4>1
        <4> QED  BY <4>1, <4>2
      <3>6. CASE s.mid <= k
        <4>1. s.mid <= k + 1
          BY <1>5, <3>3, <3>6
        <4>2. s.nums[k] = 2 /\ s.nums[k + 1] = 2
          BY <1>7, <3>1, <3>6, <4>1
        <4> QED  BY <4>2
      <3> QED  BY <3>3, <3>4, <3>5, <3>6
    <2> QED  BY <1>7, <2>1 DEF Sorted
  <1>9. SameElements(nums, s.nums)
    BY <1>5, <1>7 DEF SameElements, Zones
  <1> QED  BY <1>2, <1>8, <1>9

-----------------------------------------------------------------------------
(* Rotate.                                                                    *)

\* What division leaves is unique.
LEMMA RemainderIs ==
  ASSUME NEW x \in Int, NEW n \in Nat \ {0}, NEW q \in Int, NEW r \in 0 .. n - 1,
         x = q * n + r
  PROVE  x % n = r
PROOF
  <1> DEFINE d == x \div n
             m == x % n
  <1>1. d \in Int /\ m \in 0 .. n - 1 /\ x = d * n + m
    OBVIOUS
  <1> HIDE DEF d, m
  <1>2. ASSUME NEW a \in Int, NEW b \in Int, NEW s \in 0 .. n - 1, NEW u \in 0 .. n - 1,
               a * n + s = b * n + u, a > b
        PROVE  FALSE
    <2>1. (a - b) * n >= n
      <3> DEFINE e == a - b - 1
      <3>1. e \in Nat /\ a - b = e + 1 /\ n \in Nat
        BY <1>2
      <3> HIDE DEF e
      <3>2. e * n \in Nat /\ (e + 1) * n = e * n + n
        BY <3>1
      <3> QED  BY <3>1, <3>2
    <2>2. (a - b) * n = a * n - b * n
      OBVIOUS
    <2>3. a * n \in Int /\ b * n \in Int /\ n \in Nat
      OBVIOUS
    <2> QED  BY <1>2, <2>1, <2>2, <2>3
  <1>3. q * n + r = d * n + m
    BY <1>1
  <1>4. q = d
    BY <1>1, <1>2, <1>3
  <1>5. d * n \in Int
    BY <1>1
  <1>6. m = r
    BY <1>1, <1>3, <1>4, <1>5
  <1> QED  BY <1>6 DEF m

\* Three reversals turn the array by k places, also when k is more than its length.
THEOREM RotateIsRight ==
  ASSUME NEW nums \in Seq(Int), nums # <<>>, NEW k \in Nat
  PROVE  RotateRight(nums, k)
PROOF
  <1> DEFINE n == Len(nums)
             r == k % n
             a == Reversed(nums, 1, n)
             b == Reversed(a, 1, r)
             c == Reversed(b, r + 1, n)
  <1>1. n \in Nat \ {0} /\ DOMAIN nums = 1 .. n
    OBVIOUS
  <1>2. r \in 0 .. n - 1 /\ k = (k \div n) * n + r /\ k \div n \in Int
    BY <1>1
  <1>3. Rotate(nums, k) = c
    BY DEF Rotate
  <1> HIDE DEF n, r
  <1>4. DOMAIN a = 1 .. n /\ \A i \in 1 .. n : a[i] = nums[n + 1 - i]
    BY <1>1 DEF Reversed
  <1> HIDE DEF a
  <1>5. DOMAIN b = 1 .. n /\ \A i \in 1 .. n : b[i] = IF i <= r THEN a[r + 1 - i] ELSE a[i]
    BY <1>1, <1>2, <1>4 DEF Reversed
  <1> HIDE DEF b
  <1>6. /\ c = [i \in 1 .. n |-> c[i]]
        /\ \A i \in 1 .. n : c[i] = IF i <= r THEN b[i] ELSE b[r + 1 + n - i]
    BY <1>1, <1>2, <1>5 DEF Reversed
  <1> HIDE DEF c
  <1>7. ASSUME NEW i \in 1 .. n
        PROVE  c[i] = nums[((i - 1 - k) % n) + 1]
    <2> DEFINE q == k \div n
               place == IF i <= r THEN n - r + i ELSE i - r
    <2>1. q \in Int /\ k = q * n + r /\ q * n \in Int
      BY <1>1, <1>2
    <2>2. c[i] = nums[place]
      <3>1. CASE i <= r
        <4>1. r + 1 - i \in 1 .. n /\ n + 1 - (r + 1 - i) = n - r + i
          BY <1>1, <1>2, <3>1
        <4> QED  BY <1>4, <1>5, <1>6, <3>1, <4>1
      <3>2. CASE ~(i <= r)
        <4>1. /\ r + 1 + n - i \in 1 .. n /\ ~(r + 1 + n - i <= r)
              /\ n + 1 - (r + 1 + n - i) = i - r
          BY <1>1, <1>2, <3>2
        <4> QED  BY <1>4, <1>5, <1>6, <3>2, <4>1
      <3> QED  BY <3>1, <3>2
    <2> HIDE DEF q
    <2>3. \E h \in Int : i - 1 - k = h * n + (place - 1)
      <3>1. CASE i <= r
        <4>1. i - 1 - k = (-q - 1) * n + (place - 1)
          <5>1. (-q - 1) * n = -(q * n) - n
            BY <1>1, <2>1
          <5> QED  BY <1>1, <1>2, <2>1, <3>1, <5>1
        <4> QED  BY <2>1, <4>1
      <3>2. CASE ~(i <= r)
        <4>1. i - 1 - k = (-q) * n + (place - 1)
          <5>1. (-q) * n = -(q * n)
            BY <1>1, <2>1
          <5> QED  BY <1>1, <1>2, <2>1, <3>2, <5>1
        <4> QED  BY <2>1, <4>1
      <3> QED  BY <3>1, <3>2
    <2>4. place - 1 \in 0 .. n - 1 /\ i - 1 - k \in Int /\ place \in Int
      BY <1>1, <1>2
    <2> HIDE DEF place
    <2>5. (i - 1 - k) % n = place - 1
      BY <1>1, <2>3, <2>4, RemainderIs
    <2> QED  BY <2>2, <2>4, <2>5
  <1>8. c = [i \in DOMAIN nums |-> nums[((i - 1 - k) % n) + 1]]
    BY <1>1, <1>6, <1>7
  <1> QED  BY <1>3, <1>8 DEF RotateRight, n

-----------------------------------------------------------------------------
(* FindDuplicate: the array as a step from an index to the next.               *)

Walk(nums, f) ==
  f = [k \in 0 .. 2 * Len(nums) |-> IF k = 0 THEN nums[1] ELSE nums[f[k - 1] + 1]]

\* n numbers of 1..n - 1, as the problem has them.
Indices(n) == {nums \in Seq(Int) : Len(nums) = n /\ \A i \in 1 .. n : nums[i] \in 1 .. n - 1}

LEMMA WalkExists ==
  ASSUME NEW n \in Nat \ {0}, NEW nums \in Indices(n)
  PROVE  \E f : Walk(nums, f) /\ f \in [0 .. 2 * n -> 1 .. n - 1]
PROOF
  <1> DEFINE A == 1 .. n - 1
             hi == 2 * n
             step == [ia \in (1 .. hi) \X A |-> nums[ia[2] + 1]]
  <1>1. /\ hi \in Int /\ 0 <= hi /\ Len(nums) = n /\ \A i \in 1 .. n : nums[i] \in A
        /\ nums[1] \in A
    BY DEF Indices
  <1>2. step \in Steps(A, 0, hi)
    <2>1. ASSUME NEW ia \in (1 .. hi) \X A PROVE nums[ia[2] + 1] \in A
      <3>1. ia[2] + 1 \in 1 .. n
        OBVIOUS
      <3> QED  BY <1>1, <3>1
    <2>2. 0 + 1 = 1
      OBVIOUS
    <2> QED  BY <2>1, <2>2 DEF Steps
  <1>3. \A i \in 1 .. hi, a \in A : step[<<i, a>>] = nums[a + 1]
    OBVIOUS
  <1> HIDE DEF step, hi, A
  <1>4. PICK f : Follows(f, A, 0, hi, nums[1], step)
    <2>1. 0 \in Int
      OBVIOUS
    <2> QED  BY <1>1, <1>2, <2>1, RecursionExists
  <1>5. ASSUME NEW i \in 0 .. hi
        PROVE  f[i] = IF i = 0 THEN nums[1] ELSE nums[f[i - 1] + 1]
    <2>1. CASE i = 0
      BY <1>4, <2>1 DEF Follows
    <2>2. CASE i # 0
      <3>1. i \in 0 + 1 .. hi /\ i \in 1 .. hi /\ i - 1 \in 0 .. hi
        BY <1>1, <2>2
      <3>2. f[i - 1] \in A /\ f[i] = step[<<i, f[i - 1]>>]
        BY <1>4, <3>1 DEF Follows
      <3> QED  BY <1>3, <2>2, <3>1, <3>2
    <2> QED  BY <2>1, <2>2
  <1>6. f = [i \in 0 .. hi |-> f[i]] /\ f \in [0 .. hi -> A]
    BY <1>4 DEF Follows
  <1> QED  BY <1>1, <1>5, <1>6, ZenonT(30) DEF Walk, hi, A

LEMMA WalkIs ==
  ASSUME NEW n \in Nat \ {0}, NEW nums \in Indices(n), NEW path, Walk(nums, path)
  PROVE  /\ path[0] = nums[1]
         /\ \A k \in 1 .. 2 * n : path[k] = nums[path[k - 1] + 1]
         /\ \A k \in 0 .. 2 * n : path[k] \in 1 .. n - 1
PROOF
  <1> DEFINE hi == 2 * n
             right == {k \in 0 .. hi : path[k] \in 1 .. n - 1}
  <1>1. hi \in Nat /\ Len(nums) = n /\ \A i \in 1 .. n : nums[i] \in 1 .. n - 1
    BY DEF Indices
  <1>2. path[0] = nums[1] /\ \A k \in 1 .. hi : path[k] = nums[path[k - 1] + 1]
    <2>1. path = [k \in 0 .. hi |-> IF k = 0 THEN nums[1] ELSE nums[path[k - 1] + 1]]
      BY <1>1 DEF Walk
    <2>2. 0 \in 0 .. hi /\ \A k \in 1 .. hi : k \in 0 .. hi /\ k # 0
      BY <1>1
    <2> HIDE DEF hi
    <2>3. \A k \in 0 .. hi : path[k] = IF k = 0 THEN nums[1] ELSE nums[path[k - 1] + 1]
      BY <2>1, Zenon
    <2> QED  BY <2>2, <2>3
  <1> HIDE DEF hi
  <1>3. 0 \in right
    BY <1>1, <1>2
  <1>4. \A k \in 0 .. hi - 1 : k \in right => k + 1 \in right
    <2> SUFFICES ASSUME NEW k \in 0 .. hi - 1, k \in right PROVE k + 1 \in right
      OBVIOUS
    <2>1. k + 1 \in 1 .. hi /\ (k + 1) - 1 = k /\ k + 1 \in 0 .. hi
      BY <1>1
    <2>2. path[k] + 1 \in 1 .. n
      OBVIOUS
    <2> QED  BY <1>1, <1>2, <2>1, <2>2
  <1>5. \A k \in 0 .. hi : k \in right
    <2>1. 0 \in Int /\ hi \in Int
      BY <1>1
    <2> HIDE DEF right
    <2> QED  BY <1>3, <1>4, <2>1, RangeInduction
  <1> QED  BY <1>2, <1>5 DEF hi

\* There are more steps than indices, so that the walk comes back to one, and
\* from there on goes round.
LEMMA WalkReturns ==
  ASSUME NEW n \in Nat \ {0}, NEW path, \A k \in 0 .. 2 * n : path[k] \in 1 .. n - 1
  PROVE  \E i \in 0 .. n - 1 : \E c \in 1 .. n - 1 : i + c <= n - 1 /\ path[i] = path[i + c]
PROOF
  <1> DEFINE f == [k \in 0 .. n - 1 |-> path[k]]
  <1>1. f \in [0 .. n - 1 -> 1 .. n - 1]
    <2>1. \A k \in 0 .. n - 1 : k \in 0 .. 2 * n
      OBVIOUS
    <2> QED  BY <2>1
  <1>2. /\ IsFiniteSet(0 .. n - 1) /\ IsFiniteSet(1 .. n - 1)
        /\ Cardinality(0 .. n - 1) = n /\ Cardinality(1 .. n - 1) = n - 1
    BY FS_Interval
  <1> HIDE DEF f
  <1>3. PICK x \in 0 .. n - 1, y \in 0 .. n - 1 : x # y /\ f[x] = f[y]
    <2> DEFINE S == 0 .. n - 1
               T == 1 .. n - 1
    <2>1. IsFiniteSet(S) /\ IsFiniteSet(T) /\ Cardinality(T) < Cardinality(S) /\ f \in [S -> T]
      BY <1>1, <1>2
    <2> HIDE DEF S, T
    <2>2. \E x, y \in S : x # y /\ f[x] = f[y]
      BY <2>1, FS_PigeonHole
    <2> QED  BY <2>2 DEF S
  <1>4. path[x] = path[y]
    BY <1>3 DEF f
  <1>5. CASE x < y
    <2>1. y - x \in 1 .. n - 1 /\ x + (y - x) = y /\ y <= n - 1
      BY <1>5
    <2> QED  BY <1>4, <2>1
  <1>6. CASE y < x
    <2>1. x - y \in 1 .. n - 1 /\ y + (x - y) = x /\ x <= n - 1
      BY <1>6
    <2> QED  BY <1>4, <2>1
  <1> QED  BY <1>3, <1>5, <1>6

LEMMA WalkGoesRound ==
  ASSUME NEW n \in Nat \ {0}, NEW nums \in Indices(n), NEW path, Walk(nums, path),
         NEW i \in 0 .. n - 1, NEW c \in 1 .. n - 1, path[i] = path[i + c]
  PROVE  \A k \in i .. 2 * n - c : path[k + c] = path[k]
PROOF
  <1> DEFINE hi == 2 * n - c
             right == {k \in i .. hi : path[k + c] = path[k]}
  <1>1. hi \in Nat /\ i <= hi /\ \A k \in 1 .. 2 * n : path[k] = nums[path[k - 1] + 1]
    BY WalkIs
  <1>2. i \in right
    BY <1>1
  <1>3. \A k \in i .. hi - 1 : k \in right => k + 1 \in right
    <2> SUFFICES ASSUME NEW k \in i .. hi - 1, k \in right PROVE k + 1 \in right
      OBVIOUS
    <2>1. /\ k + 1 \in 1 .. 2 * n /\ (k + 1) + c \in 1 .. 2 * n /\ (k + 1) - 1 = k
          /\ ((k + 1) + c) - 1 = k + c /\ k + 1 \in i .. hi
      BY <1>1
    <2>2. path[(k + 1) + c] = nums[path[k + c] + 1] /\ path[k + 1] = nums[path[k] + 1]
      BY <1>1, <2>1
    <2> QED  BY <2>1, <2>2
  <1>4. i \in Int /\ hi \in Int
    BY <1>1
  <1> HIDE DEF hi
  <1>5. \A k \in i .. hi : k \in right
    <2> HIDE DEF right
    <2> QED  BY <1>2, <1>3, <1>4, RangeInduction
  <1> QED  BY <1>5 DEF hi

\* The two meet: after a multiple of the round's length the hare is a number of
\* whole rounds ahead.
LEMMA TheyMeet ==
  ASSUME NEW n \in Nat \ {0}, NEW nums \in Indices(n), NEW path, Walk(nums, path)
  PROVE  \E k \in 1 .. n : path[k] = path[2 * k]
PROOF
  <1>1. \A k \in 0 .. 2 * n : path[k] \in 1 .. n - 1
    BY WalkIs
  <1>2. PICK i \in 0 .. n - 1 : \E c \in 1 .. n - 1 : i + c <= n - 1 /\ path[i] = path[i + c]
    BY <1>1, WalkReturns
  <1>3. PICK c \in 1 .. n - 1 : i + c <= n - 1 /\ path[i] = path[i + c]
    BY <1>2
  <1>4. \A k \in i .. 2 * n - c : path[k + c] = path[k]
    BY <1>3, WalkGoesRound
  <1>5. \E t \in Nat \ {0} : t * c \in i .. n - 1
    <2>1. CASE i = 0
      <3>1. 1 \in Nat \ {0} /\ 1 * c = c /\ c \in i .. n - 1
        BY <2>1
      <3> QED  BY <3>1
    <2>2. CASE i # 0
      <3> DEFINE q == (i + c - 1) \div c
                 m == (i + c - 1) % c
      <3>1. q \in Int /\ m \in 0 .. c - 1 /\ i + c - 1 = q * c + m
        OBVIOUS
      <3> HIDE DEF q, m
      <3>2. q * c \in i .. n - 1
        <4>1. q * c \in Int /\ i \in Int /\ c \in Int /\ n \in Int
          BY <3>1
        <4> QED  BY <1>3, <3>1, <4>1
      <3>3. q \in Nat \ {0}
        <4>1. CASE q <= 0
          <5>1. (-q) * c \in Nat /\ q * c = -((-q) * c)
            BY <3>1, <4>1
          <5> QED  BY <2>2, <3>2, <5>1
        <4> QED  BY <3>1, <4>1
      <3> QED  BY <3>2, <3>3
    <2> QED  BY <2>1, <2>2
  <1>6. PICK t \in Nat \ {0} : t * c \in i .. n - 1
    BY <1>5
  <1> DEFINE k == t * c
             right == {s \in 0 .. t : path[k + s * c] = path[k]}
  <1>7. k \in i .. n - 1 /\ k \in 1 .. n /\ c \in Nat /\ \A s \in 0 .. t : s * c \in 0 .. k
    <2>1. k \in i .. n - 1
      BY <1>6
    <2>2. k >= c
      <3>1. t - 1 \in Nat /\ (t - 1) * c \in Nat /\ t * c = (t - 1) * c + c
        OBVIOUS
      <3> QED  BY <3>1
    <2>3. ASSUME NEW s \in 0 .. t PROVE s * c \in 0 .. k
      <3>1. t - s \in Nat /\ (t - s) * c \in Nat /\ t * c = (t - s) * c + s * c /\ s * c \in Nat
        OBVIOUS
      <3> QED  BY <3>1
    <2> QED  BY <2>1, <2>2, <2>3
  <1>8. 0 \in right
    BY <1>7
  <1>9. \A s \in 0 .. t - 1 : s \in right => s + 1 \in right
    <2> SUFFICES ASSUME NEW s \in 0 .. t - 1, s \in right PROVE s + 1 \in right
      OBVIOUS
    <2>1. s + 1 \in 0 .. t /\ (s + 1) * c = s * c + c /\ s * c \in Int /\ s \in 0 .. t
      OBVIOUS
    <2>2. (s + 1) * c \in 0 .. k /\ s * c \in 0 .. k
      BY <1>7, <2>1
    <2> HIDE DEF k
    <2>3. k + s * c \in i .. 2 * n - c /\ k + (s + 1) * c = (k + s * c) + c
      BY <1>7, <2>1, <2>2
    <2>4. path[(k + s * c) + c] = path[k + s * c]
      BY <1>4, <2>3
    <2>5. path[k + s * c] = path[k]
      OBVIOUS
    <2> QED  BY <2>1, <2>3, <2>4, <2>5
  <1>10. \A s \in 0 .. t : s \in right
    <2>1. 0 \in Int /\ t \in Int
      OBVIOUS
    <2> HIDE DEF right
    <2> QED  BY <1>8, <1>9, <2>1, RangeInduction
  <1>11. t \in right
    BY <1>10
  <1>12. path[k + k] = path[k]
    BY <1>11
  <1> HIDE DEF k
  <1>13. k + k = 2 * k
    BY <1>7
  <1> QED  BY <1>7, <1>12, <1>13

\* A number at two places occurs more than once.
LEMMA OccursTwice ==
  ASSUME NEW n \in Nat \ {0}, NEW nums \in Indices(n), NEW a \in 1 .. n, NEW b \in 1 .. n,
         a # b, nums[a] = nums[b]
  PROVE  nums[a] \in {v \in ToSet(nums) : Occurrences(nums, v) > 1}
PROOF
  <1> DEFINE v == nums[a]
             A == {k \in 1 .. n : nums[k] = v}
  <1>1. DOMAIN nums = 1 .. n
    BY DEF Indices
  <1>2. IsFiniteSet(1 .. n)
    BY FS_Interval
  <1>3. IsFiniteSet(A) /\ {a, b} \subseteq A
    BY <1>2, FS_Subset
  <1>4. Cardinality({a, b}) <= Cardinality(A) /\ Cardinality(A) \in Nat
    BY <1>3, FS_Subset, FS_CardinalityType
  <1>5. Cardinality({a, b}) = 2
    <2>1. IsFiniteSet({a}) /\ Cardinality({a}) = 1 /\ b \notin {a}
      BY FS_Singleton
    <2>2. {a, b} = {a} \cup {b}
      OBVIOUS
    <2>3. Cardinality({a} \cup {b}) = Cardinality({a}) + 1
      BY <2>1, FS_AddElement
    <2> QED  BY <2>1, <2>2, <2>3
  <1>6. Cardinality(A) > 1
    <2> HIDE DEF A
    <2> QED  BY <1>4, <1>5
  <1>7. v \in ToSet(nums)
    BY <1>1 DEF ToSet
  <1> QED  BY <1>1, <1>6, <1>7 DEF Occurrences

\* Floyd: the two meet, and walking on from the start and from there they come
\* together at a number that stands at two places.
THEOREM FindDuplicateIsRight ==
  ASSUME NEW nums \in Seq(Int)
  PROVE  FindDuplicateRight(nums)
PROOF
  <1> DEFINE n == Len(nums)
             repeated == {v \in ToSet(nums) : Occurrences(nums, v) > 1}
  <1> SUFFICES ASSUME n > 1, ToSet(nums) \subseteq 1 .. n - 1
               PROVE  FindDuplicate(nums) \in repeated
    BY DEF FindDuplicateRight
  <1>1. n \in Nat \ {0} /\ DOMAIN nums = 1 .. n
    OBVIOUS
  <1>2. nums \in Indices(n)
    BY <1>1 DEF Indices, ToSet
  <1> DEFINE path == CHOOSE f : Walk(nums, f)
             meets == {k \in 1 .. n : path[k] = path[2 * k]}
             meet == Min(meets)
             ends == {k \in 0 .. n : path[k] = path[meet + k]}
             together == Min(ends)
  <1>3. FindDuplicate(nums) = path[together]
    BY DEF FindDuplicate, Walk
  <1>4. Walk(nums, path)
    BY <1>1, <1>2, WalkExists, Zenon
  <1> HIDE DEF path, n
  <1>5. meet \in meets
    <2>1. \E k \in 1 .. n : path[k] = path[2 * k]
      BY <1>1, <1>2, <1>4, TheyMeet
    <2>2. meets \subseteq Nat /\ meets # {}
      BY <2>1
    <2> HIDE DEF meets
    <2> QED  BY <2>2, LeastIsMin
  <1>6. meet \in 1 .. n /\ path[meet] = path[2 * meet]
    BY <1>5
  <1> HIDE DEF meet
  <1>7. together \in ends /\ \A k \in ends : together <= k
    <2>1. meet \in ends /\ ends \subseteq Nat
      <3>1. 2 * meet = meet + meet /\ meet \in 0 .. n
        BY <1>1, <1>6
      <3> QED  BY <1>6, <3>1
    <2> HIDE DEF ends
    <2> QED  BY <2>1, LeastIsMin
  <1>8. together \in 0 .. n /\ path[together] = path[meet + together]
    BY <1>7
  <1>9. together - 1 \notin ends
    <2>1. together \in Int
      BY <1>8
    <2> HIDE DEF ends, together
    <2> QED  BY <1>7, <2>1
  <1> HIDE DEF together
  <1>10. /\ path[0] = nums[1]
         /\ \A k \in 1 .. 2 * n : path[k] = nums[path[k - 1] + 1]
         /\ \A k \in 0 .. 2 * n : path[k] \in 1 .. n - 1
    BY <1>1, <1>2, <1>4, WalkIs
  <1>11. meet + together \in 1 .. 2 * n /\ (meet + together) - 1 \in 0 .. 2 * n
    BY <1>1, <1>6, <1>8
  <1> DEFINE b == path[(meet + together) - 1] + 1
  <1>12. b \in 2 .. n /\ b \in 1 .. n /\ path[together] = nums[b]
    <2>1. path[(meet + together) - 1] \in 1 .. n - 1
      BY <1>10, <1>11
    <2>2. path[meet + together] = nums[b]
      BY <1>10, <1>11
    <2> QED  BY <1>1, <1>8, <2>1, <2>2
  <1> HIDE DEF b
  <1>13. CASE together = 0
    <2>1. 1 \in 1 .. n /\ 1 # b /\ nums[1] = nums[b] /\ path[together] = nums[1]
      BY <1>1, <1>8, <1>10, <1>12, <1>13
    <2> QED  BY <1>1, <1>2, <1>3, <1>12, <2>1, OccursTwice
  <1>14. CASE together # 0
    <2> DEFINE a == path[together - 1] + 1
    <2>1. together \in 1 .. 2 * n /\ together - 1 \in 0 .. n /\ together - 1 \in 0 .. 2 * n
      BY <1>1, <1>8, <1>14
    <2>2. a \in 1 .. n /\ path[together] = nums[a]
      BY <1>1, <1>10, <2>1, SMTT(20)
    <2>3. path[together - 1] # path[meet + (together - 1)]
      BY <1>9, <2>1
    <2>4. meet + (together - 1) = (meet + together) - 1
      BY <1>6, <1>8
    <2>5. a # b
      <3>1. path[together - 1] \in Int /\ path[(meet + together) - 1] \in Int
        BY <1>10, <1>11, <2>1
      <3> QED  BY <2>3, <2>4, <3>1 DEF b
    <2> HIDE DEF a
    <2> QED  BY <1>1, <1>2, <1>3, <1>12, <2>2, <2>5, OccursTwice
  <1> QED  BY <1>13, <1>14

-----------------------------------------------------------------------------
(* FindDuplicates: a number is negative where its place's number was met, and  *)
(* the result holds what was met twice.                                       *)

Marking(nums, f) ==
  f = [i \in 0 .. Len(nums) |->
         IF i = 0 THEN [nums |-> nums, result |-> <<>>] ELSE Marked(f[i - 1], i)]

\* The states the loop can be in with n numbers of 1..n.
Markable(n) == {s \in Seq(Int) : Len(s) = n /\ \A i \in 1 .. n : s[i] \in Int /\ Abs(s[i]) \in 1 .. n}
Markings(n) == [nums : Markable(n), result : Seq(1 .. n)]

LEMMA MarkedIs ==
  ASSUME NEW n \in Nat, NEW acc \in Markings(n), NEW i \in 1 .. n
  PROVE  /\ Marked(acc, i) \in Markings(n) /\ Abs(acc.nums[i]) \in 1 .. n
         /\ LET index == Abs(acc.nums[i]) IN
            IF acc.nums[index] < 0
              THEN /\ Marked(acc, i).nums = acc.nums
                   /\ Marked(acc, i).result = Append(acc.result, index)
              ELSE /\ \A k \in 1 .. n : Marked(acc, i).nums[k] =
                        IF k = index THEN -acc.nums[k] ELSE acc.nums[k]
                   /\ Marked(acc, i).result = acc.result
PROOF
  <1> DEFINE a == acc.nums
             r == acc.result
             index == Abs(a[i])
             m == Marked(acc, i)
  <1>1. /\ a \in Seq(Int) /\ Len(a) = n /\ r \in Seq(1 .. n)
        /\ \A k \in 1 .. n : a[k] \in Int /\ Abs(a[k]) \in 1 .. n
    BY DEF Markings, Markable
  <1>2. index \in 1 .. n
    BY <1>1
  <1>3. acc = [nums |-> a, result |-> r]
    BY DEF Markings
  <1>4. m = IF a[index] < 0 THEN [acc EXCEPT !.result = Append(r, index)]
            ELSE [acc EXCEPT !.nums = [a EXCEPT ![index] = -a[index]]]
    BY DEF Marked
  <1> HIDE DEF a, r, m, index
  <1>5. CASE a[index] < 0
    <2>1. m = [nums |-> a, result |-> Append(r, index)]
      BY <1>3, <1>4, <1>5
    <2>2. Append(r, index) \in Seq(1 .. n)
      BY <1>1, <1>2, AppendProperties
    <2>3. m \in Markings(n)
      BY <1>1, <2>1, <2>2 DEF Markings, Markable
    <2> QED  BY <1>2, <1>5, <2>1, <2>3 DEF m, index, a, r
  <1>6. CASE ~(a[index] < 0)
    <2> DEFINE b == [a EXCEPT ![index] = -a[index]]
    <2>1. -a[index] \in Int
      BY <1>1, <1>2
    <2>2. b \in Seq(Int) /\ Len(b) = n /\ \A k \in 1 .. n : b[k] = IF k = index THEN -a[index] ELSE a[k]
      BY <1>1, <1>2, <2>1, ExceptSeq
    <2>3. m = [nums |-> b, result |-> r]
      BY <1>3, <1>4, <1>6
    <2> HIDE DEF b
    <2>4. \A k \in 1 .. n : b[k] \in Int /\ Abs(b[k]) \in 1 .. n
      <3> TAKE k \in 1 .. n
      <3>1. \A x \in Int : Abs(-x) = Abs(x)
        BY DEF Abs
      <3>2. a[k] \in Int /\ Abs(a[k]) \in 1 .. n /\ a[index] \in Int /\ Abs(a[index]) \in 1 .. n
        BY <1>1, <1>2
      <3> QED  BY <2>1, <2>2, <3>1, <3>2
    <2>5. m \in Markings(n)
      BY <1>1, <2>2, <2>3, <2>4 DEF Markings, Markable
    <2> QED  BY <1>2, <1>6, <2>2, <2>3, <2>5 DEF m, index, a, r
  <1> QED  BY <1>5, <1>6

LEMMA MarkingExists ==
  ASSUME NEW nums \in Seq(Int), \A i \in 1 .. Len(nums) : nums[i] \in 1 .. Len(nums)
  PROVE  /\ \E f : Marking(nums, f)
         /\ [nums |-> nums, result |-> <<>>] \in Markings(Len(nums))
PROOF
  <1> DEFINE n == Len(nums)
             A == Markings(n)
             first == [nums |-> nums, result |-> <<>>]
             step == [ia \in (1 .. n) \X A |-> Marked(ia[2], ia[1])]
  <1>1. n \in Nat /\ \A i \in 1 .. n : nums[i] \in 1 .. n
    OBVIOUS
  <1>2. first \in A
    <2>1. \A i \in 1 .. n : nums[i] \in Int /\ Abs(nums[i]) \in 1 .. n
      BY <1>1 DEF Abs
    <2>2. <<>> \in Seq(1 .. n)
      OBVIOUS
    <2> QED  BY <2>1, <2>2 DEF Markings, Markable
  <1>3. step \in Steps(A, 0, n)
    <2>1. ASSUME NEW ia \in (1 .. n) \X A PROVE Marked(ia[2], ia[1]) \in A
      <3>1. ia[1] \in 1 .. n /\ ia[2] \in Markings(n)
        OBVIOUS
      <3> QED  BY <1>1, <3>1, MarkedIs
    <2>2. 0 + 1 = 1
      OBVIOUS
    <2> HIDE DEF A
    <2> QED  BY <2>1, <2>2 DEF Steps
  <1>4. \A i \in 1 .. n, a \in A : step[<<i, a>>] = Marked(a, i)
    OBVIOUS
  <1> HIDE DEF step, n, first, A
  <1>5. PICK f : Follows(f, A, 0, n, first, step)
    <2>1. 0 \in Int /\ n \in Int /\ 0 <= n
      BY <1>1
    <2> QED  BY <1>2, <1>3, <2>1, RecursionExists
  <1>6. ASSUME NEW i \in 0 .. n
        PROVE  f[i] = IF i = 0 THEN first ELSE Marked(f[i - 1], i)
    <2>1. CASE i = 0
      BY <1>5, <2>1 DEF Follows
    <2>2. CASE i # 0
      <3>1. i \in 0 + 1 .. n /\ i \in 1 .. n /\ i - 1 \in 0 .. n
        BY <1>1, <2>2
      <3>2. f[i - 1] \in A /\ f[i] = step[<<i, f[i - 1]>>]
        BY <1>5, <3>1 DEF Follows
      <3> QED  BY <1>4, <2>2, <3>1, <3>2
    <2> QED  BY <2>1, <2>2
  <1>7. f = [i \in 0 .. n |-> f[i]]
    BY <1>5 DEF Follows
  <1> QED  BY <1>2, <1>6, <1>7 DEF Marking, n, first, A

LEMMA SeenBounds ==
  ASSUME NEW nums \in Seq(Int), NEW i \in 0 .. Len(nums), NEW v
  PROVE  /\ Seen(nums, i, v) \in Nat /\ Seen(nums, 0, v) = 0
         /\ Seen(nums, i, v) <= Occurrences(nums, v)
         /\ Seen(nums, Len(nums), v) = Occurrences(nums, v)
PROOF
  <1> DEFINE n == Len(nums)
             A == {k \in 1 .. i : nums[k] = v}
             B == {k \in 1 .. n : nums[k] = v}
  <1>1. n \in Nat /\ DOMAIN nums = 1 .. n /\ A \subseteq B
    OBVIOUS
  <1>2. IsFiniteSet(B)
    <2>1. IsFiniteSet(1 .. n)
      BY FS_Interval
    <2> QED  BY <2>1, FS_Subset
  <1>3. IsFiniteSet(A) /\ Cardinality(A) <= Cardinality(B) /\ Cardinality(A) \in Nat
    BY <1>1, <1>2, FS_Subset, FS_CardinalityType
  <1>4. {k \in 1 .. 0 : nums[k] = v} = {}
    OBVIOUS
  <1>5. Seen(nums, 0, v) = 0
    BY <1>4, FS_EmptySet DEF Seen
  <1>6. Occurrences(nums, v) = Cardinality(B) /\ Seen(nums, i, v) = Cardinality(A)
        /\ Seen(nums, n, v) = Cardinality(B)
    BY <1>1 DEF Occurrences, Seen
  <1> QED  BY <1>3, <1>5, <1>6

\* What the marks and the result say after i numbers.
MarksRight(nums, i, m) ==
  /\ m \in Markings(Len(nums))
  /\ \A v \in 1 .. Len(nums) :
       /\ m.nums[v] = IF Seen(nums, i, v) > 0 THEN -nums[v] ELSE nums[v]
       /\ (\E j \in 1 .. Len(m.result) : m.result[j] = v) <=> Seen(nums, i, v) > 1
  /\ Distinct(m.result)

LEMMA MarkingStep ==
  ASSUME NEW nums \in Seq(Int), NEW i \in 1 .. Len(nums), NEW m, MarksRight(nums, i - 1, m),
         \A k \in 1 .. Len(nums) : nums[k] \in 1 .. Len(nums) /\ Occurrences(nums, nums[k]) <= 2
  PROVE  MarksRight(nums, i, Marked(m, i))
PROOF
  <1> DEFINE n == Len(nums)
             w == nums[i]
             a == m.nums
             r == m.result
             t == Marked(m, i)
  <1>1. n \in Nat /\ i \in 1 .. n /\ i - 1 \in 0 .. n /\ \A k \in 1 .. n : nums[k] \in 1 .. n
    OBVIOUS
  <1>2. w \in 1 .. n /\ Occurrences(nums, w) <= 2
    OBVIOUS
  <1>3. \A v : /\ Seen(nums, i - 1, v) \in Nat
               /\ Seen(nums, i, v) = Seen(nums, i - 1, v) + IF v = w THEN 1 ELSE 0
    BY SeenCounts
  <1>4. Seen(nums, i, w) <= 2
    <2>1. i \in 0 .. n
      BY <1>1
    <2>2. Seen(nums, i, w) <= Occurrences(nums, w) /\ Seen(nums, i, w) \in Nat
          /\ Occurrences(nums, w) \in Nat
      <3>1. n \in 0 .. n
        BY <1>1
      <3> QED  BY <2>1, <3>1, SeenBounds
    <2> QED  BY <1>2, <2>2
  <1>5. /\ m \in Markings(n) /\ Distinct(r) /\ r \in Seq(1 .. n)
        /\ \A v \in 1 .. n : a[v] = IF Seen(nums, i - 1, v) > 0 THEN -nums[v] ELSE nums[v]
        /\ \A v \in 1 .. n : (\E j \in 1 .. Len(r) : r[j] = v) <=> Seen(nums, i - 1, v) > 1
    BY DEF MarksRight, Markings
  <1>6. Abs(a[i]) = w
    <2>1. a[i] = -w \/ a[i] = w
      BY <1>1, <1>5
    <2>2. w \in Nat /\ 1 <= w
      BY <1>1, <1>2
    <2> HIDE DEF w, a
    <2>3. CASE a[i] = -w
      <3>1. -w < 0 /\ -(-w) = w
        BY <2>2
      <3> QED  BY <2>3, <3>1 DEF Abs
    <2>4. CASE a[i] = w
      <3>1. ~(w < 0)
        BY <2>2
      <3> QED  BY <2>4, <3>1 DEF Abs
    <2> QED  BY <2>1, <2>3, <2>4
  <1>7. /\ t \in Markings(n)
        /\ IF a[w] < 0
             THEN t.nums = a /\ t.result = Append(r, w)
             ELSE /\ \A k \in 1 .. n : t.nums[k] = IF k = w THEN -a[k] ELSE a[k]
                  /\ t.result = r
    <2> HIDE DEF n, w
    <2>1. m \in Markings(n) /\ n \in Nat /\ i \in 1 .. n
      BY <1>1, <1>5
    <2>2. /\ t \in Markings(n)
          /\ LET index == Abs(m.nums[i]) IN
             IF m.nums[index] < 0
               THEN /\ t.nums = m.nums
                    /\ t.result = Append(m.result, index)
               ELSE /\ \A k \in 1 .. n : t.nums[k] = IF k = index THEN -m.nums[k] ELSE m.nums[k]
                    /\ t.result = m.result
      BY <2>1, MarkedIs, ZenonT(30)
    <2>3. Abs(m.nums[i]) = w
      BY <1>6
    <2> HIDE DEF t
    <2> QED  BY <2>2, <2>3
  <1>8. a[w] < 0 <=> Seen(nums, i - 1, w) > 0
    <2>1. nums[w] \in 1 .. n /\ a[w] = IF Seen(nums, i - 1, w) > 0 THEN -nums[w] ELSE nums[w]
      BY <1>1, <1>2, <1>5
    <2> QED  BY <2>1
  <1> HIDE DEF n, w, a, r, t
  <1>9. CASE a[w] < 0
    <2>1. Seen(nums, i - 1, w) = 1 /\ Seen(nums, i, w) = 2
      BY <1>3, <1>4, <1>8, <1>9
    <2>2. \A j \in 1 .. Len(r) : r[j] # w
      BY <1>2, <1>5, <2>1, SMTT(20)
    <2>3. t.nums = a /\ t.result = Append(r, w)
      BY <1>7, <1>9
    <2>4. /\ Len(r) \in Nat /\ Len(t.result) = Len(r) + 1 /\ t.result[Len(r) + 1] = w
          /\ \A j \in 1 .. Len(r) : t.result[j] = r[j]
      BY <1>2, <1>5, <2>3, AppendProperties
    <2> DEFINE q == t.result
    <2> HIDE DEF q
    <2>10. /\ Len(q) = Len(r) + 1 /\ q[Len(r) + 1] = w
           /\ \A j \in 1 .. Len(r) : q[j] = r[j]
      BY <2>4 DEF q
    <2>5. Distinct(q)
      <3>1. ASSUME NEW g \in 1 .. Len(q), NEW h \in 1 .. Len(q), q[g] = q[h] PROVE g = h
        <4>1. (g = Len(r) + 1 \/ g \in 1 .. Len(r)) /\ (h = Len(r) + 1 \/ h \in 1 .. Len(r))
          BY <2>4, <2>10
        <4>2. CASE g \in 1 .. Len(r) /\ h \in 1 .. Len(r)
          <5>1. r[g] = r[h]
            BY <2>10, <3>1, <4>2
          <5> QED  BY <1>5, <4>2, <5>1 DEF Distinct
        <4> QED  BY <2>2, <2>10, <3>1, <4>1, <4>2
      <3> QED  BY <3>1 DEF Distinct
    <2>6. ASSUME NEW v \in 1 .. n
          PROVE  /\ t.nums[v] = IF Seen(nums, i, v) > 0 THEN -nums[v] ELSE nums[v]
                 /\ (\E j \in 1 .. Len(q) : q[j] = v) <=> Seen(nums, i, v) > 1
      <3>1. CASE v = w
        <4>1. Len(r) + 1 \in 1 .. Len(q) /\ q[Len(r) + 1] = v
          BY <2>4, <3>1 DEF q
        <4>2. t.nums[v] = -nums[v]
          BY <1>2, <1>5, <2>1, <2>3, <3>1
        <4> QED  BY <2>1, <3>1, <4>1, <4>2
      <3>2. CASE v # w
        <4>1. Seen(nums, i, v) = Seen(nums, i - 1, v)
          BY <1>3, <3>2
        <4>2. (\E j \in 1 .. Len(q) : q[j] = v) <=> \E j \in 1 .. Len(r) : r[j] = v
          <5>1. \A j \in 1 .. Len(q) : j = Len(r) + 1 \/ j \in 1 .. Len(r)
            BY <2>4, <2>10
          <5>2. \A j \in 1 .. Len(r) : j \in 1 .. Len(q)
            BY <2>4, <2>10
          <5> QED  BY <2>10, <3>2, <5>1, <5>2
        <4> QED  BY <1>5, <2>3, <4>1, <4>2
      <3> QED  BY <3>1, <3>2
    <2> QED  BY <1>7, <2>5, <2>6 DEF MarksRight, n, t, q
  <1>10. CASE ~(a[w] < 0)
    <2>1. Seen(nums, i - 1, w) = 0 /\ Seen(nums, i, w) = 1
      BY <1>3, <1>8, <1>10
    <2>2. t.result = r /\ \A k \in 1 .. n : t.nums[k] = IF k = w THEN -a[k] ELSE a[k]
      BY <1>7, <1>10
    <2>3. ASSUME NEW v \in 1 .. n
          PROVE  /\ t.nums[v] = IF Seen(nums, i, v) > 0 THEN -nums[v] ELSE nums[v]
                 /\ (\E j \in 1 .. Len(r) : r[j] = v) <=> Seen(nums, i, v) > 1
      <3>1. CASE v = w
        <4>1. t.nums[v] = -a[v] /\ a[v] = nums[v]
          BY <1>2, <1>5, <2>1, <2>2, <3>1
        <4>2. ~ \E j \in 1 .. Len(r) : r[j] = v
          BY <1>5, <2>1, <3>1, SMTT(20)
        <4> QED  BY <2>1, <3>1, <4>1, <4>2
      <3>2. CASE v # w
        <4>1. Seen(nums, i, v) = Seen(nums, i - 1, v) /\ t.nums[v] = a[v]
          BY <1>3, <2>2, <3>2
        <4> QED  BY <1>5, <4>1
      <3> QED  BY <3>1, <3>2
    <2> QED  BY <1>5, <1>7, <2>2, <2>3 DEF MarksRight, n, t
  <1> QED  BY <1>9, <1>10 DEF t

\* The signs are memory enough: each number that stands twice is found, once.
THEOREM FindDuplicatesIsRight ==
  ASSUME NEW nums \in Seq(Int)
  PROVE  FindDuplicatesRight(nums)
PROOF
  <1> DEFINE n == Len(nums)
             marked == CHOOSE f : Marking(nums, f)
             right == {i \in 0 .. n : MarksRight(nums, i, marked[i])}
  <1> SUFFICES ASSUME \A v \in ToSet(nums) : v \in 1 .. n /\ Occurrences(nums, v) <= 2
               PROVE  /\ ToSet(FindDuplicates(nums)) =
                           {v \in ToSet(nums) : Occurrences(nums, v) = 2}
                      /\ IsInjective(FindDuplicates(nums))
    BY DEF FindDuplicatesRight
  <1>1. n \in Nat /\ \A i \in 1 .. n : nums[i] \in 1 .. n /\ Occurrences(nums, nums[i]) <= 2
    BY DEF ToSet
  <1>2. FindDuplicates(nums) = marked[n].result
    BY DEF FindDuplicates, Marking
  <1>3. Marking(nums, marked)
    BY <1>1, MarkingExists, Zenon
  <1> HIDE DEF marked
  <1>4. /\ marked[0] = [nums |-> nums, result |-> <<>>]
        /\ \A i \in 1 .. n : marked[i] = Marked(marked[i - 1], i)
    <2> DEFINE first == [nums |-> nums, result |-> <<>>]
    <2>1. marked = [i \in 0 .. n |-> IF i = 0 THEN first ELSE Marked(marked[i - 1], i)]
      BY <1>3 DEF Marking
    <2>2. 0 \in 0 .. n /\ \A i \in 1 .. n : i \in 0 .. n /\ i # 0
      BY <1>1
    <2> HIDE DEF n, first
    <2>3. \A i \in 0 .. n : marked[i] = IF i = 0 THEN first ELSE Marked(marked[i - 1], i)
      BY <2>1, Zenon
    <2>4. marked[0] = first /\ \A i \in 1 .. n : marked[i] = Marked(marked[i - 1], i)
      BY <2>2, <2>3
    <2> QED  BY <2>4 DEF first
  <1>5. 0 \in right
    <2>1. MarksRight(nums, 0, [nums |-> nums, result |-> <<>>])
      <3>1. [nums |-> nums, result |-> <<>>] \in Markings(n)
        BY <1>1, MarkingExists
      <3>2. \A v : Seen(nums, 0, v) = 0
        <4>1. 0 \in 0 .. n
          BY <1>1
        <4> QED  BY <4>1, SeenBounds
      <3> QED  BY <3>1, <3>2 DEF MarksRight, Distinct
    <2> QED  BY <1>1, <1>4, <2>1
  <1>6. \A i \in 0 .. n - 1 : i \in right => i + 1 \in right
    <2> SUFFICES ASSUME NEW i \in 0 .. n - 1, i \in right PROVE i + 1 \in right
      OBVIOUS
    <2>1. i + 1 \in 1 .. n /\ (i + 1) - 1 = i /\ i + 1 \in 0 .. n
      BY <1>1
    <2>2. MarksRight(nums, (i + 1) - 1, marked[i]) /\ marked[i + 1] = Marked(marked[i], i + 1)
      BY <1>4, <2>1
    <2> HIDE DEF right
    <2>3. MarksRight(nums, i + 1, marked[i + 1])
      BY <1>1, <2>1, <2>2, MarkingStep
    <2> QED  BY <2>1, <2>3 DEF right
  <1>7. n \in right
    <2>1. 0 \in Int /\ n \in Int /\ n \in 0 .. n
      BY <1>1
    <2> HIDE DEF right
    <2> QED  BY <1>5, <1>6, <2>1, RangeInduction
  <1> DEFINE m == marked[n]
             r == m.result
  <1>8. MarksRight(nums, n, m)
    BY <1>7
  <1>9. /\ r \in Seq(1 .. n) /\ Distinct(r)
        /\ \A v \in 1 .. n : (\E j \in 1 .. Len(r) : r[j] = v) <=> Seen(nums, n, v) > 1
    BY <1>8 DEF MarksRight, Markings
  <1> HIDE DEF m, r
  <1>10. \A v : Seen(nums, n, v) = Occurrences(nums, v) /\ Seen(nums, n, v) \in Nat
    <2>1. n \in 0 .. n
      BY <1>1
    <2> QED  BY <2>1, SeenBounds
  <1>11. IsInjective(r)
    <2>1. DOMAIN r = 1 .. Len(r)
      BY <1>9
    <2> QED  BY <1>9, <2>1 DEF Distinct, IsInjective
  <1>12. ToSet(r) = {v \in ToSet(nums) : Occurrences(nums, v) = 2}
    <2>1. \A v \in ToSet(r) : v \in 1 .. n /\ Seen(nums, n, v) > 1
      <3> TAKE v \in ToSet(r)
      <3>1. PICK j \in 1 .. Len(r) : r[j] = v
        BY <1>9 DEF ToSet
      <3>2. v \in 1 .. n
        BY <1>9, <3>1
      <3> QED  BY <1>9, <3>1, <3>2
    <2>2. \A v : Seen(nums, n, v) > 1 => v \in ToSet(nums)
      <3> SUFFICES ASSUME NEW v, v \notin ToSet(nums) PROVE Seen(nums, n, v) = 0
        BY <1>10
      <3>1. {k \in 1 .. n : nums[k] = v} = {}
        BY DEF ToSet
      <3> QED  BY <3>1, FS_EmptySet DEF Seen
    <2>3. \A v \in ToSet(nums) : Occurrences(nums, v) = 2 => v \in ToSet(r)
      <3> SUFFICES ASSUME NEW v \in ToSet(nums), Occurrences(nums, v) = 2 PROVE v \in ToSet(r)
        OBVIOUS
      <3>1. v \in 1 .. n /\ Seen(nums, n, v) > 1
        BY <1>10
      <3>2. PICK j \in 1 .. Len(r) : r[j] = v
        BY <1>9, <3>1
      <3> QED  BY <1>9, <3>2 DEF ToSet
    <2>4. \A v \in ToSet(nums) : Occurrences(nums, v) > 1 => Occurrences(nums, v) = 2
      BY <1>10
    <2> QED  BY <1>10, <2>1, <2>2, <2>3, <2>4
  <1> QED  BY <1>2, <1>11, <1>12 DEF r, m

-----------------------------------------------------------------------------
(* MaxArea: no pair with an end outside the two pointers holds more than best. *)

Area(height, p, q) == (q - p) * Smaller(height[p], height[q])
Narrowing(height, f) ==
  f = [i \in 0 .. Len(height) |->
         IF i = 0 THEN [left |-> 1, right |-> Len(height), best |-> 0]
         ELSE Narrowed(height, f[i - 1])]

LEMMA ProductsGrow ==
  ASSUME NEW a \in Nat, NEW b \in Nat, NEW c \in Nat, NEW d \in Nat, a <= c, b <= d
  PROVE  a * b <= c * d /\ a * b \in Nat
PROOF
  <1> DEFINE e == c - a
             f == d - b
  <1>1. e \in Nat /\ f \in Nat /\ c = a + e /\ d = b + f
    OBVIOUS
  <1> HIDE DEF e, f
  <1>2. (a + e) * (b + f) = a * b + (a * f + e * b + e * f)
    BY <1>1
  <1>3. a * b \in Nat /\ a * f \in Nat /\ e * b \in Nat /\ e * f \in Nat
    BY <1>1
  <1> QED  BY <1>1, <1>2, <1>3

\* The states of the loop on these heights.
Narrowings(height) ==
  {s \in [left : Nat, right : Nat, best : Nat] :
     /\ 1 <= s.left /\ s.left <= s.right /\ s.right <= Len(height)
     /\ \E p \in 1 .. Len(height) : \E q \in p .. Len(height) : s.best = Area(height, p, q)
     /\ \A p \in 1 .. Len(height) : \A q \in p .. Len(height) :
          p < s.left \/ s.right < q => Area(height, p, q) <= s.best}

LEMMA AreaIs ==
  ASSUME NEW height \in Seq(Nat), NEW p \in 1 .. Len(height), NEW q \in p .. Len(height)
  PROVE  /\ Area(height, p, q) \in Nat /\ Area(height, p, p) = 0
         /\ \A d \in Nat : q - p <= d => /\ Area(height, p, q) <= d * height[p]
                                         /\ Area(height, p, q) <= d * height[q]
PROOF
  <1> DEFINE m == Smaller(height[p], height[q])
  <1>1. height[p] \in Nat /\ height[q] \in Nat /\ q - p \in Nat /\ p \in Int
    OBVIOUS
  <1>2. m \in Nat /\ m <= height[p] /\ m <= height[q]
    BY <1>1 DEF Smaller
  <1>3. Area(height, p, q) = (q - p) * m
    BY DEF Area
  <1> HIDE DEF m
  <1>4. (q - p) * m \in Nat
    BY <1>1, <1>2
  <1>5. Area(height, p, p) = 0
    <2> DEFINE w == Smaller(height[p], height[p])
    <2>1. w \in Nat
      BY <1>1 DEF Smaller
    <2>2. Area(height, p, p) = (p - p) * w
      BY DEF Area
    <2> HIDE DEF w
    <2> QED  BY <1>1, <2>1, <2>2
  <1>6. \A d \in Nat : q - p <= d => (q - p) * m <= d * height[p] /\ (q - p) * m <= d * height[q]
    BY <1>1, <1>2, ProductsGrow
  <1> QED  BY <1>3, <1>4, <1>5, <1>6

LEMMA NarrowedIs ==
  ASSUME NEW height \in Seq(Nat), NEW s \in Narrowings(height)
  PROVE  /\ Narrowed(height, s) \in Narrowings(height)
         /\ s.left >= s.right => Narrowed(height, s) = s
         /\ ~(s.left >= s.right) =>
              Narrowed(height, s).right - Narrowed(height, s).left = s.right - s.left - 1
PROOF
  <1> DEFINE n == Len(height)
             t == Narrowed(height, s)
             l == s.left
             r == s.right
             area == Area(height, l, r)
  <1>1. /\ n \in Nat /\ l \in Nat /\ r \in Nat /\ s.best \in Nat /\ 1 <= l /\ l <= r /\ r <= n
        /\ \E p \in 1 .. n : \E q \in p .. n : s.best = Area(height, p, q)
        /\ \A p \in 1 .. n : \A q \in p .. n : p < l \/ r < q => Area(height, p, q) <= s.best
    BY DEF Narrowings
  <1>2. /\ \A i \in 1 .. n : height[i] \in Nat
        /\ \A p \in 1 .. n : \A q \in p .. n : Area(height, p, q) \in Nat
    BY AreaIs, SMTT(20)
  <1>3. CASE l >= r
    BY <1>3 DEF Narrowed
  <1>4. CASE ~(l >= r)
    <2> DEFINE onLeft == height[l] < height[r]
    <2>1. t = [left |-> IF onLeft THEN l + 1 ELSE l, right |-> IF onLeft THEN r ELSE r - 1,
               best |-> Larger(s.best, area)]
      BY <1>4 DEF Narrowed, Area
    <2>2. l \in 1 .. n /\ r \in l .. n /\ r \in 1 .. n /\ area \in Nat
      <3>1. l \in 1 .. n /\ r \in l .. n /\ r \in 1 .. n
        BY <1>1
      <3> HIDE DEF l, r, n
      <3> QED  BY <1>2, <3>1
    <2> HIDE DEF t, n, l, r, area
    <2>3. /\ t.best \in Nat /\ (t.best = s.best \/ t.best = area)
          /\ s.best <= t.best /\ area <= t.best
      <3>1. t.best = Larger(s.best, area) /\ s.best \in Nat /\ area \in Nat
        BY <1>1, <2>1, <2>2
      <3> QED  BY <3>1 DEF Larger
    <2>4. \E p \in 1 .. n : \E q \in p .. n : t.best = Area(height, p, q)
      BY <1>1, <2>2, <2>3 DEF area
    <2>5. CASE onLeft
      <3>1. t.left = l + 1 /\ t.right = r
        BY <2>1, <2>5
      <3>2. area = (r - l) * height[l]
        <4>1. Smaller(height[l], height[r]) = height[l]
          BY <1>2, <2>2, <2>5 DEF Smaller
        <4> QED  BY <4>1 DEF area, Area
      <3>3. ASSUME NEW p \in 1 .. n, NEW q \in p .. n, p < l + 1 \/ r < q
            PROVE  Area(height, p, q) <= t.best
        <4>1. CASE p < l \/ r < q
          <5>1. Area(height, p, q) <= s.best /\ Area(height, p, q) \in Nat
            BY <1>1, <1>2, <4>1
          <5> QED  BY <1>1, <2>3, <5>1
        <4>2. CASE ~(p < l \/ r < q)
          <5>1. p = l /\ q - p <= r - l /\ r - l \in Nat
            BY <1>1, <3>3, <4>2
          <5>2. Area(height, p, q) <= (r - l) * height[p] /\ Area(height, p, q) \in Nat
            BY <5>1, AreaIs DEF n
          <5>3. Area(height, p, q) <= area
            BY <3>2, <5>1, <5>2
          <5> QED  BY <2>2, <2>3, <5>2, <5>3
        <4> QED  BY <4>1, <4>2
      <3>4. t \in [left : Nat, right : Nat, best : Nat] /\ 1 <= t.left /\ t.left <= t.right /\ t.right <= n
        BY <1>1, <1>4, <2>1, <2>3, <3>1
      <3>5. t \in Narrowings(height)
        BY <2>4, <3>1, <3>3, <3>4 DEF Narrowings, n
      <3> QED  BY <1>1, <1>4, <3>1, <3>5 DEF t, l, r
    <2>6. CASE ~onLeft
      <3>1. t.left = l /\ t.right = r - 1
        BY <2>1, <2>6
      <3>2. area = (r - l) * height[r]
        <4>1. Smaller(height[l], height[r]) = height[r]
          BY <1>2, <2>2, <2>6 DEF Smaller
        <4> QED  BY <4>1 DEF area, Area
      <3>3. ASSUME NEW p \in 1 .. n, NEW q \in p .. n, p < l \/ r - 1 < q
            PROVE  Area(height, p, q) <= t.best
        <4>1. CASE p < l \/ r < q
          <5>1. Area(height, p, q) <= s.best /\ Area(height, p, q) \in Nat
            BY <1>1, <1>2, <4>1
          <5> QED  BY <1>1, <2>3, <5>1
        <4>2. CASE ~(p < l \/ r < q)
          <5>1. q = r /\ q - p <= r - l /\ r - l \in Nat
            BY <1>1, <3>3, <4>2
          <5>2. Area(height, p, q) <= (r - l) * height[q] /\ Area(height, p, q) \in Nat
            BY <5>1, AreaIs DEF n
          <5>3. Area(height, p, q) <= area
            BY <3>2, <5>1, <5>2
          <5> QED  BY <2>2, <2>3, <5>2, <5>3
        <4> QED  BY <4>1, <4>2
      <3>4. t \in [left : Nat, right : Nat, best : Nat] /\ 1 <= t.left /\ t.left <= t.right /\ t.right <= n
        BY <1>1, <1>4, <2>1, <2>3, <3>1
      <3>5. t \in Narrowings(height)
        BY <2>4, <3>1, <3>3, <3>4 DEF Narrowings, n
      <3> QED  BY <1>1, <1>4, <3>1, <3>5 DEF t, l, r
    <2> QED  BY <2>5, <2>6
  <1> QED  BY <1>3, <1>4

LEMMA NarrowingStarts ==
  ASSUME NEW height \in Seq(Nat), height # <<>>
  PROVE  [left |-> 1, right |-> Len(height), best |-> 0] \in Narrowings(height)
PROOF
  <1> DEFINE n == Len(height)
             first == [left |-> 1, right |-> n, best |-> 0]
  <1>1. n \in Nat /\ 1 <= n /\ 1 \in 1 .. n
    OBVIOUS
  <1>2. 0 = Area(height, 1, 1) /\ 1 \in 1 .. n
    BY <1>1, AreaIs
  <1>3. \A p \in 1 .. n : \A q \in p .. n : ~(p < 1 \/ n < q)
    BY <1>1
  <1>4. first \in [left : Nat, right : Nat, best : Nat]
        /\ first.left = 1 /\ first.right = n /\ first.best = 0
    BY <1>1
  <1> HIDE DEF first
  <1>5. \E p \in 1 .. n : \E q \in p .. n : first.best = Area(height, p, q)
    BY <1>1, <1>2, <1>4
  <1> QED  BY <1>1, <1>3, <1>4, <1>5 DEF Narrowings, first

LEMMA NarrowingExists ==
  ASSUME NEW height \in Seq(Nat), height # <<>>
  PROVE  \E f : Narrowing(height, f)
PROOF
  <1> DEFINE n == Len(height)
             A == Narrowings(height)
             first == [left |-> 1, right |-> n, best |-> 0]
             step == [ia \in (1 .. n) \X A |-> Narrowed(height, ia[2])]
  <1>1. n \in Nat
    OBVIOUS
  <1>2. first \in A
    BY NarrowingStarts
  <1> HIDE DEF A
  <1>3. step \in Steps(A, 0, n)
    <2>1. ASSUME NEW ia \in (1 .. n) \X A PROVE Narrowed(height, ia[2]) \in A
      <3>1. ia[2] \in Narrowings(height)
        BY DEF A
      <3> QED  BY <3>1, NarrowedIs DEF A
    <2>2. 0 + 1 = 1
      OBVIOUS
    <2> QED  BY <2>1, <2>2 DEF Steps
  <1>4. \A i \in 1 .. n, a \in A : step[<<i, a>>] = Narrowed(height, a)
    OBVIOUS
  <1> HIDE DEF step, n, first
  <1>5. PICK f : Follows(f, A, 0, n, first, step)
    <2>1. 0 \in Int /\ n \in Int /\ 0 <= n
      BY <1>1
    <2> QED  BY <1>2, <1>3, <2>1, RecursionExists
  <1>6. ASSUME NEW i \in 0 .. n
        PROVE  f[i] = IF i = 0 THEN first ELSE Narrowed(height, f[i - 1])
    <2>1. CASE i = 0
      BY <1>5, <2>1 DEF Follows
    <2>2. CASE i # 0
      <3>1. i \in 0 + 1 .. n /\ i \in 1 .. n /\ i - 1 \in 0 .. n
        BY <1>1, <2>2
      <3>2. f[i - 1] \in A /\ f[i] = step[<<i, f[i - 1]>>]
        BY <1>5, <3>1 DEF Follows
      <3> QED  BY <1>4, <2>2, <3>1, <3>2
    <2> QED  BY <2>1, <2>2
  <1>7. f = [i \in 0 .. n |-> f[i]]
    BY <1>5 DEF Follows
  <1> QED  BY <1>6, <1>7 DEF Narrowing, n, first

\* Two pointers: giving up the lower end never gives up the largest area.
THEOREM MaxAreaIsRight ==
  ASSUME NEW height \in Seq(Nat), height # <<>>
  PROVE  MaxAreaRight(height)
PROOF
  <1> DEFINE n == Len(height)
             A == Narrowings(height)
             narrowed == CHOOSE f : Narrowing(height, f)
             s == narrowed[n]
             right == {i \in 0 .. n :
                         /\ narrowed[i] \in A
                         /\ narrowed[i].right - narrowed[i].left < n - i \/ narrowed[i].right <= narrowed[i].left}
  <1>1. n \in Nat /\ 1 <= n /\ n \in 0 .. n /\ DOMAIN height = 1 .. n
    OBVIOUS
  <1>2. MaxArea(height) = s.best
    BY DEF MaxArea, Narrowing
  <1>3. Narrowing(height, narrowed)
    BY NarrowingExists, Zenon
  <1> HIDE DEF narrowed
  <1>4. /\ narrowed[0] = [left |-> 1, right |-> n, best |-> 0]
        /\ \A i \in 1 .. n : narrowed[i] = Narrowed(height, narrowed[i - 1])
    <2> DEFINE first == [left |-> 1, right |-> n, best |-> 0]
    <2>1. narrowed = [i \in 0 .. n |-> IF i = 0 THEN first ELSE Narrowed(height, narrowed[i - 1])]
      BY <1>3 DEF Narrowing
    <2>2. 0 \in 0 .. n /\ \A i \in 1 .. n : i \in 0 .. n /\ i # 0
      BY <1>1
    <2> HIDE DEF n, first
    <2>3. \A i \in 0 .. n : narrowed[i] = IF i = 0 THEN first ELSE Narrowed(height, narrowed[i - 1])
      BY <2>1, Zenon
    <2>4. narrowed[0] = first /\ \A i \in 1 .. n : narrowed[i] = Narrowed(height, narrowed[i - 1])
      BY <2>2, <2>3
    <2> QED  BY <2>4 DEF first
  <1>5. 0 \in right
    BY <1>1, <1>4, NarrowingStarts
  <1>6. \A i \in 0 .. n - 1 : i \in right => i + 1 \in right
    <2> SUFFICES ASSUME NEW i \in 0 .. n - 1, i \in right PROVE i + 1 \in right
      OBVIOUS
    <2> DEFINE a == narrowed[i]
               b == narrowed[i + 1]
    <2>1. i + 1 \in 1 .. n /\ (i + 1) - 1 = i /\ i + 1 \in 0 .. n /\ i \in Int
      BY <1>1
    <2>2. b = Narrowed(height, a)
      BY <1>4, <2>1
    <2>3. a \in A /\ (a.right - a.left < n - i \/ a.right <= a.left)
      OBVIOUS
    <2> HIDE DEF a, b, right
    <2>4. /\ b \in A
          /\ a.left >= a.right => b = a
          /\ ~(a.left >= a.right) => b.right - b.left = a.right - a.left - 1
      BY <2>2, <2>3, NarrowedIs
    <2>5. a.left \in Nat /\ a.right \in Nat /\ b.left \in Nat /\ b.right \in Nat
      BY <2>3, <2>4 DEF Narrowings
    <2> HIDE DEF A
    <2>6. b.right - b.left < n - (i + 1) \/ b.right <= b.left
      <3>1. CASE a.left >= a.right
        <4>1. b = a /\ a.right <= a.left
          BY <2>4, <2>5, <3>1
        <4> QED  BY <4>1
      <3>2. CASE ~(a.left >= a.right)
        <4>1. b.right - b.left = a.right - a.left - 1 /\ a.right - a.left < n - i
          BY <2>3, <2>4, <2>5, <3>2
        <4> HIDE DEF n
        <4> QED  BY <1>1, <2>1, <2>5, <4>1
      <3> QED  BY <3>1, <3>2
    <2> QED  BY <2>1, <2>4, <2>6 DEF b, right
  <1>7. n \in right
    <2>1. 0 \in Int /\ n \in Int
      BY <1>1
    <2> HIDE DEF right
    <2> QED  BY <1>1, <1>5, <1>6, <2>1, RangeInduction
  <1>8. s \in A /\ (s.right - s.left < n - n \/ s.right <= s.left)
    BY <1>7
  <1> HIDE DEF s
  <1>9. /\ s.left \in 1 .. n /\ s.right = s.left /\ s.best \in Nat
        /\ \E p \in 1 .. n : \E q \in p .. n : s.best = Area(height, p, q)
        /\ \A p \in 1 .. n : \A q \in p .. n : p < s.left \/ s.right < q => Area(height, p, q) <= s.best
    BY <1>1, <1>8 DEF Narrowings
  <1>10. \A p \in 1 .. n : \A q \in p .. n : Area(height, p, q) <= s.best /\ Area(height, p, q) \in Nat
    <2> TAKE p \in 1 .. n
    <2> TAKE q \in p .. n
    <2>1. Area(height, p, q) \in Nat
      BY AreaIs
    <2>2. CASE p < s.left \/ s.right < q
      BY <1>9, <2>1, <2>2
    <2>3. CASE ~(p < s.left \/ s.right < q)
      <3>1. p = q
        BY <1>1, <1>9, <2>3
      <3>2. Area(height, p, q) = 0
        BY <3>1, AreaIs
      <3> QED  BY <1>9, <3>2
    <2> QED  BY <2>2, <2>3
  <1> DEFINE areas == {(ij[2] - ij[1]) * Smaller(height[ij[1]], height[ij[2]]) : ij \in Segments(height)}
  <1>11. areas \subseteq Int /\ \A k \in areas : k <= s.best
    <2>1. ASSUME NEW ij \in Segments(height)
          PROVE  LET k == (ij[2] - ij[1]) * Smaller(height[ij[1]], height[ij[2]])
                 IN  k \in Int /\ k <= s.best
      <3>1. ij[1] \in 1 .. n /\ ij[2] \in ij[1] .. n
        BY <1>1 DEF Segments
      <3>2. Area(height, ij[1], ij[2]) \in Nat /\ Area(height, ij[1], ij[2]) <= s.best
        BY <1>10, <3>1
      <3> QED  BY <3>2 DEF Area
    <2> QED  BY <2>1
  <1>12. s.best \in areas
    <2>1. PICK p \in 1 .. n : \E q \in p .. n : s.best = Area(height, p, q)
      BY <1>9
    <2>2. PICK q \in p .. n : s.best = Area(height, p, q)
      BY <2>1
    <2>3. <<p, q>> \in Segments(height)
      <3>1. q \in 1 .. n /\ p <= q
        BY <1>1
      <3> QED  BY <1>1, <3>1 DEF Segments
    <2> QED  BY <2>2, <2>3 DEF Area
  <1>13. Max(areas) = s.best
    <2> HIDE DEF areas
    <2> QED  BY <1>11, <1>12, MaxIs
  <1> QED  BY <1>2, <1>13 DEF MaxAreaRight

-----------------------------------------------------------------------------
(* MaxProfit: from the last day back, the best price still to come and the     *)
(* best that buying from here on can make.                                    *)

Selling(prices, f) ==
  f = [i \in 1 .. Len(prices) |->
         IF i = Len(prices) THEN prices[Len(prices)] ELSE Larger(f[i + 1], prices[i])]
Earning(prices, sell, f) ==
  f = [i \in 1 .. Len(prices) |->
         IF i = Len(prices) THEN 0 ELSE Larger(f[i + 1], sell[i + 1] - prices[i])]

\* Both take the larger of the value after and one of their own.
Backwards(s, last, f) ==
  f = [i \in 1 .. Len(s) |-> IF i = Len(s) THEN last ELSE Larger(f[i + 1], s[i])]

LEMMA BackwardsExists ==
  ASSUME NEW s \in Seq(Int), s # <<>>, NEW last \in Int
  PROVE  \E f : Backwards(s, last, f)
PROOF
  <1> DEFINE n == Len(s)
             step == [ia \in (1 .. n - 1) \X Int |-> Larger(ia[2], s[ia[1]])]
  <1>1. n \in Nat /\ 1 <= n /\ \A i \in 1 .. n : s[i] \in Int
    OBVIOUS
  <1>2. step \in StepsDown(Int, 1, n)
    <2>1. ASSUME NEW ia \in (1 .. n - 1) \X Int PROVE Larger(ia[2], s[ia[1]]) \in Int
      <3>1. ia[1] \in 1 .. n /\ ia[2] \in Int
        BY <1>1
      <3> QED  BY <1>1, <3>1, LargerIs
    <2> QED  BY <2>1 DEF StepsDown
  <1>3. \A i \in 1 .. n - 1, a \in Int : step[<<i, a>>] = Larger(a, s[i])
    OBVIOUS
  <1> HIDE DEF step, n
  <1>4. PICK f : FollowsDown(f, Int, 1, n, last, step)
    <2>1. 1 \in Int /\ n \in Int /\ last \in Int
      BY <1>1
    <2> QED  BY <1>1, <1>2, <2>1, RecursionDownExists
  <1>5. ASSUME NEW i \in 1 .. n
        PROVE  f[i] = IF i = n THEN last ELSE Larger(f[i + 1], s[i])
    <2>1. CASE i = n
      BY <1>4, <2>1 DEF FollowsDown
    <2>2. CASE i # n
      <3>1. i \in 1 .. n - 1 /\ i + 1 \in 1 .. n
        BY <1>1, <2>2
      <3>2. f[i + 1] \in Int /\ f[i] = step[<<i, f[i + 1]>>]
        BY <1>4, <3>1 DEF FollowsDown
      <3> QED  BY <1>3, <2>2, <3>1, <3>2
    <2> QED  BY <2>1, <2>2
  <1>6. f = [i \in 1 .. n |-> f[i]]
    BY <1>4 DEF FollowsDown
  <1> QED  BY <1>5, <1>6 DEF Backwards, n

\* What such a function is at i: the last value, or one of s from i on, and none
\* of these is above it.
LEMMA BackwardsIs ==
  ASSUME NEW s \in Seq(Int), s # <<>>, NEW last \in Int, NEW f, Backwards(s, last, f)
  PROVE  \A i \in 1 .. Len(s) :
           /\ f[i] \in Int
           /\ f[i] = last \/ \E j \in i .. Len(s) - 1 : f[i] = s[j]
           /\ last <= f[i] /\ \A j \in i .. Len(s) - 1 : s[j] <= f[i]
PROOF
  <1> DEFINE n == Len(s)
             right == {i \in 1 .. n :
                         /\ f[i] \in Int
                         /\ f[i] = last \/ \E j \in i .. n - 1 : f[i] = s[j]
                         /\ last <= f[i] /\ \A j \in i .. n - 1 : s[j] <= f[i]}
  <1>1. n \in Nat /\ 1 <= n /\ \A i \in 1 .. n : s[i] \in Int
    OBVIOUS
  <1>2. f[n] = last /\ \A i \in 1 .. n - 1 : f[i] = Larger(f[i + 1], s[i])
    <2>1. f = [i \in 1 .. n |-> IF i = n THEN last ELSE Larger(f[i + 1], s[i])]
      BY DEF Backwards
    <2>2. n \in 1 .. n /\ \A i \in 1 .. n - 1 : i \in 1 .. n /\ i # n
      BY <1>1
    <2> HIDE DEF n
    <2>3. \A i \in 1 .. n : f[i] = IF i = n THEN last ELSE Larger(f[i + 1], s[i])
      BY <2>1, Zenon
    <2> QED  BY <2>2, <2>3
  <1> HIDE DEF n
  <1>3. n \in right
    BY <1>1, <1>2
  <1>4. \A i \in 1 + 1 .. n : i \in right => i - 1 \in right
    <2> SUFFICES ASSUME NEW i \in 1 + 1 .. n, i \in right PROVE i - 1 \in right
      OBVIOUS
    <2> DEFINE h == i - 1
    <2>1. /\ h \in 1 .. n - 1 /\ h + 1 = i /\ h \in 1 .. n /\ h \in h .. n - 1
          /\ \A j \in h .. n - 1 : j = h \/ j \in i .. n - 1
          /\ \A j \in i .. n - 1 : j \in h .. n - 1 /\ j \in 1 .. n
      BY <1>1
    <2>2. /\ f[i] \in Int
          /\ f[i] = last \/ \E j \in i .. n - 1 : f[i] = s[j]
          /\ last <= f[i] /\ \A j \in i .. n - 1 : s[j] <= f[i]
      OBVIOUS
    <2> HIDE DEF h
    <2>3. /\ f[h] \in {f[i], s[h]} /\ f[h] \in Int /\ s[h] \in Int
          /\ f[i] <= f[h] /\ s[h] <= f[h]
      <3>1. f[h] = Larger(f[i], s[h]) /\ s[h] \in Int
        BY <1>1, <1>2, <2>1
      <3> QED  BY <2>2, <3>1, LargerIs
    <2>4. f[h] = last \/ \E j \in h .. n - 1 : f[h] = s[j]
      BY <2>1, <2>2, <2>3
    <2>5. last <= f[h]
      BY <2>2, <2>3
    <2>6. ASSUME NEW j \in h .. n - 1 PROVE s[j] <= f[h]
      <3>1. CASE j = h
        BY <2>3, <3>1
      <3>2. CASE j \in i .. n - 1
        <4>1. s[j] \in Int /\ s[j] <= f[i]
          BY <1>1, <2>1, <2>2, <3>2
        <4> QED  BY <2>2, <2>3, <4>1
      <3> QED  BY <2>1, <3>1, <3>2
    <2>7. h \in right
      BY <2>1, <2>3, <2>4, <2>5, <2>6
    <2> QED  BY <2>7 DEF h
  <1>5. \A i \in 1 .. n : i \in right
    <2>1. 1 \in Int /\ n \in Int
      BY <1>1
    <2> HIDE DEF right
    <2> QED  BY <1>3, <1>4, <2>1, DownInduction
  <1> QED  BY <1>5 DEF n

\* One pass from the end: no day to buy and later day to sell make more.
THEOREM MaxProfitIsRight ==
  ASSUME NEW prices \in Seq(Int), prices # <<>>
  PROVE  MaxProfitRight(prices)
PROOF
  <1> DEFINE n == Len(prices)
             sell == CHOOSE f : Selling(prices, f)
             best == CHOOSE f : Earning(prices, sell, f)
             gains == [i \in 1 .. n |-> IF i = n THEN 0 ELSE sell[i + 1] - prices[i]]
             profits == {prices[ij[2]] - prices[ij[1]] : ij \in Segments(prices)}
  <1>1. n \in Nat /\ 1 <= n /\ DOMAIN prices = 1 .. n /\ \A i \in 1 .. n : prices[i] \in Int
    OBVIOUS
  <1>2. MaxProfit(prices) = best[1]
    <2>1. n # 0
      BY <1>1
    <2> HIDE DEF n
    <2> QED  BY <2>1 DEF MaxProfit, Selling, Earning, n
  <1>3. Selling(prices, sell) /\ Backwards(prices, prices[n], sell)
    <2>1. prices[n] \in Int
      BY <1>1
    <2>2. \E f : Backwards(prices, prices[n], f)
      BY <2>1, BackwardsExists
    <2>3. \A f : Backwards(prices, prices[n], f) <=> Selling(prices, f)
      BY DEF Backwards, Selling
    <2>4. \E f : Selling(prices, f)
      BY <2>2, <2>3
    <2>5. Selling(prices, sell)
      BY <2>4, Zenon
    <2> HIDE DEF sell
    <2> QED  BY <2>3, <2>5
  <1> HIDE DEF sell
  <1>4. \A i \in 1 .. n :
          /\ sell[i] \in Int
          /\ \E j \in i .. n : sell[i] = prices[j]
          /\ \A j \in i .. n : prices[j] <= sell[i]
    <2> SUFFICES ASSUME NEW i \in 1 .. n
                 PROVE  /\ sell[i] \in Int
                        /\ \E j \in i .. n : sell[i] = prices[j]
                        /\ \A j \in i .. n : prices[j] <= sell[i]
      OBVIOUS
    <2>1. prices[n] \in Int
      BY <1>1
    <2>2. /\ sell[i] \in Int
          /\ sell[i] = prices[n] \/ \E j \in i .. n - 1 : sell[i] = prices[j]
          /\ prices[n] <= sell[i] /\ \A j \in i .. n - 1 : prices[j] <= sell[i]
      BY <1>3, <2>1, BackwardsIs
    <2> HIDE DEF n
    <2>3. n \in i .. n /\ (\A j \in i .. n - 1 : j \in i .. n) /\ \A j \in i .. n : j = n \/ j \in i .. n - 1
      BY <1>1
    <2> QED  BY <2>2, <2>3
  <1>5. gains \in Seq(Int) /\ Len(gains) = n /\ gains # <<>>
        /\ \A i \in 1 .. n - 1 : gains[i] = sell[i + 1] - prices[i]
    <2>1. ASSUME NEW i \in 1 .. n PROVE (IF i = n THEN 0 ELSE sell[i + 1] - prices[i]) \in Int
      <3> HIDE DEF n
      <3>1. CASE i # n
        <4>1. i + 1 \in 1 .. n
          BY <1>1, <3>1
        <4>2. sell[i + 1] \in Int /\ prices[i] \in Int
          BY <1>1, <1>4, <4>1
        <4> QED  BY <3>1, <4>2
      <3> QED  BY <3>1
    <2> HIDE DEF n
    <2>2. gains \in [1 .. n -> Int]
      BY <2>1
    <2>3. gains \in Seq(Int) /\ Len(gains) = n
      BY <1>1, <2>2
    <2>4. \A i \in 1 .. n - 1 : i \in 1 .. n /\ i # n
      BY <1>1
    <2> QED  BY <1>1, <2>3, <2>4, SMTT(20)
  <1>6. Earning(prices, sell, best) /\ Backwards(gains, 0, best)
    <2>1. \E f : Backwards(gains, 0, f)
      <3>1. 0 \in Int
        OBVIOUS
      <3> HIDE DEF gains
      <3> QED  BY <1>5, <3>1, BackwardsExists
    <2>2. \A f : Backwards(gains, 0, f) <=> Earning(prices, sell, f)
      <3> TAKE f
      <3>1. \A i \in 1 .. n : (IF i = n THEN 0 ELSE Larger(f[i + 1], gains[i])) =
                              IF i = n THEN 0 ELSE Larger(f[i + 1], sell[i + 1] - prices[i])
        BY <1>1
      <3> HIDE DEF gains
      <3>2. [i \in 1 .. n |-> IF i = n THEN 0 ELSE Larger(f[i + 1], gains[i])] =
            [i \in 1 .. n |-> IF i = n THEN 0 ELSE Larger(f[i + 1], sell[i + 1] - prices[i])]
        BY <3>1
      <3> QED  BY <1>5, <3>2 DEF Backwards, Earning
    <2>3. \E f : Earning(prices, sell, f)
      BY <2>1, <2>2
    <2>4. Earning(prices, sell, best)
      BY <2>3, Zenon
    <2> HIDE DEF best
    <2> QED  BY <2>2, <2>4
  <1> HIDE DEF best, gains
  <1>7. /\ best[1] \in Int
        /\ best[1] = 0 \/ \E i \in 1 .. n - 1 : best[1] = gains[i]
        /\ 0 <= best[1] /\ \A i \in 1 .. n - 1 : gains[i] <= best[1]
    <2>1. 1 \in 1 .. Len(gains) /\ 0 \in Int
      BY <1>1, <1>5
    <2>2. /\ best[1] \in Int
          /\ best[1] = 0 \/ \E i \in 1 .. Len(gains) - 1 : best[1] = gains[i]
          /\ 0 <= best[1] /\ \A i \in 1 .. Len(gains) - 1 : gains[i] <= best[1]
      BY <1>5, <1>6, <2>1, BackwardsIs
    <2> HIDE DEF n
    <2> QED  BY <1>5, <2>2
  <1> HIDE DEF n
  <1>8. profits \subseteq Int /\ \A k \in profits : k <= best[1]
    <2>1. ASSUME NEW ij \in Segments(prices)
          PROVE  prices[ij[2]] - prices[ij[1]] \in Int /\ prices[ij[2]] - prices[ij[1]] <= best[1]
      <3> DEFINE i == ij[1]
                 j == ij[2]
      <3>1. i \in 1 .. n /\ j \in i .. n /\ j \in 1 .. n
        BY <1>1 DEF Segments
      <3> HIDE DEF i, j
      <3>2. prices[i] \in Int /\ prices[j] \in Int
        BY <1>1, <3>1
      <3>3. CASE i = j
        BY <1>7, <3>2, <3>3 DEF i, j
      <3>4. CASE i # j
        <4>1. i \in 1 .. n - 1 /\ i + 1 \in 1 .. n /\ j \in i + 1 .. n
          BY <1>1, <3>1, <3>4
        <4>2. sell[i + 1] \in Int /\ prices[j] <= sell[i + 1] /\ gains[i] = sell[i + 1] - prices[i]
              /\ gains[i] <= best[1]
          BY <1>4, <1>5, <1>7, <4>1
        <4>3. prices[j] - prices[i] <= best[1]
          BY <1>7, <3>2, <4>2
        <4> QED  BY <3>2, <4>3 DEF i, j
      <3> QED  BY <3>3, <3>4
    <2> QED  BY <2>1
  <1>9. best[1] \in profits
    <2>1. CASE best[1] = 0
      <3>1. <<1, 1>> \in Segments(prices) /\ prices[1] - prices[1] = 0
        BY <1>1 DEF Segments
      <3> QED  BY <2>1, <3>1
    <2>2. CASE \E i \in 1 .. n - 1 : best[1] = gains[i]
      <3>1. PICK i \in 1 .. n - 1 : best[1] = gains[i]
        BY <2>2
      <3>2. i \in 1 .. n /\ i + 1 \in 1 .. n
        BY <1>1
      <3>3. PICK j \in i + 1 .. n : sell[i + 1] = prices[j]
        BY <1>4, <3>2
      <3>4. <<i, j>> \in Segments(prices)
        <4>1. j \in 1 .. n /\ i <= j
          BY <1>1
        <4> QED  BY <1>1, <3>2, <4>1 DEF Segments
      <3>5. best[1] = prices[j] - prices[i]
        BY <1>5, <3>1, <3>3
      <3> QED  BY <3>4, <3>5
    <2> QED  BY <1>7, <2>1, <2>2
  <1>10. Max(profits) = best[1]
    <2> HIDE DEF profits
    <2> QED  BY <1>8, <1>9, MaxIs
  <1> QED  BY <1>2, <1>10 DEF MaxProfitRight

-----------------------------------------------------------------------------
(* LongestConsecutive: a run of consecutive numbers ends, on both sides.       *)

LEMMA GreatestExists ==
  ASSUME NEW n \in Nat, NEW S, S \subseteq 0 .. n, S # {}
  PROVE  \E m \in S : \A k \in S : k <= m
PROOF
  <1> DEFINE R == {n - k : k \in S}
  <1>1. R \subseteq Nat /\ R # {}
    <2>1. \A k \in S : k \in 0 .. n /\ n - k \in Nat
      OBVIOUS
    <2> QED  BY <2>1
  <1>2. PICK r \in R : \A k \in R : r <= k
    <2> HIDE DEF R
    <2> QED  BY <1>1, LeastNat
  <1>3. PICK m \in S : r = n - m
    OBVIOUS
  <1>4. ASSUME NEW k \in S PROVE k <= m
    <2>1. n - k \in R
      OBVIOUS
    <2>2. r <= n - k
      BY <1>2, <2>1
    <2>3. k \in Int /\ m \in Int
      OBVIOUS
    <2> QED  BY <1>3, <2>2, <2>3
  <1> QED  BY <1>4

LEMMA FewValues ==
  ASSUME NEW nums \in Seq(Int), NEW a \in Int, NEW b \in Int, a .. b \subseteq ToSet(nums)
  PROVE  b - a + 1 <= Len(nums) /\ Cardinality(a .. b) \in 0 .. Len(nums)
PROOF
  <1> DEFINE n == Len(nums)
             values == ToSet(nums)
             S == 1 .. n
  <1>1. n \in Nat /\ nums \in [S -> values] /\ \A v \in values : \E i \in S : nums[i] = v
    BY DEF ToSet
  <1>2. IsFiniteSet(S) /\ Cardinality(S) = n
    <2> HIDE DEF n
    <2>1. IsFiniteSet(1 .. n) /\ Cardinality(1 .. n) = IF 1 > n THEN 0 ELSE n - 1 + 1
      BY <1>1, FS_Interval
    <2>2. (IF 1 > n THEN 0 ELSE n - 1 + 1) = n
      BY <1>1
    <2> QED  BY <2>1, <2>2
  <1>3. nums \in Surjection(S, values)
    BY <1>1 DEF Surjection
  <1>4. IsFiniteSet(values) /\ Cardinality(values) <= Cardinality(S) /\ Cardinality(values) \in Nat
    <2> HIDE DEF S, values
    <2>1. IsFiniteSet(values) /\ Cardinality(values) <= Cardinality(S)
      BY <1>2, <1>3, FS_Surjection
    <2> QED  BY <2>1, FS_CardinalityType
  <1>5. Cardinality(a .. b) <= Cardinality(values) /\ Cardinality(a .. b) \in Nat
    <2> HIDE DEF values
    <2>1. a .. b \subseteq values
      BY DEF values
    <2>2. IsFiniteSet(a .. b) /\ Cardinality(a .. b) <= Cardinality(values)
      BY <1>4, <2>1, FS_Subset
    <2> QED  BY <2>2, FS_CardinalityType
  <1>6. Cardinality(a .. b) = IF a > b THEN 0 ELSE b - a + 1
    BY FS_Interval
  <1> HIDE DEF n, values, S
  <1>7. Cardinality(a .. b) \in 0 .. n
    BY <1>1, <1>2, <1>4, <1>5
  <1>8. b - a + 1 <= n
    BY <1>1, <1>6, <1>7
  <1> QED  BY <1>7, <1>8 DEF n

\* From a number on, the first that is missing; and back from it.
LEMMA RunEndsAfter ==
  ASSUME NEW nums \in Seq(Int), NEW v \in ToSet(nums)
  PROVE  LET lengths == {l \in 1 .. Len(nums) : v + l \notin ToSet(nums)} IN
         /\ Min(lengths) \in lengths /\ v .. v + Min(lengths) - 1 \subseteq ToSet(nums)
         /\ \A w \in v .. v + Min(lengths) - 1 : w - v < Min(lengths)
         /\ \A w \in Int : v <= w /\ v .. w \subseteq ToSet(nums) => w - v + 1 <= Min(lengths)
PROOF
  <1> DEFINE n == Len(nums)
             values == ToSet(nums)
             lengths == {l \in 1 .. n : v + l \notin values}
             m == Min(lengths)
  <1>1. n \in Nat /\ v \in Int /\ v \in values
    BY DEF ToSet
  <1>2. lengths # {}
    <2> SUFFICES ASSUME \A l \in 1 .. n : v + l \in values PROVE FALSE
      OBVIOUS
    <2>1. v .. v + n \subseteq values
      <3> SUFFICES ASSUME NEW w \in v .. v + n PROVE w \in values
        OBVIOUS
      <3>1. CASE w = v
        BY <1>1, <3>1
      <3>2. CASE w # v
        <4>1. w - v \in 1 .. n /\ v + (w - v) = w
          BY <1>1, <3>2
        <4>2. v + (w - v) \in values
          BY <4>1
        <4> QED  BY <4>1, <4>2
      <3> QED  BY <3>1, <3>2
    <2>2. (v + n) - v + 1 <= n
      <3>1. v + n \in Int
        BY <1>1
      <3> QED  BY <1>1, <2>1, <3>1, FewValues
    <2> QED  BY <1>1, <2>2
  <1>3. m \in lengths /\ \A l \in lengths : m <= l
    <2>1. lengths \subseteq Nat
      OBVIOUS
    <2> HIDE DEF lengths
    <2> QED  BY <1>2, <2>1, LeastIsMin
  <1>4. m \in 1 .. n /\ v + m \notin values
    BY <1>3
  <1>5. \A l \in 1 .. m - 1 : v + l \in values
    <2> SUFFICES ASSUME NEW l \in 1 .. m - 1, v + l \notin values PROVE FALSE
      OBVIOUS
    <2>1. l \in 1 .. n /\ l < m
      BY <1>1, <1>4
    <2>2. m <= l
      BY <1>3, <2>1
    <2> HIDE DEF m
    <2> QED  BY <1>4, <2>1, <2>2
  <1> HIDE DEF m, n
  <1>6. v .. v + m - 1 \subseteq values
    <2> SUFFICES ASSUME NEW w \in v .. v + m - 1 PROVE w \in values
      OBVIOUS
    <2>1. CASE w = v
      BY <1>1, <2>1
    <2>2. CASE w # v
      <3>1. w - v \in 1 .. m - 1 /\ v + (w - v) = w
        BY <1>1, <1>4, <2>2
      <3>2. v + (w - v) \in values
        BY <1>5, <3>1
      <3> QED  BY <3>1, <3>2
    <2> QED  BY <2>1, <2>2
  <1>7. \A w \in v .. v + m - 1 : w - v < m
    BY <1>1, <1>4
  <1>8. ASSUME NEW w \in Int, v <= w, v .. w \subseteq values PROVE w - v + 1 <= m
    <2>1. ~(v + m \in v .. w)
      BY <1>4, <1>8
    <2> QED  BY <1>1, <1>4, <1>8, <2>1
  <1> QED  BY <1>3, <1>6, <1>7, <1>8 DEF m, n

LEMMA RunStarts ==
  ASSUME NEW nums \in Seq(Int), NEW u \in ToSet(nums)
  PROVE  \E s \in ToSet(nums) : s <= u /\ s - 1 \notin ToSet(nums) /\ s .. u \subseteq ToSet(nums)
PROOF
  <1> DEFINE n == Len(nums)
             values == ToSet(nums)
             D == {d \in 0 .. n : u - d .. u \subseteq values}
  <1>1. n \in Nat /\ u \in Int /\ u \in values
    BY DEF ToSet
  <1>2. 0 \in D
    BY <1>1
  <1>3. PICK d \in D : \A e \in D : e <= d
    <2>1. D \subseteq 0 .. n
      OBVIOUS
    <2> HIDE DEF D, n
    <2> QED  BY <1>1, <1>2, <2>1, GreatestExists
  <1>4. d \in 0 .. n /\ u - d .. u \subseteq values
    OBVIOUS
  <1> DEFINE s == u - d
  <1>5. s \in values /\ s <= u
    BY <1>1, <1>4
  <1>6. s - 1 \notin values
    <2> SUFFICES ASSUME s - 1 \in values PROVE FALSE
      OBVIOUS
    <2>1. u - (d + 1) .. u \subseteq values
      <3> SUFFICES ASSUME NEW w \in u - (d + 1) .. u PROVE w \in values
        OBVIOUS
      <3>1. CASE w = s - 1
        BY <3>1
      <3>2. CASE w # s - 1
        <4>1. w \in u - d .. u
          BY <1>1, <1>4, <3>2
        <4> QED  BY <1>4, <4>1
      <3> QED  BY <3>1, <3>2
    <2>2. d + 1 <= n
      <3>1. u - (d + 1) \in Int /\ u - (u - (d + 1)) + 1 <= n
        <4>1. u - (d + 1) \in Int
          BY <1>1, <1>4
        <4> QED  BY <1>1, <2>1, <4>1, FewValues
      <3> QED  BY <1>1, <1>4, <3>1
    <2>3. d + 1 \in D
      BY <1>1, <1>4, <2>1, <2>2
    <2>4. d + 1 <= d
      <3> HIDE DEF D
      <3> QED  BY <1>3, <2>3
    <2> QED  BY <1>4, <2>4
  <1> QED  BY <1>4, <1>5, <1>6

\* Only starting at a number whose predecessor is missing loses no run.
THEOREM LongestConsecutiveIsRight ==
  ASSUME NEW nums \in Seq(Int), nums # <<>>
  PROVE  LongestConsecutiveRight(nums)
PROOF
  <1> DEFINE n == Len(nums)
             values == ToSet(nums)
             Length(num) == Min({l \in 1 .. n : num + l \notin values})
             starts == {v \in values : v - 1 \notin values}
             lengths == {0} \cup {Length(num) : num \in starts}
             runs == {u .. v : u, v \in values} \cap SUBSET values
             sizes == {Cardinality(run) : run \in runs}
  <1>1. n \in Nat /\ values \subseteq Int /\ nums[1] \in values
    BY DEF ToSet
  <1>2. LongestConsecutive(nums) = Max(lengths)
    BY DEF LongestConsecutive
  <1>3. \A v \in values :
          /\ Length(v) \in 1 .. n /\ v .. v + Length(v) - 1 \subseteq values
          /\ \A w \in Int : v <= w /\ v .. w \subseteq values => w - v + 1 <= Length(v)
    BY RunEndsAfter
  <1>4. \A u \in values : \E s \in starts : s <= u /\ s .. u \subseteq values
    BY RunStarts
  <1> HIDE DEF n, Length, values
  <1>5. lengths \subseteq 0 .. n /\ lengths # {}
    BY <1>1, <1>3
  <1>6. PICK m \in lengths : \A k \in lengths : k <= m
    <2> HIDE DEF lengths
    <2> QED  BY <1>1, <1>5, GreatestExists
  <1>7. m \in 0 .. n /\ \A v \in starts : Length(v) <= m
    BY <1>5, <1>6
  <1>8. Max(lengths) = m
    <2>1. lengths \subseteq Int
      BY <1>5
    <2> HIDE DEF lengths
    <2> QED  BY <1>6, <2>1, MaxIs
  <1>9. PICK v \in starts : m = Length(v)
    <2>1. PICK s \in starts : s <= nums[1]
      BY <1>1, <1>4
    <2>2. Length(s) \in 1 .. n /\ Length(s) <= m
      BY <1>3, <1>7, <2>1
    <2>3. m # 0
      BY <1>1, <1>7, <2>2
    <2> QED  BY <2>3
  <1> HIDE DEF lengths
  <1>10. m \in sizes
    <2> DEFINE w == v + m - 1
    <2>1. v \in values /\ v \in Int /\ m \in 1 .. n /\ v .. w \subseteq values
      BY <1>1, <1>3, <1>9
    <2>2. w \in Int /\ v <= w /\ w - v + 1 = m
      BY <1>1, <2>1
    <2> HIDE DEF w
    <2>3. w \in values
      BY <2>1, <2>2
    <2>4. Cardinality(v .. w) = m
      <3>1. Cardinality(v .. w) = IF v > w THEN 0 ELSE w - v + 1
        BY <2>1, <2>2, FS_Interval
      <3>2. (IF v > w THEN 0 ELSE w - v + 1) = m
        BY <2>1, <2>2
      <3> QED  BY <3>1, <3>2
    <2>5. v .. w \in runs
      <3> DEFINE run == v .. w
      <3>1. \E a, b \in values : run = a .. b
        BY <2>1, <2>3
      <3>2. run \in SUBSET values
        BY <2>1
      <3> HIDE DEF run, values
      <3>3. run \in {a .. b : a, b \in values}
        BY <3>1
      <3>4. run \in runs
        <4> DEFINE ranges == {a .. b : a, b \in values}
        <4>1. run \in ranges /\ runs = ranges \cap SUBSET values
          BY <3>3
        <4> HIDE DEF ranges, runs
        <4> QED  BY <3>2, <4>1
      <3> QED  BY <3>4 DEF run
    <2> HIDE DEF runs
    <2> QED  BY <2>4, <2>5
  <1>11. ASSUME NEW u \in values, NEW w \in values, u .. w \subseteq values
         PROVE  Cardinality(u .. w) \in Int /\ Cardinality(u .. w) <= m
    <2>1. u \in Int /\ w \in Int /\ m \in Nat
      BY <1>1, <1>7
    <2>2. Cardinality(u .. w) = IF u > w THEN 0 ELSE w - u + 1
      BY <2>1, FS_Interval
    <2>3. CASE u > w
      BY <2>1, <2>2, <2>3
    <2>4. CASE ~(u > w)
      <3>1. PICK s \in starts : s <= u /\ s .. u \subseteq values
        BY <1>4
      <3>2. s \in values /\ s \in Int
        BY <1>1
      <3>3. s <= w /\ s .. w \subseteq values
        <4>1. \A x \in s .. w : x \in s .. u \/ x \in u .. w
          BY <2>1, <3>2
        <4> QED  BY <1>11, <2>1, <2>4, <3>1, <3>2, <4>1
      <3>4. w - s + 1 <= Length(s) /\ Length(s) <= m /\ Length(s) \in 1 .. n
        BY <1>3, <1>7, <2>1, <3>2, <3>3
      <3> QED  BY <1>1, <2>1, <2>2, <2>4, <3>1, <3>2, <3>4
    <2> QED  BY <2>3, <2>4
  <1>12. sizes \subseteq Int /\ \A k \in sizes : k <= m
    <2>1. ASSUME NEW run \in runs PROVE Cardinality(run) \in Int /\ Cardinality(run) <= m
      <3>1. PICK u \in values, w \in values : run = u .. w
        <4>1. run \in {a .. b : a, b \in values}
          OBVIOUS
        <4> QED  BY <4>1
      <3>2. u .. w \subseteq values
        BY <3>1
      <3> QED  BY <1>11, <3>1, <3>2
    <2> HIDE DEF runs
    <2> QED  BY <2>1
  <1>13. Max(sizes) = m
    <2> HIDE DEF sizes
    <2> QED  BY <1>10, <1>12, MaxIs
  <1> QED  BY <1>2, <1>8, <1>13 DEF LongestConsecutiveRight, values

-----------------------------------------------------------------------------
(* Products.                                                                 *)

LEMMA TimesIs ==
  ASSUME NEW a \in Int, NEW b \in Int, NEW c \in Int
  PROVE  /\ a * b \in Int /\ (a * b) * c = a * (b * c) /\ a * b = b * a
         /\ 1 * a = a /\ a * 1 = a /\ a * 0 = 0 /\ 0 * a = 0
OBVIOUS

LEMMA SignsMultiply ==
  ASSUME NEW a \in Int, NEW b \in Int
  PROVE  /\ a > 0 /\ b > 0 => a * b >= a /\ a * b >= b
         /\ a < 0 /\ b < 0 => a * b > 0
         /\ a < 0 /\ b > 0 => a * b < 0
         /\ a > 0 /\ b < 0 => a * b < 0
         /\ a * b = 0 <=> a = 0 \/ b = 0
PROOF
  <1>1. ASSUME NEW c \in Int, NEW d \in Int, c > 0, d > 0 PROVE c * d >= c
    <2>1. c \in Nat /\ d \in Nat /\ 1 \in Nat /\ 1 <= d /\ c <= c
      BY <1>1
    <2>2. c * 1 <= c * d
      BY <2>1, ProductsGrow
    <2> QED  BY <2>2
  <1>2. \A c, d \in Int : c * d = d * c /\ (-c) * d = -(c * d) /\ c * (-d) = -(c * d) /\ (-c) * (-d) = c * d
    OBVIOUS
  <1>3. ASSUME a > 0, b > 0 PROVE a * b >= a /\ a * b >= b
    BY <1>1, <1>2, <1>3
  <1>4. ASSUME a < 0, b < 0 PROVE a * b > 0
    <2>1. -a \in Int /\ -b \in Int /\ -a > 0 /\ -b > 0
      BY <1>4
    <2>2. (-a) * (-b) >= -a /\ (-a) * (-b) = a * b
      BY <1>1, <1>2, <2>1
    <2> QED  BY <2>1, <2>2
  <1>5. ASSUME a < 0, b > 0 PROVE a * b < 0
    <2>1. -a \in Int /\ -a > 0
      BY <1>5
    <2>2. (-a) * b >= -a /\ (-a) * b = -(a * b)
      BY <1>1, <1>2, <1>5, <2>1
    <2> QED  BY <2>1, <2>2
  <1>6. ASSUME a > 0, b < 0 PROVE a * b < 0
    <2>1. -b \in Int /\ -b > 0
      BY <1>6
    <2>2. a * (-b) >= a /\ a * (-b) = -(a * b)
      BY <1>1, <1>2, <1>6, <2>1
    <2> QED  BY <1>6, <2>2
  <1>7. a * b = 0 <=> a = 0 \/ b = 0
    <2>1. a = 0 \/ a > 0 \/ a < 0
      OBVIOUS
    <2>2. b = 0 \/ b > 0 \/ b < 0
      OBVIOUS
    <2>3. a = 0 \/ b = 0 => a * b = 0
      OBVIOUS
    <2> QED  BY <1>3, <1>4, <1>5, <1>6, <2>1, <2>2, <2>3
  <1> QED  BY <1>3, <1>4, <1>5, <1>6, <1>7

Multiplying(s, f) == f = [i \in 0 .. Len(s) |-> IF i = 0 THEN 1 ELSE f[i - 1] * s[i]]

LEMMA MultiplyingExists ==
  ASSUME NEW s \in Seq(Int)
  PROVE  \E f : Multiplying(s, f)
PROOF
  <1> DEFINE n == Len(s)
             step == [ia \in (1 .. n) \X Int |-> ia[2] * s[ia[1]]]
  <1>1. n \in Nat /\ \A i \in 1 .. n : s[i] \in Int
    OBVIOUS
  <1>2. step \in Steps(Int, 0, n)
    <2>1. ASSUME NEW ia \in (1 .. n) \X Int PROVE ia[2] * s[ia[1]] \in Int
      <3>1. ia[2] \in Int /\ s[ia[1]] \in Int
        BY <1>1
      <3> QED  BY <3>1
    <2>2. 0 + 1 = 1
      OBVIOUS
    <2> QED  BY <2>1, <2>2 DEF Steps
  <1>3. \A i \in 1 .. n, a \in Int : step[<<i, a>>] = a * s[i]
    OBVIOUS
  <1> HIDE DEF step, n
  <1>4. PICK f : Follows(f, Int, 0, n, 1, step)
    <2>1. 0 \in Int /\ n \in Int /\ 0 <= n /\ 1 \in Int
      BY <1>1
    <2> QED  BY <1>2, <2>1, RecursionExists
  <1>5. ASSUME NEW i \in 0 .. n
        PROVE  f[i] = IF i = 0 THEN 1 ELSE f[i - 1] * s[i]
    <2>1. CASE i = 0
      BY <1>4, <2>1 DEF Follows
    <2>2. CASE i # 0
      <3>1. i \in 0 + 1 .. n /\ i \in 1 .. n /\ i - 1 \in 0 .. n
        BY <1>1, <2>2
      <3>2. f[i - 1] \in Int /\ f[i] = step[<<i, f[i - 1]>>]
        BY <1>4, <3>1 DEF Follows
      <3> QED  BY <1>3, <2>2, <3>1, <3>2
    <2> QED  BY <2>1, <2>2
  <1>6. f = [i \in 0 .. n |-> f[i]]
    BY <1>4 DEF Follows
  <1> QED  BY <1>5, <1>6 DEF Multiplying, n

\* Whatever starts at 1 and grows by the numbers of s ends at their product.
LEMMA ProductIs ==
  ASSUME NEW s \in Seq(Int), NEW f, f[0] = 1, \A i \in 1 .. Len(s) : f[i] = f[i - 1] * s[i]
  PROVE  /\ Product(s) = f[Len(s)] /\ Product(s) \in Int
         /\ \A i \in 0 .. Len(s) : f[i] \in Int
PROOF
  <1> DEFINE n == Len(s)
             g == CHOOSE h : Multiplying(s, h)
             right == {i \in 0 .. n : g[i] = f[i] /\ f[i] \in Int}
  <1>1. Product(s) = g[n]
    BY DEF Product, Multiplying
  <1>2. Multiplying(s, g)
    BY MultiplyingExists, Zenon
  <1>3. n \in Nat /\ \A i \in 1 .. n : s[i] \in Int
    OBVIOUS
  <1>4. \A i \in 0 .. n : g[i] = IF i = 0 THEN 1 ELSE g[i - 1] * s[i]
    BY <1>2, Zenon DEF Multiplying
  <1> HIDE DEF g, n
  <1>5. 0 \in right
    BY <1>3, <1>4
  <1>6. \A i \in 0 .. n - 1 : i \in right => i + 1 \in right
    <2> SUFFICES ASSUME NEW i \in 0 .. n - 1, i \in right PROVE i + 1 \in right
      OBVIOUS
    <2>1. i + 1 \in 0 .. n /\ i + 1 \in 1 .. n /\ i + 1 # 0 /\ (i + 1) - 1 = i
      BY <1>3
    <2>2. g[i] = f[i] /\ f[i] \in Int
      OBVIOUS
    <2>3. g[i + 1] = g[i] * s[i + 1] /\ f[i + 1] = f[i] * s[i + 1] /\ s[i + 1] \in Int
      BY <1>3, <1>4, <2>1 DEF n
    <2> QED  BY <2>1, <2>2, <2>3
  <1>7. \A i \in 0 .. n : i \in right
    <2>1. 0 \in Int /\ n \in Int
      BY <1>3
    <2> HIDE DEF right
    <2> QED  BY <1>5, <1>6, <2>1, RangeInduction
  <1> QED  BY <1>1, <1>3, <1>7 DEF n

LEMMA ProductAppends ==
  ASSUME NEW s \in Seq(Int), NEW x \in Int
  PROVE  Product(Append(s, x)) = Product(s) * x /\ Product(s) \in Int
PROOF
  <1> DEFINE n == Len(s)
             t == Append(s, x)
  <1>1. PICK f : Multiplying(s, f)
    BY MultiplyingExists
  <1>2. n \in Nat /\ t \in Seq(Int) /\ Len(t) = n + 1 /\ t[n + 1] = x
        /\ \A i \in 1 .. n : t[i] = s[i]
    OBVIOUS
  <1> HIDE DEF t
  <1>3. f[0] = 1 /\ \A i \in 1 .. n : f[i] = f[i - 1] * s[i]
    <2>1. \A i \in 0 .. n : f[i] = IF i = 0 THEN 1 ELSE f[i - 1] * s[i]
      BY <1>1, Zenon DEF Multiplying
    <2> HIDE DEF n
    <2> QED  BY <1>2, <2>1
  <1>4. Product(s) = f[n] /\ Product(s) \in Int
    BY <1>3, ProductIs
  <1> DEFINE g == [i \in 0 .. n + 1 |-> IF i = n + 1 THEN f[n] * x ELSE f[i]]
  <1> HIDE DEF n
  <1>5. g[0] = 1 /\ g[n + 1] = f[n] * x
    BY <1>2, <1>3
  <1>6. ASSUME NEW i \in 1 .. n + 1 PROVE g[i] = g[i - 1] * t[i]
    <2>1. CASE i = n + 1
      <3>1. g[i - 1] = f[n]
        BY <1>2, <2>1
      <3> QED  BY <1>2, <1>5, <2>1, <3>1
    <2>2. CASE i # n + 1
      <3>1. i \in 1 .. n /\ i - 1 \in 0 .. n /\ i - 1 # n + 1
        BY <1>2, <2>2
      <3>2. g[i] = f[i] /\ g[i - 1] = f[i - 1]
        BY <1>2, <3>1
      <3> QED  BY <1>2, <1>3, <3>1, <3>2
    <2> QED  BY <2>1, <2>2
  <1> HIDE DEF g
  <1>7. Product(t) = g[n + 1]
    BY <1>2, <1>5, <1>6, ProductIs
  <1> QED  BY <1>4, <1>5, <1>7 DEF t

LEMMA ProductOfNone == Product(<<>>) = 1
PROOF
  <1> DEFINE f == [i \in 0 .. 0 |-> 1]
  <1>1. <<>> \in Seq(Int) /\ Len(<<>>) = 0 /\ f[0] = 1
    OBVIOUS
  <1>2. \A i \in 1 .. Len(<<>>) : f[i] = f[i - 1] * <<>>[i]
    BY <1>1
  <1> HIDE DEF f
  <1>3. Product(<<>>) = f[Len(<<>>)]
    BY <1>1, <1>2, ProductIs
  <1> QED  BY <1>1, <1>3

\* The product of a segment grows at either end.
LEMMA SegmentProducts ==
  ASSUME NEW nums \in Seq(Int), NEW i \in 1 .. Len(nums)
  PROVE  /\ Product(SubSeq(nums, i, i)) = nums[i]
         /\ \A j \in i .. Len(nums) : Product(SubSeq(nums, i, j)) \in Int
         /\ \A j \in i + 1 .. Len(nums) :
              Product(SubSeq(nums, i, j)) = Product(SubSeq(nums, i, j - 1)) * nums[j]
PROOF
  <1> DEFINE n == Len(nums)
  <1>1. n \in Nat /\ \A j \in 1 .. n : nums[j] \in Int
    OBVIOUS
  <1>2. SubSeq(nums, i, i - 1) = <<>>
    OBVIOUS
  <1>3. ASSUME NEW j \in i .. n
        PROVE  /\ SubSeq(nums, i, j - 1) \in Seq(Int)
               /\ Product(SubSeq(nums, i, j)) = Product(SubSeq(nums, i, j - 1)) * nums[j]
               /\ Product(SubSeq(nums, i, j - 1)) \in Int /\ nums[j] \in Int
    <2>1. /\ SubSeq(nums, i, j - 1) \in Seq(Int)
          /\ SubSeq(nums, i, j) = Append(SubSeq(nums, i, j - 1), nums[j])
      BY SegmentGrows
    <2>2. nums[j] \in Int
      BY <1>1
    <2> QED  BY <2>1, <2>2, ProductAppends
  <1>4. ASSUME NEW j \in i .. n PROVE Product(SubSeq(nums, i, j)) \in Int
    <2>1. /\ Product(SubSeq(nums, i, j)) = Product(SubSeq(nums, i, j - 1)) * nums[j]
          /\ Product(SubSeq(nums, i, j - 1)) \in Int /\ nums[j] \in Int
      BY <1>3
    <2>2. Product(SubSeq(nums, i, j - 1)) * nums[j] \in Int
      BY <2>1, TimesIs
    <2> QED  BY <2>1, <2>2
  <1>5. i \in i .. n /\ \A j \in i + 1 .. n : j \in i .. n
    BY <1>1
  <1>6. Product(SubSeq(nums, i, i)) = nums[i]
    <2>1. Product(SubSeq(nums, i, i)) = 1 * nums[i] /\ nums[i] \in Int
      BY <1>2, <1>3, <1>5, ProductOfNone
    <2> QED  BY <2>1
  <1> QED  BY <1>3, <1>4, <1>5, <1>6

LEMMA SegmentProductsBack ==
  ASSUME NEW nums \in Seq(Int), NEW i \in 1 .. Len(nums)
  PROVE  \A j \in i + 1 .. Len(nums) :
           Product(SubSeq(nums, i, j)) = nums[i] * Product(SubSeq(nums, i + 1, j))
PROOF
  <1> DEFINE n == Len(nums)
             Q(a, b) == Product(SubSeq(nums, a, b))
             right == {j \in i + 1 .. n : Q(i, j) = nums[i] * Q(i + 1, j)}
  <1>1. n \in Nat /\ \A j \in 1 .. n : nums[j] \in Int
    OBVIOUS
  <1>2. /\ \A a \in 1 .. n : Q(a, a) = nums[a] /\ \A j \in a .. n : Q(a, j) \in Int
        /\ \A a \in 1 .. n : \A j \in a + 1 .. n : Q(a, j) = Q(a, j - 1) * nums[j]
    BY SegmentProducts
  <1> HIDE DEF n, Q
  <1>3. CASE i = n
    BY <1>1, <1>3 DEF n, Q
  <1>4. CASE i # n
    <2>1. i \in 1 .. n /\ i + 1 \in 1 .. n /\ i + 1 \in i + 1 .. n /\ (i + 1) - 1 = i
      BY <1>1, <1>4 DEF n
    <2>2. i + 1 \in right
      BY <1>2, <2>1
    <2>3. \A j \in i + 1 .. n - 1 : j \in right => j + 1 \in right
      <3> SUFFICES ASSUME NEW j \in i + 1 .. n - 1, j \in right PROVE j + 1 \in right
        OBVIOUS
      <3>1. /\ j + 1 \in i + 1 .. n /\ j + 1 \in (i + 1) + 1 .. n /\ (j + 1) - 1 = j
            /\ j \in i + 1 .. n /\ j + 1 \in 1 .. n
        BY <1>1, <2>1
      <3>2. Q(i, j) = nums[i] * Q(i + 1, j)
        OBVIOUS
      <3>3. Q(i, j + 1) = Q(i, j) * nums[j + 1] /\ Q(i + 1, j + 1) = Q(i + 1, j) * nums[j + 1]
        BY <1>2, <2>1, <3>1
      <3>4. nums[i] \in Int /\ Q(i + 1, j) \in Int /\ nums[j + 1] \in Int
        BY <1>1, <1>2, <2>1, <3>1
      <3>5. Q(i, j + 1) = nums[i] * Q(i + 1, j + 1)
        BY <3>2, <3>3, <3>4, TimesIs
      <3> QED  BY <3>1, <3>5
    <2>4. \A j \in i + 1 .. n : j \in right
      <3>1. i + 1 \in Int /\ n \in Int
        BY <1>1, <2>1
      <3> HIDE DEF right
      <3> QED  BY <2>2, <2>3, <3>1, RangeInduction
    <2> QED  BY <2>4 DEF n, Q
  <1> QED  BY <1>3, <1>4

-----------------------------------------------------------------------------
(* MaxProduct: no zero in a segment, and the prefix that ends with it is what  *)
(* stands before the segment times the segment; so for the suffix that starts  *)
(* with it.  What stands on the two sides decides by its signs which of them   *)
(* is no less than the segment.                                               *)

Prefixing(nums, f) ==
  f = [i \in 0 .. Len(nums) |-> IF i = 0 THEN 1 ELSE Signed(f[i - 1], nums[i])]
Suffixing(nums, f) ==
  f = [i \in 0 .. Len(nums) |-> IF i = 0 THEN 1 ELSE Signed(f[i - 1], nums[Len(nums) + 1 - i])]

LEMMA SignedIs ==
  ASSUME NEW a \in Int, NEW b \in Int
  PROVE  /\ Signed(a, b) \in Int
         /\ a = 0 => Signed(a, b) = b
         /\ a # 0 => Signed(a, b) = a * b
         /\ b = 0 => Signed(a, b) = 0
         /\ b # 0 => Signed(a, b) # 0
BY TimesIs, SignsMultiply DEF Signed

LEMMA SignedExists ==
  ASSUME NEW s \in Seq(Int)
  PROVE  \E f : Prefixing(s, f)
PROOF
  <1> DEFINE n == Len(s)
             step == [ia \in (1 .. n) \X Int |-> Signed(ia[2], s[ia[1]])]
  <1>1. n \in Nat /\ \A i \in 1 .. n : s[i] \in Int
    OBVIOUS
  <1>2. step \in Steps(Int, 0, n)
    <2>1. ASSUME NEW ia \in (1 .. n) \X Int PROVE Signed(ia[2], s[ia[1]]) \in Int
      <3>1. ia[2] \in Int /\ s[ia[1]] \in Int
        BY <1>1
      <3> QED  BY <3>1, SignedIs
    <2>2. 0 + 1 = 1
      OBVIOUS
    <2> QED  BY <2>1, <2>2 DEF Steps
  <1>3. \A i \in 1 .. n, a \in Int : step[<<i, a>>] = Signed(a, s[i])
    OBVIOUS
  <1> HIDE DEF step, n
  <1>4. PICK f : Follows(f, Int, 0, n, 1, step)
    <2>1. 0 \in Int /\ n \in Int /\ 0 <= n /\ 1 \in Int
      BY <1>1
    <2> QED  BY <1>2, <2>1, RecursionExists
  <1>5. ASSUME NEW i \in 0 .. n
        PROVE  f[i] = IF i = 0 THEN 1 ELSE Signed(f[i - 1], s[i])
    <2>1. CASE i = 0
      BY <1>4, <2>1 DEF Follows
    <2>2. CASE i # 0
      <3>1. i \in 0 + 1 .. n /\ i \in 1 .. n /\ i - 1 \in 0 .. n
        BY <1>1, <2>2
      <3>2. f[i - 1] \in Int /\ f[i] = step[<<i, f[i - 1]>>]
        BY <1>4, <3>1 DEF Follows
      <3> QED  BY <1>3, <2>2, <3>1, <3>2
    <2> QED  BY <2>1, <2>2
  <1>6. f = [i \in 0 .. n |-> f[i]]
    BY <1>4 DEF Follows
  <1> QED  BY <1>5, <1>6 DEF Prefixing, n

\* The prefixes: each is the product of a segment that ends there, and along a
\* segment without a zero it is what stood before it times the segment.
LEMMA PrefixesAre ==
  ASSUME NEW nums \in Seq(Int), NEW f, Prefixing(nums, f)
  PROVE  /\ \A j \in 1 .. Len(nums) :
              /\ f[j] \in Int /\ (f[j] = 0 <=> nums[j] = 0)
              /\ \E a \in 1 .. j : f[j] = Product(SubSeq(nums, a, j))
         /\ \A i \in 1 .. Len(nums) : \A j \in i .. Len(nums) :
              LET x == Product(SubSeq(nums, i, j)) IN
              IF x = 0 THEN \E l \in i .. j : nums[l] = 0
              ELSE f[j] = (IF i = 1 \/ f[i - 1] = 0 THEN 1 ELSE f[i - 1]) * x
PROOF
  <1> DEFINE n == Len(nums)
             Q(a, b) == Product(SubSeq(nums, a, b))
             Before(i) == IF i = 1 \/ f[i - 1] = 0 THEN 1 ELSE f[i - 1]
             right == {j \in 1 .. n : /\ f[j] \in Int
                                      /\ f[j] = 0 <=> nums[j] = 0
                                      /\ \E a \in 1 .. j : f[j] = Q(a, j)}
  <1>1. n \in Nat /\ \A j \in 1 .. n : nums[j] \in Int
    OBVIOUS
  <1>2. /\ \A a \in 1 .. n : Q(a, a) = nums[a] /\ \A j \in a .. n : Q(a, j) \in Int
        /\ \A a \in 1 .. n : \A j \in a + 1 .. n : Q(a, j) = Q(a, j - 1) * nums[j]
    BY SegmentProducts
  <1>3. \A i \in 0 .. n : f[i] = IF i = 0 THEN 1 ELSE Signed(f[i - 1], nums[i])
    BY Zenon DEF Prefixing
  <1> HIDE DEF n, Q
  <1>4. f[0] = 1 /\ \A i \in 1 .. n : f[i] = Signed(f[i - 1], nums[i])
    <2>1. 0 \in 0 .. n /\ \A i \in 1 .. n : i \in 0 .. n /\ i # 0
      BY <1>1
    <2> QED  BY <1>3, <2>1
  <1>5. ASSUME NEW i \in 1 .. n, f[i - 1] = 0 \/ i = 1
        PROVE  f[i] = nums[i]
    <2>1. i = 1 => f[i - 1] = 1
      BY <1>4
    <2>2. nums[i] \in Int /\ f[i] = Signed(f[i - 1], nums[i]) /\ 1 * nums[i] = nums[i]
      BY <1>1, <1>4, TimesIs
    <2> QED  BY <1>5, <2>1, <2>2 DEF Signed
  <1>6. ASSUME 1 <= n PROVE 1 \in right
    <2>1. 1 \in 1 .. n /\ 1 \in 1 .. 1
      BY <1>1, <1>6
    <2>2. f[1] = nums[1] /\ nums[1] \in Int /\ Q(1, 1) = nums[1]
      BY <1>1, <1>2, <1>5, <2>1
    <2> QED  BY <2>1, <2>2
  <1>7. \A j \in 1 .. n - 1 : j \in right => j + 1 \in right
    <2> SUFFICES ASSUME NEW j \in 1 .. n - 1, j \in right PROVE j + 1 \in right
      OBVIOUS
    <2>1. j + 1 \in 1 .. n /\ j \in 1 .. n /\ (j + 1) - 1 = j /\ j + 1 \in 1 .. j + 1 /\ j \in Nat
      BY <1>1
    <2>2. /\ f[j] \in Int /\ (f[j] = 0 <=> nums[j] = 0)
          /\ \E a \in 1 .. j : f[j] = Q(a, j)
      OBVIOUS
    <2>3. f[j + 1] = Signed(f[j], nums[j + 1]) /\ nums[j + 1] \in Int
      BY <1>1, <1>4, <2>1
    <2> DEFINE g == f[j]
               h == f[j + 1]
               x == nums[j + 1]
    <2> HIDE DEF g, h, x
    <2>4. h \in Int /\ (g = 0 => h = x) /\ (g # 0 => h = g * x) /\ (h = 0 <=> x = 0)
      <3>1. g \in Int /\ x \in Int /\ h = Signed(g, x)
        BY <2>2, <2>3 DEF g, h, x
      <3> QED  BY <3>1, SignedIs
    <2>5. \E a \in 1 .. j + 1 : h = Q(a, j + 1)
      <3>1. CASE g = 0
        <4>1. h = Q(j + 1, j + 1)
          BY <1>2, <2>1, <2>4, <3>1 DEF x
        <4> QED  BY <2>1, <4>1
      <3>2. CASE g # 0
        <4>1. PICK a \in 1 .. j : g = Q(a, j)
          BY <2>2 DEF g
        <4>2. a \in 1 .. n /\ j + 1 \in a + 1 .. n /\ a \in 1 .. j + 1
          BY <1>1, <2>1
        <4>3. Q(a, j + 1) = Q(a, j) * x
          BY <1>2, <2>1, <4>2 DEF x
        <4> QED  BY <2>4, <3>2, <4>1, <4>2, <4>3
      <3> QED  BY <3>1, <3>2
    <2> QED  BY <2>1, <2>4, <2>5 DEF h, x
  <1>8. \A j \in 1 .. n : j \in right
    <2>1. CASE n = 0
      BY <2>1
    <2>2. CASE n # 0
      <3>1. 1 \in Int /\ n \in Int /\ 1 <= n
        BY <1>1, <2>2
      <3> HIDE DEF right
      <3> QED  BY <1>6, <1>7, <3>1, RangeInduction
    <2> QED  BY <2>1, <2>2
  <1>9. ASSUME NEW i \in 1 .. n
        PROVE  \A j \in i .. n : IF Q(i, j) = 0 THEN \E l \in i .. j : nums[l] = 0
                                 ELSE f[j] = Before(i) * Q(i, j)
    <2> DEFINE along == {j \in i .. n : IF Q(i, j) = 0 THEN \E l \in i .. j : nums[l] = 0
                                        ELSE f[j] = Before(i) * Q(i, j)}
    <2>1. Before(i) \in Int /\ Before(i) # 0
      <3>1. CASE i = 1
        BY <3>1
      <3>2. CASE i # 1
        <4>1. i - 1 \in 1 .. n
          BY <1>1, <3>2
        <4> QED  BY <1>8, <4>1
      <3> QED  BY <3>1, <3>2
    <2>2. i \in i .. n /\ i \in i .. i /\ nums[i] \in Int /\ Q(i, i) = nums[i]
      BY <1>1, <1>2
    <2>3. f[i] = Before(i) * nums[i]
      <3>1. CASE i = 1 \/ f[i - 1] = 0
        BY <1>5, <2>2, <3>1, TimesIs
      <3>2. CASE i # 1 /\ f[i - 1] # 0
        <4>1. i - 1 \in 1 .. n
          BY <1>1, <3>2
        <4>2. f[i - 1] \in Int /\ f[i] = Signed(f[i - 1], nums[i])
          BY <1>4, <1>8, <4>1
        <4> QED  BY <2>2, <3>2, <4>2, SignedIs
      <3> QED  BY <3>1, <3>2
    <2> DEFINE b == Before(i)
    <2> HIDE DEF Before, b
    <2>4. i \in along
      BY <2>2, <2>3
    <2>5. \A j \in i .. n - 1 : j \in along => j + 1 \in along
      <3> SUFFICES ASSUME NEW j \in i .. n - 1, j \in along PROVE j + 1 \in along
        OBVIOUS
      <3>1. /\ j + 1 \in i + 1 .. n /\ (j + 1) - 1 = j /\ j + 1 \in i .. n /\ j \in i .. n
            /\ j + 1 \in 1 .. n /\ j \in 1 .. n /\ j + 1 \in i .. j + 1
            /\ \A l \in i .. j : l \in i .. j + 1
        BY <1>1
      <3> DEFINE q == Q(i, j)
                 r == Q(i, j + 1)
                 x == nums[j + 1]
                 g == f[j]
                 h == f[j + 1]
      <3>2. q \in Int /\ x \in Int /\ r = q * x
        BY <1>1, <1>2, <3>1
      <3>3. IF q = 0 THEN \E l \in i .. j : nums[l] = 0 ELSE g = b * q
        BY DEF b
      <3>4. h = Signed(g, x) /\ g \in Int
        BY <1>4, <1>8, <3>1
      <3> HIDE DEF q, r, x, g, h
      <3>5. r = 0 <=> q = 0 \/ x = 0
        BY <3>2, SignsMultiply
      <3>6. CASE r = 0
        <4>1. \E l \in i .. j + 1 : nums[l] = 0
          BY <3>1, <3>3, <3>5, <3>6 DEF x
        <4> QED  BY <3>1, <3>6, <4>1 DEF r
      <3>7. CASE r # 0
        <4>1. g = b * q /\ b \in Int /\ b # 0 /\ q # 0
          BY <2>1, <3>3, <3>5, <3>7 DEF b
        <4>2. g # 0
          BY <3>2, <4>1, SignsMultiply
        <4>3. h = (b * q) * x
          BY <3>2, <3>4, <4>1, <4>2, SignedIs
        <4>4. h = b * r
          BY <3>2, <4>1, <4>3, TimesIs
        <4> QED  BY <3>1, <3>7, <4>4 DEF r, h, b
      <3> QED  BY <3>6, <3>7
    <2>6. \A j \in i .. n : j \in along
      <3>1. i \in Int /\ n \in Int
        BY <1>1
      <3> HIDE DEF along
      <3> QED  BY <2>4, <2>5, <3>1, RangeInduction
    <2> QED  BY <2>6
  <1> QED  BY <1>8, <1>9 DEF n, Q

\* The other way round the products of the segments are the same.
LEMMA MirroredProducts ==
  ASSUME NEW nums \in Seq(Int), NEW rev \in Seq(Int), Len(rev) = Len(nums),
         \A i \in 1 .. Len(nums) : rev[i] = nums[Len(nums) + 1 - i]
  PROVE  \A i \in 1 .. Len(nums) : \A j \in i .. Len(nums) :
           Product(SubSeq(rev, i, j)) =
             Product(SubSeq(nums, Len(nums) + 1 - j, Len(nums) + 1 - i))
PROOF
  <1> DEFINE n == Len(nums)
             Q(a, b) == Product(SubSeq(nums, a, b))
             R(a, b) == Product(SubSeq(rev, a, b))
  <1>1. n \in Nat /\ \A i \in 1 .. n : nums[i] \in Int /\ rev[i] = nums[n + 1 - i]
    OBVIOUS
  <1>2. /\ \A a \in 1 .. n : R(a, a) = rev[a]
        /\ \A a \in 1 .. n : \A j \in a + 1 .. n : R(a, j) = R(a, j - 1) * rev[j]
    BY SegmentProducts
  <1>3. \A a \in 1 .. n : Q(a, a) = nums[a] /\ \A j \in a .. n : Q(a, j) \in Int
    BY SegmentProducts
  <1>4. \A a \in 1 .. n : \A j \in a + 1 .. n : Q(a, j) = nums[a] * Q(a + 1, j)
    BY SegmentProductsBack
  <1> HIDE DEF n, Q, R
  <1>5. ASSUME NEW i \in 1 .. n PROVE \A j \in i .. n : R(i, j) = Q(n + 1 - j, n + 1 - i)
    <2> DEFINE same == {j \in i .. n : R(i, j) = Q(n + 1 - j, n + 1 - i)}
    <2>1. i \in same
      <3>1. n + 1 - i \in 1 .. n /\ i \in i .. n
        BY <1>1
      <3> QED  BY <1>1, <1>2, <1>3, <3>1, ZenonT(30)
    <2>2. \A j \in i .. n - 1 : j \in same => j + 1 \in same
      <3> SUFFICES ASSUME NEW j \in i .. n - 1, j \in same PROVE j + 1 \in same
        OBVIOUS
      <3>1. /\ j + 1 \in i + 1 .. n /\ j + 1 \in i .. n /\ j + 1 \in 1 .. n /\ (j + 1) - 1 = j
            /\ n + 1 - (j + 1) \in 1 .. n /\ n + 1 - i \in (n + 1 - (j + 1)) + 1 .. n
            /\ (n + 1 - (j + 1)) + 1 = n + 1 - j
            /\ n + 1 - j \in 1 .. n /\ n + 1 - i \in n + 1 - j .. n
        BY <1>1
      <3>2. R(i, j) = Q(n + 1 - j, n + 1 - i)
        OBVIOUS
      <3>3. R(i, j + 1) = R(i, j) * nums[n + 1 - (j + 1)]
        BY <1>1, <1>2, <3>1
      <3>4. Q(n + 1 - (j + 1), n + 1 - i) = nums[n + 1 - (j + 1)] * Q(n + 1 - j, n + 1 - i)
        BY <1>4, <3>1
      <3>5. nums[n + 1 - (j + 1)] \in Int /\ Q(n + 1 - j, n + 1 - i) \in Int
        BY <1>1, <1>3, <3>1
      <3>6. R(i, j + 1) = Q(n + 1 - (j + 1), n + 1 - i)
        BY <3>2, <3>3, <3>4, <3>5, TimesIs
      <3> QED  BY <3>1, <3>6
    <2>3. \A j \in i .. n : j \in same
      <3>1. i \in Int /\ n \in Int
        BY <1>1
      <3> HIDE DEF same
      <3> QED  BY <2>1, <2>2, <3>1, RangeInduction
    <2> QED  BY <2>3
  <1> QED  BY <1>5 DEF n, Q, R

\* The suffixes, where the one of length l starts at n + 1 - l.
LEMMA SuffixesAre ==
  ASSUME NEW nums \in Seq(Int)
  PROVE  /\ \E f : Suffixing(nums, f)
         /\ \A f : Suffixing(nums, f) =>
              LET n == Len(nums) IN
              /\ \A i \in 1 .. n :
                   f[n + 1 - i] \in Int /\ \E b \in i .. n : f[n + 1 - i] = Product(SubSeq(nums, i, b))
              /\ \A i \in 1 .. n : \A j \in i .. n :
                   LET x == Product(SubSeq(nums, i, j)) IN
                   x # 0 => f[n + 1 - i] = (IF j = n \/ f[n - j] = 0 THEN 1 ELSE f[n - j]) * x
PROOF
  <1> DEFINE n == Len(nums)
             rev == [i \in 1 .. n |-> nums[n + 1 - i]]
             Q(a, b) == Product(SubSeq(nums, a, b))
  <1>1. n \in Nat /\ \A i \in 1 .. n : nums[i] \in Int /\ n + 1 - i \in 1 .. n
    OBVIOUS
  <1>2. rev \in Seq(Int) /\ Len(rev) = n /\ \A i \in 1 .. n : rev[i] = nums[n + 1 - i]
    BY <1>1
  <1> HIDE DEF rev, n
  <1>3. \A f : Suffixing(nums, f) <=> Prefixing(rev, f)
    <2> SUFFICES ASSUME NEW f PROVE Suffixing(nums, f) <=> Prefixing(rev, f)
      OBVIOUS
    <2>1. [i \in 0 .. n |-> IF i = 0 THEN 1 ELSE Signed(f[i - 1], nums[n + 1 - i])]
          = [i \in 0 .. n |-> IF i = 0 THEN 1 ELSE Signed(f[i - 1], rev[i])]
      <3>1. ASSUME NEW i \in 0 .. n
            PROVE (IF i = 0 THEN 1 ELSE Signed(f[i - 1], nums[n + 1 - i]))
                  = IF i = 0 THEN 1 ELSE Signed(f[i - 1], rev[i])
        <4>1. i = 0 \/ i \in 1 .. n
          BY <1>1
        <4> QED  BY <1>2, <4>1
      <3> QED  BY <3>1, Zenon
    <2> QED  BY <1>2, <2>1, Zenon DEF Suffixing, Prefixing, n
  <1>4. \E f : Suffixing(nums, f)
    BY <1>2, <1>3, SignedExists
  <1>5. ASSUME NEW f, Suffixing(nums, f)
        PROVE  /\ \A i \in 1 .. n :
                    f[n + 1 - i] \in Int /\ \E b \in i .. n : f[n + 1 - i] = Q(i, b)
               /\ \A i \in 1 .. n : \A j \in i .. n :
                    Q(i, j) # 0 =>
                      f[n + 1 - i] = (IF j = n \/ f[n - j] = 0 THEN 1 ELSE f[n - j]) * Q(i, j)
    <2> DEFINE R(a, b) == Product(SubSeq(rev, a, b))
    <2>1. /\ \A j \in 1 .. n : f[j] \in Int /\ \E a \in 1 .. j : f[j] = R(a, j)
          /\ \A i \in 1 .. n : \A j \in i .. n :
               R(i, j) # 0 => f[j] = (IF i = 1 \/ f[i - 1] = 0 THEN 1 ELSE f[i - 1]) * R(i, j)
      <3>1. Prefixing(rev, f)
        BY <1>3, <1>5
      <3> QED  BY <1>2, <3>1, PrefixesAre
    <2>2. \A i \in 1 .. n : \A j \in i .. n : R(i, j) = Q(n + 1 - j, n + 1 - i)
      BY <1>2, MirroredProducts DEF n
    <2> HIDE DEF R, Q
    <2>3. ASSUME NEW i \in 1 .. n
          PROVE  f[n + 1 - i] \in Int /\ \E b \in i .. n : f[n + 1 - i] = Q(i, b)
      <3>1. PICK a \in 1 .. n + 1 - i : f[n + 1 - i] = R(a, n + 1 - i)
        BY <1>1, <2>1
      <3>2. /\ a \in 1 .. n /\ n + 1 - i \in a .. n /\ n + 1 - (n + 1 - i) = i
            /\ n + 1 - a \in i .. n
        BY <1>1
      <3>3. f[n + 1 - i] = Q(i, n + 1 - a)
        BY <2>2, <3>1, <3>2
      <3> QED  BY <1>1, <2>1, <3>2, <3>3
    <2>4. ASSUME NEW i \in 1 .. n, NEW j \in i .. n, Q(i, j) # 0
          PROVE  f[n + 1 - i] = (IF j = n \/ f[n - j] = 0 THEN 1 ELSE f[n - j]) * Q(i, j)
      <3>1. /\ n + 1 - j \in 1 .. n /\ n + 1 - i \in n + 1 - j .. n
            /\ n + 1 - (n + 1 - j) = j /\ n + 1 - (n + 1 - i) = i
            /\ (n + 1 - j) - 1 = n - j /\ (n + 1 - j = 1 <=> j = n)
        BY <1>1
      <3>2. R(n + 1 - j, n + 1 - i) = Q(i, j)
        BY <2>2, <3>1
      <3>3. f[n + 1 - i] = (IF n + 1 - j = 1 \/ f[(n + 1 - j) - 1] = 0 THEN 1 ELSE f[(n + 1 - j) - 1])
                           * R(n + 1 - j, n + 1 - i)
        BY <2>1, <2>4, <3>1, <3>2
      <3> QED  BY <3>1, <3>2, <3>3
    <2> QED  BY <2>3, <2>4
  <1> QED  BY <1>4, <1>5 DEF n, Q

LEMMA LargestExists ==
  ASSUME NEW n \in Nat, 1 <= n, NEW f, \A i \in 1 .. n : f[i] \in Int
  PROVE  \E m \in 1 .. n : \A k \in 1 .. n : f[k] <= f[m]
PROOF
  <1> DEFINE topped == {i \in 1 .. n : \E m \in 1 .. i : \A k \in 1 .. i : f[k] <= f[m]}
  <1>1. 1 \in topped
    <2>1. 1 \in 1 .. n /\ 1 \in 1 .. 1 /\ \A k \in 1 .. 1 : k = 1
      OBVIOUS
    <2>2. f[1] <= f[1]
      BY <2>1
    <2> QED  BY <2>1, <2>2
  <1>2. \A i \in 1 .. n - 1 : i \in topped => i + 1 \in topped
    <2> SUFFICES ASSUME NEW i \in 1 .. n - 1, i \in topped PROVE i + 1 \in topped
      OBVIOUS
    <2>1. /\ i + 1 \in 1 .. n /\ i + 1 \in 1 .. i + 1
          /\ \A k \in 1 .. i + 1 : k = i + 1 \/ k \in 1 .. i
          /\ \A k \in 1 .. i : k \in 1 .. n /\ k \in 1 .. i + 1
      OBVIOUS
    <2>2. PICK m \in 1 .. i : \A k \in 1 .. i : f[k] <= f[m]
      OBVIOUS
    <2>3. f[m] \in Int /\ f[i + 1] \in Int /\ \A k \in 1 .. i : f[k] \in Int
      BY <2>1
    <2>4. CASE f[i + 1] <= f[m]
      BY <2>1, <2>2, <2>4
    <2>5. CASE f[m] <= f[i + 1]
      <3>1. \A k \in 1 .. i + 1 : f[k] <= f[i + 1]
        BY <2>1, <2>2, <2>3, <2>5
      <3> QED  BY <2>1, <3>1
    <2> QED  BY <2>3, <2>4, <2>5
  <1>3. n \in topped
    <2>1. 1 \in Int /\ n \in Int /\ n \in 1 .. n
      OBVIOUS
    <2> HIDE DEF topped
    <2> QED  BY <1>1, <1>2, <2>1, RangeInduction
  <1> QED  BY <1>3

\* Two passes find the largest product, whatever the signs and the zeros.
THEOREM MaxProductIsRight ==
  ASSUME NEW nums \in Seq(Int), nums # <<>>
  PROVE  MaxProductRight(nums)
PROOF
  <1> DEFINE n == Len(nums)
             prefix == CHOOSE f : Prefixing(nums, f)
             suffix == CHOOSE f : Suffixing(nums, f)
             seen == {prefix[i] : i \in 1 .. n} \cup {suffix[i] : i \in 1 .. n}
             Q(a, b) == Product(SubSeq(nums, a, b))
             products == {Product(Segment(nums, ij)) : ij \in Segments(nums)}
  <1>1. MaxProduct(nums) = Max(seen)
    BY DEF MaxProduct, Prefixing, Suffixing
  <1>2. Prefixing(nums, prefix) /\ Suffixing(nums, suffix)
    <2>1. (\E f : Prefixing(nums, f)) /\ (\E f : Suffixing(nums, f))
      BY SignedExists, SuffixesAre
    <2> QED  BY <2>1, Zenon
  <1>3. n \in Nat /\ 1 <= n /\ DOMAIN nums = 1 .. n /\ \A i \in 1 .. n : nums[i] \in Int
    OBVIOUS
  <1> HIDE DEF prefix, suffix
  <1>4. /\ \A j \in 1 .. n : /\ prefix[j] \in Int /\ (prefix[j] = 0 <=> nums[j] = 0)
                             /\ \E a \in 1 .. j : prefix[j] = Q(a, j)
        /\ \A i \in 1 .. n : \A j \in i .. n :
             IF Q(i, j) = 0 THEN \E l \in i .. j : nums[l] = 0
             ELSE prefix[j] = (IF i = 1 \/ prefix[i - 1] = 0 THEN 1 ELSE prefix[i - 1]) * Q(i, j)
    BY <1>2, PrefixesAre
  <1>5. /\ \A i \in 1 .. n :
             suffix[n + 1 - i] \in Int /\ \E b \in i .. n : suffix[n + 1 - i] = Q(i, b)
        /\ \A i \in 1 .. n : \A j \in i .. n : Q(i, j) # 0 =>
             suffix[n + 1 - i] = (IF j = n \/ suffix[n - j] = 0 THEN 1 ELSE suffix[n - j]) * Q(i, j)
    BY <1>2, SuffixesAre
  <1>6. \A i \in 1 .. n : \A j \in i .. n : Q(i, j) \in Int /\ <<i, j>> \in Segments(nums)
    <2> TAKE i \in 1 .. n
    <2> TAKE j \in i .. n
    <2>1. j \in 1 .. n /\ i <= j
      BY <1>3
    <2> QED  BY <1>3, <2>1, SegmentProducts DEF Segments
  <1>7. products = {Q(ij[1], ij[2]) : ij \in Segments(nums)}
    BY DEF Segment
  <1>8. \A x \in products : \E i \in 1 .. n : \E j \in i .. n : x = Q(i, j)
    <2> TAKE x \in products
    <2>1. PICK ij \in Segments(nums) : x = Q(ij[1], ij[2])
      BY <1>7
    <2>2. ij[1] \in 1 .. n /\ ij[2] \in ij[1] .. n
      BY <1>3 DEF Segments
    <2> QED  BY <2>1, <2>2
  <1>9. \A i \in 1 .. n : \A j \in i .. n : Q(i, j) \in products
    <2> TAKE i \in 1 .. n
    <2> TAKE j \in i .. n
    <2>1. <<i, j>> \in Segments(nums) /\ <<i, j>>[1] = i /\ <<i, j>>[2] = j
      BY <1>6
    <2> QED  BY <1>7, <2>1
  <1> HIDE DEF n, Q, products
  <1>10. seen \subseteq products
    <2>1. ASSUME NEW j \in 1 .. n PROVE prefix[j] \in products
      <3>1. PICK a \in 1 .. j : prefix[j] = Q(a, j)
        BY <1>4
      <3>2. a \in 1 .. n /\ j \in a .. n
        BY <1>3
      <3> QED  BY <1>9, <3>1, <3>2
    <2>2. ASSUME NEW l \in 1 .. n PROVE suffix[l] \in products
      <3>1. n + 1 - l \in 1 .. n /\ n + 1 - (n + 1 - l) = l
        BY <1>3
      <3>2. PICK b \in n + 1 - l .. n : suffix[n + 1 - (n + 1 - l)] = Q(n + 1 - l, b)
        BY <1>5, <3>1
      <3> QED  BY <1>9, <3>1, <3>2
    <2> QED  BY <2>1, <2>2
  <1>11. \A j \in 1 .. n : prefix[j] \in seen /\ suffix[n + 1 - j] \in seen
    <2> TAKE j \in 1 .. n
    <2>1. n + 1 - j \in 1 .. n
      BY <1>3
    <2> QED  BY <2>1
  <1> HIDE DEF seen
  <1>12. ASSUME NEW i \in 1 .. n, NEW j \in i .. n PROVE \E m \in seen : Q(i, j) <= m
    <2> DEFINE x == Q(i, j)
               P == IF i = 1 \/ prefix[i - 1] = 0 THEN 1 ELSE prefix[i - 1]
               S == IF j = n \/ suffix[n - j] = 0 THEN 1 ELSE suffix[n - j]
    <2>1. i \in 1 .. n /\ j \in 1 .. n /\ x \in Int
      <3>1. i \in 1 .. n /\ j \in 1 .. n
        BY <1>3
      <3>2. Q(i, j) \in Int
        BY <1>6
      <3> QED  BY <3>1, <3>2
    <2>2. CASE x = 0
      <3>1. PICK l \in i .. j : nums[l] = 0
        BY <1>4, <2>2
      <3>2. l \in 1 .. n
        BY <1>3
      <3>3. prefix[l] = 0 /\ prefix[l] \in seen
        BY <1>4, <1>11, <3>1, <3>2
      <3> QED  BY <2>2, <3>3
    <2>3. CASE x # 0
      <3>1. prefix[j] = P * x /\ prefix[j] \in seen
        BY <1>4, <1>11, <2>1, <2>3
      <3>2. suffix[n + 1 - i] = S * x /\ suffix[n + 1 - i] \in seen
        BY <1>5, <1>11, <2>1, <2>3
      <3>3. /\ P \in Int /\ P # 0
            /\ P = 1 \/ P \in seen
        <4>1. CASE i = 1 \/ prefix[i - 1] = 0
          BY <4>1
        <4>2. CASE i # 1 /\ prefix[i - 1] # 0
          <5>1. i - 1 \in 1 .. n
            BY <1>3, <4>2
          <5> QED  BY <1>4, <1>11, <4>2, <5>1
        <4> QED  BY <4>1, <4>2
      <3>4. /\ S \in Int /\ S # 0
            /\ S = 1 \/ \E b \in j + 1 .. n : j + 1 \in 1 .. n /\ S = Q(j + 1, b)
        <4>1. CASE j = n \/ suffix[n - j] = 0
          BY <4>1
        <4>2. CASE j # n /\ suffix[n - j] # 0
          <5>1. j + 1 \in 1 .. n /\ n + 1 - (j + 1) = n - j
            BY <1>3, <4>2
          <5>2. suffix[n - j] \in Int /\ \E b \in j + 1 .. n : suffix[n - j] = Q(j + 1, b)
            BY <1>5, <5>1
          <5> QED  BY <4>2, <5>1, <5>2
        <4> QED  BY <4>1, <4>2
      <3> HIDE DEF x, P, S
      <3>5. CASE x < 0
        <4>1. CASE P = 1
          BY <2>1, <3>1, <4>1, TimesIs DEF x
        <4>2. CASE P \in seen /\ P > 0
          BY <2>1, <3>3, <3>5, <4>2 DEF x
        <4>3. CASE P < 0
          <5>1. P * x > 0 /\ P * x \in Int
            BY <2>1, <3>3, <3>5, <4>3, SignsMultiply, TimesIs
          <5> QED  BY <2>1, <3>1, <3>5, <5>1 DEF x
        <4> QED  BY <3>3, <4>1, <4>2, <4>3
      <3>6. CASE x > 0
        <4>1. CASE P > 0
          BY <2>1, <3>1, <3>3, <3>6, <4>1, SignsMultiply DEF x
        <4>2. CASE S > 0
          BY <2>1, <3>2, <3>4, <3>6, <4>2, SignsMultiply DEF x
        <4>3. CASE P < 0 /\ S < 0
          <5>1. PICK b \in j + 1 .. n : j + 1 \in 1 .. n /\ S = Q(j + 1, b)
            BY <3>4, <4>3
          <5>2. P * x < 0 /\ P * x \in Int
            BY <2>1, <3>3, <3>6, <4>3, SignsMultiply, TimesIs
          <5>3. b \in 1 .. n /\ (j + 1) - 1 = j /\ j + 1 # 1
            BY <1>3, <2>1, <5>1
          <5>4. prefix[b] = prefix[j] * S /\ prefix[b] \in seen
            <6>1. b \in j + 1 .. n /\ Q(j + 1, b) # 0 /\ prefix[(j + 1) - 1] = prefix[j]
              BY <3>4, <5>1, <5>3
            <6>2. prefix[b] = (IF j + 1 = 1 \/ prefix[(j + 1) - 1] = 0 THEN 1 ELSE prefix[(j + 1) - 1])
                              * Q(j + 1, b)
              BY <1>4, <5>1, <6>1
            <6>3. prefix[j] # 0 /\ prefix[b] \in seen
              BY <1>11, <3>1, <5>2, <5>3
            <6> QED  BY <5>1, <5>3, <6>1, <6>2, <6>3
          <5>5. P * S > 0 /\ P * S \in Int /\ (P * x) * S = (P * S) * x
            <6>1. (P * x) * S = P * (x * S) /\ x * S = S * x /\ P * (S * x) = (P * S) * x
              BY <2>1, <3>3, <3>4, TimesIs
            <6> QED  BY <3>3, <3>4, <4>3, <6>1, SignsMultiply, TimesIs
          <5>6. (P * S) * x >= x
            BY <2>1, <3>6, <5>5, SignsMultiply
          <5> QED  BY <2>1, <3>1, <5>4, <5>5, <5>6 DEF x
        <4> QED  BY <3>3, <3>4, <4>1, <4>2, <4>3
      <3> QED  BY <2>1, <2>3, <3>5, <3>6
    <2> QED  BY <2>2, <2>3
  <1>13. products \subseteq Int
    BY <1>6, <1>8
  <1>14. \A x \in products : \E m \in seen : x <= m
    BY <1>8, <1>12
  <1>15. PICK m \in seen : \A k \in seen : k <= m
    <2>1. \A i \in 1 .. n : prefix[i] \in Int /\ suffix[i] \in Int
      <3> TAKE i \in 1 .. n
      <3>1. n + 1 - i \in 1 .. n /\ n + 1 - (n + 1 - i) = i
        BY <1>3
      <3> QED  BY <1>4, <1>5, <3>1
    <2>2. PICK a \in 1 .. n : \A k \in 1 .. n : prefix[k] <= prefix[a]
      BY <1>3, <2>1, LargestExists
    <2>3. PICK b \in 1 .. n : \A k \in 1 .. n : suffix[k] <= suffix[b]
      BY <1>3, <2>1, LargestExists
    <2>4. \A k \in seen : k <= prefix[a] \/ k <= suffix[b]
      BY <2>2, <2>3 DEF seen
    <2>5. prefix[a] \in seen /\ suffix[b] \in seen /\ seen \subseteq Int
      BY <1>10, <1>13 DEF seen
    <2>6. CASE prefix[a] <= suffix[b]
      <3>1. \A k \in seen : k <= suffix[b]
        BY <2>1, <2>4, <2>5, <2>6
      <3> QED  BY <2>5, <3>1
    <2>7. CASE suffix[b] <= prefix[a]
      <3>1. \A k \in seen : k <= prefix[a]
        BY <2>1, <2>4, <2>5, <2>7
      <3> QED  BY <2>5, <3>1
    <2> QED  BY <2>1, <2>6, <2>7
  <1>16. Max(seen) = m
    BY <1>10, <1>13, <1>15, MaxIs
  <1>17. m \in products /\ \A x \in products : x <= m
    <2> SUFFICES ASSUME NEW x \in products PROVE x <= m
      BY <1>10, <1>15
    <2>1. PICK k \in seen : x <= k
      BY <1>14
    <2>2. k <= m /\ x \in Int /\ k \in Int /\ m \in Int
      BY <1>10, <1>13, <1>15
    <2> QED  BY <2>1, <2>2
  <1>18. Max(products) = m
    BY <1>13, <1>17, MaxIs
  <1> QED  BY <1>1, <1>16, <1>18 DEF MaxProductRight, products

-----------------------------------------------------------------------------
(* ProductExceptSelf: what stands before an element times what stands after   *)
(* it is the product of the sequence without it.                              *)

Befores(nums, f) ==
  f = [i \in 1 .. Len(nums) |-> IF i = 1 THEN 1 ELSE f[i - 1] * nums[i - 1]]
Afters(nums, f) ==
  f = [i \in 1 .. Len(nums) |-> IF i = Len(nums) THEN 1 ELSE f[i + 1] * nums[i + 1]]

LEMMA BeforesAndAftersExist ==
  ASSUME NEW nums \in Seq(Int), nums # <<>>
  PROVE  (\E f : Befores(nums, f)) /\ (\E f : Afters(nums, f))
PROOF
  <1> DEFINE n == Len(nums)
             rev == [i \in 1 .. n |-> nums[n + 1 - i]]
  <1>1. n \in Nat /\ 1 <= n /\ \A i \in 1 .. n : nums[i] \in Int /\ n + 1 - i \in 1 .. n
    OBVIOUS
  <1>2. rev \in Seq(Int) /\ Len(rev) = n /\ \A i \in 1 .. n : rev[i] = nums[n + 1 - i]
    BY <1>1
  <1> HIDE DEF rev, n
  <1>3. ASSUME NEW s \in Seq(Int), Len(s) = n
        PROVE  \E h : h[0] = 1 /\ \A i \in 1 .. n : h[i] = h[i - 1] * s[i]
    <2>1. PICK h : Multiplying(s, h)
      BY MultiplyingExists
    <2>2. \A i \in 0 .. n : h[i] = IF i = 0 THEN 1 ELSE h[i - 1] * s[i]
      BY <1>3, <2>1, Zenon DEF Multiplying
    <2>3. 0 \in 0 .. n /\ \A i \in 1 .. n : i \in 0 .. n /\ i # 0
      BY <1>1
    <2> QED  BY <2>2, <2>3
  <1>4. \E f : Befores(nums, f)
    <2>1. PICK h : h[0] = 1 /\ \A i \in 1 .. n : h[i] = h[i - 1] * nums[i]
      BY <1>3 DEF n
    <2> DEFINE f == [i \in 1 .. n |-> h[i - 1]]
    <2>2. ASSUME NEW i \in 1 .. n
          PROVE  f[i] = IF i = 1 THEN 1 ELSE f[i - 1] * nums[i - 1]
      <3>1. CASE i = 1
        BY <2>1, <3>1
      <3>2. CASE i # 1
        <4>1. i - 1 \in 1 .. n
          BY <1>1, <3>2
        <4> QED  BY <2>1, <3>2, <4>1
      <3> QED  BY <3>1, <3>2
    <2>3. f = [i \in 1 .. n |-> f[i]]
      OBVIOUS
    <2> HIDE DEF f
    <2>4. [i \in 1 .. n |-> f[i]] = [i \in 1 .. n |-> IF i = 1 THEN 1 ELSE f[i - 1] * nums[i - 1]]
      BY <2>2, Zenon
    <2>5. Befores(nums, f)
      BY <2>3, <2>4, Zenon DEF Befores, n
    <2> QED  BY <2>5
  <1>5. \E f : Afters(nums, f)
    <2>1. PICK h : h[0] = 1 /\ \A i \in 1 .. n : h[i] = h[i - 1] * rev[i]
      BY <1>2, <1>3
    <2> DEFINE f == [i \in 1 .. n |-> h[n - i]]
    <2>2. ASSUME NEW i \in 1 .. n
          PROVE  f[i] = IF i = n THEN 1 ELSE f[i + 1] * nums[i + 1]
      <3>1. CASE i = n
        BY <1>1, <2>1, <3>1
      <3>2. CASE i # n
        <4>1. n - i \in 1 .. n /\ i + 1 \in 1 .. n /\ (n - i) - 1 = n - (i + 1)
              /\ n + 1 - (n - i) = i + 1
          BY <1>1, <3>2
        <4>2. h[n - i] = h[n - (i + 1)] * nums[i + 1]
          BY <1>2, <2>1, <4>1, ZenonT(30)
        <4> QED  BY <3>2, <4>1, <4>2
      <3> QED  BY <3>1, <3>2
    <2>3. f = [i \in 1 .. n |-> f[i]]
      OBVIOUS
    <2> HIDE DEF f
    <2>4. [i \in 1 .. n |-> f[i]] = [i \in 1 .. n |-> IF i = n THEN 1 ELSE f[i + 1] * nums[i + 1]]
      BY <2>2, Zenon
    <2>5. Afters(nums, f)
      BY <2>3, <2>4, Zenon DEF Afters, n
    <2> QED  BY <2>5
  <1> QED  BY <1>4, <1>5

\* No division: zeros do no harm, and every place gets the product of the others.
THEOREM ProductExceptSelfIsRight ==
  ASSUME NEW nums \in Seq(Int), nums # <<>>
  PROVE  ProductExceptSelfRight(nums)
PROOF
  <1> DEFINE n == Len(nums)
             prefix == CHOOSE f : Befores(nums, f)
             suffix == CHOOSE f : Afters(nums, f)
             Q(a, b) == Product(SubSeq(nums, a, b))
  <1>1. ProductExceptSelf(nums) = [i \in 1 .. n |-> prefix[i] * suffix[i]]
    BY DEF ProductExceptSelf, Befores, Afters
  <1>2. Befores(nums, prefix) /\ Afters(nums, suffix)
    BY BeforesAndAftersExist, Zenon
  <1>3. n \in Nat /\ 1 <= n /\ DOMAIN nums = 1 .. n /\ \A i \in 1 .. n : nums[i] \in Int
    OBVIOUS
  <1> HIDE DEF prefix, suffix
  <1>4. \A i \in 1 .. n : /\ prefix[i] = IF i = 1 THEN 1 ELSE prefix[i - 1] * nums[i - 1]
                          /\ suffix[i] = IF i = n THEN 1 ELSE suffix[i + 1] * nums[i + 1]
    BY <1>2, Zenon DEF Befores, Afters
  <1>5. /\ \A a \in 1 .. n : Q(a, a) = nums[a] /\ \A j \in a .. n : Q(a, j) \in Int
        /\ \A a \in 1 .. n : \A j \in a + 1 .. n : Q(a, j) = Q(a, j - 1) * nums[j]
    BY SegmentProducts
  <1>6. \A a \in 1 .. n : \A j \in a + 1 .. n : Q(a, j) = nums[a] * Q(a + 1, j)
    BY SegmentProductsBack
  <1> HIDE DEF n, Q
  <1>7. \A i \in 1 .. n : prefix[i] \in Int
    <2> DEFINE known == {i \in 1 .. n : prefix[i] \in Int}
    <2>1. 1 \in known
      BY <1>3, <1>4
    <2>2. \A i \in 1 .. n - 1 : i \in known => i + 1 \in known
      <3> SUFFICES ASSUME NEW i \in 1 .. n - 1, i \in known PROVE i + 1 \in known
        OBVIOUS
      <3>1. i + 1 \in 1 .. n /\ i + 1 # 1 /\ (i + 1) - 1 = i /\ i \in 1 .. n
        BY <1>3
      <3>2. prefix[i + 1] = prefix[i] * nums[i] /\ prefix[i] \in Int /\ nums[i] \in Int
        BY <1>3, <1>4, <3>1
      <3>3. prefix[i] * nums[i] \in Int
        BY <3>2, TimesIs
      <3> QED  BY <3>1, <3>2, <3>3
    <2>3. \A i \in 1 .. n : i \in known
      <3>1. 1 \in Int /\ n \in Int
        BY <1>3
      <3> HIDE DEF known
      <3> QED  BY <2>1, <2>2, <3>1, RangeInduction
    <2> QED  BY <2>3
  <1>8. \A i \in 1 .. n : suffix[i] = IF i = n THEN 1 ELSE Q(i + 1, n)
    <2> DEFINE known == {i \in 1 .. n : suffix[i] = IF i = n THEN 1 ELSE Q(i + 1, n)}
    <2>1. n \in known
      BY <1>3, <1>4
    <2>2. \A i \in 1 + 1 .. n : i \in known => i - 1 \in known
      <3> SUFFICES ASSUME NEW i \in 1 + 1 .. n, i \in known PROVE i - 1 \in known
        OBVIOUS
      <3>1. /\ i - 1 \in 1 .. n /\ i - 1 # n /\ (i - 1) + 1 = i /\ i \in 1 .. n
            /\ n \in i .. n /\ n \in 1 .. n
        BY <1>3
      <3>2. suffix[i - 1] = suffix[i] * nums[i] /\ nums[i] \in Int
        BY <1>3, <1>4, <3>1
      <3>3. CASE i = n
        <4>1. suffix[i] = 1 /\ Q(i, n) = nums[i]
          BY <1>4, <1>5, <3>1, <3>3
        <4>2. suffix[i - 1] = Q(i, n)
          BY <3>2, <4>1, TimesIs
        <4> QED  BY <3>1, <4>2
      <3>4. CASE i # n
        <4>1. n \in i + 1 .. n /\ i + 1 \in 1 .. n /\ n \in i + 1 .. n
          BY <1>3, <3>4
        <4>2. suffix[i] = Q(i + 1, n) /\ Q(i + 1, n) \in Int /\ Q(i, n) = nums[i] * Q(i + 1, n)
          BY <1>5, <1>6, <3>1, <3>4, <4>1
        <4>3. suffix[i - 1] = Q(i, n)
          BY <3>2, <4>2, TimesIs
        <4> QED  BY <3>1, <4>3
      <3> QED  BY <3>3, <3>4
    <2>3. \A i \in 1 .. n : i \in known
      <3>1. 1 \in Int /\ n \in Int
        BY <1>3
      <3> HIDE DEF known
      <3> QED  BY <2>1, <2>2, <3>1, DownInduction
    <2> QED  BY <2>3
  <1>9. ASSUME NEW i \in 1 .. n PROVE Product(RemoveAt(nums, i)) = prefix[i] * suffix[i]
    <2> DEFINE r == RemoveAt(nums, i)
               f == [k \in 0 .. n - 1 |-> IF k < i THEN prefix[k + 1] ELSE prefix[i] * Q(i + 1, k + 1)]
    <2>1. /\ r \in Seq(Int) /\ Len(r) = n - 1
          /\ \A k \in 1 .. n - 1 : r[k] = IF k < i THEN nums[k] ELSE nums[k + 1]
      BY RemoveAtIs DEF n
    <2> HIDE DEF r
    <2>2. f[0] = 1 /\ f[n - 1] = IF i = n THEN prefix[n] ELSE prefix[i] * Q(i + 1, n)
      <3>1. 0 \in 0 .. n - 1 /\ 0 < i /\ 0 + 1 = 1 /\ n - 1 \in 0 .. n - 1 /\ (n - 1) + 1 = n
            /\ (n - 1 < i <=> i = n)
        BY <1>3
      <3>2. prefix[1] = 1
        BY <1>3, <1>4
      <3> QED  BY <3>1, <3>2
    <2>3. ASSUME NEW k \in 1 .. n - 1 PROVE f[k] = f[k - 1] * r[k]
      <3>1. /\ k \in 0 .. n - 1 /\ k - 1 \in 0 .. n - 1 /\ (k - 1) + 1 = k /\ k \in 1 .. n
            /\ k + 1 \in 1 .. n /\ k + 1 # 1 /\ (k + 1) - 1 = k /\ prefix[i] \in Int
        BY <1>3, <1>7
      <3>2. CASE k < i
        <4>1. k - 1 < i
          BY <3>2
        <4>2. f[k] = prefix[k + 1] /\ f[k - 1] = prefix[k] /\ r[k] = nums[k]
          BY <2>1, <3>1, <3>2, <4>1
        <4> QED  BY <1>4, <3>1, <4>2
      <3>3. CASE k = i
        <4>1. k - 1 < i /\ ~(k < i)
          BY <3>3
        <4>2. f[k] = prefix[i] * Q(i + 1, i + 1) /\ f[k - 1] = prefix[i] /\ r[k] = nums[i + 1]
          BY <2>1, <3>1, <3>3, <4>1
        <4>3. Q(i + 1, i + 1) = nums[i + 1]
          BY <1>5, <3>1, <3>3
        <4> QED  BY <4>2, <4>3
      <3>4. CASE k > i
        <4>1. ~(k - 1 < i) /\ ~(k < i) /\ i + 1 \in 1 .. n /\ k + 1 \in (i + 1) + 1 .. n
              /\ k \in i + 1 .. n
          BY <3>1, <3>4, <1>3
        <4>2. f[k] = prefix[i] * Q(i + 1, k + 1) /\ f[k - 1] = prefix[i] * Q(i + 1, k)
              /\ r[k] = nums[k + 1]
          BY <2>1, <3>1, <4>1
        <4>3. Q(i + 1, k + 1) = Q(i + 1, k) * nums[k + 1] /\ Q(i + 1, k) \in Int /\ nums[k + 1] \in Int
          BY <1>3, <1>5, <3>1, <4>1
        <4> HIDE DEF f
        <4> QED  BY <3>1, <4>2, <4>3, TimesIs
      <3> QED  BY <3>2, <3>3, <3>4
    <2> HIDE DEF f
    <2>4. Product(r) = f[n - 1]
      BY <2>1, <2>2, <2>3, ProductIs
    <2>5. CASE i = n
      <3>1. suffix[i] = 1 /\ prefix[n] \in Int
        BY <1>3, <1>7, <1>8, <2>5
      <3> QED  BY <2>2, <2>4, <2>5, <3>1, TimesIs DEF r
    <2>6. CASE i # n
      BY <1>8, <2>2, <2>4, <2>6 DEF r
    <2> QED  BY <2>5, <2>6
  <1>10. [i \in 1 .. n |-> prefix[i] * suffix[i]] = [i \in 1 .. n |-> Product(RemoveAt(nums, i))]
    BY <1>9, Zenon
  <1> QED  BY <1>1, <1>3, <1>10 DEF ProductExceptSelfRight, n

-----------------------------------------------------------------------------
(* SubarraySum: the prefixes seen so far whose sum is k below the sum now are  *)
(* the beginnings of the segments of sum k that end here.                     *)

Countings == [sum : Int, count : Nat, seen : Seq(Int)]
Counting(nums, k, f) ==
  f = [i \in 0 .. Len(nums) |-> IF i = 0 THEN [sum |-> 0, count |-> 0, seen |-> <<0>>]
                                ELSE Counted(f[i - 1], nums[i], k)]
SumUpTo(nums, i) == IF i = 0 THEN 0 ELSE Sum(SubSeq(nums, 1, i))
Found(nums, k, i) == {ij \in Segments(nums) : ij[2] <= i /\ Sum(Segment(nums, ij)) = k}

LEMMA OccurrencesAreNat ==
  ASSUME NEW s \in Seq(Int), NEW v
  PROVE  Occurrences(s, v) \in Nat /\ IsFiniteSet({i \in DOMAIN s : s[i] = v})
PROOF
  <1>1. DOMAIN s = 1 .. Len(s) /\ Len(s) \in Nat
    OBVIOUS
  <1>2. IsFiniteSet(1 .. Len(s))
    BY <1>1, FS_Interval
  <1>3. IsFiniteSet({i \in DOMAIN s : s[i] = v})
    BY <1>1, <1>2, FS_Subset
  <1> QED  BY <1>3, FS_CardinalityType DEF Occurrences

LEMMA CountedIs ==
  ASSUME NEW acc \in Countings, NEW num \in Int, NEW k \in Int
  PROVE  /\ Counted(acc, num, k) \in Countings
         /\ Counted(acc, num, k).sum = acc.sum + num
         /\ Counted(acc, num, k).count = acc.count + Occurrences(acc.seen, (acc.sum + num) - k)
         /\ Counted(acc, num, k).seen = Append(acc.seen, acc.sum + num)
PROOF
  <1>1. acc.sum + num \in Int /\ acc.count \in Nat /\ acc.seen \in Seq(Int)
    BY DEF Countings
  <1>2. Occurrences(acc.seen, (acc.sum + num) - k) \in Nat
    BY <1>1, OccurrencesAreNat
  <1> DEFINE o == Occurrences(acc.seen, (acc.sum + num) - k)
  <1>3. Counted(acc, num, k) = [sum |-> acc.sum + num, count |-> acc.count + o,
                                seen |-> Append(acc.seen, acc.sum + num)]
    BY Zenon DEF Counted
  <1> HIDE DEF o
  <1>4. acc.count + o \in Nat /\ Append(acc.seen, acc.sum + num) \in Seq(Int)
    BY <1>1, <1>2 DEF o
  <1> QED  BY <1>1, <1>3, <1>4 DEF Countings, o

LEMMA CountingExists ==
  ASSUME NEW nums \in Seq(Int), NEW k \in Int
  PROVE  \E f : Counting(nums, k, f)
PROOF
  <1> DEFINE n == Len(nums)
             none == [sum |-> 0, count |-> 0, seen |-> <<0>>]
             step == [ia \in (1 .. n) \X Countings |-> Counted(ia[2], nums[ia[1]], k)]
  <1>1. n \in Nat /\ (\A i \in 1 .. n : nums[i] \in Int) /\ none \in Countings
    BY DEF Countings
  <1>2. step \in Steps(Countings, 0, n)
    <2>1. ASSUME NEW ia \in (1 .. n) \X Countings PROVE Counted(ia[2], nums[ia[1]], k) \in Countings
      <3>1. ia[2] \in Countings /\ nums[ia[1]] \in Int
        BY <1>1
      <3> QED  BY <3>1, CountedIs
    <2>2. 0 + 1 = 1
      OBVIOUS
    <2> QED  BY <2>1, <2>2 DEF Steps
  <1>3. \A i \in 1 .. n, a \in Countings : step[<<i, a>>] = Counted(a, nums[i], k)
    OBVIOUS
  <1> HIDE DEF step, n, none
  <1>4. PICK f : Follows(f, Countings, 0, n, none, step)
    <2>1. 0 \in Int /\ n \in Int /\ 0 <= n
      BY <1>1
    <2> QED  BY <1>1, <1>2, <2>1, RecursionExists
  <1>5. ASSUME NEW i \in 0 .. n
        PROVE  f[i] = IF i = 0 THEN none ELSE Counted(f[i - 1], nums[i], k)
    <2>1. CASE i = 0
      BY <1>4, <2>1 DEF Follows
    <2>2. CASE i # 0
      <3>1. i \in 0 + 1 .. n /\ i \in 1 .. n /\ i - 1 \in 0 .. n
        BY <1>1, <2>2
      <3>2. f[i - 1] \in Countings /\ f[i] = step[<<i, f[i - 1]>>]
        BY <1>4, <3>1 DEF Follows
      <3> QED  BY <1>3, <2>2, <3>1, <3>2
    <2> QED  BY <2>1, <2>2
  <1>6. f = [i \in 0 .. n |-> f[i]]
    BY <1>4 DEF Follows
  <1> QED  BY <1>5, <1>6 DEF Counting, n, none

\* A segment's sum is that of the prefix it ends less that of the one before it.
LEMMA SumsSubtract ==
  ASSUME NEW nums \in Seq(Int)
  PROVE  /\ \A i \in 0 .. Len(nums) : SumUpTo(nums, i) \in Int
         /\ \A i \in 1 .. Len(nums) : SumUpTo(nums, i) = SumUpTo(nums, i - 1) + nums[i]
         /\ \A a \in 1 .. Len(nums) : \A j \in a .. Len(nums) :
              Sum(SubSeq(nums, a, j)) = SumUpTo(nums, j) - SumUpTo(nums, a - 1)
PROOF
  <1> DEFINE n == Len(nums)
             S(a, b) == Sum(SubSeq(nums, a, b))
             P(i) == SumUpTo(nums, i)
  <1>1. n \in Nat /\ \A i \in 1 .. n : nums[i] \in Int
    OBVIOUS
  <1>2. /\ \A a \in 1 .. n : S(a, a) = nums[a] /\ \A j \in a .. n : S(a, j) \in Int
        /\ \A a \in 1 .. n : \A j \in a + 1 .. n : S(a, j) = S(a, j - 1) + nums[j]
    BY SegmentSums
  <1>3. P(0) = 0 /\ \A i \in 1 .. n : P(i) = S(1, i)
    BY DEF SumUpTo
  <1> HIDE DEF n, S, P
  <1>4. ASSUME NEW i \in 0 .. n PROVE P(i) \in Int
    <2>1. CASE i = 0
      BY <1>3, <2>1
    <2>2. CASE i # 0
      <3>1. 1 \in 1 .. n /\ i \in 1 .. n
        BY <1>1, <2>2
      <3> QED  BY <1>2, <1>3, <3>1
    <2> QED  BY <2>1, <2>2
  <1>5. ASSUME NEW i \in 1 .. n PROVE P(i) = P(i - 1) + nums[i]
    <2>1. 1 \in 1 .. n /\ nums[i] \in Int
      BY <1>1
    <2>2. CASE i = 1
      BY <1>2, <1>3, <2>1, <2>2
    <2>3. CASE i # 1
      <3>1. i \in 1 + 1 .. n /\ i - 1 \in 1 .. n
        BY <1>1, <2>3
      <3> QED  BY <1>2, <1>3, <2>1, <3>1
    <2> QED  BY <2>2, <2>3
  <1>6. ASSUME NEW a \in 1 .. n PROVE \A j \in a .. n : S(a, j) = P(j) - P(a - 1)
    <2> DEFINE known == {j \in a .. n : S(a, j) = P(j) - P(a - 1)}
    <2>1. a \in known
      <3>1. a \in a .. n /\ a - 1 \in 0 .. n /\ a \in 0 .. n /\ nums[a] \in Int
        BY <1>1
      <3> QED  BY <1>2, <1>4, <1>5, <3>1
    <2>2. \A j \in a .. n - 1 : j \in known => j + 1 \in known
      <3> SUFFICES ASSUME NEW j \in a .. n - 1, j \in known PROVE j + 1 \in known
        OBVIOUS
      <3>1. /\ j + 1 \in a .. n /\ j + 1 \in a + 1 .. n /\ (j + 1) - 1 = j /\ j + 1 \in 1 .. n
            /\ j \in 0 .. n /\ a - 1 \in 0 .. n
        BY <1>1
      <3>2. S(a, j + 1) = S(a, j) + nums[j + 1] /\ P(j + 1) = P(j) + nums[j + 1]
            /\ S(a, j) = P(j) - P(a - 1) /\ nums[j + 1] \in Int
        BY <1>1, <1>2, <1>5, <3>1
      <3>3. P(j) \in Int /\ P(a - 1) \in Int
        BY <1>4, <3>1
      <3> QED  BY <3>1, <3>2, <3>3
    <2>3. \A j \in a .. n : j \in known
      <3>1. a \in Int /\ n \in Int
        BY <1>1
      <3> HIDE DEF known
      <3> QED  BY <2>1, <2>2, <3>1, RangeInduction
    <2> QED  BY <2>3
  <1> QED  BY <1>4, <1>5, <1>6 DEF n, S, P

\* The segments of sum k that end at i + 1 begin after the prefixes that are k
\* below.
LEMMA FoundGrows ==
  ASSUME NEW nums \in Seq(Int), NEW k \in Int, NEW i \in 0 .. Len(nums) - 1
  PROVE  /\ IsFiniteSet(Found(nums, k, i)) /\ Found(nums, k, 0) = {}
         /\ Found(nums, k, Len(nums)) = {ij \in Segments(nums) : Sum(Segment(nums, ij)) = k}
         /\ \A seen \in Seq(Int) :
              Len(seen) = i + 1 /\ (\A j \in 0 .. i : seen[j + 1] = SumUpTo(nums, j)) =>
                Cardinality(Found(nums, k, i + 1)) =
                  Cardinality(Found(nums, k, i)) + Occurrences(seen, SumUpTo(nums, i + 1) - k)
PROOF
  <1> DEFINE n == Len(nums)
             F(j) == Found(nums, k, j)
             P(j) == SumUpTo(nums, j)
  <1>1. n \in Nat /\ DOMAIN nums = 1 .. n /\ i \in 0 .. n - 1 /\ i + 1 \in 1 .. n
    OBVIOUS
  <1>2. /\ \A j \in 0 .. n : P(j) \in Int
        /\ \A a \in 1 .. n : \A j \in a .. n : Sum(SubSeq(nums, a, j)) = P(j) - P(a - 1)
    BY SumsSubtract
  <1> HIDE DEF n, P
  <1>3. \A ij \in Segments(nums) :
          /\ ij = <<ij[1], ij[2]>> /\ ij[1] \in 1 .. n /\ ij[2] \in ij[1] .. n /\ ij[2] \in 1 .. n
          /\ Sum(Segment(nums, ij)) = P(ij[2]) - P(ij[1] - 1)
    <2> TAKE ij \in Segments(nums)
    <2>1. ij = <<ij[1], ij[2]>> /\ ij[1] \in 1 .. n /\ ij[2] \in ij[1] .. n /\ ij[2] \in 1 .. n
      BY <1>1 DEF Segments
    <2> QED  BY <1>2, <2>1 DEF Segment
  <1>4. \A a \in 1 .. n, b \in 1 .. n : a <= b => <<a, b>> \in Segments(nums)
    BY <1>1 DEF Segments
  <1>5. IsFiniteSet(Segments(nums))
    <2>1. IsFiniteSet(1 .. n)
      BY <1>1, FS_Interval
    <2>2. IsFiniteSet((1 .. n) \X (1 .. n))
      BY <2>1, FS_Product
    <2>3. Segments(nums) \subseteq (1 .. n) \X (1 .. n)
      BY <1>1 DEF Segments
    <2> QED  BY <2>2, <2>3, FS_Subset
  <1>6. IsFiniteSet(F(i))
    <2>1. F(i) \subseteq Segments(nums)
      BY DEF Found
    <2> QED  BY <1>5, <2>1, FS_Subset
  <1>7. F(0) = {}
    BY <1>3 DEF Found
  <1>8. F(n) = {ij \in Segments(nums) : Sum(Segment(nums, ij)) = k}
    BY <1>3 DEF Found
  <1>9. ASSUME NEW seen \in Seq(Int), Len(seen) = i + 1, \A j \in 0 .. i : seen[j + 1] = P(j)
        PROVE  Cardinality(F(i + 1)) = Cardinality(F(i)) + Occurrences(seen, P(i + 1) - k)
    <2> DEFINE A == {l \in DOMAIN seen : seen[l] = P(i + 1) - k}
               B == A \X {i + 1}
    <2>1. DOMAIN seen = 1 .. i + 1
      BY <1>9
    <2>2. IsFiniteSet(A) /\ Cardinality(A) = Occurrences(seen, P(i + 1) - k) /\ Cardinality(A) \in Nat
      BY OccurrencesAreNat DEF Occurrences
    <2>3. IsFiniteSet(B) /\ Cardinality(B) = Cardinality(A)
      <3>1. IsFiniteSet({i + 1}) /\ Cardinality({i + 1}) = 1
        BY FS_Singleton
      <3> HIDE DEF A
      <3>2. IsFiniteSet(B) /\ Cardinality(B) = Cardinality(A) * Cardinality({i + 1})
        BY <2>2, <3>1, FS_Product
      <3>3. Cardinality(A) * 1 = Cardinality(A)
        BY <2>2
      <3> QED  BY <3>1, <3>2, <3>3
    <2>4. \A l \in 1 .. i + 1 : seen[l] = P(l - 1) /\ P(l - 1) \in Int /\ P(i + 1) \in Int
                                /\ l \in 1 .. n /\ l <= i + 1
      <3> TAKE l \in 1 .. i + 1
      <3>1. l - 1 \in 0 .. i /\ (l - 1) + 1 = l /\ l - 1 \in 0 .. n /\ i + 1 \in 0 .. n
            /\ l \in 1 .. n
        BY <1>1
      <3> QED  BY <1>2, <1>9, <3>1
    <2>5. F(i + 1) = F(i) \cup B
      <3>1. ASSUME NEW ij \in F(i + 1) PROVE ij \in F(i) \cup B
        <4>1. ij \in Segments(nums) /\ ij[2] <= i + 1 /\ Sum(Segment(nums, ij)) = k
          BY DEF Found
        <4>2. CASE ij[2] <= i
          BY <4>1, <4>2 DEF Found
        <4>3. CASE ~(ij[2] <= i)
          <5>1. ij[2] = i + 1 /\ ij[1] \in 1 .. i + 1
            BY <1>1, <1>3, <4>1, <4>3, SMTT(20)
          <5>2. k = P(i + 1) - P(ij[1] - 1)
            BY <1>3, <4>1, <5>1
          <5>3. seen[ij[1]] = P(i + 1) - k
            <6>1. seen[ij[1]] = P(ij[1] - 1) /\ P(ij[1] - 1) \in Int /\ P(i + 1) \in Int
              BY <2>4, <5>1
            <6> QED  BY <5>2, <6>1
          <5>4. ij[1] \in A
            BY <2>1, <5>1, <5>3
          <5> HIDE DEF A
          <5> QED  BY <1>3, <4>1, <5>1, <5>4
        <4> QED  BY <4>2, <4>3
      <3>2. ASSUME NEW ij \in B PROVE ij \in F(i + 1)
        <4>1. ij = <<ij[1], i + 1>> /\ ij[1] \in A /\ ij[2] = i + 1
          OBVIOUS
        <4>2. ij[1] \in 1 .. i + 1 /\ seen[ij[1]] = P(i + 1) - k
          BY <2>1, <4>1
        <4>3. ij[1] \in 1 .. n /\ ij[1] <= i + 1
          BY <2>4, <4>2
        <4>4. ij \in Segments(nums)
          BY <1>1, <1>4, <4>1, <4>3
        <4>5. Sum(Segment(nums, ij)) = k
          <5>1. Sum(Segment(nums, ij)) = P(i + 1) - P(ij[1] - 1)
            BY <1>3, <4>1, <4>4
          <5> QED  BY <2>4, <4>2, <5>1
        <4> QED  BY <1>1, <4>1, <4>4, <4>5 DEF Found
      <3>3. F(i) \subseteq F(i + 1)
        <4>1. \A ij \in Segments(nums) : ij[2] <= i => ij[2] <= i + 1
          BY <1>1, <1>3
        <4> QED  BY <4>1 DEF Found
      <3> HIDE DEF B, F
      <3> QED  BY <3>1, <3>2, <3>3
    <2>6. F(i) \cap B = {}
      <3>1. \A ij \in F(i) : ij[2] <= i
        BY DEF Found
      <3>2. \A ij \in B : ij[2] = i + 1
        OBVIOUS
      <3>3. ~(i + 1 <= i)
        BY <1>1
      <3> HIDE DEF B, F
      <3> QED  BY <3>1, <3>2, <3>3
    <2>7. Cardinality(F(i)) \in Nat
      BY <1>6, FS_CardinalityType
    <2>8. Cardinality(F(i) \cap B) = 0
      BY <2>6, FS_EmptySet
    <2> HIDE DEF A, B, F
    <2>9. Cardinality(F(i) \cup B) = Cardinality(F(i)) + Cardinality(B) - Cardinality(F(i) \cap B)
      BY <1>6, <2>3, FS_Union
    <2>10. Cardinality(F(i + 1)) = Cardinality(F(i) \cup B)
      BY <2>5
    <2> DEFINE c == Cardinality(F(i))
    <2> HIDE DEF c
    <2>11. Cardinality(F(i) \cup B) = c + Cardinality(A) - 0
      BY <2>3, <2>8, <2>9 DEF c
    <2>12. c + Cardinality(A) - 0 = c + Cardinality(A)
      BY <2>2, <2>7 DEF c
    <2> QED  BY <2>2, <2>10, <2>11, <2>12 DEF c
  <1> QED  BY <1>6, <1>7, <1>8, <1>9 DEF n, P

\* Negative numbers, zeros and repeated sums too: each segment of sum k counts
\* once, at its end.
THEOREM SubarraySumIsRight ==
  ASSUME NEW nums \in Seq(Int), NEW k \in Int
  PROVE  SubarraySumRight(nums, k)
PROOF
  <1> DEFINE n == Len(nums)
             counted == CHOOSE f : Counting(nums, k, f)
             C(i) == Cardinality(Found(nums, k, i))
             right == {i \in 0 .. n :
                         /\ counted[i] \in Countings
                         /\ counted[i].sum = SumUpTo(nums, i)
                         /\ Len(counted[i].seen) = i + 1
                         /\ \A j \in 0 .. i : counted[i].seen[j + 1] = SumUpTo(nums, j)
                         /\ counted[i].count = C(i)}
  <1>1. SubarraySum(nums, k) = counted[n].count
    BY DEF SubarraySum, Counting
  <1>2. Counting(nums, k, counted)
    BY CountingExists, Zenon
  <1>3. n \in Nat /\ \A i \in 1 .. n : nums[i] \in Int
    OBVIOUS
  <1> HIDE DEF counted
  <1>4. \A i \in 0 .. n : counted[i] = IF i = 0 THEN [sum |-> 0, count |-> 0, seen |-> <<0>>]
                                       ELSE Counted(counted[i - 1], nums[i], k)
    BY <1>2, Zenon DEF Counting
  <1>5. Found(nums, k, 0) = {} /\ Found(nums, k, n) = {ij \in Segments(nums) : Sum(Segment(nums, ij)) = k}
    <2>1. \A ij \in Segments(nums) : ij[2] \in 1 .. n
      BY DEF Segments
    <2> QED  BY <1>3, <2>1 DEF Found
  <1>6. C(0) = 0
    BY <1>5, FS_EmptySet
  <1>7. /\ \A i \in 0 .. n : SumUpTo(nums, i) \in Int
        /\ \A i \in 1 .. n : SumUpTo(nums, i) = SumUpTo(nums, i - 1) + nums[i]
        /\ SumUpTo(nums, 0) = 0
    BY SumsSubtract DEF SumUpTo
  <1>8. \A i \in 0 .. n - 1, seen \in Seq(Int) :
          Len(seen) = i + 1 /\ (\A j \in 0 .. i : seen[j + 1] = SumUpTo(nums, j)) =>
            C(i + 1) = C(i) + Occurrences(seen, SumUpTo(nums, i + 1) - k)
    BY FoundGrows
  <1> HIDE DEF n, C
  <1>9. 0 \in right
    <2>1. counted[0] = [sum |-> 0, count |-> 0, seen |-> <<0>>]
      BY <1>3, <1>4
    <2>2. <<0>> \in Seq(Int) /\ Len(<<0>>) = 1 /\ <<0>>[1] = 0 /\ \A j \in 0 .. 0 : j = 0
      OBVIOUS
    <2>3. counted[0] \in Countings
      BY <2>1, <2>2 DEF Countings
    <2> QED  BY <1>3, <1>6, <1>7, <2>1, <2>2, <2>3
  <1>10. \A i \in 0 .. n - 1 : i \in right => i + 1 \in right
    <2> SUFFICES ASSUME NEW i \in 0 .. n - 1, i \in right PROVE i + 1 \in right
      OBVIOUS
    <2> DEFINE acc == counted[i]
               next == counted[i + 1]
               sum == SumUpTo(nums, i + 1)
    <2>1. /\ i + 1 \in 0 .. n /\ i + 1 \in 1 .. n /\ i + 1 # 0 /\ (i + 1) - 1 = i
          /\ \A j \in 0 .. i + 1 : j = i + 1 \/ j \in 0 .. i
      BY <1>3
    <2>2. /\ acc \in Countings /\ acc.sum = SumUpTo(nums, i) /\ Len(acc.seen) = i + 1
          /\ \A j \in 0 .. i : acc.seen[j + 1] = SumUpTo(nums, j)
          /\ acc.count = C(i)
      OBVIOUS
    <2>3. next = Counted(acc, nums[i + 1], k) /\ nums[i + 1] \in Int /\ sum = acc.sum + nums[i + 1]
          /\ sum \in Int
      BY <1>3, <1>4, <1>7, <2>1, <2>2
    <2>4. /\ next \in Countings /\ next.sum = sum
          /\ next.count = acc.count + Occurrences(acc.seen, sum - k)
          /\ next.seen = Append(acc.seen, sum)
      <3> DEFINE num == nums[i + 1]
      <3> HIDE DEF num, acc, next, sum
      <3>1. acc \in Countings /\ num \in Int /\ next = Counted(acc, num, k) /\ sum = acc.sum + num
        BY <2>2, <2>3 DEF num
      <3> QED  BY <3>1, CountedIs
    <2>5. acc.seen \in Seq(Int)
      BY <2>2 DEF Countings
    <2>6. C(i + 1) = C(i) + Occurrences(acc.seen, sum - k)
      BY <1>8, <2>2, <2>5
    <2> DEFINE seen == acc.seen
    <2>7. Len(seen) = i + 1 /\ seen \in Seq(Int) /\ next.seen = Append(seen, sum)
          /\ \A j \in 0 .. i : seen[j + 1] = SumUpTo(nums, j)
      BY <2>2, <2>4, <2>5
    <2> HIDE DEF acc, next, seen, sum
    <2>8. Len(next.seen) = i + 2 /\ next.seen[i + 2] = sum
          /\ \A j \in 1 .. i + 1 : next.seen[j] = seen[j]
      BY <2>3, <2>7
    <2>9. ASSUME NEW j \in 0 .. i + 1 PROVE next.seen[j + 1] = SumUpTo(nums, j)
      <3>1. CASE j = i + 1
        <4>1. j + 1 = i + 2
          BY <3>1
        <4> QED  BY <2>8, <3>1, <4>1 DEF sum
      <3>2. CASE j \in 0 .. i
        <4>1. j + 1 \in 1 .. i + 1
          BY <3>2
        <4> QED  BY <2>7, <2>8, <3>2, <4>1
      <3> QED  BY <2>1, <3>1, <3>2
    <2>10. i + 2 = (i + 1) + 1
      BY <1>3
    <2>11. next.count = C(i + 1)
      BY <2>2, <2>4, <2>6
    <2> QED  BY <2>1, <2>4, <2>8, <2>9, <2>10, <2>11 DEF next, sum
  <1>11. \A i \in 0 .. n : i \in right
    <2>1. 0 \in Int /\ n \in Int
      BY <1>3
    <2> HIDE DEF right
    <2> QED  BY <1>9, <1>10, <2>1, RangeInduction
  <1>12. counted[n].count = C(n)
    BY <1>3, <1>11
  <1> QED  BY <1>1, <1>5, <1>12 DEF SubarraySumRight, C

-----------------------------------------------------------------------------
(* Trap: over a cell stands water up to the lower of the highest bars on its   *)
(* two sides.  The two pointers know one of these two, the one that counts.    *)

Forwards(s, f) == f = [i \in 1 .. Len(s) |-> IF i = 1 THEN s[1] ELSE Larger(f[i - 1], s[i])]

LEMMA ForwardsExists ==
  ASSUME NEW s \in Seq(Int), s # <<>>
  PROVE  \E f : Forwards(s, f)
PROOF
  <1> DEFINE n == Len(s)
             step == [ia \in (2 .. n) \X Int |-> Larger(ia[2], s[ia[1]])]
  <1>1. n \in Nat /\ 1 <= n /\ \A i \in 1 .. n : s[i] \in Int
    OBVIOUS
  <1>2. step \in Steps(Int, 1, n)
    <2>1. ASSUME NEW ia \in (2 .. n) \X Int PROVE Larger(ia[2], s[ia[1]]) \in Int
      <3>1. ia[1] \in 1 .. n /\ ia[2] \in Int
        BY <1>1
      <3> QED  BY <1>1, <3>1, LargerIs
    <2>2. 1 + 1 = 2
      OBVIOUS
    <2> QED  BY <2>1, <2>2 DEF Steps
  <1>3. \A i \in 2 .. n, a \in Int : step[<<i, a>>] = Larger(a, s[i])
    OBVIOUS
  <1> HIDE DEF step, n
  <1>4. PICK f : Follows(f, Int, 1, n, s[1], step)
    <2>1. 1 \in Int /\ n \in Int /\ s[1] \in Int
      BY <1>1
    <2> QED  BY <1>1, <1>2, <2>1, RecursionExists
  <1>5. ASSUME NEW i \in 1 .. n
        PROVE  f[i] = IF i = 1 THEN s[1] ELSE Larger(f[i - 1], s[i])
    <2>1. CASE i = 1
      BY <1>4, <2>1 DEF Follows
    <2>2. CASE i # 1
      <3>1. i \in 1 + 1 .. n /\ i \in 2 .. n /\ i - 1 \in 1 .. n
        BY <1>1, <2>2
      <3>2. f[i - 1] \in Int /\ f[i] = step[<<i, f[i - 1]>>]
        BY <1>4, <3>1 DEF Follows
      <3> QED  BY <1>3, <2>2, <3>1, <3>2
    <2> QED  BY <2>1, <2>2
  <1>6. f = [i \in 1 .. n |-> f[i]]
    BY <1>4 DEF Follows
  <1> QED  BY <1>5, <1>6, ZenonT(30) DEF Forwards, n

LEMMA ForwardsIs ==
  ASSUME NEW s \in Seq(Int), s # <<>>, NEW f, Forwards(s, f)
  PROVE  /\ f[1] = s[1] /\ \A i \in 2 .. Len(s) : f[i] = Larger(f[i - 1], s[i])
         /\ \A i \in 1 .. Len(s) : /\ f[i] \in Int
                                   /\ \E j \in 1 .. i : f[i] = s[j]
                                   /\ \A j \in 1 .. i : s[j] <= f[i]
PROOF
  <1> DEFINE n == Len(s)
             right == {i \in 1 .. n : /\ f[i] \in Int
                                      /\ \E j \in 1 .. i : f[i] = s[j]
                                      /\ \A j \in 1 .. i : s[j] <= f[i]}
  <1>1. n \in Nat /\ 1 <= n /\ \A i \in 1 .. n : s[i] \in Int
    OBVIOUS
  <1>2. f[1] = s[1] /\ \A i \in 2 .. n : f[i] = Larger(f[i - 1], s[i])
    <2>1. \A i \in 1 .. n : f[i] = IF i = 1 THEN s[1] ELSE Larger(f[i - 1], s[i])
      BY Zenon DEF Forwards
    <2>2. 1 \in 1 .. n /\ \A i \in 2 .. n : i \in 1 .. n /\ i # 1
      BY <1>1
    <2> HIDE DEF n
    <2> QED  BY <2>1, <2>2
  <1> HIDE DEF n
  <1>3. 1 \in right
    <2>1. 1 \in 1 .. n /\ 1 \in 1 .. 1 /\ s[1] \in Int /\ \A j \in 1 .. 1 : j = 1
      BY <1>1
    <2> QED  BY <1>2, <2>1
  <1>4. \A i \in 1 .. n - 1 : i \in right => i + 1 \in right
    <2> SUFFICES ASSUME NEW i \in 1 .. n - 1, i \in right PROVE i + 1 \in right
      OBVIOUS
    <2>1. /\ i + 1 \in 2 .. n /\ i + 1 \in 1 .. n /\ (i + 1) - 1 = i /\ i + 1 \in 1 .. i + 1
          /\ \A j \in 1 .. i + 1 : j = i + 1 \/ j \in 1 .. i
          /\ \A j \in 1 .. i : j \in 1 .. i + 1 /\ j \in 1 .. n
      BY <1>1
    <2>2. /\ f[i] \in Int /\ \E j \in 1 .. i : f[i] = s[j]
          /\ \A j \in 1 .. i : s[j] <= f[i]
      OBVIOUS
    <2>3. /\ f[i + 1] \in {f[i], s[i + 1]} /\ f[i + 1] \in Int /\ s[i + 1] \in Int
          /\ f[i] <= f[i + 1] /\ s[i + 1] <= f[i + 1]
      <3>1. f[i + 1] = Larger(f[i], s[i + 1]) /\ s[i + 1] \in Int
        BY <1>1, <1>2, <2>1
      <3> QED  BY <2>2, <3>1, LargerIs
    <2>4. \E j \in 1 .. i + 1 : f[i + 1] = s[j]
      BY <2>1, <2>2, <2>3
    <2>5. ASSUME NEW j \in 1 .. i + 1 PROVE s[j] <= f[i + 1]
      <3>1. CASE j = i + 1
        BY <2>3, <3>1
      <3>2. CASE j \in 1 .. i
        <4>1. s[j] \in Int /\ s[j] <= f[i]
          BY <1>1, <2>1, <2>2, <3>2
        <4> QED  BY <2>2, <2>3, <4>1
      <3> QED  BY <2>1, <3>1, <3>2
    <2> QED  BY <2>1, <2>3, <2>4, <2>5
  <1>5. \A i \in 1 .. n : i \in right
    <2>1. 1 \in Int /\ n \in Int
      BY <1>1
    <2> HIDE DEF right
    <2> QED  BY <1>3, <1>4, <2>1, RangeInduction
  <1> QED  BY <1>2, <1>5 DEF n

\* The highest bars to the left and to the right of each place.
Maxima(height, L, R) == Forwards(height, L) /\ Backwards(height, height[Len(height)], R)
Depths(height, L, R) == [i \in 1 .. Len(height) |-> Smaller(L[i], R[i]) - height[i]]

LEMMA MaximaAre ==
  ASSUME NEW height \in Seq(Nat), height # <<>>, NEW L, NEW R, Maxima(height, L, R)
  PROVE  LET n == Len(height) IN
         /\ L[1] = height[1] /\ R[n] = height[n]
         /\ \A i \in 1 .. n : L[i] \in Nat /\ R[i] \in Nat /\ height[i] \in Nat
         /\ \A i \in 1 .. n : /\ \E j \in 1 .. i : L[i] = height[j]
                              /\ \A j \in 1 .. i : height[j] <= L[i]
         /\ \A i \in 1 .. n : /\ \E j \in i .. n : R[i] = height[j]
                              /\ \A j \in i .. n : height[j] <= R[i]
         /\ \A i \in 2 .. n : L[i] = Larger(L[i - 1], height[i])
         /\ \A i \in 1 .. n - 1 : R[i] = Larger(R[i + 1], height[i])
PROOF
  <1> DEFINE n == Len(height)
             h == height
  <1>1. n \in Nat /\ 1 <= n /\ h \in Seq(Int) /\ \A i \in 1 .. n : h[i] \in Nat
    OBVIOUS
  <1>2. /\ L[1] = h[1] /\ \A i \in 2 .. n : L[i] = Larger(L[i - 1], h[i])
        /\ \A i \in 1 .. n : /\ L[i] \in Int /\ \E j \in 1 .. i : L[i] = h[j]
                             /\ \A j \in 1 .. i : h[j] <= L[i]
    BY <1>1, ForwardsIs DEF Maxima
  <1>3. h[n] \in Int
    BY <1>1
  <1>4. \A i \in 1 .. n : /\ R[i] \in Int
                          /\ R[i] = h[n] \/ \E j \in i .. n - 1 : R[i] = h[j]
                          /\ h[n] <= R[i] /\ \A j \in i .. n - 1 : h[j] <= R[i]
    BY <1>1, <1>3, BackwardsIs DEF Maxima
  <1>5. R[n] = h[n] /\ \A i \in 1 .. n - 1 : R[i] = Larger(R[i + 1], h[i])
    <2>1. R = [i \in 1 .. n |-> IF i = n THEN h[n] ELSE Larger(R[i + 1], h[i])]
      BY DEF Maxima, Backwards
    <2>2. n \in 1 .. n /\ \A i \in 1 .. n - 1 : i \in 1 .. n /\ i # n
      BY <1>1
    <2> HIDE DEF n
    <2>3. \A i \in 1 .. n : R[i] = IF i = n THEN h[n] ELSE Larger(R[i + 1], h[i])
      BY <2>1, Zenon
    <2> QED  BY <2>2, <2>3
  <1> HIDE DEF n
  <1>6. ASSUME NEW i \in 1 .. n
        PROVE  L[i] \in Nat /\ R[i] \in Nat /\ h[i] \in Nat
    <2>1. i \in 1 .. i /\ (i = n \/ i \in i .. n - 1)
      BY <1>1
    <2>2. h[i] \in Nat /\ h[i] <= L[i] /\ h[i] <= R[i]
      BY <1>1, <1>2, <1>4, <2>1
    <2>3. L[i] \in Int /\ R[i] \in Int
      BY <1>2, <1>4
    <2> QED  BY <2>2, <2>3
  <1>7. ASSUME NEW i \in 1 .. n
        PROVE  /\ \E j \in i .. n : R[i] = h[j]
               /\ \A j \in i .. n : h[j] <= R[i]
    <2>1. n \in i .. n /\ \A j \in i .. n - 1 : j \in i .. n
      BY <1>1
    <2>2. \A j \in i .. n : j = n \/ j \in i .. n - 1
      BY <1>1
    <2> QED  BY <1>4, <2>1, <2>2
  <1> QED  BY <1>2, <1>5, <1>6, <1>7 DEF n

LEMMA MaximaExist ==
  ASSUME NEW height \in Seq(Nat), height # <<>>
  PROVE  (\E L : Forwards(height, L)) /\ (\E R : Backwards(height, height[Len(height)], R))
PROOF
  <1>1. height \in Seq(Int) /\ height[Len(height)] \in Int
    OBVIOUS
  <1> QED  BY <1>1, ForwardsExists, BackwardsExists

LEMMA SmallerIs ==
  \A a, b \in Int : /\ Smaller(a, b) \in Int /\ Smaller(a, b) <= a /\ Smaller(a, b) <= b
                    /\ a <= b => Smaller(a, b) = a
                    /\ b <= a => Smaller(a, b) = b
                    /\ \A c \in Int : c <= Smaller(a, b) <=> c <= a /\ c <= b
BY DEF Smaller

LEMMA DepthsAre ==
  ASSUME NEW height \in Seq(Nat), height # <<>>, NEW L, NEW R, Maxima(height, L, R)
  PROVE  \A i \in 1 .. Len(height) :
           /\ Depths(height, L, R)[i] = Smaller(L[i], R[i]) - height[i]
           /\ Depths(height, L, R)[i] \in Nat /\ height[i] <= Smaller(L[i], R[i])
           /\ Smaller(L[i], R[i]) \in Nat
PROOF
  <1> TAKE i \in 1 .. Len(height)
  <1> DEFINE m == Smaller(L[i], R[i])
  <1>1. i \in 1 .. i /\ i \in i .. Len(height)
    OBVIOUS
  <1>2. L[i] \in Nat /\ R[i] \in Nat /\ height[i] \in Nat /\ height[i] <= L[i] /\ height[i] <= R[i]
    BY <1>1, MaximaAre
  <1>3. Depths(height, L, R)[i] = m - height[i]
    BY DEF Depths
  <1>4. m \in Int /\ height[i] <= m
    <2>1. L[i] \in Int /\ R[i] \in Int /\ height[i] \in Int
      BY <1>2
    <2> QED  BY <1>2, <2>1, SmallerIs
  <1> HIDE DEF m
  <1>5. m - height[i] \in Nat /\ m \in Nat
    BY <1>2, <1>4
  <1> QED  BY <1>3, <1>4, <1>5 DEF m

\* What the two pointers know between two turns: the highest bars they have
\* passed, none above both ends, and the water over the cells they have left.
Waterings(height, L, R) ==
  {s \in [left : Nat, right : Nat, maxLeft : Nat, maxRight : Nat, water : Int] :
     /\ 1 <= s.left /\ s.left <= s.right /\ s.right <= Len(height)
     /\ s.maxLeft = IF s.left = 1 THEN 0 ELSE L[s.left - 1]
     /\ s.maxRight = IF s.right = Len(height) THEN 0 ELSE R[s.right + 1]
     /\ s.maxLeft <= height[s.left] \/ s.maxLeft <= height[s.right]
     /\ s.maxRight <= height[s.left] \/ s.maxRight <= height[s.right]
     /\ s.water = SumFunctionOnSet(Depths(height, L, R),
                    (1 .. s.left - 1) \cup (s.right + 1 .. Len(height)))}
Watering(height, f) ==
  f = [i \in 0 .. Len(height) |->
         IF i = 0 THEN [left |-> 1, right |-> Len(height), maxLeft |-> 0, maxRight |-> 0, water |-> 0]
         ELSE Watered(height, f[i - 1])]

LEMMA LargerBounded ==
  \A m, a, b \in Nat : (m <= a \/ m <= b) /\ a <= b => Larger(m, a) <= b /\ m <= b
BY DEF Larger

LEMMA WateredIs ==
  ASSUME NEW height \in Seq(Nat), height # <<>>, NEW L, NEW R, Maxima(height, L, R),
         NEW s \in Waterings(height, L, R)
  PROVE  /\ Watered(height, s) \in Waterings(height, L, R)
         /\ s.left >= s.right => Watered(height, s) = s
         /\ ~(s.left >= s.right) =>
              Watered(height, s).right - Watered(height, s).left = (s.right - s.left) - 1
PROOF
  <1> DEFINE n == Len(height)
             h == height
             w == Depths(height, L, R)
             W(l, r) == SumFunctionOnSet(w, (1 .. l - 1) \cup (r + 1 .. n))
             t == Watered(height, s)
             l == s.left
             r == s.right
             state == [left : Nat, right : Nat, maxLeft : Nat, maxRight : Nat, water : Int]
             Good(u) == /\ 1 <= u.left /\ u.left <= u.right /\ u.right <= n
                        /\ u.maxLeft = IF u.left = 1 THEN 0 ELSE L[u.left - 1]
                        /\ u.maxRight = IF u.right = n THEN 0 ELSE R[u.right + 1]
                        /\ u.maxLeft <= h[u.left] \/ u.maxLeft <= h[u.right]
                        /\ u.maxRight <= h[u.left] \/ u.maxRight <= h[u.right]
                        /\ u.water = W(u.left, u.right)
  <1>1. n \in Nat /\ 1 <= n
    OBVIOUS
  <1>2. s \in state /\ Good(s)
    BY DEF Waterings
  <1>3. \A u : u \in state /\ Good(u) => u \in Waterings(height, L, R)
    BY DEF Waterings
  <1> HIDE DEF W, w, n, state
  <1>9. /\ l \in Nat /\ r \in Nat /\ s.maxLeft \in Nat /\ s.maxRight \in Nat /\ s.water \in Int
        /\ 1 <= l /\ l <= r /\ r <= n
        /\ s.maxLeft = IF l = 1 THEN 0 ELSE L[l - 1]
        /\ s.maxRight = IF r = n THEN 0 ELSE R[r + 1]
        /\ s.maxLeft <= h[l] \/ s.maxLeft <= h[r]
        /\ s.maxRight <= h[l] \/ s.maxRight <= h[r]
        /\ s.water = W(l, r)
    BY <1>2 DEF state
  <1>10. s.maxLeft \in Nat /\ s.maxRight \in Nat /\ s.water \in Int
    BY <1>9
  <1>4. CASE s.left >= s.right
    <2>1. t = s
      BY <1>4 DEF Watered
    <2> QED  BY <1>4, <2>1
  <1>5. CASE ~(s.left >= s.right)
    <2>1. /\ l \in 1 .. n /\ r \in 1 .. n /\ l < r /\ l + 1 \in 2 .. n /\ r - 1 \in 1 .. n - 1
          /\ l + 1 <= r /\ l <= r - 1 /\ l \in Nat /\ r \in Nat /\ r \in l .. n /\ l \in 1 .. r
          /\ (l + 1) - 1 = l /\ (r - 1) + 1 = r /\ l + 1 \in Nat /\ r - 1 \in Nat
      <3>1. l \in Nat /\ r \in Nat /\ 1 <= l /\ l < r /\ r <= n
        BY <1>5, <1>9
      <3> HIDE DEF l, r
      <3> QED  BY <1>1, <3>1
    <2> HIDE DEF l, r
    <2>2. /\ L[l] \in Nat /\ R[l] \in Nat /\ h[l] \in Nat
          /\ L[r] \in Nat /\ R[r] \in Nat /\ h[r] \in Nat
          /\ h[r] <= R[l] /\ h[l] <= L[r]
      BY <2>1, MaximaAre DEF n
    <2>3. L[l] = Larger(s.maxLeft, h[l])
      <3>1. CASE l = 1
        <4>1. s.maxLeft = 0 /\ L[1] = h[1]
          BY <1>9, <3>1, MaximaAre DEF n
        <4> QED  BY <2>2, <3>1, <4>1 DEF Larger
      <3>2. CASE l # 1
        <4>1. l \in 2 .. n /\ s.maxLeft = L[l - 1]
          BY <1>1, <1>9, <2>1, <3>2
        <4> QED  BY <4>1, MaximaAre DEF n
      <3> QED  BY <3>1, <3>2
    <2>4. R[r] = Larger(s.maxRight, h[r])
      <3>1. CASE r = n
        <4>1. s.maxRight = 0 /\ R[n] = h[n]
          BY <1>9, <3>1, MaximaAre DEF n
        <4> QED  BY <2>2, <3>1, <4>1 DEF Larger
      <3>2. CASE r # n
        <4>1. r \in 1 .. n - 1 /\ s.maxRight = R[r + 1]
          BY <1>1, <1>9, <2>1, <3>2
        <4> QED  BY <4>1, MaximaAre DEF n
      <3> QED  BY <3>1, <3>2
    <2>5. /\ s.maxLeft <= h[l] \/ s.maxLeft <= h[r]
          /\ s.maxRight <= h[l] \/ s.maxRight <= h[r]
          /\ s.water = W(l, r)
      BY <1>9
    <2>6. w[l] = Smaller(L[l], R[l]) - h[l] /\ w[r] = Smaller(L[r], R[r]) - h[r]
          /\ \A i \in 1 .. n : w[i] \in Int
      <3>1. /\ \A i \in 1 .. n : w[i] = Smaller(L[i], R[i]) - h[i] /\ w[i] \in Nat
        BY DepthsAre DEF w, n
      <3>2. \A i \in 1 .. n : w[i] \in Int
        BY <3>1
      <3> QED  BY <2>1, <3>1, <3>2
    <2>7. W(l + 1, r) = w[l] + W(l, r) /\ W(l, r - 1) = w[r] + W(l, r)
      <3> DEFINE A == (1 .. l - 1) \cup (r + 1 .. n)
                 B == (1 .. (l + 1) - 1) \cup (r + 1 .. n)
                 C == (1 .. l - 1) \cup ((r - 1) + 1 .. n)
      <3>1. B \ {l} = A /\ C \ {r} = A /\ l \in B /\ r \in C /\ B \subseteq 1 .. n /\ C \subseteq 1 .. n
        BY <1>1, <2>1
      <3>2. IsFiniteSet(1 .. n)
        BY <1>1, FS_Interval
      <3> HIDE DEF A, B, C
      <3>3. IsFiniteSet(B) /\ IsFiniteSet(C) /\ (\A i \in B : w[i] \in Int) /\ \A i \in C : w[i] \in Int
        BY <2>6, <3>1, <3>2, FS_Subset
      <3>4. /\ SumFunctionOnSet(w, B) = w[l] + SumFunctionOnSet(w, B \ {l})
            /\ SumFunctionOnSet(w, C) = w[r] + SumFunctionOnSet(w, C \ {r})
        BY <3>1, <3>3, SumTakesOut
      <3> QED  BY <3>1, <3>4 DEF A, B, C, W
    <2>8. CASE h[l] < h[r]
      <3>1. L[l] <= h[r]
        BY <1>10, <2>2, <2>3, <2>5, <2>8, LargerBounded, SMTT(20)
      <3>2. w[l] = L[l] - h[l]
        <4>1. L[l] <= R[l] /\ L[l] \in Int /\ R[l] \in Int
          BY <2>2, <3>1
        <4>2. Smaller(L[l], R[l]) = L[l]
          BY <4>1, SmallerIs
        <4> QED  BY <2>6, <4>2
      <3>3. t = [s EXCEPT !.left = l + 1, !.maxLeft = L[l], !.water = s.water + (L[l] - h[l])]
        <4>1. ~(s.left >= s.right) /\ height[s.left] < height[s.right]
              /\ Larger(s.maxLeft, height[s.left]) = L[l]
          BY <1>5, <2>3, <2>8 DEF l, r
        <4>2. t = [s EXCEPT !.left = @ + 1, !.maxLeft = L[l], !.water = @ + L[l] - height[s.left]]
          BY <4>1 DEF Watered
        <4> QED  BY <4>2 DEF l
      <3>4. /\ t.left = l + 1 /\ t.right = r /\ t.maxLeft = L[l] /\ t.maxRight = s.maxRight
            /\ t.water = s.water + (L[l] - h[l]) /\ t \in state
        <4>1. s \in state /\ s.left = l /\ s.right = r
          BY <1>2 DEF l, r
        <4> HIDE DEF t
        <4>2. s.water + (L[l] - h[l]) \in Int /\ s.water + (R[r] - h[r]) \in Int
          <5>1. \A a, b, c \in Int : c + (a - b) \in Int
            OBVIOUS
          <5>2. L[l] \in Int /\ h[l] \in Int /\ R[r] \in Int /\ h[r] \in Int /\ s.water \in Int
            BY <1>10, <2>2
          <5> QED  BY <5>1, <5>2, Zenon
        <4> DEFINE v == s.water + (L[l] - h[l])
                   x == s.water + (R[r] - h[r])
        <4> HIDE DEF v, x
        <4>3. v \in Int /\ x \in Int
          BY <4>2 DEF v, x
        <4>4. t = [s EXCEPT !.left = l + 1, !.maxLeft = L[l], !.water = v]
          BY <3>3 DEF v, x
        <4>5. s \in [left : Nat, right : Nat, maxLeft : Nat, maxRight : Nat, water : Int]
          BY <4>1 DEF state
        <4>6. /\ t.left = l + 1 /\ t.right = r /\ t.maxLeft = L[l] /\ t.maxRight = s.maxRight /\ t.water = v
              /\ t \in [left : Nat, right : Nat, maxLeft : Nat, maxRight : Nat, water : Int]
          BY <2>1, <2>2, <4>1, <4>3, <4>4, <4>5
        <4> QED  BY <4>6 DEF state, v, x
      <3>5. t.water = W(t.left, t.right)
        BY <1>9, <2>1, <2>2, <2>5, <2>7, <3>2, <3>4, SMTT(20)
      <3>6. s.maxRight <= h[r]
        <4>1. h[l] <= h[r] /\ (s.maxRight <= h[l] \/ s.maxRight <= h[r])
          BY <2>2, <2>5, <2>8
        <4> QED  BY <1>10, <2>2, <4>1, LargerBounded
      <3> HIDE DEF t
      <3>7. Good(t)
        BY <1>1, <1>9, <2>1, <3>1, <3>4, <3>5, <3>6
      <3>8. t.right - t.left = (r - l) - 1
        BY <2>1, <3>4
      <3> HIDE DEF Good
      <3> QED  BY <1>3, <1>5, <3>4, <3>7, <3>8 DEF t, l, r
    <2>9. CASE ~(h[l] < h[r])
      <3>1. R[r] <= h[l]
        <4>1. h[r] <= h[l] /\ (s.maxRight <= h[r] \/ s.maxRight <= h[l])
          BY <2>2, <2>5, <2>9
        <4> QED  BY <1>10, <2>2, <2>4, <4>1, LargerBounded
      <3>2. w[r] = R[r] - h[r]
        <4>1. R[r] <= L[r] /\ L[r] \in Int /\ R[r] \in Int
          BY <2>2, <3>1
        <4>2. Smaller(L[r], R[r]) = R[r]
          BY <4>1, SmallerIs
        <4> QED  BY <2>6, <4>2
      <3>3. t = [s EXCEPT !.right = r - 1, !.maxRight = R[r], !.water = s.water + (R[r] - h[r])]
        <4>1. ~(s.left >= s.right) /\ ~(height[s.left] < height[s.right])
              /\ Larger(s.maxRight, height[s.right]) = R[r]
          BY <1>5, <2>4, <2>9 DEF l, r
        <4>2. t = [s EXCEPT !.right = @ - 1, !.maxRight = R[r], !.water = @ + R[r] - height[s.right]]
          BY <4>1 DEF Watered
        <4> QED  BY <4>2 DEF r
      <3>4. /\ t.left = l /\ t.right = r - 1 /\ t.maxLeft = s.maxLeft /\ t.maxRight = R[r]
            /\ t.water = s.water + (R[r] - h[r]) /\ t \in state
        <4>1. s \in state /\ s.left = l /\ s.right = r
          BY <1>2 DEF l, r
        <4> HIDE DEF t
        <4>2. s.water + (L[l] - h[l]) \in Int /\ s.water + (R[r] - h[r]) \in Int
          <5>1. \A a, b, c \in Int : c + (a - b) \in Int
            OBVIOUS
          <5>2. L[l] \in Int /\ h[l] \in Int /\ R[r] \in Int /\ h[r] \in Int /\ s.water \in Int
            BY <1>10, <2>2
          <5> QED  BY <5>1, <5>2, Zenon
        <4> DEFINE v == s.water + (L[l] - h[l])
                   x == s.water + (R[r] - h[r])
        <4> HIDE DEF v, x
        <4>3. v \in Int /\ x \in Int
          BY <4>2 DEF v, x
        <4>4. t = [s EXCEPT !.right = r - 1, !.maxRight = R[r], !.water = x]
          BY <3>3 DEF v, x
        <4>5. s \in [left : Nat, right : Nat, maxLeft : Nat, maxRight : Nat, water : Int]
          BY <4>1 DEF state
        <4>6. /\ t.left = l /\ t.right = r - 1 /\ t.maxLeft = s.maxLeft /\ t.maxRight = R[r] /\ t.water = x
              /\ t \in [left : Nat, right : Nat, maxLeft : Nat, maxRight : Nat, water : Int]
          BY <2>1, <2>2, <4>1, <4>3, <4>4, <4>5
        <4> QED  BY <4>6 DEF state, v, x
      <3>5. t.water = W(t.left, t.right)
        BY <1>9, <2>1, <2>2, <2>5, <2>7, <3>2, <3>4
      <3>6. s.maxLeft <= h[l]
        <4>1. h[r] <= h[l] /\ (s.maxLeft <= h[r] \/ s.maxLeft <= h[l])
          BY <2>2, <2>5, <2>9
        <4> QED  BY <1>10, <2>2, <4>1, LargerBounded
      <3> HIDE DEF t
      <3>7. Good(t)
        BY <1>1, <1>9, <2>1, <3>1, <3>4, <3>5, <3>6
      <3>8. t.right - t.left = (r - l) - 1
        BY <2>1, <3>4
      <3> HIDE DEF Good
      <3> QED  BY <1>3, <1>5, <3>4, <3>7, <3>8 DEF t, l, r
    <2> QED  BY <2>8, <2>9
  <1> QED  BY <1>4, <1>5

LEMMA WateringStarts ==
  ASSUME NEW height \in Seq(Nat), height # <<>>, NEW L, NEW R, Maxima(height, L, R)
  PROVE  [left |-> 1, right |-> Len(height), maxLeft |-> 0, maxRight |-> 0, water |-> 0]
           \in Waterings(height, L, R)
PROOF
  <1> DEFINE n == Len(height)
             first == [left |-> 1, right |-> n, maxLeft |-> 0, maxRight |-> 0, water |-> 0]
  <1>1. n \in Nat /\ 1 <= n /\ height[1] \in Nat
    OBVIOUS
  <1>2. (1 .. 1 - 1) \cup (n + 1 .. n) = {}
    BY <1>1
  <1>3. SumFunctionOnSet(Depths(height, L, R), {}) = 0
    BY FS_EmptySet, SumOfZeros
  <1>4. /\ first \in [left : Nat, right : Nat, maxLeft : Nat, maxRight : Nat, water : Int]
        /\ first.left = 1 /\ first.right = n /\ first.maxLeft = 0 /\ first.maxRight = 0
        /\ first.water = 0 /\ 0 <= height[1]
    BY <1>1
  <1>5. first.water = SumFunctionOnSet(Depths(height, L, R), (1 .. first.left - 1) \cup (first.right + 1 .. n))
    BY <1>2, <1>3, <1>4
  <1> HIDE DEF first
  <1>6. /\ 1 <= first.left /\ first.left <= first.right /\ first.right <= n
        /\ first.maxLeft <= height[first.left] /\ first.maxRight <= height[first.left]
        /\ first.maxLeft = IF first.left = 1 THEN 0 ELSE L[first.left - 1]
        /\ first.maxRight = IF first.right = n THEN 0 ELSE R[first.right + 1]
    BY <1>1, <1>4
  <1>7. first \in Waterings(height, L, R)
    BY <1>4, <1>5, <1>6 DEF Waterings
  <1> QED  BY <1>7 DEF first

LEMMA WateringExists ==
  ASSUME NEW height \in Seq(Nat), height # <<>>, NEW L, NEW R, Maxima(height, L, R)
  PROVE  \E f : Watering(height, f)
PROOF
  <1> DEFINE n == Len(height)
             A == Waterings(height, L, R)
             first == [left |-> 1, right |-> n, maxLeft |-> 0, maxRight |-> 0, water |-> 0]
             step == [ia \in (1 .. n) \X A |-> Watered(height, ia[2])]
  <1>1. n \in Nat
    OBVIOUS
  <1>2. first \in A
    BY WateringStarts
  <1> HIDE DEF A
  <1>3. step \in Steps(A, 0, n)
    <2>1. ASSUME NEW ia \in (1 .. n) \X A PROVE Watered(height, ia[2]) \in A
      <3>1. ia[2] \in Waterings(height, L, R)
        BY DEF A
      <3> QED  BY <3>1, WateredIs DEF A
    <2>2. 0 + 1 = 1
      OBVIOUS
    <2> QED  BY <2>1, <2>2 DEF Steps
  <1>4. \A i \in 1 .. n, a \in A : step[<<i, a>>] = Watered(height, a)
    OBVIOUS
  <1> HIDE DEF step, n, first
  <1>5. PICK f : Follows(f, A, 0, n, first, step)
    <2>1. 0 \in Int /\ n \in Int /\ 0 <= n
      BY <1>1
    <2> QED  BY <1>2, <1>3, <2>1, RecursionExists
  <1>6. ASSUME NEW i \in 0 .. n
        PROVE  f[i] = IF i = 0 THEN first ELSE Watered(height, f[i - 1])
    <2>1. CASE i = 0
      BY <1>5, <2>1 DEF Follows
    <2>2. CASE i # 0
      <3>1. i \in 0 + 1 .. n /\ i \in 1 .. n /\ i - 1 \in 0 .. n
        BY <1>1, <2>2
      <3>2. f[i - 1] \in A /\ f[i] = step[<<i, f[i - 1]>>]
        BY <1>5, <3>1 DEF Follows
      <3> QED  BY <1>4, <2>2, <3>1, <3>2
    <2> QED  BY <2>1, <2>2
  <1>7. f = [i \in 0 .. n |-> f[i]]
    BY <1>5 DEF Follows
  <1> QED  BY <1>6, <1>7 DEF Watering, n, first

\* Where the pointers meet stands no water, so that they have counted it all.
LEMMA WateringEnds ==
  ASSUME NEW height \in Seq(Nat), height # <<>>, NEW L, NEW R, Maxima(height, L, R)
  PROVE  Trap(height) = SumFunctionOnSet(Depths(height, L, R), 1 .. Len(height))
PROOF
  <1> DEFINE n == Len(height)
             A == Waterings(height, L, R)
             w == Depths(height, L, R)
             watered == CHOOSE f : Watering(height, f)
             s == watered[n]
             right == {i \in 0 .. n :
                         /\ watered[i] \in A
                         /\ watered[i].right - watered[i].left < n - i \/ watered[i].right <= watered[i].left}
  <1>1. n \in Nat /\ 1 <= n /\ n \in 0 .. n
    OBVIOUS
  <1>2. Trap(height) = s.water
    BY DEF Trap, Watering
  <1>3. Watering(height, watered)
    BY WateringExists, Zenon
  <1> HIDE DEF watered
  <1>4. /\ watered[0] = [left |-> 1, right |-> n, maxLeft |-> 0, maxRight |-> 0, water |-> 0]
        /\ \A i \in 1 .. n : watered[i] = Watered(height, watered[i - 1])
    <2> DEFINE first == [left |-> 1, right |-> n, maxLeft |-> 0, maxRight |-> 0, water |-> 0]
    <2>1. watered = [i \in 0 .. n |-> IF i = 0 THEN first ELSE Watered(height, watered[i - 1])]
      BY <1>3 DEF Watering
    <2>2. 0 \in 0 .. n /\ \A i \in 1 .. n : i \in 0 .. n /\ i # 0
      BY <1>1
    <2> HIDE DEF n, first
    <2>3. \A i \in 0 .. n : watered[i] = IF i = 0 THEN first ELSE Watered(height, watered[i - 1])
      BY <2>1, Zenon
    <2>4. watered[0] = first /\ \A i \in 1 .. n : watered[i] = Watered(height, watered[i - 1])
      BY <2>2, <2>3
    <2> QED  BY <2>4 DEF first
  <1>5. 0 \in right
    BY <1>1, <1>4, WateringStarts
  <1>6. \A i \in 0 .. n - 1 : i \in right => i + 1 \in right
    <2> SUFFICES ASSUME NEW i \in 0 .. n - 1, i \in right PROVE i + 1 \in right
      OBVIOUS
    <2> DEFINE a == watered[i]
               b == watered[i + 1]
    <2>1. i + 1 \in 1 .. n /\ (i + 1) - 1 = i /\ i + 1 \in 0 .. n /\ i \in Int
      BY <1>1
    <2>2. b = Watered(height, a)
      BY <1>4, <2>1
    <2>3. a \in A /\ (a.right - a.left < n - i \/ a.right <= a.left)
      OBVIOUS
    <2> HIDE DEF a, b, right
    <2>4. /\ b \in A
          /\ a.left >= a.right => b = a
          /\ ~(a.left >= a.right) => b.right - b.left = (a.right - a.left) - 1
      BY <2>2, <2>3, WateredIs
    <2>5. a.left \in Nat /\ a.right \in Nat /\ b.left \in Nat /\ b.right \in Nat
      BY <2>3, <2>4 DEF Waterings
    <2>6. b.right - b.left < n - (i + 1) \/ b.right <= b.left
      <3>1. CASE a.left >= a.right
        BY <2>4, <2>5, <3>1
      <3>2. CASE ~(a.left >= a.right)
        <4>1. a.right - a.left < n - i /\ b.right - b.left = (a.right - a.left) - 1
          BY <2>3, <2>4, <2>5, <3>2
        <4> QED  BY <1>1, <2>1, <2>5, <4>1
      <3> QED  BY <3>1, <3>2
    <2> QED  BY <2>1, <2>4, <2>6 DEF b, right
  <1>7. \A i \in 0 .. n : i \in right
    <2>1. 0 \in Int /\ n \in Int
      BY <1>1
    <2> HIDE DEF right
    <2> QED  BY <1>5, <1>6, <2>1, RangeInduction
  <1>8. s \in A /\ (s.right - s.left < n - n \/ s.right <= s.left)
    BY <1>1, <1>7
  <1> HIDE DEF s
  <1> DEFINE m == s.left
  <1>9. /\ m \in 1 .. n /\ s.right = m
        /\ s.maxLeft = IF m = 1 THEN 0 ELSE L[m - 1]
        /\ s.maxLeft <= height[m]
        /\ s.water = SumFunctionOnSet(w, (1 .. m - 1) \cup (m + 1 .. n))
    <2>1. /\ s.left \in Nat /\ s.right \in Nat /\ 1 <= s.left /\ s.left <= s.right /\ s.right <= n
          /\ s.maxLeft = IF s.left = 1 THEN 0 ELSE L[s.left - 1]
          /\ s.maxLeft <= height[s.left] \/ s.maxLeft <= height[s.right]
          /\ s.water = SumFunctionOnSet(w, (1 .. s.left - 1) \cup (s.right + 1 .. n))
      BY <1>8 DEF Waterings
    <2>2. s.right - s.left < 0 \/ s.right <= s.left
      BY <1>1, <1>8
    <2>3. s.right = s.left
      BY <2>1, <2>2
    <2>4. m \in 1 .. n
      BY <1>1, <2>1
    <2> QED  BY <2>1, <2>3, <2>4
  <1> HIDE DEF m
  <1>10. w[m] = 0
    <2>1. /\ L[m] \in Nat /\ R[m] \in Nat /\ height[m] \in Nat /\ height[m] <= R[m]
      <3>1. m \in m .. n
        BY <1>1, <1>9
      <3> QED  BY <1>9, <3>1, MaximaAre
    <2>2. L[m] = height[m]
      <3>1. CASE m = 1
        BY <3>1, MaximaAre
      <3>2. CASE m # 1
        <4>1. m \in 2 .. n /\ m - 1 \in 1 .. n
          BY <1>1, <1>9, <3>2
        <4>2. L[m] = Larger(L[m - 1], height[m]) /\ L[m - 1] \in Nat /\ L[m - 1] <= height[m]
          BY <1>9, <3>2, <4>1, MaximaAre
        <4> QED  BY <2>1, <4>2 DEF Larger
      <3> QED  BY <3>1, <3>2
    <2>3. Smaller(L[m], R[m]) = height[m]
      BY <2>1, <2>2 DEF Smaller
    <2>4. w[m] = Smaller(L[m], R[m]) - height[m]
      BY <1>9, DepthsAre
    <2> QED  BY <2>1, <2>3, <2>4
  <1>11. (\A i \in 1 .. n : w[i] \in Int) /\ IsFiniteSet(1 .. n)
    <2>1. \A i \in 1 .. n : w[i] \in Nat
      BY DepthsAre
    <2>2. \A i \in 1 .. n : w[i] \in Int
      BY <2>1
    <2> QED  BY <1>1, <2>2, FS_Interval
  <1>12. (1 .. n) \ {m} = (1 .. m - 1) \cup (m + 1 .. n)
    BY <1>1, <1>9
  <1> HIDE DEF w, n
  <1>13. SumFunctionOnSet(w, 1 .. n) = w[m] + SumFunctionOnSet(w, (1 .. n) \ {m})
    <2>1. m \in 1 .. n
      BY <1>9
    <2> QED  BY <1>11, <2>1, SumTakesOut
  <1>14. SumFunctionOnSet(w, (1 .. n) \ {m}) \in Int
    <2>1. IsFiniteSet((1 .. n) \ {m})
      BY <1>11, FS_Subset
    <2> QED  BY <1>11, <2>1, SumIsInt
  <1>15. SumFunctionOnSet(w, 1 .. n) = s.water
    <2>1. s.water = SumFunctionOnSet(w, (1 .. n) \ {m})
      BY <1>9, <1>12
    <2> QED  BY <1>10, <1>13, <1>14, <2>1
  <1> QED  BY <1>2, <1>15 DEF w, n

\* The cells of the columns 1 to m are as many as the depths there add up to.
LEMMA CellsAre ==
  ASSUME NEW height \in Seq(Nat), height # <<>>, NEW L, NEW R, Maxima(height, L, R)
  PROVE  LET n == Len(height)
             cells == {cell \in (1 .. n) \X (1 .. Max(ToSet(height))) :
               /\ height[cell[1]] < cell[2]
               /\ \E i \in 1 .. cell[1], j \in cell[1] .. n : height[i] >= cell[2] /\ height[j] >= cell[2]}
         IN  Cardinality(cells) = SumFunctionOnSet(Depths(height, L, R), 1 .. n)
PROOF
  <1> DEFINE n == Len(height)
             h == height
             top == Max(ToSet(height))
             w == Depths(height, L, R)
             cells == {cell \in (1 .. n) \X (1 .. top) :
               /\ h[cell[1]] < cell[2]
               /\ \E i \in 1 .. cell[1], j \in cell[1] .. n : h[i] >= cell[2] /\ h[j] >= cell[2]}
             level(i) == Smaller(L[i], R[i])
             upTo(m) == {cell \in cells : cell[1] <= m}
             total(m) == SumFunctionOnSet(w, 1 .. m)
             right == {m \in 0 .. n : IsFiniteSet(upTo(m)) /\ Cardinality(upTo(m)) = total(m)}
  <1>1. n \in Nat /\ 1 <= n /\ n \in 1 .. n /\ DOMAIN h = 1 .. n /\ \A i \in 1 .. n : h[i] \in Nat
    OBVIOUS
  <1>2. \A i \in 1 .. n : w[i] = level(i) - h[i] /\ w[i] \in Nat /\ h[i] <= level(i) /\ level(i) \in Nat
    BY DepthsAre
  <1>3. top = L[n]
    <2>1. (\E j \in 1 .. n : L[n] = h[j]) /\ \A j \in 1 .. n : h[j] <= L[n]
      BY <1>1, MaximaAre
    <2>2. ToSet(h) = {h[j] : j \in 1 .. n}
      BY <1>1 DEF ToSet
    <2>3. L[n] \in ToSet(h) /\ ToSet(h) \subseteq Int /\ \A k \in ToSet(h) : k <= L[n]
      BY <1>1, <2>1, <2>2
    <2> QED  BY <2>3, MaxIs
  <1>4. /\ \A i \in 1 .. n : L[i] \in Nat /\ R[i] \in Nat
        /\ \A i \in 1 .. n : (\E j \in 1 .. i : L[i] = h[j]) /\ \A j \in 1 .. i : h[j] <= L[i]
        /\ \A i \in 1 .. n : (\E j \in i .. n : R[i] = h[j]) /\ \A j \in i .. n : h[j] <= R[i]
    BY MaximaAre
  <1> HIDE DEF n, top, w
  <1>5. ASSUME NEW i \in 1 .. n, NEW l
        PROVE  <<i, l>> \in cells <=> l \in h[i] + 1 .. level(i)
    <2>1. h[i] \in Nat /\ L[i] \in Nat /\ R[i] \in Nat /\ level(i) \in Nat
      BY <1>1, <1>2, <1>4
    <2>2. ASSUME <<i, l>> \in cells PROVE l \in h[i] + 1 .. level(i)
      <3>1. /\ l \in 1 .. top /\ h[i] < l
            /\ \E a \in 1 .. i, b \in i .. n : h[a] >= l /\ h[b] >= l
        BY <2>2
      <3>2. PICK a \in 1 .. i, b \in i .. n : h[a] >= l /\ h[b] >= l
        BY <3>1
      <3>3. h[a] <= L[i] /\ h[b] <= R[i] /\ h[a] \in Nat /\ h[b] \in Nat
        <4>1. a \in 1 .. n /\ b \in 1 .. n
          BY <1>1
        <4> QED  BY <1>1, <1>4, <4>1
      <3>4. l \in Int /\ l <= L[i] /\ l <= R[i]
        <4>1. top \in Int
          <5>1. L[n] \in Nat
            BY <1>1, <1>4
          <5> QED  BY <1>3, <5>1
        <4>2. l \in Int
          BY <3>1, <4>1
        <4> QED  BY <2>1, <3>2, <3>3, <4>2, SMTT(20)
      <3>5. l <= level(i)
        <4>1. L[i] \in Int /\ R[i] \in Int
          BY <2>1
        <4> QED  BY <3>4, <4>1, SmallerIs DEF level
      <3> QED  BY <2>1, <3>1, <3>4, <3>5, SMTT(20)
    <2>3. ASSUME l \in h[i] + 1 .. level(i) PROVE <<i, l>> \in cells
      <3>1. l \in Int /\ h[i] < l /\ l <= level(i) /\ 1 <= l
        BY <2>1, <2>3
      <3>2. l <= L[i] /\ l <= R[i]
        <4>1. L[i] \in Int /\ R[i] \in Int
          BY <2>1
        <4> QED  BY <3>1, <4>1, SmallerIs DEF level
      <3>3. PICK a \in 1 .. i : L[i] = h[a]
        BY <1>4
      <3>4. PICK b \in i .. n : R[i] = h[b]
        BY <1>4
      <3>5. a \in 1 .. n /\ h[a] <= L[n] /\ L[n] \in Nat
        <4>1. a \in 1 .. n
          BY <1>1
        <4> QED  BY <1>1, <1>4, <4>1
      <3>6. l \in 1 .. top
        BY <1>3, <2>1, <3>1, <3>2, <3>3, <3>5
      <3>7. h[a] >= l /\ h[b] >= l
        BY <2>1, <3>1, <3>2, <3>3, <3>4
      <3> QED  BY <3>1, <3>6, <3>7
    <2> QED  BY <2>2, <2>3
  <1>6. \A cell \in cells : cell = <<cell[1], cell[2]>> /\ cell[1] \in 1 .. n
    OBVIOUS
  <1> HIDE DEF cells, level
  <1>7. 0 \in right
    <2>1. upTo(0) = {}
      <3>1. \A i \in 1 .. n : ~(i <= 0)
        BY <1>1
      <3> QED  BY <1>6, <3>1
    <2>2. 1 .. 0 = {} /\ IsFiniteSet({}) /\ Cardinality({}) = 0
      BY FS_EmptySet
    <2>3. total(0) = 0
      BY <2>2, SumOfZeros
    <2> HIDE DEF upTo, total
    <2>4. IsFiniteSet(upTo(0)) /\ Cardinality(upTo(0)) = total(0)
      BY <2>1, <2>2, <2>3, Zenon
    <2>5. 0 \in 0 .. n
      BY <1>1
    <2> QED  BY <2>4, <2>5, Zenon
  <1>8. \A m \in 0 .. n - 1 : m \in right => m + 1 \in right
    <2> SUFFICES ASSUME NEW m \in 0 .. n - 1, m \in right PROVE m + 1 \in right
      OBVIOUS
    <2> DEFINE i == m + 1
               column == {i} \X (h[i] + 1 .. level(i))
    <2>1. /\ i \in 0 .. n /\ i \in 1 .. n /\ \A k \in 1 .. n : (k <= i <=> k <= m \/ k = i)
          /\ ~(i <= m) /\ (1 .. i) \ {i} = 1 .. m /\ i \in 1 .. i /\ \A k \in 1 .. i : k \in 1 .. n
      BY <1>1
    <2> HIDE DEF i
    <2>2. IsFiniteSet(upTo(m)) /\ Cardinality(upTo(m)) = total(m)
      OBVIOUS
    <2>3. h[i] \in Nat /\ level(i) \in Nat /\ h[i] <= level(i) /\ w[i] = level(i) - h[i] /\ w[i] \in Nat
      BY <1>1, <1>2, <2>1
    <2>4. IsFiniteSet(column) /\ Cardinality(column) = w[i]
      <3> DEFINE range == h[i] + 1 .. level(i)
      <3>1. IsFiniteSet(range) /\ Cardinality(range) = IF h[i] + 1 > level(i) THEN 0 ELSE level(i) - (h[i] + 1) + 1
        <4>1. h[i] + 1 \in Int /\ level(i) \in Int
          BY <2>3
        <4> QED  BY <4>1, FS_Interval
      <3>2. Cardinality(range) = w[i]
        <4> HIDE DEF range
        <4> QED  BY <2>3, <3>1
      <3>3. IsFiniteSet({i}) /\ Cardinality({i}) = 1
        BY FS_Singleton
      <3> HIDE DEF range
      <3>4. IsFiniteSet({i} \X range) /\ Cardinality({i} \X range) = Cardinality({i}) * Cardinality(range)
        BY <3>1, <3>3, FS_Product
      <3>5. 1 * w[i] = w[i]
        BY <2>3
      <3>6. Cardinality({i} \X range) = w[i]
        BY <3>2, <3>3, <3>4, <3>5
      <3> QED  BY <3>4, <3>6 DEF range
    <2>5. upTo(i) = upTo(m) \cup column
      <3>1. ASSUME NEW cell \in upTo(i) PROVE cell \in upTo(m) \cup column
        <4>1. cell \in cells /\ cell[1] <= i /\ cell = <<cell[1], cell[2]>> /\ cell[1] \in 1 .. n
          BY <1>6
        <4>2. cell[1] <= m \/ cell[1] = i
          BY <2>1, <4>1
        <4>3. CASE cell[1] = i
          <5>1. cell[2] \in h[i] + 1 .. level(i)
            BY <1>5, <2>1, <4>1, <4>3
          <5> QED  BY <4>1, <4>3, <5>1
        <4> QED  BY <4>1, <4>2, <4>3
      <3>2. ASSUME NEW cell \in column PROVE cell \in upTo(i)
        <4>1. cell = <<i, cell[2]>> /\ cell[2] \in h[i] + 1 .. level(i) /\ cell[1] = i /\ i <= i
          BY <2>1
        <4>2. cell \in cells
          BY <1>5, <2>1, <4>1
        <4> QED  BY <4>1, <4>2
      <3>3. ASSUME NEW cell \in upTo(m) PROVE cell \in upTo(i)
        <4>1. cell \in cells /\ cell[1] <= m /\ cell[1] \in 1 .. n
          BY <1>6
        <4> QED  BY <2>1, <4>1
      <3> HIDE DEF upTo, column
      <3> QED  BY <3>1, <3>2, <3>3
    <2>6. upTo(m) \cap column = {}
      <3>1. ASSUME NEW cell \in upTo(m) \cap column PROVE FALSE
        BY <2>1
      <3> QED  BY <3>1
    <2>7. total(i) = w[i] + total(m) /\ total(m) \in Int
      <3>1. IsFiniteSet(1 .. i) /\ IsFiniteSet(1 .. m)
        BY <1>1, <2>1, FS_Interval
      <3>2. \A k \in 1 .. i : w[k] \in Int
        BY <1>2, <2>1
      <3>3. SumFunctionOnSet(w, 1 .. i) = w[i] + SumFunctionOnSet(w, (1 .. i) \ {i})
        BY <2>1, <3>1, <3>2, SumTakesOut
      <3>4. \A k \in 1 .. m : w[k] \in Int
        BY <2>1, <3>2
      <3> QED  BY <2>1, <3>1, <3>3, <3>4, SumIsInt
    <2> HIDE DEF upTo, total, column
    <2>8. /\ IsFiniteSet(upTo(m) \cup column)
          /\ Cardinality(upTo(m) \cup column) =
               Cardinality(upTo(m)) + Cardinality(column) - Cardinality(upTo(m) \cap column)
      BY <2>2, <2>4, FS_Union
    <2>9. Cardinality(upTo(m) \cap column) = 0
      BY <2>6, FS_EmptySet
    <2>10. IsFiniteSet(upTo(i)) /\ Cardinality(upTo(i)) = total(i)
      <3>1. Cardinality(upTo(i)) = total(m) + w[i] - 0
        BY <2>2, <2>4, <2>5, <2>8, <2>9
      <3>2. total(m) + w[i] - 0 = w[i] + total(m)
        BY <2>3, <2>7
      <3> QED  BY <2>5, <2>7, <2>8, <3>1, <3>2
    <2> QED  BY <2>1, <2>10 DEF i
  <1>9. \A m \in 0 .. n : m \in right
    <2>1. 0 \in Int /\ n \in Int
      BY <1>1
    <2> HIDE DEF right
    <2> QED  BY <1>7, <1>8, <2>1, RangeInduction
  <1>10. upTo(n) = cells
    BY <1>1, <1>6
  <1>11. Cardinality(cells) = SumFunctionOnSet(w, 1 .. n)
    <2>1. n \in 0 .. n
      BY <1>1
    <2> HIDE DEF upTo, total
    <2>2. Cardinality(upTo(n)) = total(n)
      BY <1>9, <2>1, Zenon
    <2> QED  BY <1>10, <2>2, Zenon DEF total
  <1> QED  BY <1>11 DEF cells, n, w, top

\* Both ways to count the water, the two pointers and the two passes, count every
\* cell that has a bar as high on either side.
THEOREM TrapIsRight ==
  ASSUME NEW height \in Seq(Nat), height # <<>>
  PROVE  TrapRight(height)
PROOF
  <1> DEFINE n == Len(height)
             L == CHOOSE f : Forwards(height, f)
             R == CHOOSE f : Backwards(height, height[n], f)
             w == Depths(height, L, R)
  <1>1. Maxima(height, L, R)
    BY MaximaExist, Zenon DEF Maxima
  <1>2. TrapByMaxima(height) = Sum(w)
    BY DEF TrapByMaxima, Forwards, Backwards, Depths
  <1> HIDE DEF L, R
  <1>3. DOMAIN w = 1 .. n
    BY DEF Depths
  <1>4. TrapByMaxima(height) = SumFunctionOnSet(w, 1 .. n)
    BY <1>2, <1>3 DEF Sum, SumFunction
  <1>5. Trap(height) = SumFunctionOnSet(w, 1 .. n)
    BY <1>1, WateringEnds
  <1> HIDE DEF w
  <1> QED  BY <1>1, <1>4, <1>5, CellsAre DEF TrapRight, w

-----------------------------------------------------------------------------
(* NextPermutation: behind the last ascent the numbers do not rise, so nothing *)
(* behind it alone can grow; its successor is the least that can replace it.   *)

\* Arrays of n places that agree before m and have the number at m equally often.
AgreeBefore(n, s, t, m) ==
  /\ DOMAIN s = 1 .. n /\ DOMAIN t = 1 .. n
  /\ \A j \in 1 .. m - 1 : s[j] = t[j]
  /\ Occurrences(s, t[m]) = Occurrences(t, t[m])

\* What agrees up to a place and has the same numbers has them behind that place.
LEMMA RestAgrees ==
  ASSUME NEW n \in Nat, NEW s, NEW t, NEW m \in 1 .. n, AgreeBefore(n, s, t, m)
  PROVE  \E l \in m .. n : s[l] = t[m]
PROOF
  <1> USE DEF AgreeBefore
  <1> DEFINE v == t[m]
             A == {i \in 1 .. n : s[i] = v}
             B == {i \in 1 .. n : t[i] = v}
  <1> SUFFICES ASSUME \A l \in m .. n : s[l] # v PROVE FALSE
    OBVIOUS
  <1>1. IsFiniteSet(1 .. n)
    BY FS_Interval
  <1>2. IsFiniteSet(A) /\ IsFiniteSet(B) /\ Cardinality(A) = Cardinality(B)
    <2>1. Cardinality(A) = Cardinality(B)
      BY DEF Occurrences
    <2> QED  BY <1>1, <2>1, FS_Subset
  <1>3. m \notin A /\ m \in 1 .. n
    OBVIOUS
  <1>4. A \cup {m} \subseteq B
    <2>1. ASSUME NEW i \in A PROVE i \in B
      <3>1. i \in 1 .. n /\ s[i] = v /\ ~(i \in m .. n)
        OBVIOUS
      <3>2. i \in 1 .. m - 1
        BY <3>1
      <3> QED  BY <3>1, <3>2
    <2> QED  BY <1>3, <2>1
  <1>5. Cardinality(A \cup {m}) = Cardinality(A) + 1 /\ Cardinality(A) \in Nat
    BY <1>2, <1>3, FS_AddElement, FS_CardinalityType
  <1>6. Cardinality(A \cup {m}) <= Cardinality(B)
    BY <1>2, <1>4, FS_Subset
  <1> HIDE DEF A, B
  <1> QED  BY <1>2, <1>5, <1>6

\* t has the numbers of s with the places exchanged in pairs by p.
ExchangedBy(n, s, t, p) ==
  /\ DOMAIN s = 1 .. n /\ DOMAIN t = 1 .. n /\ p \in [1 .. n -> 1 .. n]
  /\ \A i \in 1 .. n : p[p[i]] = i /\ t[i] = s[p[i]]

LEMMA ExchangedCounts ==
  ASSUME NEW n \in Nat, NEW s, NEW t, NEW p, ExchangedBy(n, s, t, p), NEW v
  PROVE  Occurrences(t, v) = Occurrences(s, v)
PROOF
  <1>1. /\ DOMAIN s = 1 .. n /\ DOMAIN t = 1 .. n /\ p \in [1 .. n -> 1 .. n]
        /\ \A i \in 1 .. n : p[p[i]] = i /\ t[i] = s[p[i]]
    BY DEF ExchangedBy
  <1> QED  BY <1>1, PlacesExchanged, SMTT(20)

LEMMA ReversedIs ==
  ASSUME NEW s \in Seq(Int), NEW a \in 1 .. Len(s)
  PROVE  LET n == Len(s)
             r == Reversed(s, a, n)
         IN  /\ r \in Seq(Int) /\ Len(r) = n /\ DOMAIN r = 1 .. n
             /\ \A i \in 1 .. a - 1 : r[i] = s[i]
             /\ \A i \in a .. n : a + n - i \in a .. n /\ r[i] = s[a + n - i]
             /\ \A v : Occurrences(r, v) = Occurrences(s, v)
PROOF
  <1> DEFINE n == Len(s)
             r == Reversed(s, a, n)
             p == [i \in 1 .. n |-> IF i \in a .. n THEN a + n - i ELSE i]
  <1>1. n \in Nat /\ DOMAIN s = 1 .. n /\ a \in 1 .. n /\ \A i \in 1 .. n : s[i] \in Int
    OBVIOUS
  <1> HIDE DEF n
  <1>2. p \in [1 .. n -> 1 .. n]
    <2>1. ASSUME NEW i \in 1 .. n PROVE (IF i \in a .. n THEN a + n - i ELSE i) \in 1 .. n
      BY <1>1
    <2> QED  BY <2>1
  <1>3. \A i \in 1 .. n : p[i] = IF i \in a .. n THEN a + n - i ELSE i
    OBVIOUS
  <1> HIDE DEF p
  <1>4. \A i \in a .. n : a + n - i \in a .. n /\ i \in 1 .. n /\ a + n - (a + n - i) = i
    BY <1>1
  <1>5. \A i \in 1 .. n : p[p[i]] = i
    <2> TAKE i \in 1 .. n
    <2>1. CASE i \in a .. n
      <3>1. p[i] = a + n - i /\ a + n - i \in a .. n /\ a + n - i \in 1 .. n /\ a + n - (a + n - i) = i
        BY <1>3, <1>4, <2>1
      <3> QED  BY <1>3, <3>1
    <2>2. CASE ~(i \in a .. n)
      BY <1>3, <2>2
    <2> QED  BY <2>1, <2>2
  <1>6. r = [i \in 1 .. n |-> IF i \in a .. n THEN s[a + n - i] ELSE s[i]]
    BY <1>1 DEF Reversed
  <1>7. \A i \in 1 .. n : r[i] = s[p[i]] /\ s[p[i]] \in Int
    BY <1>1, <1>2, <1>3, <1>6
  <1>8. DOMAIN r = 1 .. n
    BY <1>6
  <1>9. r \in Seq(Int) /\ Len(r) = n
    <2>1. r = [i \in 1 .. n |-> s[p[i]]]
      BY <1>6, <1>7
    <2> HIDE DEF r
    <2> QED  BY <1>1, <1>7, <2>1
  <1> HIDE DEF r
  <1>10. \A v : Occurrences(r, v) = Occurrences(s, v)
    <2> TAKE v
    <2>1. \A i \in 1 .. n : p[p[i]] = i /\ r[i] = s[p[i]]
      BY <1>5, <1>7
    <2>2. ExchangedBy(n, s, r, p)
      BY <1>1, <1>2, <1>8, <2>1 DEF ExchangedBy
    <2> QED  BY <1>1, <2>2, ExchangedCounts
  <1>11. \A i \in 1 .. a - 1 : r[i] = s[i]
    <2> TAKE i \in 1 .. a - 1
    <2>1. i \in 1 .. n /\ ~(i \in a .. n)
      BY <1>1
    <2> QED  BY <1>3, <1>7, <2>1
  <1>12. \A i \in a .. n : a + n - i \in a .. n /\ r[i] = s[a + n - i]
    BY <1>3, <1>4, <1>7
  <1> QED  BY <1>8, <1>9, <1>10, <1>11, <1>12 DEF n, r

\* The pivot is 0 or the last ascent; behind it no number is above one before.
Descends(s, p) == \A i \in p + 1 .. Len(s) : \A j \in i .. Len(s) : s[j] <= s[i]

LEMMA PivotIs ==
  ASSUME NEW s \in Seq(Int), s # <<>>
  PROVE  LET n == Len(s)
             p == Max({0} \cup {i \in 1 .. n - 1 : s[i] < s[i + 1]})
         IN  /\ p \in 0 .. n - 1 /\ Descends(s, p)
             /\ p # 0 => s[p] < s[p + 1]
PROOF
  <1> DEFINE n == Len(s)
             ascents == {i \in 1 .. n - 1 : s[i] < s[i + 1]}
             S == {0} \cup ascents
             p == Max(S)
  <1>1. n \in Nat /\ 1 <= n /\ \A i \in 1 .. n : s[i] \in Int
    OBVIOUS
  <1>2. S \subseteq 0 .. n - 1 /\ S # {} /\ n - 1 \in Nat /\ S \subseteq Int
    BY <1>1
  <1>3. p \in S /\ \A k \in S : k <= p
    <2> HIDE DEF S
    <2>1. PICK m \in S : \A k \in S : k <= m
      BY <1>2, GreatestExists
    <2>2. Max(S) = m
      BY <1>2, <2>1, MaxIs
    <2> QED  BY <2>1, <2>2
  <1> HIDE DEF p, n
  <1>4. p \in 0 .. n - 1
    BY <1>2, <1>3
  <1>5. ASSUME p # 0 PROVE s[p] < s[p + 1]
    BY <1>3, <1>5
  <1>6. \A i \in p + 1 .. n - 1 : s[i + 1] <= s[i]
    <2> SUFFICES ASSUME NEW i \in p + 1 .. n - 1, ~(s[i + 1] <= s[i]) PROVE FALSE
      OBVIOUS
    <2>1. i \in 1 .. n - 1 /\ s[i] \in Int /\ s[i + 1] \in Int /\ ~(i <= p)
      BY <1>1, <1>4
    <2> QED  BY <1>3, <2>1
  <1>7. ASSUME NEW i \in p + 1 .. n PROVE \A j \in i .. n : s[j] <= s[i]
    <2> DEFINE low == {j \in i .. n : s[j] <= s[i]}
    <2>1. i \in low
      BY <1>1, <1>4
    <2>2. \A j \in i .. n - 1 : j \in low => j + 1 \in low
      <3> SUFFICES ASSUME NEW j \in i .. n - 1, j \in low PROVE j + 1 \in low
        OBVIOUS
      <3>1. j \in p + 1 .. n - 1 /\ j + 1 \in i .. n /\ j \in 1 .. n /\ j + 1 \in 1 .. n /\ i \in 1 .. n
        BY <1>1, <1>4
      <3>2. s[j + 1] <= s[j] /\ s[j] <= s[i] /\ s[i] \in Int /\ s[j] \in Int /\ s[j + 1] \in Int
        BY <1>1, <1>6, <3>1
      <3> QED  BY <3>1, <3>2
    <2>3. \A j \in i .. n : j \in low
      <3>1. i \in Int /\ n \in Int
        BY <1>1, <1>4
      <3> HIDE DEF low
      <3> QED  BY <2>1, <2>2, <3>1, RangeInduction
    <2> QED  BY <2>3
  <1> QED  BY <1>4, <1>5, <1>7 DEF n, p, Descends

\* What has the numbers of s and is above it differs from it at the pivot or before.
LEMMA NothingBehindPivot ==
  ASSUME NEW s \in Seq(Int), NEW p \in 0 .. Len(s), Descends(s, p),
         NEW t \in [1 .. Len(s) -> Int],
         \A k \in 1 .. Len(s) : Occurrences(s, t[k]) = Occurrences(t, t[k]),
         NEW m \in 1 .. Len(s), s[m] < t[m], \A j \in 1 .. m - 1 : s[j] = t[j]
  PROVE  m <= p
PROOF
  <1> DEFINE n == Len(s)
  <1> SUFFICES ASSUME p < m PROVE FALSE
    OBVIOUS
  <1>1. n \in Nat /\ DOMAIN s = 1 .. n /\ m \in m .. n /\ m \in p + 1 .. n /\ DOMAIN t = 1 .. n
    OBVIOUS
  <1>2. PICK l \in m .. n : s[l] = t[m]
    <2>1. Occurrences(s, t[m]) = Occurrences(t, t[m])
      OBVIOUS
    <2> HIDE DEF n
    <2>2. AgreeBefore(n, s, t, m)
      BY <1>1, <2>1 DEF AgreeBefore
    <2> QED  BY <1>1, <2>2, RestAgrees, SMTT(20) DEF n
  <1>3. s[l] <= s[m] /\ s[l] \in Int /\ s[m] \in Int
    BY <1>1 DEF Descends
  <1> QED  BY <1>2, <1>3

\* Of two arrays with the same numbers that are the same up to p, the one that
\* rises behind p is the first.
LEMMA RisingIsFirst ==
  ASSUME NEW n \in Nat, NEW s \in [1 .. n -> Int], NEW t \in [1 .. n -> Int], s # t,
         NEW p \in 0 .. n, \A j \in 1 .. p : s[j] = t[j],
         \A i \in p + 1 .. n : \A j \in i .. n : s[i] <= s[j],
         \A k \in 1 .. n : Occurrences(s, t[k]) = Occurrences(t, t[k])
  PROVE  Below(s, t)
PROOF
  <1> DEFINE differ == {i \in 1 .. n : s[i] # t[i]}
  <1>1. differ \subseteq Nat /\ differ # {}
    BY SMTT(20)
  <1>2. PICK m \in differ : \A i \in differ : m <= i
    <2> HIDE DEF differ
    <2> QED  BY <1>1, LeastNat
  <1>3. m \in 1 .. n /\ s[m] # t[m] /\ m \in m .. n
    OBVIOUS
  <1>4. \A j \in 1 .. m - 1 : s[j] = t[j]
    <2> SUFFICES ASSUME NEW j \in 1 .. m - 1, s[j] # t[j] PROVE FALSE
      OBVIOUS
    <2>1. j \in differ /\ ~(m <= j)
      BY <1>3
    <2> QED  BY <1>2, <2>1
  <1>5. m \in p + 1 .. n
    BY <1>3
  <1>6. PICK l \in m .. n : s[l] = t[m]
    <2>1. DOMAIN s = 1 .. n /\ DOMAIN t = 1 .. n
      OBVIOUS
    <2>2. Occurrences(s, t[m]) = Occurrences(t, t[m])
      BY <1>3
    <2>3. AgreeBefore(n, s, t, m)
      BY <1>4, <2>1, <2>2 DEF AgreeBefore
    <2>4. n \in Nat /\ m \in 1 .. n
      BY <1>3
    <2> HIDE DEF differ
    <2> QED  BY <2>3, <2>4, RestAgrees, SMTT(20)
  <1>7. s[m] <= s[l] /\ s[m] \in Int /\ t[m] \in Int
    BY <1>3, <1>5
  <1>8. s[m] < t[m]
    BY <1>3, <1>6, <1>7
  <1> QED  BY <1>3, <1>4, <1>8 DEF Below

\* The next array in the order of the arrays with these numbers, or the first
\* one when there is none.
THEOREM NextPermutationIsRight ==
  ASSUME NEW nums \in Seq(Int), nums # <<>>
  PROVE  NextPermutationRight(nums)
PROOF
  <1> DEFINE s == nums
             n == Len(nums)
             p == Max({0} \cup {i \in 1 .. n - 1 : nums[i] < nums[i + 1]})
             S == {i \in 1 .. n : nums[i] > nums[p]}
             q == Max(S)
             u == IF p = 0 THEN nums ELSE Swap(nums, p, q)
             next == Reversed(u, p + 1, n)
             all == {t \in [DOMAIN nums -> ToSet(nums)] : SameElements(nums, t)}
  <1>1. NextPermutation(nums) = next
    BY DEF NextPermutation
  <1>2. n \in Nat /\ 1 <= n /\ DOMAIN nums = 1 .. n /\ \A i \in 1 .. n : s[i] \in Int
    OBVIOUS
  <1>3. /\ p \in 0 .. n - 1 /\ Descends(s, p)
        /\ p # 0 => s[p] < s[p + 1]
    BY PivotIs
  <1> HIDE DEF n, p
  <1>4. p # 0 => /\ q \in p + 1 .. n /\ s[p] < s[q]
                 /\ \A i \in q + 1 .. n : s[i] <= s[p]
    <2> SUFFICES ASSUME p # 0
                 PROVE  /\ q \in p + 1 .. n /\ s[p] < s[q]
                        /\ \A i \in q + 1 .. n : s[i] <= s[p]
      OBVIOUS
    <2>1. p \in 1 .. n /\ p + 1 \in 1 .. n /\ s[p] \in Int /\ s[p + 1] \in Int /\ s[p] < s[p + 1]
      BY <1>2, <1>3
    <2>2. S \subseteq 0 .. n /\ p + 1 \in S /\ S \subseteq Int
      BY <1>2, <2>1
    <2>3. q \in S /\ \A k \in S : k <= q
      <3> HIDE DEF S
      <3>1. PICK m \in S : \A k \in S : k <= m
        BY <1>2, <2>2, GreatestExists
      <3>2. Max(S) = m
        BY <2>2, <3>1, MaxIs
      <3> QED  BY <3>1, <3>2
    <2> HIDE DEF q
    <2>4. q \in 1 .. n /\ s[q] > s[p] /\ p + 1 <= q /\ s[q] \in Int
      BY <1>2, <2>2, <2>3
    <2>5. ASSUME NEW i \in q + 1 .. n PROVE s[i] <= s[p]
      <3>1. i \in 1 .. n /\ ~(i <= q) /\ s[i] \in Int
        BY <1>2, <2>4
      <3>2. i \notin S
        BY <2>3, <3>1
      <3> QED  BY <2>1, <3>1, <3>2
    <2> QED  BY <1>3, <2>1, <2>4, <2>5
  <1> HIDE DEF q
  <1>5. /\ u \in Seq(Int) /\ Len(u) = n
        /\ \A v : Occurrences(u, v) = Occurrences(s, v)
        /\ \A k \in 1 .. n : u[k] = IF p = 0 THEN s[k]
                                    ELSE IF k = q THEN s[p] ELSE IF k = p THEN s[q] ELSE s[k]
    <2>1. CASE p = 0
      BY <1>2, <2>1 DEF n
    <2>2. CASE p # 0
      <3>1. p \in 1 .. n /\ q \in 1 .. n
        BY <1>2, <1>3, <1>4, <2>2
      <3>2. /\ Swap(nums, p, q) \in Seq(Int) /\ Len(Swap(nums, p, q)) = n
            /\ \A k \in 1 .. n :
                 Swap(nums, p, q)[k] = IF k = q THEN s[p] ELSE IF k = p THEN s[q] ELSE s[k]
            /\ \A v : Occurrences(Swap(nums, p, q), v) = Occurrences(s, v)
        BY <3>1, SwapIs, ZenonT(30) DEF n
      <3>3. u = Swap(nums, p, q)
        BY <2>2
      <3> HIDE DEF u
      <3> QED  BY <2>2, <3>2, <3>3
    <2> QED  BY <2>1, <2>2
  <1> HIDE DEF u
  <1>6. /\ next \in Seq(Int) /\ Len(next) = n /\ DOMAIN next = 1 .. n
        /\ \A i \in 1 .. p : next[i] = u[i]
        /\ \A i \in p + 1 .. n : p + 1 + n - i \in p + 1 .. n /\ next[i] = u[p + 1 + n - i]
        /\ \A v : Occurrences(next, v) = Occurrences(s, v)
    <2>1. p + 1 \in 1 .. Len(u) /\ (p + 1) - 1 = p
      BY <1>2, <1>3, <1>5
    <2>2. /\ next \in Seq(Int) /\ Len(next) = n /\ DOMAIN next = 1 .. n
          /\ \A i \in 1 .. (p + 1) - 1 : next[i] = u[i]
          /\ \A i \in p + 1 .. n : p + 1 + n - i \in p + 1 .. n /\ next[i] = u[p + 1 + n - i]
          /\ \A v : Occurrences(next, v) = Occurrences(u, v)
      BY <1>5, <2>1, ReversedIs
    <2> HIDE DEF next
    <2> QED  BY <1>5, <2>1, <2>2
  <1> HIDE DEF next
  \* Behind the pivot the swapped array still descends, and reversed it rises.
  <1>7. \A i \in p + 1 .. n : \A j \in i .. n : u[j] <= u[i]
    <2> SUFFICES ASSUME NEW i \in p + 1 .. n, NEW j \in i .. n PROVE u[j] <= u[i]
      OBVIOUS
    <2>1. i \in 1 .. n /\ j \in 1 .. n /\ j \in p + 1 .. n /\ i # p /\ j # p
          /\ s[i] \in Int /\ s[j] \in Int /\ s[j] <= s[i]
      <3>1. i \in 1 .. n /\ j \in 1 .. n /\ j \in p + 1 .. n /\ i # p /\ j # p
        BY <1>2, <1>3
      <3>2. s[j] <= s[i]
        BY <1>3 DEF Descends, n
      <3> QED  BY <1>2, <3>1, <3>2
    <2>2. CASE p = 0
      BY <1>5, <2>1, <2>2
    <2>3. CASE p # 0
      <3>1. q \in p + 1 .. n /\ s[p] < s[q] /\ s[p] \in Int /\ s[q] \in Int /\ q \in 1 .. n
        BY <1>2, <1>3, <1>4, <2>3
      <3>2. u[i] = (IF i = q THEN s[p] ELSE s[i]) /\ u[j] = (IF j = q THEN s[p] ELSE s[j])
        BY <1>5, <2>1, <2>3
      <3>3. CASE i = q /\ j = q
        BY <3>1, <3>2, <3>3
      <3>4. CASE i = q /\ j # q
        <4>1. j \in q + 1 .. n
          BY <1>2, <3>1, <3>4
        <4>2. s[j] <= s[p]
          BY <1>4, <2>3, <4>1
        <4> QED  BY <3>2, <3>4, <4>2
      <3>5. CASE i # q /\ j = q
        <4>1. s[q] <= s[i]
          BY <2>1, <3>5
        <4> QED  BY <2>1, <3>1, <3>2, <3>5, <4>1
      <3>6. CASE i # q /\ j # q
        BY <2>1, <3>2, <3>6
      <3> QED  BY <3>3, <3>4, <3>5, <3>6
    <2> QED  BY <2>2, <2>3
  <1>8. \A i \in p + 1 .. n : \A j \in i .. n : next[i] <= next[j]
    <2> TAKE i \in p + 1 .. n
    <2> TAKE j \in i .. n
    <2>1. /\ j \in p + 1 .. n /\ p + 1 + n - j \in p + 1 .. n
          /\ p + 1 + n - i \in p + 1 + n - j .. n
      BY <1>2, <1>3
    <2>2. u[p + 1 + n - i] <= u[p + 1 + n - j]
      BY <1>7, <2>1
    <2> QED  BY <1>6, <2>1, <2>2
  <1>9. next \in all
    <2>1. next \in [1 .. n -> ToSet(nums)]
      <3>1. ASSUME NEW i \in 1 .. n PROVE next[i] \in ToSet(nums)
        <4>1. \A k \in 1 .. n : s[k] \in ToSet(nums)
          BY <1>2 DEF ToSet
        <4>2. \E k \in 1 .. n : next[i] = u[k]
          <5>1. CASE i \in 1 .. p
            BY <1>6, <5>1
          <5>2. CASE i \in p + 1 .. n
            <6>1. p + 1 + n - i \in 1 .. n
              BY <1>2, <1>3, <5>2
            <6> QED  BY <1>6, <5>2, <6>1
          <5> QED  BY <1>2, <1>3, <5>1, <5>2
        <4>3. \A k \in 1 .. n : \E l \in 1 .. n : u[k] = s[l]
          <5> TAKE k \in 1 .. n
          <5>1. p # 0 => p \in 1 .. n /\ q \in 1 .. n
            BY <1>2, <1>3, <1>4
          <5> QED  BY <1>5, <5>1
        <4> QED  BY <4>1, <4>2, <4>3
      <3>2. next = [i \in 1 .. n |-> next[i]]
        BY <1>6
      <3> QED  BY <3>1, <3>2
    <2>2. SameElements(nums, next)
      BY <1>6 DEF SameElements, n
    <2> QED  BY <1>2, <2>1, <2>2
  <1>10. ASSUME NEW t \in all
         PROVE  /\ t \in [1 .. n -> Int]
                /\ \A k \in 1 .. n : Occurrences(s, t[k]) = Occurrences(t, t[k])
                /\ \A k \in 1 .. n : Occurrences(next, t[k]) = Occurrences(t, t[k])
    <2>1. t \in [1 .. n -> ToSet(nums)] /\ SameElements(nums, t)
      BY <1>2, <1>10
    <2>2. ToSet(nums) \subseteq Int
      BY <1>2 DEF ToSet
    <2>3. \A k \in 1 .. n : Occurrences(s, t[k]) = Occurrences(t, t[k])
      BY <2>1 DEF SameElements
    <2> QED  BY <1>6, <2>1, <2>2, <2>3
  <1> HIDE DEF all
  <1>11. ASSUME NEW t \in all, Below(s, t)
         PROVE  p # 0 /\ \E m \in 1 .. p : s[m] < t[m] /\ \A j \in 1 .. m - 1 : s[j] = t[j]
    <2>1. PICK m \in 1 .. n : s[m] < t[m] /\ \A j \in 1 .. m - 1 : s[j] = t[j]
      BY <1>2, <1>11 DEF Below
    <2>2. p \in 0 .. n
      BY <1>2, <1>3
    <2>3. m <= p
      BY <1>3, <1>10, <2>1, <2>2, NothingBehindPivot DEF n
    <2>4. m \in 1 .. p /\ p # 0
      BY <1>2, <1>3, <2>3
    <2> QED  BY <2>1, <2>4
  <1>12. CASE p = 0
    <2>1. ~ \E t \in all : Below(nums, t)
      BY <1>11, <1>12
    <2>2. Sorted(next)
      <3>1. \A i \in 1 .. n - 1 : i \in p + 1 .. n /\ i + 1 \in i .. n
        BY <1>2, <1>12
      <3> QED  BY <1>6, <1>8, <3>1 DEF Sorted
    <2> QED  BY <1>1, <1>9, <2>1, <2>2 DEF NextPermutationRight, all
  <1>13. CASE p # 0
    <2>1. p \in 1 .. n /\ p \in 1 .. p /\ p # q /\ s[p] \in Int /\ s[q] \in Int /\ s[p] < s[q]
          /\ q \in 1 .. n
      BY <1>2, <1>3, <1>4, <1>13
    <2>2. next[p] = s[q] /\ \A j \in 1 .. p - 1 : next[j] = s[j]
      <3>1. \A j \in 1 .. p - 1 : j \in 1 .. p /\ j \in 1 .. n /\ j # p /\ j # q
        BY <1>2, <1>4, <1>13, <2>1
      <3>2. u[p] = s[q] /\ \A j \in 1 .. p - 1 : u[j] = s[j]
        BY <1>5, <1>13, <2>1, <3>1
      <3> QED  BY <1>6, <2>1, <3>1, <3>2
    <2>3. Below(nums, next)
      BY <1>2, <2>1, <2>2 DEF Below
    <2>4. ASSUME NEW t \in all, Below(nums, t), t # next PROVE Below(next, t)
      <3>1. PICK m \in 1 .. p : s[m] < t[m] /\ \A j \in 1 .. m - 1 : s[j] = t[j]
        BY <1>11, <2>4
      <3>2. t \in [1 .. n -> Int] /\ m \in 1 .. n
        BY <1>2, <1>3, <1>10
      <3>3. CASE m # p
        <4>1. m \in 1 .. p - 1 /\ \A j \in 1 .. m - 1 : j \in 1 .. p - 1
          BY <1>3, <3>3
        <4>2. next[m] < t[m] /\ \A j \in 1 .. m - 1 : next[j] = t[j]
          BY <2>2, <3>1, <4>1
        <4> QED  BY <1>6, <3>2, <4>2 DEF Below
      <3>4. CASE m = p
        <4>1. \A j \in 1 .. p - 1 : next[j] = t[j]
          BY <2>2, <3>1, <3>4
        <4>2. PICK l \in p .. n : s[l] = t[p]
          <5>1. /\ DOMAIN s = 1 .. n /\ DOMAIN t = 1 .. n /\ p \in p .. n
                /\ \A j \in 1 .. p - 1 : s[j] = t[j]
                /\ Occurrences(s, t[p]) = Occurrences(t, t[p])
            BY <1>2, <1>10, <2>1, <3>1, <3>2, <3>4
          <5>2. AgreeBefore(n, s, t, p)
            BY <5>1 DEF AgreeBefore
          <5> QED  BY <1>2, <2>1, <5>2, RestAgrees
        <4>3. s[q] <= t[p] /\ t[p] \in Int
          <5>1. l \in 1 .. n /\ s[l] \in Int /\ s[p] < s[l]
            BY <1>2, <2>1, <3>1, <3>4, <4>2
          <5>2. l # p
            BY <2>1, <5>1
          <5>3. ~(l \in q + 1 .. n)
            BY <1>4, <1>13, <2>1, <5>1
          <5>4. l \in p + 1 .. n /\ q \in l .. n
            BY <1>2, <2>1, <4>2, <5>2, <5>3
          <5>5. s[q] <= s[l]
            BY <1>3, <5>4 DEF Descends, n
          <5> QED  BY <4>2, <5>1, <5>5
        <4>4. CASE s[q] < t[p]
          BY <1>6, <2>1, <2>2, <4>1, <4>4 DEF Below
        <4>5. CASE s[q] = t[p]
          <5>1. \A j \in 1 .. p : next[j] = t[j]
            <6> TAKE j \in 1 .. p
            <6>1. j = p \/ j \in 1 .. p - 1
              BY <1>3
            <6> QED  BY <2>2, <4>1, <4>5, <6>1
          <5>2. next \in [1 .. n -> Int]
            BY <1>6
          <5>3. p \in 0 .. n /\ next # t
            BY <2>1, <2>4
          <5>4. \A k \in 1 .. n : Occurrences(next, t[k]) = Occurrences(t, t[k])
            BY <1>10
          <5> QED  BY <1>2, <1>8, <3>2, <5>1, <5>2, <5>3, <5>4, RisingIsFirst
        <4> QED  BY <2>1, <4>3, <4>4, <4>5
      <3> QED  BY <3>3, <3>4
    <2> QED  BY <1>1, <1>9, <2>3, <2>4 DEF NextPermutationRight, all
  <1> QED  BY <1>12, <1>13

-----------------------------------------------------------------------------
LEMMA ShiftedIs ==
  ASSUME NEW nums \in Seq(Int), nums # <<>>, NEW by \in Nat, \A i \in 1 .. Len(nums) : nums[i] + by >= 0
  PROVE  Shifted(nums, by) \in Seq(Int) /\ Shifted(nums, by) \in Seq(Nat) /\ Shifted(nums, by) # <<>>
PROOF
  <1>1. Shifted(nums, by) = [i \in 1 .. Len(nums) |-> nums[i] + by]
    BY DEF Shifted
  <1>2. \A i \in 1 .. Len(nums) : nums[i] + by \in Nat /\ nums[i] + by \in Int
    OBVIOUS
  <1>3. Shifted(nums, by) \in Seq(Nat) /\ Shifted(nums, by) \in Seq(Int)
    BY <1>1, <1>2
  <1>4. DOMAIN Shifted(nums, by) = 1 .. Len(nums) /\ 1 \in 1 .. Len(nums)
    BY <1>1
  <1> QED  BY <1>3, <1>4

\* Every solution of the array problems returns what its problem asks for, on
\* arrays of every length and of all numbers from -1 on (one more is a height).
THEOREM ArraysAreRight ==
  ASSUME NEW nums \in Seq(Int), \A i \in 1 .. Len(nums) : nums[i] >= -1
  PROVE  ArraysRight(nums)
PROOF
  <1> SUFFICES ASSUME nums # <<>>
               PROVE  /\ MaxSubArrayRight(nums) /\ MaxProfitRight(nums) /\ MaxProductRight(nums)
                      /\ MajorityRight(nums) /\ ProductExceptSelfRight(nums)
                      /\ \A k \in -1..1 : SubarraySumRight(nums, k)
                      /\ LongestConsecutiveRight(nums)
                      /\ SortColorsRight(nums) /\ NextPermutationRight(nums)
                      /\ \A k \in 0..Len(nums) : RotateRight(nums, k)
                      /\ FindDuplicatesRight(Shifted(nums, 2)) /\ FindDuplicateRight(Shifted(nums, 2))
                      /\ MaxAreaRight(Shifted(nums, 1)) /\ TrapRight(Shifted(nums, 1))
    BY DEF ArraysRight
  <1>1. MaxSubArrayRight(nums) /\ MaxProfitRight(nums) /\ MaxProductRight(nums)
    BY MaxSubArrayIsRight, MaxProfitIsRight, MaxProductIsRight
  <1>2. MajorityRight(nums) /\ ProductExceptSelfRight(nums) /\ LongestConsecutiveRight(nums)
    BY MajorityElementIsRight, ProductExceptSelfIsRight, LongestConsecutiveIsRight
  <1>3. \A k \in -1..1 : SubarraySumRight(nums, k)
    BY SubarraySumIsRight
  <1>4. SortColorsRight(nums) /\ NextPermutationRight(nums)
    BY SortColorsIsRight, NextPermutationIsRight
  <1>5. \A k \in 0..Len(nums) : RotateRight(nums, k)
    BY RotateIsRight
  <1>6. \A i \in 1 .. Len(nums) : nums[i] + 1 >= 0 /\ nums[i] + 2 >= 0
    OBVIOUS
  <1>7. /\ Shifted(nums, 1) \in Seq(Nat) /\ Shifted(nums, 1) # <<>>
        /\ Shifted(nums, 2) \in Seq(Int)
    BY <1>6, ShiftedIs
  <1>8. FindDuplicatesRight(Shifted(nums, 2)) /\ FindDuplicateRight(Shifted(nums, 2))
    BY <1>7, FindDuplicatesIsRight, FindDuplicateIsRight
  <1>9. MaxAreaRight(Shifted(nums, 1)) /\ TrapRight(Shifted(nums, 1))
    BY <1>7, MaxAreaIsRight, TrapIsRight
  <1> QED  BY <1>1, <1>2, <1>3, <1>4, <1>5, <1>8, <1>9
=============================================================================
