----------------------------- MODULE DataLemmas ------------------------------
(* What the operators on data that the models share do, for all finite sets   *)
(* and all sequences: induction by a least counterexample, sums over a        *)
(* function, and sequences.  The proofs about the designs cite these facts.    *)
EXTENDS SequencesExt, FiniteSetTheorems, SequenceTheorems, WellFoundedInduction, TLAPS

\* A set of naturals that is not empty has a least element: with the set of
\* the counterexamples it takes the place of induction.
LEMMA LeastNat ==
  ASSUME NEW S, S \subseteq Nat, S # {}
  PROVE  \E m \in S : \A k \in S : m <= k
PROOF
  <1> DEFINE Less == {ss \in Nat \X Nat : ss[1] < ss[2]}
  <1>1. Less = OpToRel(<, Nat)
    BY Zenon DEF OpToRel
  <1>2. IsWellFoundedOn(Less, Nat)
    BY <1>1, NatLessThanWellFounded, Zenon
  <1>3. \A a, b \in Nat : <<a, b>> \in Less <=> a < b
    <2> TAKE a, b \in Nat
    <2>1. <<a, b>> \in Less <=> <<a, b>> \in Nat \X Nat /\ <<a, b>>[1] < <<a, b>>[2]
      BY Zenon DEF Less
    <2> QED  BY <2>1
  <1> HIDE DEF Less
  <1>4. PICK m \in S : \A k \in S : <<k, m>> \notin Less
    BY <1>2, WFMin
  <1>5. \A k \in S : m <= k
    <2> TAKE k \in S
    <2>1. m \in Nat /\ k \in Nat
      OBVIOUS
    <2>2. ~(k < m)
      BY <1>3, <1>4, <2>1
    <2> QED  BY <2>1, <2>2
  <1> QED  BY <1>5

\* Induction on the size of a finite set: among the counterexamples there is one
\* that is none any more when a member is taken away.
LEMMA SmallestCounterexample ==
  ASSUME NEW Bad, Bad # {}, \A U \in Bad : IsFiniteSet(U)
  PROVE  \E U \in Bad : \A x \in U : U \ {x} \notin Bad
PROOF
  <1> DEFINE sizes == {n \in Nat : \E U \in Bad : Cardinality(U) = n}
  <1>1. \A U \in Bad : Cardinality(U) \in Nat
    BY FS_CardinalityType
  <1>2. sizes \subseteq Nat /\ sizes # {}
    BY <1>1
  <1>3. PICK n \in sizes : \A k \in sizes : n <= k
    <2> HIDE DEF sizes
    <2> QED  BY <1>2, LeastNat
  <1>4. PICK U \in Bad : Cardinality(U) = n
    OBVIOUS
  <1>5. ASSUME NEW x \in U, U \ {x} \in Bad
        PROVE  FALSE
    <2>1. Cardinality(U \ {x}) = Cardinality(U) - 1
      BY <1>5, FS_RemoveElement
    <2>2. Cardinality(U \ {x}) \in sizes
      BY <1>1, <1>5
    <2>3. n <= Cardinality(U \ {x})
      BY <1>3, <2>2
    <2>4. n \in Nat
      OBVIOUS
    <2> HIDE DEF sizes
    <2> QED  BY <1>4, <2>1, <2>3, <2>4
  <1> QED  BY <1>5

\* Induction over a range of integers: a set that holds the first, and with each
\* the next, holds all of them.
LEMMA RangeInduction ==
  ASSUME NEW lo \in Int, NEW hi \in Int, NEW S, lo \in S,
         \A i \in lo .. hi - 1 : i \in S => i + 1 \in S
  PROVE  \A i \in lo .. hi : i \in S
PROOF
  <1> SUFFICES ASSUME NEW i \in lo .. hi, i \notin S PROVE FALSE
    OBVIOUS
  <1> DEFINE bad == {k \in Nat : lo + k <= hi /\ lo + k \notin S}
  <1>1. i - lo \in Nat /\ lo + (i - lo) = i /\ i <= hi
    OBVIOUS
  <1>2. i - lo \in bad /\ bad \subseteq Nat
    BY <1>1
  <1>3. PICK m \in bad : \A k \in bad : m <= k
    <2> HIDE DEF bad
    <2> QED  BY <1>2, LeastNat
  <1>4. m \in Nat /\ lo + m <= hi /\ lo + m \notin S
    OBVIOUS
  <1>5. m # 0
    BY <1>4
  <1>6. m - 1 \in Nat /\ lo + (m - 1) \in lo .. hi - 1 /\ (lo + (m - 1)) + 1 = lo + m
    BY <1>4, <1>5
  <1>7. lo + (m - 1) \notin S
    BY <1>4, <1>6
  <1>8. m - 1 \in bad
    BY <1>4, <1>6, <1>7
  <1>9. m <= m - 1
    <2> HIDE DEF bad
    <2> QED  BY <1>3, <1>8
  <1> QED  BY <1>4, <1>9

LEMMA DownInduction ==
  ASSUME NEW lo \in Int, NEW hi \in Int, NEW S, hi \in S,
         \A i \in lo + 1 .. hi : i \in S => i - 1 \in S
  PROVE  \A i \in lo .. hi : i \in S
PROOF
  <1> DEFINE up == {i \in Int : lo + hi - i \in S}
  <1>1. lo \in up
    BY DEF up
  <1>2. \A i \in lo .. hi - 1 : i \in up => i + 1 \in up
    <2> SUFFICES ASSUME NEW i \in lo .. hi - 1, i \in up PROVE i + 1 \in up
      OBVIOUS
    <2>1. lo + hi - i \in lo + 1 .. hi /\ (lo + hi - i) - 1 = lo + hi - (i + 1) /\ i + 1 \in Int
      OBVIOUS
    <2>2. lo + hi - i \in S
      OBVIOUS
    <2> QED  BY <2>1, <2>2
  <1>3. \A i \in lo .. hi : i \in up
    <2> HIDE DEF up
    <2> QED  BY <1>1, <1>2, RangeInduction
  <1>4. ASSUME NEW i \in lo .. hi PROVE i \in S
    <2>1. lo + hi - i \in lo .. hi /\ lo + hi - (lo + hi - i) = i
      OBVIOUS
    <2> QED  BY <1>3, <2>1
  <1> QED  BY <1>4

\* A function may be defined by recursion over a range: by its value at lo, and
\* a step from one value to the next.
Steps(A, lo, hi) == [(lo + 1 .. hi) \X A -> A]
Follows(f, A, lo, hi, base, step) ==
  /\ f \in [lo .. hi -> A] /\ f[lo] = base
  /\ \A i \in lo + 1 .. hi : f[i] = step[<<i, f[i - 1]>>]

LEMMA RecursionExists ==
  ASSUME NEW A, NEW lo \in Int, NEW hi \in Int, lo <= hi, NEW base \in A,
         NEW step \in Steps(A, lo, hi)
  PROVE  \E f : Follows(f, A, lo, hi, base, step)
PROOF
  <1> USE DEF Steps
  <1> DEFINE S == {m \in lo .. hi : \E f : Follows(f, A, lo, m, base, step)}
  <1>1. lo \in S
    <2> DEFINE g == [i \in lo .. lo |-> base]
    <2>1. Follows(g, A, lo, lo, base, step)
      BY DEF Follows
    <2> QED  BY <2>1
  <1>2. ASSUME NEW m \in lo .. hi - 1, m \in S PROVE m + 1 \in S
    <2>1. PICK f : Follows(f, A, lo, m, base, step)
      BY <1>2
    <2>2. m + 1 \in lo + 1 .. hi /\ f[m] \in A /\ <<m + 1, f[m]>> \in (lo + 1 .. hi) \X A
      BY <2>1 DEF Follows
    <2> DEFINE new == step[<<m + 1, f[m]>>]
               g == [i \in lo .. m + 1 |-> IF i = m + 1 THEN new ELSE f[i]]
    <2>3. new \in A
      BY <2>2
    <2> HIDE DEF new
    <2>4. g \in [lo .. m + 1 -> A] /\ g[lo] = base /\ g[m + 1] = new
          /\ \A i \in lo .. m : g[i] = f[i]
      BY <2>1, <2>3 DEF Follows
    <2> HIDE DEF g
    <2>5. ASSUME NEW i \in lo + 1 .. m + 1 PROVE g[i] = step[<<i, g[i - 1]>>]
      <3>1. CASE i = m + 1
        <4>1. g[i - 1] = f[m]
          BY <2>4, <3>1
        <4> QED  BY <2>4, <3>1, <4>1 DEF new
      <3>2. CASE i # m + 1
        <4>1. i \in lo + 1 .. m /\ i - 1 \in lo .. m /\ i \in lo .. m
          BY <3>2
        <4> QED  BY <2>1, <2>4, <4>1 DEF Follows
      <3> QED  BY <3>1, <3>2
    <2>6. Follows(g, A, lo, m + 1, base, step) /\ m + 1 \in lo .. hi
      BY <2>4, <2>5 DEF Follows
    <2> QED  BY <2>6
  <1>3. \A m \in lo .. hi : m \in S
    <2> HIDE DEF S
    <2> QED  BY <1>1, <1>2, RangeInduction
  <1>4. hi \in S
    BY <1>3
  <1> QED  BY <1>4

\* Nor does it matter from which end.
StepsDown(A, lo, hi) == [(lo .. hi - 1) \X A -> A]
FollowsDown(f, A, lo, hi, base, step) ==
  /\ f \in [lo .. hi -> A] /\ f[hi] = base
  /\ \A i \in lo .. hi - 1 : f[i] = step[<<i, f[i + 1]>>]

LEMMA RecursionDownExists ==
  ASSUME NEW A, NEW lo \in Int, NEW hi \in Int, lo <= hi, NEW base \in A,
         NEW step \in StepsDown(A, lo, hi)
  PROVE  \E f : FollowsDown(f, A, lo, hi, base, step)
PROOF
  <1> USE DEF StepsDown
  <1> DEFINE up == [ia \in (lo + 1 .. hi) \X A |-> step[<<lo + hi - ia[1], ia[2]>>]]
  <1>1. up \in Steps(A, lo, hi)
    <2>1. \A ia \in (lo + 1 .. hi) \X A : <<lo + hi - ia[1], ia[2]>> \in (lo .. hi - 1) \X A
      OBVIOUS
    <2> QED  BY <2>1 DEF Steps
  <1>2. \A i \in lo + 1 .. hi, a \in A : up[<<i, a>>] = step[<<lo + hi - i, a>>]
    OBVIOUS
  <1> HIDE DEF up
  <1>3. PICK f : Follows(f, A, lo, hi, base, up)
    BY <1>1, RecursionExists
  <1> DEFINE g == [i \in lo .. hi |-> f[lo + hi - i]]
  <1>4. g \in [lo .. hi -> A] /\ g[hi] = base
    BY <1>3 DEF Follows
  <1>5. ASSUME NEW i \in lo .. hi - 1 PROVE g[i] = step[<<i, g[i + 1]>>]
    <2>1. /\ lo + hi - i \in lo + 1 .. hi /\ (lo + hi - i) - 1 \in lo .. hi
          /\ (lo + hi - i) - 1 = lo + hi - (i + 1) /\ lo + hi - (lo + hi - i) = i
          /\ i + 1 \in lo .. hi
      OBVIOUS
    <2>2. f[lo + hi - i] = up[<<lo + hi - i, f[(lo + hi - i) - 1]>>]
      BY <1>3, <2>1 DEF Follows
    <2>3. f[(lo + hi - i) - 1] \in A
      BY <1>3, <2>1 DEF Follows
    <2>4. g[i + 1] = f[(lo + hi - i) - 1] /\ g[i] = f[lo + hi - i]
      BY <2>1
    <2> HIDE DEF g
    <2> QED  BY <1>2, <2>1, <2>2, <2>3, <2>4
  <1>6. FollowsDown(g, A, lo, hi, base, step)
    BY <1>4, <1>5 DEF FollowsDown
  <1> QED  BY <1>6

-----------------------------------------------------------------------------
(* Sums.  SumFunctionOnSet adds f[x] for the members of a set, picked one by   *)
(* one; the library defines it with a function on the subsets, which has to    *)
(* be shown to exist.                                                          *)

Picked(T) == CHOOSE x \in T : TRUE
SumStep(f, sum, T) == IF T = {} THEN 0 ELSE f[Picked(T)] + sum[T \ {Picked(T)}]
SumsUp(f, S, sum) == sum = [T \in SUBSET S |-> SumStep(f, sum, T)]
Sums(f, S) == CHOOSE sum : SumsUp(f, S, sum)

LEMMA SumIsSums ==
  ASSUME NEW f, NEW S
  PROVE  SumFunctionOnSet(f, S) = Sums(f, S)[S]
BY DEF SumFunctionOnSet, FoldFunctionOnSet, MapThenFoldSet, Sums, SumsUp, SumStep, Picked

LEMMA PickedIsMember ==
  ASSUME NEW T, T # {}
  PROVE  Picked(T) \in T
BY DEF Picked

\* Two such functions agree wherever both are defined.
LEMMA SumsAgree ==
  ASSUME NEW f, NEW S, NEW R, NEW s, NEW r, SumsUp(f, S, s), SumsUp(f, R, r)
  PROVE  \A T \in SUBSET (S \cap R) : IsFiniteSet(T) => s[T] = r[T]
PROOF
  <1> DEFINE bad == {T \in SUBSET (S \cap R) : IsFiniteSet(T) /\ s[T] # r[T]}
  <1>1. SUFFICES ASSUME bad # {} PROVE FALSE
    OBVIOUS
  <1>2. \A T \in bad : IsFiniteSet(T)
    OBVIOUS
  <1>3. PICK U \in bad : \A x \in U : U \ {x} \notin bad
    <2> HIDE DEF bad
    <2> QED  BY <1>1, <1>2, SmallestCounterexample
  <1>4. U \in SUBSET S /\ U \in SUBSET R /\ IsFiniteSet(U) /\ s[U] # r[U]
    OBVIOUS
  <1>5. s[U] = SumStep(f, s, U) /\ r[U] = SumStep(f, r, U)
    BY <1>4 DEF SumsUp
  <1>6. U # {}
    BY <1>4, <1>5 DEF SumStep
  <1> DEFINE V == U \ {Picked(U)}
  <1>7. Picked(U) \in U
    BY <1>6, PickedIsMember
  <1>8. V \in SUBSET (S \cap R) /\ IsFiniteSet(V)
    BY <1>4, FS_RemoveElement
  <1>9. s[V] = r[V]
    BY <1>3, <1>7, <1>8
  <1> QED  BY <1>4, <1>5, <1>6, <1>9 DEF SumStep

\* They exist for every finite set.
LEMMA SumsExist ==
  ASSUME NEW f, NEW S, IsFiniteSet(S)
  PROVE  SumsUp(f, S, Sums(f, S))
PROOF
  <1> DEFINE Fails(T) == \A s : ~ SumsUp(f, T, s)
             bad == {T \in SUBSET S : Fails(T)}
  <1>1. SUFFICES ASSUME bad # {} PROVE FALSE
    <2>1. S \in SUBSET S
      OBVIOUS
    <2>2. S \in bad <=> Fails(S)
      BY <2>1
    <2>3. ~ Fails(S) => SumsUp(f, S, Sums(f, S))
      BY DEF Sums
    <2> HIDE DEF bad, Fails
    <2> QED  BY <2>2, <2>3
  <1>2. \A T \in bad : IsFiniteSet(T)
    BY FS_Subset
  <1>3. PICK U \in bad : \A x \in U : U \ {x} \notin bad
    <2> HIDE DEF bad
    <2> QED  BY <1>1, <1>2, SmallestCounterexample
  <1> DEFINE part(x) == Sums(f, U \ {x})
             sum == [T \in SUBSET U |->
                       IF T = U THEN IF U = {} THEN 0 ELSE f[Picked(U)] + part(Picked(U))[U \ {Picked(U)}]
                       ELSE part(CHOOSE x \in U : x \notin T)[T]]
  <1>4. \A x \in U : SumsUp(f, U \ {x}, part(x))
    <2> TAKE x \in U
    <2>1. U \ {x} \in SUBSET S /\ U \ {x} \notin bad
      BY <1>3
    <2>2. \E s : SumsUp(f, U \ {x}, s)
      BY <2>1
    <2> QED  BY <2>2 DEF Sums
  <1>5. \A x, y \in U : \A T \in SUBSET ((U \ {x}) \cap (U \ {y})) : part(x)[T] = part(y)[T]
    <2> TAKE x, y \in U
    <2> TAKE T \in SUBSET ((U \ {x}) \cap (U \ {y}))
    <2>1. IsFiniteSet(T)
      BY <1>2, FS_Subset
    <2>2. SumsUp(f, U \ {x}, part(x)) /\ SumsUp(f, U \ {y}, part(y))
      BY <1>4
    <2> HIDE DEF bad, part
    <2>3. \A W \in SUBSET ((U \ {x}) \cap (U \ {y})) : IsFiniteSet(W) => part(x)[W] = part(y)[W]
      BY <2>2, SumsAgree
    <2> QED  BY <2>1, <2>3
  <1>6. SumsUp(f, U, sum)
    <2>1. ASSUME NEW T \in SUBSET U PROVE sum[T] = SumStep(f, sum, T)
      <3>1. CASE T = {} /\ U = {}
        BY <3>1 DEF SumStep
      <3>2. CASE T = U /\ U # {}
        <4> DEFINE p == Picked(U)
                   V == U \ {p}
        <4>1. p \in U /\ V \in SUBSET U /\ V # U
          BY <3>2, PickedIsMember
        <4>2. sum[U] = f[p] + part(p)[V]
          BY <3>2
        <4> DEFINE q == CHOOSE x \in U : x \notin V
        <4>3. q = p
          BY <4>1
        <4>4. sum[V] = part(q)[V]
          BY <4>1
        <4> HIDE DEF sum, p, q, V
        <4>5. SumStep(f, sum, T) = f[p] + sum[V]
          BY <3>2 DEF SumStep, p, V
        <4> QED  BY <3>2, <4>2, <4>3, <4>4, <4>5
      <3>3. CASE T # U /\ T = {}
        <4> DEFINE q == CHOOSE x \in U : x \notin T
        <4>1. q \in U
          BY <3>3
        <4>2. sum[T] = part(q)[T]
          BY <3>3
        <4>3. part(q)[T] = SumStep(f, part(q), T)
          <5> HIDE DEF q, part
          <5> QED  BY <1>4, <3>3, <4>1 DEF SumsUp
        <4> HIDE DEF sum, part, q
        <4> QED  BY <3>3, <4>2, <4>3 DEF SumStep
      <3>4. CASE T # U /\ T # {}
        <4> DEFINE q == CHOOSE x \in U : x \notin T
                   p == Picked(T)
                   V == T \ {p}
                   w == CHOOSE x \in U : x \notin V
        <4>1. q \in U /\ q \notin T /\ T \in SUBSET (U \ {q})
          BY <3>4
        <4>2. p \in T /\ V \in SUBSET U /\ V # U /\ V \in SUBSET (U \ {q})
          BY <3>4, <4>1, PickedIsMember
        <4>3. w \in U /\ w \notin V
          BY <4>2
        <4>4. sum[T] = part(q)[T] /\ sum[V] = part(w)[V]
          BY <3>4, <4>2
        <4>5. part(q)[T] = SumStep(f, part(q), T)
          <5> HIDE DEF q, part
          <5> QED  BY <1>4, <4>1 DEF SumsUp
        <4> HIDE DEF sum, part, q, w
        <4>6. part(q)[V] = part(w)[V]
          BY <1>5, <4>1, <4>2, <4>3
        <4> QED  BY <3>4, <4>4, <4>5, <4>6 DEF SumStep
      <3> HIDE DEF sum
      <3> QED  BY <3>1, <3>2, <3>3, <3>4
    <2>2. sum = [T \in SUBSET U |-> sum[T]]
      OBVIOUS
    <2> HIDE DEF sum
    <2> QED  BY <2>1, <2>2 DEF SumsUp
  <1> HIDE DEF sum
  <1> QED  BY <1>6

\* What the sum is: nothing for the empty set, and otherwise one value more
\* than the sum without the picked member.
LEMMA SumUnfolds ==
  ASSUME NEW f, NEW S, IsFiniteSet(S)
  PROVE  SumFunctionOnSet(f, S) =
           IF S = {} THEN 0
           ELSE f[Picked(S)] + SumFunctionOnSet(f, S \ {Picked(S)})
PROOF
  <1>1. Sums(f, S)[S] = SumStep(f, Sums(f, S), S)
    <2> DEFINE s == Sums(f, S)
    <2>1. SumsUp(f, S, s)
      BY SumsExist
    <2> HIDE DEF s
    <2>2. s = [T \in SUBSET S |-> SumStep(f, s, T)]
      BY <2>1 DEF SumsUp
    <2>3. S \in SUBSET S
      OBVIOUS
    <2>4. s[S] = SumStep(f, s, S)
      BY <2>2, <2>3
    <2> QED  BY <2>4 DEF s
  <1>2. CASE S = {}
    BY <1>1, <1>2, SumIsSums DEF SumStep
  <1>3. CASE S # {}
    <2> DEFINE V == S \ {Picked(S)}
    <2>1. IsFiniteSet(V) /\ V \in SUBSET (S \cap V)
      BY FS_RemoveElement
    <2>2. Sums(f, S)[V] = Sums(f, V)[V]
      <3> HIDE DEF V
      <3>1. SumsUp(f, S, Sums(f, S)) /\ SumsUp(f, V, Sums(f, V))
        BY <2>1, SumsExist
      <3> QED  BY <2>1, <3>1, SumsAgree
    <2>3. SumFunctionOnSet(f, V) = Sums(f, V)[V] /\ SumFunctionOnSet(f, S) = Sums(f, S)[S]
      BY SumIsSums
    <2> QED  BY <1>1, <1>3, <2>2, <2>3 DEF SumStep
  <1> QED  BY <1>2, <1>3

\* A sum of integers is one.
LEMMA SumIsInt ==
  ASSUME NEW S, IsFiniteSet(S), NEW f, \A x \in S : f[x] \in Int
  PROVE  SumFunctionOnSet(f, S) \in Int
PROOF
  <1> DEFINE bad == {T \in SUBSET S : SumFunctionOnSet(f, T) \notin Int}
  <1>1. SUFFICES ASSUME bad # {} PROVE FALSE
    OBVIOUS
  <1>2. \A T \in bad : IsFiniteSet(T)
    BY FS_Subset
  <1>3. PICK U \in bad : \A x \in U : U \ {x} \notin bad
    <2> HIDE DEF bad
    <2> QED  BY <1>1, <1>2, SmallestCounterexample
  <1>4. IsFiniteSet(U) /\ U \in SUBSET S /\ SumFunctionOnSet(f, U) \notin Int
    BY <1>2
  <1>5. U # {} /\ SumFunctionOnSet(f, U) = f[Picked(U)] + SumFunctionOnSet(f, U \ {Picked(U)})
    BY <1>4, SumUnfolds
  <1>6. Picked(U) \in U
    BY <1>5, PickedIsMember
  <1>7. U \ {Picked(U)} \in SUBSET S /\ U \ {Picked(U)} \notin bad
    BY <1>3, <1>4, <1>6
  <1>8. SumFunctionOnSet(f, U \ {Picked(U)}) \in Int /\ f[Picked(U)] \in Int
    BY <1>4, <1>6, <1>7
  <1> QED  BY <1>4, <1>5, <1>8

\* Any member can be taken out of a sum, not only the picked one.
LEMMA SumTakesOut ==
  ASSUME NEW S, IsFiniteSet(S), NEW f, \A x \in S : f[x] \in Int
  PROVE  \A x \in S : SumFunctionOnSet(f, S) = f[x] + SumFunctionOnSet(f, S \ {x})
PROOF
  <1> DEFINE Sum(T) == SumFunctionOnSet(f, T)
             Right(T) == \A x \in T : Sum(T) = f[x] + Sum(T \ {x})
             bad == {T \in SUBSET S : ~ Right(T)}
  <1>1. SUFFICES ASSUME bad # {} PROVE FALSE
    <2>1. S \in SUBSET S /\ (S \in bad \/ Right(S))
      BY DEF Right
    <2> QED  BY <2>1
  <1>2. \A T \in bad : IsFiniteSet(T)
    BY FS_Subset
  <1>3. PICK U \in bad : \A x \in U : U \ {x} \notin bad
    <2> HIDE DEF bad
    <2> QED  BY <1>1, <1>2, SmallestCounterexample
  <1>4. IsFiniteSet(U) /\ U \in SUBSET S /\ ~ Right(U)
    BY <1>2
  <1>5. PICK x \in U : Sum(U) # f[x] + Sum(U \ {x})
    BY <1>4
  <1> DEFINE p == Picked(U)
             W == U \ {x, p}
  <1>6. p \in U /\ Sum(U) = f[p] + Sum(U \ {p})
    <2>1. U # {}
      OBVIOUS
    <2> QED  BY <1>4, <2>1, SumUnfolds, PickedIsMember
  <1>7. x # p
    BY <1>5, <1>6
  <1>8. U \ {p} \in SUBSET S /\ U \ {x} \in SUBSET S /\ W \in SUBSET S
    BY <1>4
  <1>9. Right(U \ {p}) /\ Right(U \ {x})
    <2>1. U \ {p} \notin bad /\ U \ {x} \notin bad
      BY <1>3, <1>6
    <2> HIDE DEF Right
    <2> QED  BY <1>8, <2>1
  <1>10. (U \ {p}) \ {x} = W /\ (U \ {x}) \ {p} = W
    OBVIOUS
  <1>11. Sum(U \ {p}) = f[x] + Sum(W) /\ Sum(U \ {x}) = f[p] + Sum(W)
    <2>1. x \in U \ {p} /\ p \in U \ {x}
      BY <1>6, <1>7
    <2> HIDE DEF Sum, p, W
    <2> QED  BY <1>9, <1>10, <2>1
  <1>12. f[x] \in Int /\ f[p] \in Int /\ Sum(W) \in Int
    <2>1. IsFiniteSet(W)
      BY <1>8, FS_Subset
    <2> QED  BY <1>4, <1>6, <1>8, <2>1, SumIsInt
  <1> HIDE DEF Sum, p, W
  <1> QED  BY <1>5, <1>6, <1>11, <1>12

\* Only the values on the set matter.
LEMMA SumOfEqual ==
  ASSUME NEW S, IsFiniteSet(S), NEW f, NEW g, \A x \in S : f[x] = g[x]
  PROVE  SumFunctionOnSet(f, S) = SumFunctionOnSet(g, S)
PROOF
  <1> DEFINE bad == {T \in SUBSET S : SumFunctionOnSet(f, T) # SumFunctionOnSet(g, T)}
  <1>1. SUFFICES ASSUME bad # {} PROVE FALSE
    OBVIOUS
  <1>2. \A T \in bad : IsFiniteSet(T)
    BY FS_Subset
  <1>3. PICK U \in bad : \A x \in U : U \ {x} \notin bad
    <2> HIDE DEF bad
    <2> QED  BY <1>1, <1>2, SmallestCounterexample
  <1>4. IsFiniteSet(U) /\ U \in SUBSET S /\ SumFunctionOnSet(f, U) # SumFunctionOnSet(g, U)
    BY <1>2
  <1>5. U # {}
    BY <1>4, SumUnfolds
  <1>6. Picked(U) \in U
    BY <1>5, PickedIsMember
  <1>7. SumFunctionOnSet(f, U \ {Picked(U)}) = SumFunctionOnSet(g, U \ {Picked(U)})
    BY <1>3, <1>4, <1>6
  <1>8. f[Picked(U)] = g[Picked(U)]
    BY <1>4, <1>6
  <1> QED  BY <1>4, <1>5, <1>7, <1>8, SumUnfolds

\* Naturals add up to one, and a sum of zeros is zero.
LEMMA SumIsNat ==
  ASSUME NEW S, IsFiniteSet(S), NEW f, \A x \in S : f[x] \in Nat
  PROVE  /\ SumFunctionOnSet(f, S) \in Nat
         /\ \A x \in S : f[x] <= SumFunctionOnSet(f, S)
PROOF
  <1> DEFINE bad == {T \in SUBSET S : SumFunctionOnSet(f, T) \notin Nat}
  <1>1. ASSUME bad # {} PROVE FALSE
    <2>2. \A T \in bad : IsFiniteSet(T)
      BY FS_Subset
    <2>3. PICK U \in bad : \A x \in U : U \ {x} \notin bad
      <3> HIDE DEF bad
      <3> QED  BY <1>1, <2>2, SmallestCounterexample
    <2>4. IsFiniteSet(U) /\ U \in SUBSET S /\ SumFunctionOnSet(f, U) \notin Nat
      BY <2>2
    <2>5. U # {} /\ SumFunctionOnSet(f, U) = f[Picked(U)] + SumFunctionOnSet(f, U \ {Picked(U)})
      BY <2>4, SumUnfolds
    <2>6. Picked(U) \in U
      BY <2>5, PickedIsMember
    <2>7. SumFunctionOnSet(f, U \ {Picked(U)}) \in Nat /\ f[Picked(U)] \in Nat
      BY <2>3, <2>4, <2>6
    <2> QED  BY <2>4, <2>5, <2>7
  <1>2. \A T \in SUBSET S : SumFunctionOnSet(f, T) \in Nat
    BY <1>1
  <1>3. ASSUME NEW x \in S PROVE f[x] <= SumFunctionOnSet(f, S)
    <2>1. SumFunctionOnSet(f, S) = f[x] + SumFunctionOnSet(f, S \ {x})
      BY SumTakesOut
    <2>2. SumFunctionOnSet(f, S \ {x}) \in Nat
      BY <1>2
    <2> QED  BY <2>1, <2>2
  <1> QED  BY <1>2, <1>3

LEMMA SumOfZeros ==
  ASSUME NEW S, IsFiniteSet(S), NEW f, \A x \in S : f[x] = 0
  PROVE  SumFunctionOnSet(f, S) = 0
PROOF
  <1> DEFINE bad == {T \in SUBSET S : SumFunctionOnSet(f, T) # 0}
  <1>1. SUFFICES ASSUME bad # {} PROVE FALSE
    OBVIOUS
  <1>2. \A T \in bad : IsFiniteSet(T)
    BY FS_Subset
  <1>3. PICK U \in bad : \A x \in U : U \ {x} \notin bad
    <2> HIDE DEF bad
    <2> QED  BY <1>1, <1>2, SmallestCounterexample
  <1>4. IsFiniteSet(U) /\ U \in SUBSET S /\ SumFunctionOnSet(f, U) # 0
    BY <1>2
  <1>5. U # {} /\ SumFunctionOnSet(f, U) = f[Picked(U)] + SumFunctionOnSet(f, U \ {Picked(U)})
    BY <1>4, SumUnfolds
  <1>6. Picked(U) \in U
    BY <1>5, PickedIsMember
  <1>7. SumFunctionOnSet(f, U \ {Picked(U)}) = 0 /\ f[Picked(U)] = 0
    BY <1>3, <1>4, <1>6
  <1> QED  BY <1>4, <1>5, <1>7

\* A change of one value changes the sum by as much.
LEMMA SumChangesAt ==
  ASSUME NEW S, IsFiniteSet(S), NEW f, NEW g, NEW x \in S,
         \A y \in S : f[y] \in Int /\ g[y] \in Int,
         \A y \in S \ {x} : g[y] = f[y]
  PROVE  SumFunctionOnSet(g, S) = SumFunctionOnSet(f, S) + (g[x] - f[x])
PROOF
  <1> DEFINE V == S \ {x}
  <1>1. IsFiniteSet(V) /\ \A y \in V : y \in S
    BY FS_RemoveElement
  <1>2. SumFunctionOnSet(f, S) = f[x] + SumFunctionOnSet(f, V)
    BY SumTakesOut
  <1>3. SumFunctionOnSet(g, S) = g[x] + SumFunctionOnSet(g, V)
    BY SumTakesOut
  <1>4. SumFunctionOnSet(g, V) = SumFunctionOnSet(f, V)
    BY <1>1, SumOfEqual
  <1>5. SumFunctionOnSet(f, V) \in Int
    BY <1>1, SumIsInt
  <1> HIDE DEF V
  <1> QED  BY <1>2, <1>3, <1>4, <1>5

\* The sum of what two functions give together.
LEMMA SumOfSums ==
  ASSUME NEW S, IsFiniteSet(S), NEW f, NEW g, NEW h,
         \A x \in S : f[x] \in Int /\ g[x] \in Int /\ h[x] = f[x] + g[x]
  PROVE  SumFunctionOnSet(h, S) = SumFunctionOnSet(f, S) + SumFunctionOnSet(g, S)
PROOF
  <1> DEFINE Sum(k, T) == SumFunctionOnSet(k, T)
             bad == {T \in SUBSET S : Sum(h, T) # Sum(f, T) + Sum(g, T)}
  <1>1. SUFFICES ASSUME bad # {} PROVE FALSE
    OBVIOUS
  <1>2. \A T \in bad : IsFiniteSet(T)
    BY FS_Subset
  <1>3. PICK U \in bad : \A x \in U : U \ {x} \notin bad
    <2> HIDE DEF bad
    <2> QED  BY <1>1, <1>2, SmallestCounterexample
  <1>4. IsFiniteSet(U) /\ U \in SUBSET S /\ Sum(h, U) # Sum(f, U) + Sum(g, U)
    BY <1>2
  <1>5. Sum(h, {}) = 0 /\ Sum(f, {}) = 0 /\ Sum(g, {}) = 0
    <2>1. IsFiniteSet({})
      BY FS_EmptySet
    <2> QED  BY <2>1, SumUnfolds
  <1>6. U # {}
    BY <1>4, <1>5
  <1>7. PICK x : x \in U
    BY <1>6
  <1> DEFINE V == U \ {x}
  <1>8. IsFiniteSet(V) /\ V \in SUBSET S /\ V \notin bad
    BY <1>3, <1>4, <1>7, FS_RemoveElement
  <1>9. \A y \in U : f[y] \in Int /\ g[y] \in Int /\ h[y] \in Int /\ h[y] = f[y] + g[y]
    BY <1>4
  <1>10. Sum(h, U) = h[x] + Sum(h, V) /\ Sum(f, U) = f[x] + Sum(f, V) /\ Sum(g, U) = g[x] + Sum(g, V)
    BY <1>4, <1>9, <1>7, SumTakesOut
  <1>11. Sum(f, V) \in Int /\ Sum(g, V) \in Int
    BY <1>8, <1>9, SumIsInt
  <1>12. Sum(h, V) = Sum(f, V) + Sum(g, V)
    BY <1>8
  <1> HIDE DEF V, Sum
  <1> QED  BY <1>4, <1>7, <1>9, <1>10, <1>11, <1>12

-----------------------------------------------------------------------------
(* Sequences.                                                                  *)

\* What comes of putting an element in front.
LEMMA PrependIs ==
  ASSUME NEW S, NEW s \in Seq(S), NEW e \in S
  PROVE  /\ <<e>> \o s \in Seq(S) /\ Len(<<e>> \o s) = Len(s) + 1
         /\ (<<e>> \o s)[1] = e
         /\ \A i \in 2 .. Len(s) + 1 : (<<e>> \o s)[i] = s[i - 1]
PROOF
  <1>1. <<e>> \in Seq(S) /\ Len(<<e>>) = 1 /\ <<e>>[1] = e /\ Len(s) \in Nat
    OBVIOUS
  <1>2. /\ <<e>> \o s \in Seq(S)
        /\ Len(<<e>> \o s) = Len(<<e>>) + Len(s)
        /\ \A i \in 1 .. Len(<<e>>) + Len(s) : (<<e>> \o s)[i] =
                  IF i <= Len(<<e>>) THEN <<e>>[i] ELSE s[i - Len(<<e>>)]
    BY <1>1, ConcatProperties
  <1> DEFINE t == <<e>> \o s
  <1> HIDE DEF t
  <1>3. /\ t \in Seq(S) /\ Len(t) = Len(s) + 1 /\ t[1] = e
        /\ \A i \in 2 .. Len(s) + 1 : t[i] = s[i - 1]
    BY <1>1, <1>2 DEF t
  <1> QED  BY <1>3 DEF t

\* What RemoveAt leaves.
LEMMA RemoveAtIs ==
  ASSUME NEW S, NEW s \in Seq(S), NEW j \in 1 .. Len(s)
  PROVE  /\ RemoveAt(s, j) \in Seq(S) /\ Len(RemoveAt(s, j)) = Len(s) - 1
         /\ \A i \in 1 .. Len(s) - 1 : RemoveAt(s, j)[i] = IF i < j THEN s[i] ELSE s[i + 1]
PROOF
  <1> DEFINE a == SubSeq(s, 1, j - 1)
             b == SubSeq(s, j + 1, Len(s))
             c == a \o b
  <1>1. /\ Len(s) \in Nat /\ j \in Nat /\ 1 <= j /\ j <= Len(s)
        /\ \A i \in 1 .. Len(s) : s[i] \in S
    OBVIOUS
  <1>2. a \in Seq(S) /\ Len(a) = j - 1 /\ \A i \in 1 .. j - 1 : a[i] = s[i]
    <2>1. (\A i \in 1 .. j - 1 : s[i] \in S) /\ j - 1 \in Int /\ 1 \in Int
      BY <1>1
    <2>2. /\ a \in Seq(S) /\ Len(a) = IF 1 <= j - 1 THEN (j - 1) - 1 + 1 ELSE 0
          /\ \A i \in 1 .. (j - 1) - 1 + 1 : a[i] = s[1 + i - 1]
      BY <2>1, SubSeqProperties
    <2>3. (j - 1) - 1 + 1 = j - 1 /\ (IF 1 <= j - 1 THEN (j - 1) - 1 + 1 ELSE 0) = j - 1
      BY <1>1
    <2>4. \A i \in 1 .. j - 1 : 1 + i - 1 = i
      BY <1>1
    <2> HIDE DEF a
    <2> QED  BY <2>2, <2>3, <2>4
  <1>3. b \in Seq(S) /\ Len(b) = Len(s) - j /\ \A i \in 1 .. Len(s) - j : b[i] = s[i + j]
    <2>1. (\A i \in j + 1 .. Len(s) : s[i] \in S) /\ j + 1 \in Int /\ Len(s) \in Int
      BY <1>1
    <2>2. /\ b \in Seq(S) /\ Len(b) = IF j + 1 <= Len(s) THEN Len(s) - (j + 1) + 1 ELSE 0
          /\ \A i \in 1 .. Len(s) - (j + 1) + 1 : b[i] = s[(j + 1) + i - 1]
      BY <2>1, SubSeqProperties
    <2>3. /\ Len(s) - (j + 1) + 1 = Len(s) - j
          /\ (IF j + 1 <= Len(s) THEN Len(s) - (j + 1) + 1 ELSE 0) = Len(s) - j
      BY <1>1
    <2>4. \A i \in 1 .. Len(s) - j : (j + 1) + i - 1 = i + j
      BY <1>1
    <2> HIDE DEF b
    <2> QED  BY <2>2, <2>3, <2>4
  <1> HIDE DEF a, b
  <1>4. /\ c \in Seq(S) /\ Len(c) = Len(a) + Len(b)
        /\ \A i \in 1 .. Len(a) + Len(b) : c[i] = IF i <= Len(a) THEN a[i] ELSE b[i - Len(a)]
    BY <1>2, <1>3, ConcatProperties
  <1>5. Len(a) + Len(b) = Len(s) - 1
    BY <1>1, <1>2, <1>3
  <1> HIDE DEF c
  <1>6. ASSUME NEW i \in 1 .. Len(s) - 1
        PROVE  c[i] = IF i < j THEN s[i] ELSE s[i + 1]
    <2>1. c[i] = IF i <= Len(a) THEN a[i] ELSE b[i - Len(a)]
      BY <1>4, <1>5
    <2>2. CASE i < j
      <3>1. i <= Len(a) /\ i \in 1 .. j - 1
        BY <1>1, <1>2, <2>2
      <3> QED  BY <1>2, <2>1, <2>2, <3>1
    <2>3. CASE ~(i < j)
      <3>1. ~(i <= Len(a)) /\ i - Len(a) \in 1 .. Len(s) - j /\ i - Len(a) + j = i + 1
        BY <1>1, <1>2, <2>3
      <3> QED  BY <1>3, <2>1, <2>3, <3>1
    <2> QED  BY <2>2, <2>3
  <1>7. RemoveAt(s, j) = c
    BY DEF RemoveAt, a, b, c
  <1> QED  BY <1>4, <1>5, <1>6, <1>7

\* RemoveFirst removes nothing, or at a place where the element is.
LEMMA RemoveFirstIs ==
  ASSUME NEW S, NEW s \in Seq(S), NEW x
  PROVE  /\ (\A i \in 1 .. Len(s) : s[i] # x) => RemoveFirst(s, x) = s
         /\ (\E i \in 1 .. Len(s) : s[i] = x) =>
              \E j \in 1 .. Len(s) : s[j] = x /\ RemoveFirst(s, x) = RemoveAt(s, j)
PROOF
  <1> DEFINE places == {i \in 1 .. Len(s) : s[i] = x}
  <1>1. ASSUME \E i \in 1 .. Len(s) : s[i] = x
        PROVE  \E j \in 1 .. Len(s) : s[j] = x /\ RemoveFirst(s, x) = RemoveAt(s, j)
    <2>1. places # {} /\ places \subseteq Nat
      BY <1>1
    <2>2. RemoveFirst(s, x) = RemoveAt(s, Min(places))
      BY <1>1, <2>1 DEF RemoveFirst, SelectInSeq
    <2>3. Min(places) \in places
      <3> HIDE DEF places
      <3> QED  BY <2>1, LeastNat DEF Min
    <2> QED  BY <2>2, <2>3
  <1> QED  BY <1>1 DEF RemoveFirst

\* An element in front of which another sequence is put.
LEMMA AppendBehind ==
  ASSUME NEW a \in Seq(Nat), NEW b \in Seq(Nat), NEW x \in Nat
  PROVE  a \o Append(b, x) = Append(a \o b, x)
PROOF
  <1>1. <<x>> \in Seq(Nat)
    OBVIOUS
  <1>2. Append(b, x) = b \o <<x>> /\ a \o b \in Seq(Nat)
    BY AppendIsConcat, ConcatProperties
  <1>3. Append(a \o b, x) = (a \o b) \o <<x>>
    BY <1>2, AppendIsConcat
  <1> QED  BY <1>1, <1>2, <1>3, ConcatAssociative

Distinct(s) == \A i, j \in 1 .. Len(s) : s[i] = s[j] => i = j

\* t is the history s once k is used: it was the j-th, or it is new.
ComesFrom(t, s, k) ==
  \/ \E j \in 1 .. Len(s) :
       /\ s[j] = k /\ Len(t) = Len(s)
       /\ \A i \in 1 .. Len(s) : t[i] = IF i = 1 THEN k ELSE IF i <= j THEN s[i - 1] ELSE s[i]
  \/ /\ \A i \in 1 .. Len(s) : s[i] # k
     /\ Len(t) = Len(s) + 1
     /\ \A i \in 1 .. Len(s) + 1 : t[i] = IF i = 1 THEN k ELSE s[i - 1]

LEMMA FrontedIs ==
  ASSUME NEW K, NEW s \in Seq(K), Distinct(s), NEW k \in K
  PROVE  /\ <<k>> \o RemoveFirst(s, k) \in Seq(K)
         /\ Distinct(<<k>> \o RemoveFirst(s, k))
         /\ ComesFrom(<<k>> \o RemoveFirst(s, k), s, k)
PROOF
  <1> DEFINE t == <<k>> \o RemoveFirst(s, k)
  <1>1. s \in Seq(K) /\ Len(s) \in Nat /\ DOMAIN s = 1 .. Len(s)
        /\ \A i \in 1 .. Len(s) : s[i] \in K
    BY DEF Distinct
  <1> HIDE DEF t
  <1>2. CASE \E i \in DOMAIN s : s[i] = k
    <2>1. PICK j \in 1 .. Len(s) : s[j] = k /\ RemoveFirst(s, k) = RemoveAt(s, j)
      BY <1>1, <1>2, RemoveFirstIs
    <2> DEFINE c == RemoveAt(s, j)
    <2>5. t = <<k>> \o c
      BY <2>1 DEF t
    <2>4. /\ c \in Seq(K) /\ Len(c) = Len(s) - 1
          /\ \A i \in 1 .. Len(s) - 1 : c[i] = IF i < j THEN s[i] ELSE s[i + 1]
      BY <1>1, <2>1, RemoveAtIs
    <2> HIDE DEF c
    <2>6. /\ t \in Seq(K) /\ Len(t) = Len(s) /\ t[1] = k
          /\ \A i \in 2 .. Len(s) : t[i] = c[i - 1]
      <3>1. /\ t \in Seq(K) /\ Len(t) = Len(c) + 1 /\ t[1] = k
            /\ \A i \in 2 .. Len(c) + 1 : t[i] = c[i - 1]
        BY <2>4, <2>5, PrependIs
      <3>2. Len(c) + 1 = Len(s)
        BY <1>1, <2>4
      <3> QED  BY <3>1, <3>2
    <2>7. \A i \in 1 .. Len(s) : t[i] = IF i = 1 THEN k ELSE IF i <= j THEN s[i - 1] ELSE s[i]
      <3> SUFFICES ASSUME NEW i \in 1 .. Len(s)
                   PROVE  t[i] = IF i = 1 THEN k ELSE IF i <= j THEN s[i - 1] ELSE s[i]
        OBVIOUS
      <3>1. CASE i = 1
        BY <2>6, <3>1
      <3>2. CASE i # 1
        <4>1. i \in 2 .. Len(s) /\ i - 1 \in 1 .. Len(s) - 1 /\ (i - 1) + 1 = i /\ (i - 1 < j <=> i <= j)
          BY <1>1, <2>1, <3>2
        <4> QED  BY <2>4, <2>6, <3>2, <4>1
      <3> QED  BY <3>1, <3>2
    <2>8. ASSUME NEW h \in 1 .. Len(t), NEW i \in 1 .. Len(t), t[h] = t[i] PROVE h = i
      <3> DEFINE From(x) == IF x = 1 THEN j ELSE IF x <= j THEN x - 1 ELSE x
      <3>1. ASSUME NEW x \in 1 .. Len(s) PROVE From(x) \in 1 .. Len(s) /\ t[x] = s[From(x)]
        <4>1. CASE x = 1
          BY <2>1, <2>7, <4>1
        <4>2. CASE x # 1 /\ x <= j
          <5>1. x - 1 \in 1 .. Len(s)
            BY <1>1, <4>2
          <5> QED  BY <2>7, <4>2, <5>1
        <4>3. CASE x # 1 /\ ~(x <= j)
          BY <2>7, <4>3
        <4> QED  BY <4>1, <4>2, <4>3
      <3>2. s[From(h)] = s[From(i)] /\ From(h) \in 1 .. Len(s) /\ From(i) \in 1 .. Len(s)
        BY <2>6, <2>8, <3>1, SMTT(20)
      <3>3. From(h) = From(i)
        <4> HIDE DEF From
        <4> QED  BY <3>2 DEF Distinct
      <3>4. h \in 1 .. Len(s) /\ i \in 1 .. Len(s)
        BY <2>6
      <3>5. \A x, y \in 1 .. Len(s) : From(x) = From(y) => x = y
        BY <1>1, <2>1
      <3> HIDE DEF From
      <3> QED  BY <3>3, <3>4, <3>5
    <2>9. t \in Seq(K) /\ Distinct(t)
      BY <2>6, <2>8 DEF Distinct
    <2>10. ComesFrom(t, s, k)
      BY <2>1, <2>6, <2>7 DEF ComesFrom
    <2> QED  BY <2>9, <2>10 DEF t
  <1>3. CASE ~\E i \in DOMAIN s : s[i] = k
    <2>1. t = <<k>> \o s
      BY <1>1, <1>3, RemoveFirstIs DEF t
    <2>2. t \in Seq(K) /\ Len(t) = Len(s) + 1
          /\ \A i \in 1 .. Len(s) + 1 : t[i] = IF i = 1 THEN k ELSE s[i - 1]
      <3>1. /\ t \in Seq(K) /\ Len(t) = Len(s) + 1 /\ t[1] = k
            /\ \A i \in 2 .. Len(s) + 1 : t[i] = s[i - 1]
        BY <1>1, <2>1, PrependIs
      <3>2. \A i \in 1 .. Len(s) + 1 : i = 1 \/ i \in 2 .. Len(s) + 1
        BY <1>1
      <3> QED  BY <3>1, <3>2
    <2>3. \A i \in 1 .. Len(s) : s[i] # k
      BY <1>1, <1>3
    <2>4. ASSUME NEW h \in 1 .. Len(t), NEW i \in 1 .. Len(t), t[h] = t[i] PROVE h = i
      <3>1. CASE h = 1 \/ i = 1
        <4>1. \A x \in 1 .. Len(s) + 1 : x # 1 => x - 1 \in 1 .. Len(s) /\ t[x] # k
          BY <1>1, <2>2, <2>3
        <4> QED  BY <2>2, <2>4, <3>1, <4>1
      <3>2. CASE h # 1 /\ i # 1
        <4>1. h - 1 \in 1 .. Len(s) /\ i - 1 \in 1 .. Len(s) /\ t[h] = s[h - 1] /\ t[i] = s[i - 1]
          BY <1>1, <2>2, <3>2
        <4>2. h - 1 = i - 1
          BY <2>4, <4>1 DEF Distinct
        <4> QED  BY <1>1, <2>2, <4>2
      <3> QED  BY <3>1, <3>2
    <2>5. t \in Seq(K) /\ Distinct(t)
      BY <2>2, <2>4 DEF Distinct
    <2>6. ComesFrom(t, s, k)
      BY <2>2, <2>3 DEF ComesFrom
    <2> QED  BY <2>5, <2>6 DEF t
  <1> QED  BY <1>2, <1>3 DEF t
=============================================================================
