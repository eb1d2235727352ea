--------------------------- MODULE IntervalProofs ---------------------------
(* Proofs that the sweeps and the greedy choices over intervals give what    *)
(* their problems ask for, for any number of intervals, touching, nested or  *)
(* repeated, and that all scans and sweeps are right on every input.         *)
EXTENDS ProblemInputs, ArrayProofs

-----------------------------------------------------------------------------
(* One pass over a sequence, as a recursive function over its prefixes.       *)

\* step[i][a] is what the i-th turn of the loop makes of a.
Passes(f, n, base, step) ==
  f = [i \in 0 .. n |-> IF i = 0 THEN base ELSE step[i][f[i - 1]]]

LEMMA PassExists ==
  ASSUME NEW A, NEW n \in Nat, NEW base \in A, NEW step,
         \A i \in 1 .. n : \A a \in A : step[i][a] \in A
  PROVE  \E f : Passes(f, n, base, step) /\ \A i \in 0 .. n : f[i] \in A
PROOF
  <1> DEFINE next == [ia \in (1 .. n) \X A |-> step[ia[1]][ia[2]]]
  <1>1. next \in Steps(A, 0, n)
    <2>1. \A ia \in (1 .. n) \X A : step[ia[1]][ia[2]] \in A
      OBVIOUS
    <2>2. 0 + 1 = 1
      OBVIOUS
    <2> QED  BY <2>1, <2>2 DEF Steps
  <1>2. \A i \in 1 .. n, a \in A : next[<<i, a>>] = step[i][a]
    OBVIOUS
  <1> HIDE DEF next
  <1>3. PICK f : Follows(f, A, 0, n, base, next)
    <2>1. 0 \in Int /\ n \in Int /\ 0 <= n
      OBVIOUS
    <2> QED  BY <1>1, <2>1, RecursionExists
  <1>4. f \in [0 .. n -> A]
    BY <1>3 DEF Follows
  <1>5. ASSUME NEW i \in 0 .. n
        PROVE  f[i] = IF i = 0 THEN base ELSE step[i][f[i - 1]]
    <2>1. CASE i = 0
      BY <1>3, <2>1 DEF Follows
    <2>2. CASE i # 0
      <3>1. i \in 0 + 1 .. n /\ i \in 1 .. n /\ i - 1 \in 0 .. n
        BY <2>2
      <3>2. f[i - 1] \in A /\ f[i] = next[<<i, f[i - 1]>>]
        BY <1>3, <1>4, <3>1 DEF Follows
      <3> QED  BY <1>2, <2>2, <3>1, <3>2
    <2> QED  BY <2>1, <2>2
  <1>6. f = [i \in 0 .. n |-> f[i]]
    BY <1>4
  <1>7. f = [i \in 0 .. n |-> IF i = 0 THEN base ELSE step[i][f[i - 1]]]
    BY <1>5, <1>6
  <1> QED  BY <1>4, <1>7 DEF Passes

\* And one from the end.
PassesDown(f, n, base, step) ==
  f = [i \in 1 .. n |-> IF i = n THEN base ELSE step[i][f[i + 1]]]

LEMMA PassDownExists ==
  ASSUME NEW A, NEW n \in Nat \ {0}, NEW base \in A, NEW step,
         \A i \in 1 .. n - 1 : \A a \in A : step[i][a] \in A
  PROVE  \E f : PassesDown(f, n, base, step) /\ \A i \in 1 .. n : f[i] \in A
PROOF
  <1> DEFINE next == [ia \in (1 .. n - 1) \X A |-> step[ia[1]][ia[2]]]
  <1>1. next \in StepsDown(A, 1, n)
    BY DEF StepsDown
  <1>2. \A i \in 1 .. n - 1, a \in A : next[<<i, a>>] = step[i][a]
    OBVIOUS
  <1> HIDE DEF next
  <1>3. PICK f : FollowsDown(f, A, 1, n, base, next)
    <2>1. 1 \in Int /\ n \in Int /\ 1 <= n
      OBVIOUS
    <2> QED  BY <1>1, <2>1, RecursionDownExists
  <1>4. f \in [1 .. n -> A]
    BY <1>3 DEF FollowsDown
  <1>5. ASSUME NEW i \in 1 .. n
        PROVE  f[i] = IF i = n THEN base ELSE step[i][f[i + 1]]
    <2>1. CASE i = n
      BY <1>3, <2>1 DEF FollowsDown
    <2>2. CASE i # n
      <3>1. i \in 1 .. n - 1 /\ i + 1 \in 1 .. n
        BY <2>2
      <3>2. f[i + 1] \in A /\ f[i] = next[<<i, f[i + 1]>>]
        BY <1>3, <1>4, <3>1 DEF FollowsDown
      <3> QED  BY <1>2, <2>2, <3>1, <3>2
    <2> QED  BY <2>1, <2>2
  <1>6. f = [i \in 1 .. n |-> f[i]]
    BY <1>4
  <1>7. f = [i \in 1 .. n |-> IF i = n THEN base ELSE step[i][f[i + 1]]]
    BY <1>5, <1>6
  <1> QED  BY <1>4, <1>7 DEF PassesDown

-----------------------------------------------------------------------------
(* Sums over sets.                                                           *)

\* The sum of two functions is the sum of their sums.
LEMMA SumAdds ==
  ASSUME NEW S, IsFiniteSet(S), NEW f, NEW g, NEW h,
         \A x \in S : f[x] \in Int /\ g[x] \in Int /\ h[x] = f[x] + g[x]
  PROVE  SumFunctionOnSet(h, S) = SumFunctionOnSet(f, S) + SumFunctionOnSet(g, S)
PROOF
  <1> DEFINE F(T) == SumFunctionOnSet(f, T)
             G(T) == SumFunctionOnSet(g, T)
             H(T) == SumFunctionOnSet(h, T)
             bad == {T \in SUBSET S : H(T) # F(T) + G(T)}
  <1>1. SUFFICES ASSUME bad # {} PROVE FALSE
    OBVIOUS
  <1>2. \A T \in bad : IsFiniteSet(T)
    BY FS_Subset
  <1>3. PICK U \in bad : \A x \in U : U \ {x} \notin bad
    <2> HIDE DEF bad
    <2> QED  BY <1>1, <1>2, SmallestCounterexample
  <1>4. IsFiniteSet(U) /\ U \in SUBSET S /\ H(U) # F(U) + G(U)
    BY <1>2
  <1>5. U # {}
    <2> SUFFICES ASSUME U = {} PROVE FALSE
      OBVIOUS
    <2>1. F(U) = 0 /\ G(U) = 0 /\ H(U) = 0
      BY <1>4, SumUnfolds
    <2> HIDE DEF F, G, H
    <2> QED  BY <1>4, <2>1
  <1>6. PICK x : x \in U /\ x = Picked(U)
    BY <1>5, PickedIsMember
  <1>7. /\ F(U) = f[x] + F(U \ {x}) /\ G(U) = g[x] + G(U \ {x}) /\ H(U) = h[x] + H(U \ {x})
    BY <1>4, <1>5, <1>6, SumUnfolds
  <1>8. H(U \ {x}) = F(U \ {x}) + G(U \ {x})
    BY <1>3, <1>4, <1>6
  <1>9. F(U \ {x}) \in Int /\ G(U \ {x}) \in Int
    <2>1. IsFiniteSet(U \ {x}) /\ \A y \in U \ {x} : f[y] \in Int /\ g[y] \in Int
      BY <1>4, FS_Subset
    <2> QED  BY <2>1, SumIsInt
  <1>10. f[x] \in Int /\ g[x] \in Int /\ h[x] = f[x] + g[x]
    BY <1>4, <1>6
  <1> HIDE DEF F, G, H
  <1> QED  BY <1>4, <1>7, <1>8, <1>9, <1>10

\* Renaming the members of a finite set leaves it finite, and as large.
LEMMA ImageIsFinite ==
  ASSUME NEW S, IsFiniteSet(S), NEW p
  PROVE  LET T == {p[x] : x \in S}
         IN  /\ IsFiniteSet(T) /\ Cardinality(T) <= Cardinality(S)
             /\ (\A x, y \in S : p[x] = p[y] => x = y) => Cardinality(T) = Cardinality(S)
PROOF
  <1> DEFINE T == {p[x] : x \in S}
             f == [x \in S |-> p[x]]
  <1>1. f \in Surjection(S, T)
    BY DEF Surjection
  <1>2. (\A x, y \in S : p[x] = p[y] => x = y) => f \in Injection(S, T)
    BY DEF Injection, IsInjective
  <1> HIDE DEF T, f
  <1>3. /\ IsFiniteSet(T) /\ Cardinality(T) <= Cardinality(S)
        /\ f \in Injection(S, T) => Cardinality(T) = Cardinality(S)
    BY <1>1, FS_Surjection
  <1> QED  BY <1>2, <1>3 DEF T

Renames(p, S, R) ==
  /\ p \in [S -> R] /\ \A x, y \in S : p[x] = p[y] => x = y
  /\ \A y \in R : \E x \in S : p[x] = y
Carries(g, p, f, S) == \A x \in S : f[x] \in Int /\ g[p[x]] = f[x]

\* A sum does not change when the members are renamed.
LEMMA SumRenamed ==
  ASSUME NEW S, IsFiniteSet(S), NEW R, NEW p, NEW f, NEW g, Renames(p, S, R), Carries(g, p, f, S)
  PROVE  SumFunctionOnSet(g, R) = SumFunctionOnSet(f, S)
PROOF
  <1> USE DEF Renames, Carries
  <1> DEFINE F(T) == SumFunctionOnSet(f, T)
             G(T) == SumFunctionOnSet(g, {p[x] : x \in T})
             bad == {T \in SUBSET S : G(T) # F(T)}
  <1>0. {p[x] : x \in S} = R
    OBVIOUS
  <1>1. SUFFICES ASSUME bad # {} PROVE FALSE
    <2>1. S \in SUBSET S
      OBVIOUS
    <2>2. G(S) = F(S)
      BY <2>1
    <2> QED  BY <1>0, <2>2
  <1>2. \A T \in bad : IsFiniteSet(T)
    BY FS_Subset
  <1>3. PICK U \in bad : \A x \in U : U \ {x} \notin bad
    <2> HIDE DEF bad
    <2> QED  BY <1>1, <1>2, SmallestCounterexample
  <1>4. IsFiniteSet(U) /\ U \in SUBSET S /\ G(U) # F(U)
    BY <1>2
  <1>5. U # {}
    <2> SUFFICES ASSUME U = {} PROVE FALSE
      OBVIOUS
    <2>1. F(U) = 0
      BY <1>4, SumUnfolds
    <2>2. {p[x] : x \in U} = {} /\ IsFiniteSet({})
      BY FS_EmptySet
    <2>3. G(U) = 0
      BY <2>2, SumUnfolds
    <2> HIDE DEF F, G
    <2> QED  BY <1>4, <2>1, <2>3
  <1>6. PICK x : x \in U /\ x \in S
    BY <1>4, <1>5
  <1> DEFINE V == {p[y] : y \in U}
  <1>7. F(U) = f[x] + F(U \ {x})
    <2>1. \A y \in U : f[y] \in Int
      BY <1>4
    <2> QED  BY <1>4, <1>6, <2>1, SumTakesOut
  <1>8. SumFunctionOnSet(g, V) = g[p[x]] + SumFunctionOnSet(g, V \ {p[x]})
    <2>1. IsFiniteSet(V)
      <3>1. \A y \in U : p[y] = p[y]
        OBVIOUS
      <3> QED  BY <1>4, ImageIsFinite
    <2>2. p[x] \in V /\ \A v \in V : g[v] \in Int
      <3>1. ASSUME NEW v \in V PROVE g[v] \in Int
        <4>1. PICK y \in U : v = p[y]
          OBVIOUS
        <4> QED  BY <1>4, <4>1
      <3> QED  BY <1>6, <3>1
    <2> HIDE DEF V
    <2> QED  BY <2>1, <2>2, SumTakesOut
  <1>9. V \ {p[x]} = {p[y] : y \in U \ {x}}
    BY <1>4, <1>6
  <1>10. G(U \ {x}) = F(U \ {x})
    BY <1>3, <1>4, <1>6
  <1>11. g[p[x]] = f[x]
    BY <1>6
  <1> QED  BY <1>4, <1>7, <1>8, <1>9, <1>10, <1>11

\* The sum over two sets that share no member.
LEMMA SumOfUnion ==
  ASSUME NEW S, IsFiniteSet(S), NEW R, IsFiniteSet(R), S \cap R = {}, NEW f,
         \A x \in S \cup R : f[x] \in Int
  PROVE  SumFunctionOnSet(f, S \cup R) = SumFunctionOnSet(f, S) + SumFunctionOnSet(f, R)
PROOF
  <1> DEFINE F(T) == SumFunctionOnSet(f, T)
             bad == {T \in SUBSET S : ~(F(T \cup R) = F(T) + F(R))}
  <1>1. SUFFICES ASSUME bad # {} PROVE FALSE
    OBVIOUS
  <1>2. \A T \in bad : IsFiniteSet(T)
    BY FS_Subset
  <1>3. PICK U \in bad : \A x \in U : U \ {x} \notin bad
    <2> HIDE DEF bad
    <2> QED  BY <1>1, <1>2, SmallestCounterexample
  <1>4. IsFiniteSet(U) /\ U \in SUBSET S /\ ~(F(U \cup R) = F(U) + F(R))
    BY <1>2
  <1>0. F(R) \in Int
    BY SumIsInt
  <1>5. U # {}
    <2> SUFFICES ASSUME U = {} PROVE FALSE
      OBVIOUS
    <2>1. F(U) = 0
      BY <1>4, SumUnfolds
    <2>2. U \cup R = R
      OBVIOUS
    <2>3. F(U \cup R) = F(R)
      BY <2>2
    <2>4. F(U) + F(R) = F(R)
      <3> HIDE DEF F
      <3> QED  BY <1>0, <2>1
    <2> QED  BY <1>4, <2>3, <2>4
  <1>6. PICK x : x \in U /\ x \in S /\ x \notin R
    BY <1>4, <1>5
  <1>7. F(U) = f[x] + F(U \ {x})
    <2>1. \A y \in U : f[y] \in Int
      BY <1>4
    <2> QED  BY <1>4, <1>6, <2>1, SumTakesOut
  <1>8. F(U \cup R) = f[x] + F((U \cup R) \ {x})
    <2>1. IsFiniteSet(U \cup R) /\ \A y \in U \cup R : f[y] \in Int
      BY <1>4, FS_Union
    <2> QED  BY <1>6, <2>1, SumTakesOut
  <1>9. F((U \cup R) \ {x}) = F((U \ {x}) \cup R)
    <2>1. (U \cup R) \ {x} = (U \ {x}) \cup R
      BY <1>6
    <2> QED  BY <2>1
  <1>10. F((U \ {x}) \cup R) = F(U \ {x}) + F(R)
    BY <1>3, <1>4, <1>6
  <1>11. f[x] \in Int /\ F(U \ {x}) \in Int
    <2>1. IsFiniteSet(U \ {x}) /\ \A y \in U \ {x} : f[y] \in Int
      BY <1>4, FS_Subset
    <2> QED  BY <1>6, <2>1, SumIsInt
  <1> HIDE DEF F
  <1> QED  BY <1>0, <1>4, <1>7, <1>8, <1>9, <1>10, <1>11

-----------------------------------------------------------------------------
(* Sorting.                                                                  *)

Pairs == Int \X Int
InOrder(t, k, l) == \A i \in 1 .. Len(t) : \A j \in i .. Len(t) : NotAfter(t[i], t[j], k, l)
Sortings(k, l) == {t \in Seq(Pairs) : InOrder(t, k, l)}

\* u is t with x put in.
PutInto(u, t, n, x) ==
  \E at \in 1 .. n + 1 : \A i \in 1 .. n + 1 :
    u[i] = IF i < at THEN t[i] ELSE IF i = at THEN x ELSE t[i - 1]

\* The places 1 .. n of t hold what the places 1 .. n of s hold, moved by p and
\* moved back by q.
MovedBy(t, s, n, p, q) ==
  /\ p \in [1 .. n -> 1 .. n] /\ q \in [1 .. n -> 1 .. n]
  /\ \A i \in 1 .. n : q[p[i]] = i /\ p[q[i]] = i /\ t[i] = s[p[i]]
Rearranges(t, s, n) == \E p, q : MovedBy(t, s, n, p, q)

LEMMA NotAfterOrders ==
  ASSUME NEW k \in {1, 2}, NEW l \in {1, 2}
  PROVE  /\ \A a \in Pairs : NotAfter(a, a, k, l) /\ a[k] \in Int /\ a[l] \in Int
         /\ \A a, b \in Pairs : NotAfter(a, b, k, l) \/ NotAfter(b, a, k, l)
         /\ \A a, b, c \in Pairs :
              NotAfter(a, b, k, l) /\ NotAfter(b, c, k, l) => NotAfter(a, c, k, l)
         /\ \A a, b \in Pairs : NotAfter(a, b, k, l) => a[k] <= b[k]
PROOF
  <1>1. \A a \in Pairs : a[k] \in Int /\ a[l] \in Int
    BY DEF Pairs
  <1> QED  BY <1>1 DEF NotAfter

LEMMA PlacedIs ==
  ASSUME NEW k \in {1, 2}, NEW l \in {1, 2}, NEW t \in Sortings(k, l), NEW x \in Pairs
  PROVE  /\ Placed(t, x, k, l) \in Sortings(k, l) /\ Len(Placed(t, x, k, l)) = Len(t) + 1
         /\ PutInto(Placed(t, x, k, l), t, Len(t), x)
PROOF
  <1> USE DEF Sortings
  <1> DEFINE n == Len(t)
             low == {i \in DOMAIN t : NotAfter(t[i], x, k, l)}
             S == {0} \cup low
             at == Max(S) + 1
             u == [i \in 1 .. n + 1 |-> IF i < at THEN t[i] ELSE IF i = at THEN x ELSE t[i - 1]]
  <1>1. n \in Nat /\ DOMAIN t = 1 .. n /\ \A i \in 1 .. n : t[i] \in Pairs
    OBVIOUS
  <1>2. Placed(t, x, k, l) = u
    BY DEF Placed
  <1>3. at - 1 \in S /\ at \in 1 .. n + 1 /\ \A i \in S : i <= at - 1
    <2>1. S \subseteq 0 .. n /\ S # {} /\ S \subseteq Int
      BY <1>1
    <2> HIDE DEF S
    <2>2. PICK m \in S : \A i \in S : i <= m
      BY <1>1, <2>1, GreatestExists
    <2>3. Max(S) = m /\ m \in 0 .. n
      BY <2>1, <2>2, MaxIs
    <2>4. at = m + 1 /\ at - 1 = m /\ at \in 1 .. n + 1
      BY <1>1, <2>3
    <2> QED  BY <2>2, <2>4
  <1>4. \A i \in 1 .. n : i < at => NotAfter(t[i], x, k, l)
    <2> SUFFICES ASSUME NEW i \in 1 .. n, i < at PROVE NotAfter(t[i], x, k, l)
      OBVIOUS
    <2>1. at - 1 \in 1 .. n /\ at - 1 \in i .. n
      BY <1>1, <1>3
    <2>2. NotAfter(t[at - 1], x, k, l)
      BY <1>3, <2>1
    <2>3. NotAfter(t[i], t[at - 1], k, l) /\ t[i] \in Pairs /\ t[at - 1] \in Pairs
      BY <1>1, <2>1 DEF InOrder
    <2> QED  BY <2>2, <2>3, NotAfterOrders
  <1>5. \A i \in 1 .. n : ~(i < at) => NotAfter(x, t[i], k, l)
    <2> SUFFICES ASSUME NEW i \in 1 .. n, ~(i < at) PROVE NotAfter(x, t[i], k, l)
      OBVIOUS
    <2>1. ~(i <= at - 1)
      BY <1>3
    <2>2. ~NotAfter(t[i], x, k, l)
      BY <1>1, <1>3, <2>1
    <2>3. t[i] \in Pairs
      BY <1>1
    <2> QED  BY <2>2, <2>3, NotAfterOrders
  <1> HIDE DEF at
  <1>6. \A i \in 1 .. n + 1 : /\ u[i] = IF i < at THEN t[i] ELSE IF i = at THEN x ELSE t[i - 1]
                              /\ u[i] \in Pairs
    <2> TAKE i \in 1 .. n + 1
    <2>1. u[i] = IF i < at THEN t[i] ELSE IF i = at THEN x ELSE t[i - 1]
      OBVIOUS
    <2>2. i < at => i \in 1 .. n
      BY <1>1, <1>3
    <2>3. ~(i < at) /\ i # at => i - 1 \in 1 .. n
      BY <1>1, <1>3
    <2> QED  BY <1>1, <2>1, <2>2, <2>3
  <1>7. u \in Seq(Pairs) /\ Len(u) = n + 1
    <2>1. u = [i \in 1 .. n + 1 |-> u[i]] /\ n + 1 \in Nat
      BY <1>1
    <2> HIDE DEF u
    <2> QED  BY <1>6, <2>1
  <1> HIDE DEF u
  <1>8. ASSUME NEW i \in 1 .. n + 1, NEW j \in i .. n + 1 PROVE NotAfter(u[i], u[j], k, l)
    <2>1. j \in 1 .. n + 1 /\ i <= j
      BY <1>1
    <2>2. CASE i = j
      BY <1>6, <2>2, NotAfterOrders
    <2>3. CASE i < j /\ j < at
      <3>1. i \in 1 .. n /\ j \in i .. n /\ u[i] = t[i] /\ u[j] = t[j]
        BY <1>1, <1>3, <1>6, <2>1, <2>3
      <3> QED  BY <3>1 DEF InOrder
    <2>4. CASE i < j /\ j = at
      <3>1. i \in 1 .. n /\ u[i] = t[i] /\ u[j] = x /\ i < at
        BY <1>1, <1>3, <1>6, <2>1, <2>4
      <3> QED  BY <1>4, <3>1
    <2>5. CASE i = at /\ i < j
      <3>1. j - 1 \in 1 .. n /\ u[i] = x /\ u[j] = t[j - 1] /\ ~(j - 1 < at)
        BY <1>1, <1>3, <1>6, <2>1, <2>5
      <3> QED  BY <1>5, <3>1
    <2>6. CASE i < at /\ at < j
      <3>1. i \in 1 .. n /\ j - 1 \in i .. n /\ u[i] = t[i] /\ u[j] = t[j - 1]
        BY <1>1, <1>3, <1>6, <2>1, <2>6
      <3> QED  BY <3>1 DEF InOrder
    <2>7. CASE at < i /\ i < j
      <3>1. i - 1 \in 1 .. n /\ j - 1 \in i - 1 .. n /\ u[i] = t[i - 1] /\ u[j] = t[j - 1]
        BY <1>1, <1>3, <1>6, <2>1, <2>7
      <3> QED  BY <3>1 DEF InOrder
    <2> QED  BY <1>3, <2>1, <2>2, <2>3, <2>4, <2>5, <2>6, <2>7
  <1>9. InOrder(u, k, l)
    BY <1>7, <1>8 DEF InOrder
  <1>10. PutInto(u, t, n, x)
    BY <1>3, <1>6 DEF PutInto
  <1> QED  BY <1>2, <1>7, <1>9, <1>10

\* Putting one more in keeps the first ones where they are, one place further on.
LEMMA PlacedRearranges ==
  ASSUME NEW n \in Nat, NEW s, NEW t, Rearranges(t, s, n), NEW u, PutInto(u, t, n, s[n + 1])
  PROVE  Rearranges(u, s, n + 1)
PROOF
  <1>0. PICK at \in 1 .. n + 1 : \A i \in 1 .. n + 1 :
          u[i] = IF i < at THEN t[i] ELSE IF i = at THEN s[n + 1] ELSE t[i - 1]
    BY DEF PutInto
  <1>1. PICK p, q : MovedBy(t, s, n, p, q)
    BY DEF Rearranges
  <1>2. /\ \A i \in 1 .. n : p[i] \in 1 .. n /\ q[i] \in 1 .. n
        /\ \A i \in 1 .. n : q[p[i]] = i /\ p[q[i]] = i /\ t[i] = s[p[i]]
    BY <1>1 DEF MovedBy
  <1> DEFINE pp == [i \in 1 .. n + 1 |-> IF i < at THEN p[i] ELSE IF i = at THEN n + 1 ELSE p[i - 1]]
             qq == [k \in 1 .. n + 1 |-> IF k = n + 1 THEN at ELSE IF q[k] < at THEN q[k] ELSE q[k] + 1]
  <1>3. ASSUME NEW i \in 1 .. n + 1
        PROVE  pp[i] \in 1 .. n + 1 /\ qq[pp[i]] = i /\ u[i] = s[pp[i]]
    <2>1. CASE i < at
      <3>1. i \in 1 .. n /\ pp[i] = p[i] /\ u[i] = t[i]
        BY <1>0, <2>1
      <3>2. p[i] \in 1 .. n + 1 /\ p[i] # n + 1 /\ q[p[i]] = i /\ t[i] = s[p[i]]
        BY <1>2, <3>1
      <3> QED  BY <2>1, <3>1, <3>2
    <2>2. CASE i = at
      <3>1. pp[i] = n + 1 /\ u[i] = s[n + 1] /\ n + 1 \in 1 .. n + 1
        BY <1>0, <2>2
      <3> QED  BY <2>2, <3>1
    <2>3. CASE i > at
      <3>1. i - 1 \in 1 .. n /\ pp[i] = p[i - 1] /\ u[i] = t[i - 1]
        BY <1>0, <2>3
      <3>2. p[i - 1] \in 1 .. n + 1 /\ p[i - 1] # n + 1 /\ q[p[i - 1]] = i - 1 /\ t[i - 1] = s[p[i - 1]]
        BY <1>2, <3>1
      <3>3. ~(i - 1 < at) /\ (i - 1) + 1 = i
        BY <2>3
      <3> QED  BY <3>1, <3>2, <3>3
    <2> QED  BY <2>1, <2>2, <2>3
  <1>4. ASSUME NEW k \in 1 .. n + 1
        PROVE  qq[k] \in 1 .. n + 1 /\ pp[qq[k]] = k
    <2>1. CASE k = n + 1
      BY <2>1
    <2>2. CASE k # n + 1
      <3>1. k \in 1 .. n /\ q[k] \in 1 .. n /\ p[q[k]] = k
        BY <1>2, <2>2
      <3>2. CASE q[k] < at
        <4>1. qq[k] = q[k] /\ q[k] \in 1 .. n + 1
          BY <2>2, <3>1, <3>2
        <4> QED  BY <3>1, <3>2, <4>1
      <3>3. CASE ~(q[k] < at)
        <4>1. qq[k] = q[k] + 1 /\ q[k] + 1 \in 1 .. n + 1 /\ ~(q[k] + 1 < at) /\ q[k] + 1 # at
              /\ (q[k] + 1) - 1 = q[k]
          BY <2>2, <3>1, <3>3
        <4> QED  BY <3>1, <4>1
      <3> QED  BY <3>2, <3>3
    <2> QED  BY <2>1, <2>2
  <1>5. pp \in [1 .. n + 1 -> 1 .. n + 1] /\ qq \in [1 .. n + 1 -> 1 .. n + 1]
    BY <1>3, <1>4
  <1> HIDE DEF pp, qq
  <1>6. MovedBy(u, s, n + 1, pp, qq)
    BY <1>3, <1>4, <1>5 DEF MovedBy
  <1> QED  BY <1>6 DEF Rearranges

Sorting(s, k, l, f) ==
  f = [i \in 0 .. Len(s) |-> IF i = 0 THEN <<>> ELSE Placed(f[i - 1], s[i], k, l)]

\* Insertion sort rearranges the pairs in their order.
LEMMA OrderedIs ==
  ASSUME NEW s \in Seq(Pairs), NEW k \in {1, 2}, NEW l \in {1, 2}
  PROVE  LET t == Ordered(s, k, l)
         IN  /\ t \in Seq(Pairs) /\ Len(t) = Len(s)
             /\ InOrder(t, k, l) /\ Rearranges(t, s, Len(s))
PROOF
  <1> DEFINE n == Len(s)
             A == Sortings(k, l)
             step == [i \in 1 .. n |-> [t \in A |-> Placed(t, s[i], k, l)]]
             f == CHOOSE g : Sorting(s, k, l, g)
             right == {i \in 0 .. n : f[i] \in A /\ Len(f[i]) = i /\ Rearranges(f[i], s, i)}
  <1>1. Ordered(s, k, l) = f[n]
    BY DEF Ordered, Sorting
  <1>2. n \in Nat /\ \A i \in 1 .. n : s[i] \in Pairs
    OBVIOUS
  <1>3. <<>> \in A
    BY DEF InOrder, Sortings
  <1>4. \A i \in 1 .. n : \A t \in A : step[i][t] = Placed(t, s[i], k, l) /\ step[i][t] \in A
    <2> TAKE i \in 1 .. n
    <2> TAKE t \in A
    <2>1. Placed(t, s[i], k, l) \in A
      BY <1>2, PlacedIs
    <2> QED  BY <2>1
  <1> HIDE DEF step, n
  <1>5. PICK g : Passes(g, n, <<>>, step) /\ \A i \in 0 .. n : g[i] \in A
    <2>1. \A i \in 1 .. n : \A t \in A : step[i][t] \in A
      BY <1>4
    <2> QED  BY <1>2, <1>3, <2>1, PassExists
  <1>6. Sorting(s, k, l, g)
    <2>1. ASSUME NEW i \in 0 .. n, i # 0 PROVE step[i][g[i - 1]] = Placed(g[i - 1], s[i], k, l)
      <3>1. i \in 1 .. n /\ i - 1 \in 0 .. n
        BY <1>2, <2>1
      <3> QED  BY <1>4, <1>5, <3>1
    <2>2. \A i \in 0 .. n : (IF i = 0 THEN <<>> ELSE step[i][g[i - 1]])
                             = (IF i = 0 THEN <<>> ELSE Placed(g[i - 1], s[i], k, l))
      BY <2>1
    <2>3. g = [i \in 0 .. n |-> IF i = 0 THEN <<>> ELSE Placed(g[i - 1], s[i], k, l)]
      BY <1>5, <2>2 DEF Passes
    <2> QED  BY <2>3 DEF Sorting, n
  <1>7. Sorting(s, k, l, f)
    BY <1>6
  <1> HIDE DEF f
  <1>8. f[0] = <<>> /\ \A i \in 1 .. n : f[i] = Placed(f[i - 1], s[i], k, l)
    BY <1>2, <1>7 DEF Sorting, n
  <1>9. 0 \in right
    <2>1. Rearranges(<<>>, s, 0)
      <3>1. MovedBy(<<>>, s, 0, <<>>, <<>>)
        BY DEF MovedBy
      <3> QED  BY <3>1 DEF Rearranges
    <2> QED  BY <1>2, <1>3, <1>8, <2>1
  <1>10. \A i \in 0 .. n - 1 : i \in right => i + 1 \in right
    <2> SUFFICES ASSUME NEW i \in 0 .. n - 1, i \in right PROVE i + 1 \in right
      OBVIOUS
    <2>1. /\ f[i] \in A /\ Len(f[i]) = i /\ Rearranges(f[i], s, i)
          /\ i \in Nat /\ i + 1 \in 1 .. n /\ i + 1 \in 0 .. n /\ s[i + 1] \in Pairs
          /\ (i + 1) - 1 = i
      BY <1>2
    <2>2. f[i + 1] = Placed(f[i], s[i + 1], k, l)
      BY <1>8, <2>1
    <2>3. f[i + 1] \in A /\ Len(f[i + 1]) = i + 1 /\ PutInto(f[i + 1], f[i], i, s[i + 1])
      BY <2>1, <2>2, PlacedIs
    <2>4. Rearranges(f[i + 1], s, i + 1)
      BY <2>1, <2>3, PlacedRearranges
    <2> QED  BY <2>1, <2>3, <2>4
  <1>11. n \in right
    <2>1. 0 \in Int /\ n \in Int /\ n \in 0 .. n
      BY <1>2
    <2> HIDE DEF right
    <2> QED  BY <1>9, <1>10, <2>1, RangeInduction
  <1> QED  BY <1>1, <1>11 DEF n, Sortings

-----------------------------------------------------------------------------
(* Intervals.                                                                *)

Proper == {span \in Nat \X Nat : span[1] < span[2]}

\* t holds the intervals of s, moved by p and back by q, by their k-th component.
SortedSpans(t, s, k, p, q) ==
  /\ t \in Seq(Proper) /\ Len(t) = Len(s) /\ MovedBy(t, s, Len(s), p, q)
  /\ \A i \in 1 .. Len(s) : \A j \in i .. Len(s) : t[i][k] <= t[j][k]

LEMMA SpansOrdered ==
  ASSUME NEW s \in Seq(Proper), NEW k \in {1, 2}
  PROVE  \E p, q : SortedSpans(Ordered(s, k, k), s, k, p, q)
PROOF
  <1> DEFINE t == Ordered(s, k, k)
             n == Len(s)
  <1>1. n \in Nat /\ s \in Seq(Pairs) /\ \A i \in 1 .. n : s[i] \in Proper
    <2>1. Proper \subseteq Pairs
      BY DEF Proper, Pairs
    <2> QED  BY <2>1
  <1>2. t \in Seq(Pairs) /\ Len(t) = n /\ InOrder(t, k, k) /\ Rearranges(t, s, n)
    BY <1>1, OrderedIs
  <1> HIDE DEF t, n
  <1>3. PICK p, q : MovedBy(t, s, n, p, q)
    BY <1>2 DEF Rearranges
  <1>4. \A i \in 1 .. n : t[i] \in Proper
    BY <1>1, <1>3 DEF MovedBy
  <1>5. t \in Seq(Proper)
    BY <1>1, <1>2, <1>4
  <1>6. ASSUME NEW i \in 1 .. n, NEW j \in i .. n PROVE t[i][k] <= t[j][k]
    <2>1. j \in 1 .. n
      BY <1>1
    <2>2. NotAfter(t[i], t[j], k, k) /\ t[i] \in Pairs /\ t[j] \in Pairs
      BY <1>2, <2>1 DEF InOrder
    <2> QED  BY <2>2, NotAfterOrders
  <1>7. SortedSpans(t, s, k, p, q)
    BY <1>2, <1>3, <1>5, <1>6 DEF SortedSpans, n
  <1> QED  BY <1>7 DEF t

LEMMA SortedSpansAre ==
  ASSUME NEW s \in Seq(Proper), NEW k \in {1, 2}, NEW t, NEW p, NEW q, SortedSpans(t, s, k, p, q)
  PROVE  LET n == Len(s) IN
         /\ n \in Nat /\ Len(t) = n /\ DOMAIN t = 1 .. n /\ DOMAIN s = 1 .. n
         /\ \A i \in 1 .. n : /\ s[i][1] \in Nat /\ s[i][2] \in Nat /\ s[i][1] < s[i][2]
                              /\ t[i][1] \in Nat /\ t[i][2] \in Nat /\ t[i][1] < t[i][2]
         /\ \A i \in 1 .. n : /\ p[i] \in 1 .. n /\ q[i] \in 1 .. n
                              /\ q[p[i]] = i /\ p[q[i]] = i /\ t[i] = s[p[i]] /\ s[i] = t[q[i]]
         /\ \A i \in 1 .. n : \A j \in i .. n : t[i][k] <= t[j][k]
PROOF
  <1> DEFINE n == Len(s)
  <1>1. n \in Nat /\ Len(t) = n /\ DOMAIN t = 1 .. n /\ DOMAIN s = 1 .. n
    BY DEF SortedSpans
  <1>2. \A i \in 1 .. n : s[i] \in Proper /\ t[i] \in Proper
    BY <1>1 DEF SortedSpans
  <1>3. \A a \in Proper : a[1] \in Nat /\ a[2] \in Nat /\ a[1] < a[2]
    BY DEF Proper
  <1>4. MovedBy(t, s, n, p, q)
    BY DEF SortedSpans
  <1> HIDE DEF n
  <1>5. \A i \in 1 .. n : /\ p[i] \in 1 .. n /\ q[i] \in 1 .. n
                          /\ q[p[i]] = i /\ p[q[i]] = i /\ t[i] = s[p[i]] /\ s[i] = t[q[i]]
    BY <1>4 DEF MovedBy
  <1>6. \A i \in 1 .. n : \A j \in i .. n : t[i][k] <= t[j][k]
    BY DEF SortedSpans, n
  <1> QED  BY <1>1, <1>2, <1>3, <1>5, <1>6 DEF n

\* CanAttendMeetings: comparing neighbours in the order of their starts finds
\* every overlap.
THEOREM CanAttendIsRight ==
  ASSUME NEW intervals \in Seq(Proper)
  PROVE  CanAttendRight(intervals)
PROOF
  <1> DEFINE n == Len(intervals)
             t == Ordered(intervals, 1, 1)
             late == \A i \in 2 .. n : t[i][1] >= t[i - 1][2]
             apart == \A i, j \in 1 .. n : i # j => ~Overlap(intervals[i], intervals[j])
  <1>1. PICK p, q : SortedSpans(t, intervals, 1, p, q)
    BY SpansOrdered
  <1> HIDE DEF t
  <1>2. /\ n \in Nat /\ Len(t) = n /\ DOMAIN t = 1 .. n /\ DOMAIN intervals = 1 .. n
        /\ \A i \in 1 .. n : t[i][1] \in Nat /\ t[i][2] \in Nat /\ t[i][1] < t[i][2]
        /\ \A i \in 1 .. n : /\ p[i] \in 1 .. n /\ q[i] \in 1 .. n
                             /\ q[p[i]] = i /\ p[q[i]] = i /\ t[i] = intervals[p[i]] /\ intervals[i] = t[q[i]]
        /\ \A i \in 1 .. n : \A j \in i .. n : t[i][1] <= t[j][1]
    BY <1>1, SortedSpansAre
  <1> HIDE DEF n
  <1>3. CanAttendMeetings(intervals) <=> late
    BY <1>2 DEF CanAttendMeetings, ByStart, t
  <1>4. ASSUME apart PROVE late
    <2> TAKE i \in 2 .. n
    <2>1. i \in 1 .. n /\ i - 1 \in 1 .. n /\ i \in i - 1 .. n /\ p[i] # p[i - 1]
      BY <1>2
    <2>2. ~Overlap(t[i], t[i - 1])
      BY <1>2, <1>4, <2>1
    <2>3. t[i - 1][1] <= t[i][1] /\ t[i][1] < t[i][2]
      BY <1>2, <2>1
    <2> QED  BY <1>2, <2>1, <2>2, <2>3 DEF Overlap
  <1>5. ASSUME late, NEW i \in 1 .. n, NEW j \in i + 1 .. n PROVE ~Overlap(t[i], t[j])
    <2>1. i + 1 \in 2 .. n /\ i + 1 \in 1 .. n /\ j \in i + 1 .. n /\ j \in 1 .. n /\ (i + 1) - 1 = i
      BY <1>2
    <2>2. t[i + 1][1] >= t[i][2]
      BY <1>5, <2>1
    <2>3. t[i + 1][1] <= t[j][1]
      BY <1>2, <2>1
    <2> QED  BY <1>2, <2>1, <2>2, <2>3 DEF Overlap
  <1>6. ASSUME late PROVE apart
    <2> SUFFICES ASSUME NEW i \in 1 .. n, NEW j \in 1 .. n, i # j PROVE ~Overlap(intervals[i], intervals[j])
      OBVIOUS
    <2>1. q[i] \in 1 .. n /\ q[j] \in 1 .. n /\ q[i] # q[j] /\ intervals[i] = t[q[i]] /\ intervals[j] = t[q[j]]
      BY <1>2
    <2>2. CASE q[i] < q[j]
      <3>1. q[j] \in q[i] + 1 .. n
        BY <2>1, <2>2
      <3> QED  BY <1>5, <1>6, <2>1, <3>1
    <2>3. CASE q[j] < q[i]
      <3>1. q[i] \in q[j] + 1 .. n
        BY <2>1, <2>3
      <3>2. ~Overlap(t[q[j]], t[q[i]])
        BY <1>5, <1>6, <2>1, <3>1
      <3> QED  BY <2>1, <3>2 DEF Overlap
    <2> QED  BY <2>1, <2>2, <2>3
  <1> QED  BY <1>2, <1>3, <1>4, <1>6 DEF CanAttendRight

-----------------------------------------------------------------------------
(* Merging.                                                                  *)

Covers(span, x) == 2 * span[1] <= x /\ x <= 2 * span[2]

\* In order, with a gap between any two.
Separated ==
  {m \in Seq(Proper) : \A i \in 1 .. Len(m) - 1 : m[i][2] < m[i + 1][1]}

LEMMA PointsAre ==
  ASSUME NEW s \in Seq(Proper)
  PROVE  \A x : x \in Points(s) <=> x \in Int /\ \E i \in 1 .. Len(s) : Covers(s[i], x)
PROOF
  <1>1. DOMAIN s = 1 .. Len(s) /\ \A i \in 1 .. Len(s) : s[i][1] \in Nat /\ s[i][2] \in Nat
    <2>1. \A i \in 1 .. Len(s) : s[i] \in Proper
      OBVIOUS
    <2> QED  BY <2>1 DEF Proper
  <1>2. \A i \in 1 .. Len(s) : \A x : x \in 2 * s[i][1] .. 2 * s[i][2] <=> x \in Int /\ Covers(s[i], x)
    BY <1>1 DEF Covers
  <1>3. \A x : x \in Points(s) <=> \E i \in 1 .. Len(s) : x \in 2 * s[i][1] .. 2 * s[i][2]
    BY <1>1 DEF Points
  <1> QED  BY <1>2, <1>3

LEMMA JoinedIs ==
  ASSUME NEW m \in Separated, m # <<>>, NEW next \in Proper, next[2] <= m[1][2]
  PROVE  LET j == Joined(m, next) IN
         /\ j \in Separated /\ j # <<>> /\ next[2] <= j[1][2]
         /\ \A x \in Int : (\E i \in 1 .. Len(j) : Covers(j[i], x)) <=>
              Covers(next, x) \/ \E i \in 1 .. Len(m) : Covers(m[i], x)
PROOF
  <1> DEFINE j == Joined(m, next)
             n == Len(m)
             first == <<Smaller(m[1][1], next[1]), m[1][2]>>
  <1>1. /\ n \in Nat /\ 1 \in 1 .. n /\ DOMAIN m = 1 .. n /\ m \in Seq(Proper)
        /\ \A i \in 1 .. n : m[i] \in Proper
        /\ \A i \in 1 .. n - 1 : m[i][2] < m[i + 1][1]
    <2>1. m \in Seq(Proper) /\ \A i \in 1 .. n - 1 : m[i][2] < m[i + 1][1]
      BY DEF Separated
    <2>2. n \in Nat /\ DOMAIN m = 1 .. n /\ n # 0 /\ \A i \in 1 .. n : m[i] \in Proper
      BY <2>1
    <2> QED  BY <2>1, <2>2
  <1>2. \A a \in Proper : a[1] \in Nat /\ a[2] \in Nat /\ a[1] < a[2] /\ a = <<a[1], a[2]>>
    BY DEF Proper
  <1>3. CASE next[2] >= m[1][1]
    <2>1. j = [m EXCEPT ![1] = first]
      BY <1>3 DEF Joined
    <2>2. first \in Proper /\ first[1] <= m[1][1] /\ first[1] <= next[1] /\ first[2] = m[1][2]
          /\ (first[1] = m[1][1] \/ first[1] = next[1])
      <3>1. m[1][1] \in Nat /\ m[1][2] \in Nat /\ next[1] \in Nat /\ m[1][1] < m[1][2] /\ next[1] < next[2]
            /\ next[2] \in Nat
        BY <1>1, <1>2
      <3>2. /\ Smaller(m[1][1], next[1]) \in Nat /\ Smaller(m[1][1], next[1]) <= m[1][1]
            /\ Smaller(m[1][1], next[1]) <= next[1]
            /\ (Smaller(m[1][1], next[1]) = m[1][1] \/ Smaller(m[1][1], next[1]) = next[1])
        BY <3>1 DEF Smaller
      <3> HIDE DEF j
      <3>3. first[1] = Smaller(m[1][1], next[1]) /\ first[2] = m[1][2]
        OBVIOUS
      <3>4. first \in Nat \X Nat /\ first[1] < first[2]
        BY <3>1, <3>2, <3>3
      <3> QED  BY <3>2, <3>3, <3>4 DEF Proper
    <2> HIDE DEF first, j
    <2>3. /\ j \in Seq(Proper) /\ Len(j) = n /\ j[1] = first
          /\ \A i \in 2 .. n : j[i] = m[i]
      BY <1>1, <2>1, <2>2
    <2>4. \A i \in 1 .. n - 1 : j[i][2] < j[i + 1][1]
      <3> TAKE i \in 1 .. n - 1
      <3>1. i + 1 \in 2 .. n /\ j[i + 1] = m[i + 1] /\ m[i][2] < m[i + 1][1]
        BY <1>1, <2>3
      <3>2. j[i][2] = m[i][2]
        <4>1. i = 1 \/ i \in 2 .. n
          BY <1>1
        <4> QED  BY <2>2, <2>3, <4>1
      <3> QED  BY <3>1, <3>2
    <2>5. ASSUME NEW x \in Int
          PROVE  Covers(first, x) <=> Covers(next, x) \/ Covers(m[1], x)
      <3>1. m[1][1] \in Nat /\ m[1][2] \in Nat /\ next[1] \in Nat /\ m[1][1] < m[1][2] /\ next[1] < next[2]
            /\ next[2] \in Nat /\ first[1] \in Nat
        BY <1>1, <1>2, <2>2
      <3> DEFINE a == m[1][1]
                 b == m[1][2]
                 c == next[1]
                 d == next[2]
                 e == first[1]
      <3>2. /\ a \in Int /\ b \in Int /\ c \in Int /\ d \in Int /\ e \in Int
            /\ a <= d /\ d <= b /\ e <= a /\ e <= c /\ (e = a \/ e = c)
        BY <1>3, <2>2, <3>1
      <3>3. /\ Covers(first, x) <=> 2 * e <= x /\ x <= 2 * b
            /\ Covers(next, x) <=> 2 * c <= x /\ x <= 2 * d
            /\ Covers(m[1], x) <=> 2 * a <= x /\ x <= 2 * b
        BY <2>2 DEF Covers
      <3> HIDE DEF a, b, c, d, e
      <3>4. (2 * e <= x /\ x <= 2 * b) <=> (2 * c <= x /\ x <= 2 * d) \/ (2 * a <= x /\ x <= 2 * b)
        BY <3>2
      <3> QED  BY <3>3, <3>4
    <2>6. ASSUME NEW x \in Int
          PROVE  (\E i \in 1 .. n : Covers(j[i], x)) <=>
                   Covers(next, x) \/ \E i \in 1 .. n : Covers(m[i], x)
      <3>1. (\E i \in 1 .. n : Covers(j[i], x)) <=> Covers(first, x) \/ \E i \in 2 .. n : Covers(m[i], x)
        <4>1. \A i \in 1 .. n : i = 1 \/ i \in 2 .. n
          BY <1>1
        <4>2. \A i \in 2 .. n : i \in 1 .. n
          BY <1>1
        <4> QED  BY <1>1, <2>3, <4>1, <4>2
      <3>2. (\E i \in 1 .. n : Covers(m[i], x)) <=> Covers(m[1], x) \/ \E i \in 2 .. n : Covers(m[i], x)
        <4>1. \A i \in 1 .. n : i = 1 \/ i \in 2 .. n
          BY <1>1
        <4>2. \A i \in 2 .. n : i \in 1 .. n
          BY <1>1
        <4> QED  BY <1>1, <4>1, <4>2
      <3> QED  BY <2>5, <3>1, <3>2
    <2>7. j # <<>> /\ next[2] <= j[1][2]
      BY <1>1, <2>2, <2>3
    <2> QED  BY <2>3, <2>4, <2>6, <2>7 DEF Separated, j
  <1>4. CASE ~(next[2] >= m[1][1])
    <2>1. j = <<next>> \o m
      BY <1>4 DEF Joined
    <2> HIDE DEF j
    <2>2. /\ j \in Seq(Proper) /\ Len(j) = n + 1 /\ j[1] = next
          /\ \A i \in 2 .. n + 1 : j[i] = m[i - 1]
      BY <1>1, <2>1, PrependIs
    <2>3. \A i \in 1 .. (n + 1) - 1 : j[i][2] < j[i + 1][1]
      <3> TAKE i \in 1 .. (n + 1) - 1
      <3>1. i + 1 \in 2 .. n + 1 /\ j[i + 1] = m[i] /\ i \in 1 .. n
        BY <1>1, <2>2
      <3>2. CASE i = 1
        <4>1. next[2] \in Nat /\ m[1][1] \in Nat
          BY <1>1, <1>2
        <4> QED  BY <1>4, <2>2, <3>1, <3>2, <4>1
      <3>3. CASE i # 1
        <4>1. i \in 2 .. n + 1 /\ i - 1 \in 1 .. n - 1 /\ (i - 1) + 1 = i
          BY <1>1, <3>3
        <4> QED  BY <1>1, <2>2, <3>1, <4>1
      <3> QED  BY <3>2, <3>3
    <2>4. ASSUME NEW x \in Int
          PROVE  (\E i \in 1 .. n + 1 : Covers(j[i], x)) <=>
                   Covers(next, x) \/ \E i \in 1 .. n : Covers(m[i], x)
      <3>1. \A i \in 1 .. n : i + 1 \in 2 .. n + 1 /\ i + 1 \in 1 .. n + 1 /\ (i + 1) - 1 = i
        BY <1>1
      <3>2. \A i \in 1 .. n + 1 : i = 1 \/ (i \in 2 .. n + 1 /\ i - 1 \in 1 .. n)
        BY <1>1
      <3>3. 1 \in 1 .. n + 1
        BY <1>1
      <3> QED  BY <2>2, <3>1, <3>2, <3>3
    <2>5. j # <<>> /\ next[2] <= j[1][2]
      BY <1>1, <1>2, <2>2
    <2> QED  BY <2>2, <2>3, <2>4, <2>5 DEF Separated, j
  <1> QED  BY <1>3, <1>4

\* Not empty, of pairs of naturals.
Mergings == {m \in Seq(Nat \X Nat) : m # <<>>}

LEMMA JoinedType ==
  ASSUME NEW m \in Mergings, NEW next \in Proper
  PROVE  Joined(m, next) \in Mergings
PROOF
  <1>1. /\ Len(m) \in Nat /\ 1 \in 1 .. Len(m) /\ m \in Seq(Nat \X Nat)
        /\ \A i \in 1 .. Len(m) : m[i] \in Nat \X Nat
    <2>1. m \in Seq(Nat \X Nat) /\ m # <<>>
      BY DEF Mergings
    <2>2. Len(m) \in Nat /\ Len(m) # 0
      BY <2>1
    <2> QED  BY <2>1, <2>2
  <1>2. next \in Nat \X Nat
    BY DEF Proper
  <1>3. <<Smaller(m[1][1], next[1]), m[1][2]>> \in Nat \X Nat
    BY <1>1, <1>2 DEF Smaller
  <1>4. [m EXCEPT ![1] = <<Smaller(m[1][1], next[1]), m[1][2]>>] \in Mergings
    <2> DEFINE first == <<Smaller(m[1][1], next[1]), m[1][2]>>
               j == [m EXCEPT ![1] = first]
    <2> HIDE DEF first
    <2>1. j \in Seq(Nat \X Nat) /\ Len(j) = Len(m)
      BY <1>1, <1>3 DEF first
    <2>2. j # <<>>
      BY <1>1, <2>1
    <2> QED  BY <2>1, <2>2 DEF Mergings, first
  <1>5. <<next>> \o m \in Mergings
    <2>1. <<next>> \o m \in Seq(Nat \X Nat) /\ Len(<<next>> \o m) = Len(m) + 1
      BY <1>1, <1>2, PrependIs
    <2> QED  BY <1>1, <2>1 DEF Mergings
  <1> QED  BY <1>4, <1>5 DEF Joined

Merging(heap, n, f) ==
  f = [i \in 1 .. n |-> IF i = n THEN <<heap[n]>> ELSE Joined(f[i + 1], heap[i])]

\* What is merged has gaps, and the same points.
LEMMA MergeIs ==
  ASSUME NEW intervals \in Seq(Proper)
  PROVE  /\ Merge(intervals) \in Separated
         /\ \A x : x \in Points(Merge(intervals)) <=> x \in Points(intervals)
         /\ Merge(intervals) = <<>> => intervals = <<>>
PROOF
  <1> DEFINE n == Len(intervals)
             t == Ordered(intervals, 2, 2)
             f == CHOOSE g : Merging(t, n, g)
  <1>1. PICK p, q : SortedSpans(t, intervals, 2, p, q)
    BY SpansOrdered
  <1>2. Merge(intervals) = IF intervals = <<>> THEN <<>> ELSE f[1]
    BY DEF Merge, Merging, ByEnd
  <1> HIDE DEF t, f
  <1>3. /\ n \in Nat /\ Len(t) = n /\ DOMAIN intervals = 1 .. n
        /\ \A i \in 1 .. n : /\ p[i] \in 1 .. n /\ q[i] \in 1 .. n
                             /\ q[p[i]] = i /\ p[q[i]] = i /\ t[i] = intervals[p[i]] /\ intervals[i] = t[q[i]]
        /\ \A i \in 1 .. n : \A j \in i .. n : t[i][2] <= t[j][2]
    BY <1>1, SortedSpansAre
  <1>4. \A i \in 1 .. n : t[i] \in Proper /\ t[i][2] \in Nat
    <2>1. t \in Seq(Proper)
      BY <1>1 DEF SortedSpans
    <2>2. \A i \in 1 .. n : t[i] \in Proper
      BY <1>3, <2>1
    <2> QED  BY <2>2 DEF Proper
  <1>5. CASE intervals = <<>>
    <2>1. <<>> \in Separated
      BY DEF Separated
    <2> QED  BY <1>2, <1>5, <2>1
  <1>6. CASE intervals # <<>>
    <2> DEFINE A == Mergings
               seg(i) == {x \in Int : \E j \in i .. n : Covers(t[j], x)}
               pts(m) == {x \in Int : \E j \in 1 .. Len(m) : Covers(m[j], x)}
               step == [i \in 1 .. n |-> [m \in A |-> Joined(m, t[i])]]
               right == {i \in 1 .. n : /\ f[i] \in Separated /\ f[i] # <<>>
                                        /\ t[i][2] <= f[i][1][2] /\ pts(f[i]) = seg(i)}
    <2>1. n \in Nat \ {0} /\ n \in 1 .. n /\ 1 \in 1 .. n
      BY <1>3, <1>6
    <2>2. <<t[n]>> \in A
      <3>1. t[n] \in Nat \X Nat
        BY <1>4, <2>1 DEF Proper
      <3> QED  BY <3>1 DEF Mergings
    <2>3. \A i \in 1 .. n : \A m \in A : step[i][m] \in A /\ step[i][m] = Joined(m, t[i])
      <3> TAKE i \in 1 .. n
      <3> TAKE m \in A
      <3>1. step[i][m] = Joined(m, t[i]) /\ t[i] \in Proper
        BY <1>4
      <3> QED  BY <3>1, JoinedType
    <2> HIDE DEF step, n
    <2>4. PICK g : PassesDown(g, n, <<t[n]>>, step) /\ \A i \in 1 .. n : g[i] \in A
      <3>1. \A i \in 1 .. n - 1 : \A m \in A : step[i][m] \in A
        <4>1. \A i \in 1 .. n - 1 : i \in 1 .. n
          BY <1>3
        <4> QED  BY <2>3, <4>1
      <3> QED  BY <2>1, <2>2, <3>1, PassDownExists
    <2>5. Merging(t, n, g)
      <3>1. ASSUME NEW i \in 1 .. n, i # n PROVE step[i][g[i + 1]] = Joined(g[i + 1], t[i])
        <4>1. i + 1 \in 1 .. n
          BY <1>3, <3>1
        <4> QED  BY <2>3, <2>4, <4>1
      <3>2. \A i \in 1 .. n : (IF i = n THEN <<t[n]>> ELSE step[i][g[i + 1]])
                              = (IF i = n THEN <<t[n]>> ELSE Joined(g[i + 1], t[i]))
        BY <3>1
      <3>3. g = [i \in 1 .. n |-> IF i = n THEN <<t[n]>> ELSE Joined(g[i + 1], t[i])]
        BY <2>4, <3>2 DEF PassesDown
      <3> QED  BY <3>3 DEF Merging
    <2>6. Merging(t, n, f)
      BY <2>5 DEF f, n
    <2>7. f[n] = <<t[n]>> /\ \A i \in 1 .. n - 1 : f[i] = Joined(f[i + 1], t[i])
      <3>1. f[n] = <<t[n]>>
        BY <2>1, <2>6 DEF Merging
      <3>2. ASSUME NEW i \in 1 .. n - 1 PROVE f[i] = Joined(f[i + 1], t[i])
        <4>1. i \in 1 .. n /\ i # n
          BY <1>3
        <4> QED  BY <2>6, <4>1 DEF Merging
      <3> QED  BY <3>1, <3>2
    <2>8. n \in right
      <3>1. f[n][1] = t[n] /\ Len(f[n]) = 1 /\ f[n] # <<>>
        BY <2>7
      <3>2. f[n] \in Separated
        <4>1. <<t[n]>> \in Seq(Proper) /\ Len(<<t[n]>>) = 1
          BY <1>4, <2>1
        <4> QED  BY <2>7, <4>1 DEF Separated
      <3>3. \A j \in n .. n : j = n
        BY <1>3
      <3>4. n \in n .. n
        BY <1>3
      <3>5. pts(f[n]) = seg(n)
        BY <3>1, <3>3, <3>4
      <3>6. t[n][2] <= f[n][1][2]
        BY <1>4, <2>1, <3>1
      <3> QED  BY <2>1, <3>1, <3>2, <3>5, <3>6
    <2>9. \A i \in 1 + 1 .. n : i \in right => i - 1 \in right
      <3> SUFFICES ASSUME NEW i \in 1 + 1 .. n, i \in right PROVE i - 1 \in right
        OBVIOUS
      <3>1. i \in 1 .. n /\ i - 1 \in 1 .. n - 1 /\ i - 1 \in 1 .. n /\ (i - 1) + 1 = i /\ i \in i - 1 .. n
        BY <1>3
      <3>2. /\ f[i] \in Separated /\ f[i] # <<>> /\ t[i][2] <= f[i][1][2] /\ pts(f[i]) = seg(i)
        OBVIOUS
      <3> DEFINE k == i - 1
      <3>3. f[k] = Joined(f[i], t[k]) /\ k \in 1 .. n /\ t[k] \in Proper /\ t[k][2] <= t[i][2]
        BY <1>3, <1>4, <2>7, <3>1
      <3>4. t[k][2] <= f[i][1][2]
        <4>1. f[i][1] \in Proper
          <5>1. f[i] \in Seq(Proper)
            BY <3>2 DEF Separated
          <5> QED  BY <3>2, <5>1
        <4>2. f[i][1][2] \in Nat
          BY <4>1 DEF Proper
        <4> QED  BY <1>4, <3>1, <3>2, <3>3, <4>2
      <3>5. /\ f[k] \in Separated /\ f[k] # <<>> /\ t[k][2] <= f[k][1][2]
            /\ \A x \in Int : (\E j \in 1 .. Len(f[k]) : Covers(f[k][j], x)) <=>
                 Covers(t[k], x) \/ \E j \in 1 .. Len(f[i]) : Covers(f[i][j], x)
        BY <3>2, <3>3, <3>4, JoinedIs
      <3>6. \A x \in Int : (\E j \in k .. n : Covers(t[j], x)) <=>
                             Covers(t[k], x) \/ \E j \in i .. n : Covers(t[j], x)
        <4>1. \A j \in k .. n : j = k \/ j \in i .. n
          BY <3>1
        <4>2. k \in k .. n /\ \A j \in i .. n : j \in k .. n
          BY <3>1
        <4> QED  BY <4>1, <4>2
      <3>7. pts(f[k]) = seg(k)
        BY <3>2, <3>5, <3>6
      <3> QED  BY <3>3, <3>5, <3>7
    <2>10. 1 \in right
      <3>1. 1 \in Int /\ n \in Int
        BY <1>3
      <3> HIDE DEF right
      <3> QED  BY <2>1, <2>8, <2>9, <3>1, DownInduction
    <2>11. Merge(intervals) = f[1]
      BY <1>2, <1>6
    <2>12. f[1] \in Separated /\ f[1] # <<>> /\ pts(f[1]) = seg(1)
      BY <2>10
    <2>13. ASSUME NEW x PROVE x \in Points(f[1]) <=> x \in Points(intervals)
      <3>1. x \in Points(f[1]) <=> x \in pts(f[1])
        <4>1. f[1] \in Seq(Proper)
          BY <2>12 DEF Separated
        <4> QED  BY <4>1, PointsAre
      <3>2. x \in Points(intervals) <=> x \in Int /\ \E i \in 1 .. n : Covers(intervals[i], x)
        BY PointsAre DEF n
      <3>3. (\E i \in 1 .. n : Covers(intervals[i], x)) <=> (\E i \in 1 .. n : Covers(t[i], x))
        BY <1>3
      <3> QED  BY <2>12, <3>1, <3>2, <3>3
    <2> QED  BY <2>11, <2>12, <2>13
  <1> QED  BY <1>5, <1>6

\* Merge: the heap by descending end leaves intervals that cover the same points
\* and lie apart, in order.
THEOREM MergeIsRight ==
  ASSUME NEW intervals \in Seq(Proper)
  PROVE  MergeRight(intervals)
PROOF
  <1>1. Merge(intervals) \in Separated /\ \A x : x \in Points(Merge(intervals)) <=> x \in Points(intervals)
    BY MergeIs
  <1>2. Points(Merge(intervals)) = Points(intervals)
    BY <1>1
  <1>3. \A i \in 1..Len(Merge(intervals)) - 1 : Merge(intervals)[i][2] < Merge(intervals)[i + 1][1]
    BY <1>1 DEF Separated
  <1> QED  BY <1>2, <1>3 DEF MergeRight

LEMMA SeparatedAre ==
  ASSUME NEW m \in Separated
  PROVE  /\ Len(m) \in Nat /\ DOMAIN m = 1 .. Len(m) /\ m \in Seq(Proper)
         /\ \A i \in 1 .. Len(m) : m[i][1] \in Nat /\ m[i][2] \in Nat /\ m[i][1] < m[i][2] /\ m[i] \in Proper
         /\ \A i \in 1 .. Len(m) : \A j \in i + 1 .. Len(m) :
              m[i][2] < m[j][1] /\ m[i][1] < m[j][1] /\ m[i][2] < m[j][2]
PROOF
  <1> DEFINE n == Len(m)
  <1>1. m \in Seq(Proper) /\ \A i \in 1 .. n - 1 : m[i][2] < m[i + 1][1]
    BY DEF Separated
  <1>2. n \in Nat /\ DOMAIN m = 1 .. n /\ \A i \in 1 .. n : m[i] \in Proper
    BY <1>1
  <1>3. \A i \in 1 .. n : m[i][1] \in Nat /\ m[i][2] \in Nat /\ m[i][1] < m[i][2] /\ m[i] \in Proper
    BY <1>2 DEF Proper
  <1> HIDE DEF n
  <1>4. ASSUME NEW i \in 1 .. n
        PROVE  \A j \in i + 1 .. n : m[i][2] < m[j][1]
    <2> DEFINE right == {j \in i .. n : j > i => m[i][2] < m[j][1]}
    <2>1. i \in right
      BY <1>2
    <2>2. \A j \in i .. n - 1 : j \in right => j + 1 \in right
      <3> SUFFICES ASSUME NEW j \in i .. n - 1, j \in right PROVE j + 1 \in right
        OBVIOUS
      <3>1. j \in 1 .. n - 1 /\ j \in 1 .. n /\ j + 1 \in i .. n /\ j + 1 \in 1 .. n
        BY <1>2
      <3>2. m[j][2] < m[j + 1][1]
        BY <1>1, <3>1 DEF n
      <3>3. CASE j = i
        BY <3>1, <3>2, <3>3
      <3>4. CASE j > i
        <4>1. m[i][2] < m[j][1]
          BY <3>4
        <4>2. m[i][2] < m[j + 1][1]
          BY <1>3, <3>1, <3>2, <4>1
        <4> QED  BY <3>1, <4>2
      <3> QED  BY <3>1, <3>3, <3>4
    <2>3. \A j \in i .. n : j \in right
      <3>1. i \in Int /\ n \in Int
        BY <1>2
      <3> HIDE DEF right
      <3> QED  BY <2>1, <2>2, <3>1, RangeInduction
    <2> TAKE j \in i + 1 .. n
    <2>4. j \in i .. n /\ j > i
      BY <1>2
    <2> QED  BY <2>3, <2>4
  <1>5. ASSUME NEW i \in 1 .. n, NEW j \in i + 1 .. n
        PROVE  m[i][2] < m[j][1] /\ m[i][1] < m[j][1] /\ m[i][2] < m[j][2]
    <2>1. j \in 1 .. n /\ m[i][2] < m[j][1]
      BY <1>2, <1>4
    <2> QED  BY <1>3, <2>1
  <1> QED  BY <1>1, <1>2, <1>3, <1>5 DEF n

\* Two rising sequences.
Rising(a, m) == \A i \in 1 .. m : a[i] \in Int /\ \A j \in i + 1 .. m : a[i] < a[j]

AmongThem(a, m, b, n) == \A i \in 1 .. m : \E j \in 1 .. n : a[i] = b[j]

LEMMA RisingStep ==
  ASSUME NEW m \in Nat, NEW n \in Nat, NEW a, NEW b, Rising(a, m), Rising(b, n),
         AmongThem(a, m, b, n),
         NEW i \in 1 .. m, i \in 1 .. n, \A j \in 1 .. i - 1 : a[j] = b[j]
  PROVE  b[i] <= a[i]
PROOF
  <1>1. PICK l \in 1 .. n : a[i] = b[l]
    BY DEF AmongThem
  <1>2. ~(l < i)
    <2> SUFFICES ASSUME l < i PROVE FALSE
      OBVIOUS
    <2>1. l \in 1 .. i - 1 /\ l \in 1 .. m /\ i \in l + 1 .. m
      OBVIOUS
    <2>2. a[l] < a[i] /\ a[l] = b[l] /\ a[l] \in Int /\ a[i] \in Int
      BY <2>1 DEF Rising
    <2> QED  BY <1>1, <2>2
  <1>3. b[i] \in Int /\ (l = i \/ l \in i + 1 .. n)
    BY <1>2 DEF Rising
  <1>4. CASE l = i
    BY <1>1, <1>3, <1>4
  <1>5. CASE l \in i + 1 .. n
    <2>1. b[i] < b[l] /\ b[l] \in Int
      BY <1>5 DEF Rising
    <2> QED  BY <1>1, <1>3, <2>1
  <1> QED  BY <1>3, <1>4, <1>5

\* Rising sequences of the same numbers are the same.
LEMMA RisingAreSame ==
  ASSUME NEW m \in Nat, NEW n \in Nat, NEW a, NEW b, Rising(a, m), Rising(b, n),
         AmongThem(a, m, b, n), AmongThem(b, n, a, m)
  PROVE  m = n /\ \A i \in 1 .. m : a[i] = b[i]
PROOF
  <1>1. PICK k \in Nat : k <= m /\ k <= n /\ (k = m \/ k = n)
    <2>1. CASE m <= n
      <3> WITNESS m \in Nat
      <3> QED  BY <2>1
    <2>2. CASE n <= m
      <3> WITNESS n \in Nat
      <3> QED  BY <2>2
    <2> QED  BY <2>1, <2>2
  <1> DEFINE right == {i \in 0 .. k : \A j \in 1 .. i : a[j] = b[j]}
  <1>2. 0 \in right
    BY <1>1
  <1>3. \A i \in 0 .. k - 1 : i \in right => i + 1 \in right
    <2> SUFFICES ASSUME NEW i \in 0 .. k - 1, i \in right PROVE i + 1 \in right
      OBVIOUS
    <2>1. i + 1 \in 1 .. m /\ i + 1 \in 1 .. n /\ i + 1 \in 0 .. k /\ (i + 1) - 1 = i
      BY <1>1
    <2>2. \A j \in 1 .. i : a[j] = b[j] /\ b[j] = a[j]
      OBVIOUS
    <2>3. b[i + 1] <= a[i + 1]
      BY <2>1, <2>2, RisingStep
    <2>4. a[i + 1] <= b[i + 1]
      BY <2>1, <2>2, RisingStep
    <2>5. a[i + 1] = b[i + 1]
      <3>1. a[i + 1] \in Int /\ b[i + 1] \in Int
        BY <2>1 DEF Rising
      <3> DEFINE x == a[i + 1]
                 y == b[i + 1]
      <3>2. x \in Int /\ y \in Int /\ x <= y /\ y <= x
        BY <2>3, <2>4, <3>1
      <3> HIDE DEF x, y
      <3>3. x = y
        BY <3>2
      <3> QED  BY <3>3 DEF x, y
    <2>6. \A j \in 1 .. i + 1 : j \in 1 .. i \/ j = i + 1
      OBVIOUS
    <2> QED  BY <2>1, <2>2, <2>5, <2>6
  <1>4. \A j \in 1 .. k : a[j] = b[j]
    <2>1. 0 \in Int /\ k \in Int /\ k \in 0 .. k
      BY <1>1
    <2>2. k \in right
      <3> HIDE DEF right
      <3> QED  BY <1>2, <1>3, <2>1, RangeInduction
    <2> QED  BY <2>2
  <1>5. ~(m < n)
    <2> SUFFICES ASSUME m < n PROVE FALSE
      OBVIOUS
    <2>1. k = m /\ m + 1 \in 1 .. n
      BY <1>1
    <2>2. PICK i \in 1 .. m : b[m + 1] = a[i]
      BY <2>1 DEF AmongThem
    <2>3. i \in 1 .. n /\ m + 1 \in i + 1 .. n /\ a[i] = b[i]
      BY <1>4, <2>1
    <2>4. b[i] < b[m + 1] /\ b[i] \in Int
      BY <2>3 DEF Rising
    <2> QED  BY <2>2, <2>3, <2>4
  <1>6. ~(n < m)
    <2> SUFFICES ASSUME n < m PROVE FALSE
      OBVIOUS
    <2>1. k = n /\ n + 1 \in 1 .. m
      BY <1>1
    <2>2. PICK i \in 1 .. n : a[n + 1] = b[i]
      BY <2>1 DEF AmongThem
    <2>3. i \in 1 .. m /\ n + 1 \in i + 1 .. m /\ a[i] = b[i]
      BY <1>4, <2>1
    <2>4. a[i] < a[n + 1] /\ a[i] \in Int
      BY <2>3 DEF Rising
    <2> QED  BY <2>2, <2>3, <2>4
  <1>7. m = n /\ k = m
    BY <1>1, <1>5, <1>6
  <1> QED  BY <1>4, <1>7

\* What starts and ends is seen in the points.
LEMMA EndsShow ==
  ASSUME NEW m \in Separated
  PROVE  LET P == Points(m) IN
         /\ \A i \in 1 .. Len(m) : /\ 2 * m[i][1] \in P /\ 2 * m[i][1] - 1 \notin P
                                   /\ 2 * m[i][2] \in P /\ 2 * m[i][2] + 1 \notin P
         /\ \A v \in Int : 2 * v \in P /\ 2 * v - 1 \notin P => \E i \in 1 .. Len(m) : v = m[i][1]
         /\ \A v \in Int : 2 * v \in P /\ 2 * v + 1 \notin P => \E i \in 1 .. Len(m) : v = m[i][2]
PROOF
  <1> DEFINE n == Len(m)
             P == Points(m)
  <1>1. /\ n \in Nat /\ m \in Seq(Proper)
        /\ \A i \in 1 .. n : m[i][1] \in Nat /\ m[i][2] \in Nat /\ m[i][1] < m[i][2]
        /\ \A i \in 1 .. n : \A j \in i + 1 .. n : m[i][2] < m[j][1]
    BY SeparatedAre
  <1>2. \A x : x \in P <=> x \in Int /\ \E i \in 1 .. n : 2 * m[i][1] <= x /\ x <= 2 * m[i][2]
    BY <1>1, PointsAre DEF Covers
  <1> HIDE DEF P, n
  <1>3. ASSUME NEW i \in 1 .. n PROVE 2 * m[i][1] \in P /\ 2 * m[i][2] \in P
    <2> DEFINE x == m[i][1]
               y == m[i][2]
    <2>1. x \in Int /\ y \in Int /\ x < y
      BY <1>1
    <2>2. \A v : v \in Int /\ 2 * x <= v /\ v <= 2 * y => v \in P
      BY <1>2
    <2> HIDE DEF x, y
    <2>3. 2 * x \in P /\ 2 * y \in P
      <3> DEFINE u == 2 * x
                 w == 2 * y
      <3>1. u \in Int /\ w \in Int /\ u <= w
        BY <2>1
      <3>2. \A v : v \in Int /\ u <= v /\ v <= w => v \in P
        BY <2>2
      <3>3. u \in P /\ w \in P
        <4> HIDE DEF u, w
        <4> QED  BY <3>1, <3>2
      <3> QED  BY <3>3
    <2> QED  BY <2>3 DEF x, y
  <1>4. ASSUME NEW i \in 1 .. n PROVE 2 * m[i][1] - 1 \notin P /\ 2 * m[i][2] + 1 \notin P
    <2>1. ASSUME NEW j \in 1 .. n
          PROVE  /\ ~(2 * m[j][1] <= 2 * m[i][1] - 1 /\ 2 * m[i][1] - 1 <= 2 * m[j][2])
                 /\ ~(2 * m[j][1] <= 2 * m[i][2] + 1 /\ 2 * m[i][2] + 1 <= 2 * m[j][2])
      <3>1. j = i \/ j \in i + 1 .. n \/ i \in j + 1 .. n
        BY <1>1
      <3>2. CASE j = i
        BY <1>1, <3>2
      <3>3. CASE j \in i + 1 .. n
        BY <1>1, <3>3, SMTT(20)
      <3>4. CASE i \in j + 1 .. n
        BY <1>1, <3>4, SMTT(20)
      <3> QED  BY <3>1, <3>2, <3>3, <3>4
    <2> QED  BY <1>2, <2>1
  <1>5. ASSUME NEW v \in Int, 2 * v \in P, 2 * v - 1 \notin P PROVE \E i \in 1 .. n : v = m[i][1]
    <2>1. PICK i \in 1 .. n : 2 * m[i][1] <= 2 * v /\ 2 * v <= 2 * m[i][2]
      BY <1>2, <1>5
    <2>2. ~(2 * m[i][1] <= 2 * v - 1 /\ 2 * v - 1 <= 2 * m[i][2])
      BY <1>2, <1>5
    <2>3. m[i][1] \in Int /\ m[i][2] \in Int
      BY <1>1
    <2>4. v = m[i][1]
      BY <2>1, <2>2, <2>3
    <2> QED  BY <2>4
  <1>6. ASSUME NEW v \in Int, 2 * v \in P, 2 * v + 1 \notin P PROVE \E i \in 1 .. n : v = m[i][2]
    <2>1. PICK i \in 1 .. n : 2 * m[i][1] <= 2 * v /\ 2 * v <= 2 * m[i][2]
      BY <1>2, <1>6
    <2>2. ~(2 * m[i][1] <= 2 * v + 1 /\ 2 * v + 1 <= 2 * m[i][2])
      BY <1>2, <1>6
    <2>3. m[i][1] \in Int /\ m[i][2] \in Int
      BY <1>1
    <2>4. v = m[i][2]
      BY <2>1, <2>2, <2>3
    <2> QED  BY <2>4
  <1> QED  BY <1>3, <1>4, <1>5, <1>6 DEF P, n

\* So there is only one way to write the same points with gaps.
LEMMA SeparatedUnique ==
  ASSUME NEW a \in Separated, NEW b \in Separated, \A x : x \in Points(a) <=> x \in Points(b)
  PROVE  a = b
PROOF
  <1> DEFINE m == Len(a)
             n == Len(b)
             P == Points(a)
             Q == Points(b)
  <1>1. /\ m \in Nat /\ a \in Seq(Proper) /\ DOMAIN a = 1 .. m
        /\ \A i \in 1 .. m : a[i][1] \in Nat /\ a[i][2] \in Nat /\ a[i] \in Proper
        /\ \A i \in 1 .. m : \A j \in i + 1 .. m : a[i][1] < a[j][1] /\ a[i][2] < a[j][2]
    BY SeparatedAre
  <1>2. /\ n \in Nat /\ b \in Seq(Proper) /\ DOMAIN b = 1 .. n
        /\ \A i \in 1 .. n : b[i][1] \in Nat /\ b[i][2] \in Nat /\ b[i] \in Proper
        /\ \A i \in 1 .. n : \A j \in i + 1 .. n : b[i][1] < b[j][1] /\ b[i][2] < b[j][2]
    BY SeparatedAre
  <1>3. /\ \A i \in 1 .. m : /\ 2 * a[i][1] \in P /\ 2 * a[i][1] - 1 \notin P
                             /\ 2 * a[i][2] \in P /\ 2 * a[i][2] + 1 \notin P
        /\ \A v \in Int : 2 * v \in P /\ 2 * v - 1 \notin P => \E i \in 1 .. m : v = a[i][1]
        /\ \A v \in Int : 2 * v \in P /\ 2 * v + 1 \notin P => \E i \in 1 .. m : v = a[i][2]
    BY EndsShow
  <1>4. /\ \A i \in 1 .. n : /\ 2 * b[i][1] \in Q /\ 2 * b[i][1] - 1 \notin Q
                             /\ 2 * b[i][2] \in Q /\ 2 * b[i][2] + 1 \notin Q
        /\ \A v \in Int : 2 * v \in Q /\ 2 * v - 1 \notin Q => \E i \in 1 .. n : v = b[i][1]
        /\ \A v \in Int : 2 * v \in Q /\ 2 * v + 1 \notin Q => \E i \in 1 .. n : v = b[i][2]
    BY EndsShow
  <1>5. \A x : x \in P <=> x \in Q
    OBVIOUS
  <1> HIDE DEF m, n, P, Q
  <1>6. ASSUME NEW k \in {1, 2}
        PROVE  m = n /\ \A i \in 1 .. m : a[i][k] = b[i][k]
    <2> DEFINE c == [i \in 1 .. m |-> a[i][k]]
               d == [i \in 1 .. n |-> b[i][k]]
    <2>1. Rising(c, m) /\ Rising(d, n)
      <3>1. ASSUME NEW i \in 1 .. m PROVE c[i] \in Int /\ \A j \in i + 1 .. m : c[i] < c[j]
        <4>1. \A j \in i + 1 .. m : j \in 1 .. m
          BY <1>1
        <4> QED  BY <1>1, <4>1
      <3>2. ASSUME NEW i \in 1 .. n PROVE d[i] \in Int /\ \A j \in i + 1 .. n : d[i] < d[j]
        <4>1. \A j \in i + 1 .. n : j \in 1 .. n
          BY <1>2
        <4> QED  BY <1>2, <4>1
      <3> HIDE DEF c, d
      <3> QED  BY <3>1, <3>2 DEF Rising
    <2>2. ASSUME NEW i \in 1 .. m PROVE \E j \in 1 .. n : a[i][k] = b[j][k]
      <3>1. CASE k = 1
        <4>1. 2 * a[i][1] \in Q /\ 2 * a[i][1] - 1 \notin Q /\ a[i][1] \in Int
          BY <1>1, <1>3, <1>5
        <4> QED  BY <1>4, <3>1, <4>1
      <3>2. CASE k = 2
        <4>1. 2 * a[i][2] \in Q /\ 2 * a[i][2] + 1 \notin Q /\ a[i][2] \in Int
          BY <1>1, <1>3, <1>5
        <4> QED  BY <1>4, <3>2, <4>1
      <3> QED  BY <3>1, <3>2
    <2>3. ASSUME NEW j \in 1 .. n PROVE \E i \in 1 .. m : b[j][k] = a[i][k]
      <3>1. CASE k = 1
        <4>1. 2 * b[j][1] \in P /\ 2 * b[j][1] - 1 \notin P /\ b[j][1] \in Int
          BY <1>2, <1>4, <1>5
        <4> QED  BY <1>3, <3>1, <4>1
      <3>2. CASE k = 2
        <4>1. 2 * b[j][2] \in P /\ 2 * b[j][2] + 1 \notin P /\ b[j][2] \in Int
          BY <1>2, <1>4, <1>5
        <4> QED  BY <1>3, <3>2, <4>1
      <3> QED  BY <3>1, <3>2
    <2>4. AmongThem(c, m, d, n) /\ AmongThem(d, n, c, m)
      <3>1. ASSUME NEW i \in 1 .. m PROVE \E j \in 1 .. n : c[i] = d[j]
        <4>1. PICK j \in 1 .. n : a[i][k] = b[j][k]
          BY <2>2
        <4>2. c[i] = d[j]
          BY <4>1
        <4> QED  BY <4>2
      <3>2. ASSUME NEW j \in 1 .. n PROVE \E i \in 1 .. m : d[j] = c[i]
        <4>1. PICK i \in 1 .. m : b[j][k] = a[i][k]
          BY <2>3
        <4>2. d[j] = c[i]
          BY <4>1
        <4> QED  BY <4>2
      <3> HIDE DEF c, d
      <3> QED  BY <3>1, <3>2 DEF AmongThem
    <2>5. m = n /\ \A i \in 1 .. m : c[i] = d[i]
      <3> HIDE DEF c, d
      <3> QED  BY <1>1, <1>2, <2>1, <2>4, RisingAreSame
    <2> QED  BY <2>5
  <1>7. \A i \in 1 .. m : a[i] = b[i]
    <2> TAKE i \in 1 .. m
    <2>1. a[i][1] = b[i][1] /\ a[i][2] = b[i][2]
      BY <1>6
    <2>2. a[i] \in Nat \X Nat /\ b[i] \in Nat \X Nat
      BY <1>1, <1>2, <1>6 DEF Proper
    <2> QED  BY <2>1, <2>2
  <1>8. m = n
    BY <1>6
  <1> QED  BY <1>1, <1>2, <1>7, <1>8

Spliced(s, i, j, e) == SubSeq(s, 1, i - 1) \o <<e>> \o SubSeq(s, j + 1, Len(s))

IsSpliced(u, s, i, j, e) ==
  /\ Len(u) = i + (Len(s) - j) /\ u[i] = e
  /\ \A k \in 1 .. i - 1 : u[k] = s[k]
  /\ \A k \in i + 1 .. i + (Len(s) - j) : u[k] = s[(k - i) + j]

\* A stretch of s, one element, and another stretch of s.
LEMMA SplicedIs ==
  ASSUME NEW A, NEW s \in Seq(A), NEW e \in A,
         NEW i \in 1 .. Len(s) + 1, NEW j \in i - 1 .. Len(s)
  PROVE  Spliced(s, i, j, e) \in Seq(A) /\ IsSpliced(Spliced(s, i, j, e), s, i, j, e)
PROOF
  <1> DEFINE n == Len(s)
             a == SubSeq(s, 1, i - 1)
             b == SubSeq(s, j + 1, n)
             c == a \o <<e>>
             u == c \o b
  <1>1. n \in Nat /\ i - 1 \in 0 .. n /\ j \in 0 .. n
    OBVIOUS
  <1>2. a \in Seq(A) /\ Len(a) = i - 1 /\ \A k \in 1 .. i - 1 : a[k] = s[k]
    <2>1. \A k \in 1 .. i - 1 : s[k] \in A /\ k \in 1 .. n
      BY <1>1
    <2>2. a = [k \in 1 .. i - 1 |-> s[k]]
      BY <1>1
    <2> HIDE DEF a
    <2>3. i - 1 \in Nat
      BY <1>1
    <2> QED  BY <2>1, <2>2, <2>3
  <1>3. b \in Seq(A) /\ Len(b) = n - j /\ \A k \in 1 .. n - j : b[k] = s[k + j]
    <2>1. \A k \in 1 .. n - j : k + j \in 1 .. n /\ s[k + j] \in A
      BY <1>1
    <2>2. CASE j + 1 <= n
      <3>1. j + 1 \in 1 .. n /\ n \in 1 .. n /\ (n - (j + 1)) + 1 = n - j
        BY <1>1, <2>2
      <3>2. b = [k \in 1 .. (n - (j + 1)) + 1 |-> s[(k + (j + 1)) - 1]]
        BY <3>1
      <3>3. \A k \in 1 .. n - j : (k + (j + 1)) - 1 = k + j
        BY <1>1
      <3> HIDE DEF b
      <3>4. b = [k \in 1 .. n - j |-> s[k + j]]
        BY <3>1, <3>2, <3>3
      <3>5. n - j \in Nat
        BY <1>1
      <3> QED  BY <2>1, <3>4, <3>5
    <2>3. CASE j = n
      <3>1. b = <<>>
        BY <1>1, <2>3
      <3>2. 1 .. n - j = {} /\ n - j = 0
        BY <1>1, <2>3
      <3> HIDE DEF b
      <3> QED  BY <3>1, <3>2
    <2> QED  BY <1>1, <2>2, <2>3
  <1> HIDE DEF a, b, n
  <1>4. c \in Seq(A) /\ Len(c) = i /\ \A k \in 1 .. i : c[k] = IF k <= i - 1 THEN a[k] ELSE e
    <2>1. <<e>> \in Seq(A) /\ Len(<<e>>) = 1 /\ <<e>>[1] = e
      OBVIOUS
    <2>2. /\ c \in Seq(A) /\ Len(c) = (i - 1) + 1
          /\ \A k \in 1 .. (i - 1) + 1 : c[k] = IF k <= i - 1 THEN a[k] ELSE <<e>>[k - (i - 1)]
      BY <1>2, <2>1, ConcatProperties
    <2>3. (i - 1) + 1 = i /\ \A k \in 1 .. i : ~(k <= i - 1) => k - (i - 1) = 1
      BY <1>1
    <2> HIDE DEF c
    <2> QED  BY <2>1, <2>2, <2>3
  <1>5. /\ u \in Seq(A) /\ Len(u) = i + (n - j)
        /\ \A k \in 1 .. i + (n - j) : u[k] = IF k <= i THEN c[k] ELSE b[k - i]
    <2> HIDE DEF c
    <2>1. /\ u \in Seq(A) /\ Len(u) = Len(c) + Len(b)
          /\ \A k \in 1 .. Len(c) + Len(b) : u[k] = IF k <= Len(c) THEN c[k] ELSE b[k - Len(c)]
      BY <1>3, <1>4, ConcatProperties
    <2> HIDE DEF u
    <2> QED  BY <1>3, <1>4, <2>1
  <1>6. u = Spliced(s, i, j, e)
    BY DEF a, b, n, Spliced
  <1> HIDE DEF u, c
  <1>7. \A k \in 1 .. i - 1 : u[k] = s[k]
    <2> TAKE k \in 1 .. i - 1
    <2>1. k \in 1 .. i + (n - j) /\ k \in 1 .. i /\ k <= i /\ k <= i - 1
      BY <1>1
    <2> QED  BY <1>2, <1>4, <1>5, <2>1
  <1>8. u[i] = e
    <2>1. i \in 1 .. i + (n - j) /\ i \in 1 .. i /\ ~(i <= i - 1)
      BY <1>1
    <2> QED  BY <1>4, <1>5, <2>1
  <1>9. \A k \in i + 1 .. i + (n - j) : u[k] = s[(k - i) + j]
    <2> TAKE k \in i + 1 .. i + (n - j)
    <2>1. k \in 1 .. i + (n - j) /\ ~(k <= i) /\ k - i \in 1 .. n - j
      BY <1>1
    <2> QED  BY <1>3, <1>5, <2>1
  <1>10. IsSpliced(u, s, i, j, e)
    BY <1>5, <1>7, <1>8, <1>9 DEF IsSpliced, n
  <1> QED  BY <1>5, <1>6, <1>10

Growing(s, new, i, g) ==
  g = [m \in i - 1 .. Len(s) |->
         IF m < i THEN new ELSE <<Smaller(g[m - 1][1], s[m][1]), Larger(g[m - 1][2], s[m][2])>>]

LEMMA GrowingExists ==
  ASSUME NEW s \in Seq(Proper), NEW new \in Proper, NEW i \in 1 .. Len(s) + 1
  PROVE  \E g : Growing(s, new, i, g)
PROOF
  <1> DEFINE n == Len(s)
             A == Nat \X Nat
             both(a, m) == <<Smaller(a[1], s[m][1]), Larger(a[2], s[m][2])>>
             next == [ma \in (i .. n) \X A |-> both(ma[2], ma[1])]
  <1>1. n \in Nat /\ new \in A /\ i - 1 \in Int /\ i - 1 <= n /\ (i - 1) + 1 = i
    BY DEF Proper
  <1>2. ASSUME NEW m \in i .. n, NEW a \in A PROVE both(a, m) \in A
    <2>1. s[m] \in Proper
      OBVIOUS
    <2>2. s[m][1] \in Nat /\ s[m][2] \in Nat /\ a[1] \in Nat /\ a[2] \in Nat
      BY <2>1 DEF Proper
    <2> QED  BY <2>2 DEF Smaller, Larger
  <1>3. next \in Steps(A, i - 1, n)
    <2>1. \A ma \in (i .. n) \X A : both(ma[2], ma[1]) \in A
      BY <1>2
    <2> QED  BY <1>1, <2>1 DEF Steps
  <1>4. \A m \in i .. n, a \in A : next[<<m, a>>] = both(a, m)
    OBVIOUS
  <1> HIDE DEF next
  <1>5. PICK g : Follows(g, A, i - 1, n, new, next)
    <2> DEFINE lo == i - 1
    <2>1. lo \in Int /\ n \in Int /\ lo <= n /\ next \in Steps(A, lo, n)
      BY <1>1, <1>3
    <2> HIDE DEF lo, n, A
    <2>2. \E g : Follows(g, A, lo, n, new, next)
      BY <1>1, <2>1, RecursionExists
    <2> QED  BY <2>2 DEF lo
  <1>6. g \in [i - 1 .. n -> A] /\ g[i - 1] = new
        /\ \A m \in i .. n : g[m] = next[<<m, g[m - 1]>>]
    BY <1>1, <1>5 DEF Follows
  <1>7. ASSUME NEW m \in i - 1 .. n
        PROVE  g[m] = IF m < i THEN new ELSE both(g[m - 1], m)
    <2>1. CASE m < i
      BY <1>1, <1>6, <2>1
    <2>2. CASE ~(m < i)
      <3>1. m \in i .. n /\ m - 1 \in i - 1 .. n
        BY <1>1, <2>2
      <3> QED  BY <1>4, <1>6, <2>2, <3>1
    <2> QED  BY <2>1, <2>2
  <1>8. g = [m \in i - 1 .. n |-> IF m < i THEN new ELSE both(g[m - 1], m)]
    BY <1>6, <1>7
  <1> QED  BY <1>8 DEF Growing

LEMMA InsertIs ==
  ASSUME NEW s \in Separated, NEW new \in Proper
  PROVE  /\ Insert(s, new) \in Separated
         /\ \A x \in Int : (\E k \in 1 .. Len(Insert(s, new)) : Covers(Insert(s, new)[k], x)) <=>
              Covers(new, x) \/ \E k \in 1 .. Len(s) : Covers(s[k], x)
PROOF
  <1> DEFINE n == Len(s)
             behind == {m \in 1 .. n + 1 : m > n \/ s[m][2] >= new[1]}
             i == Min(behind)
             g == CHOOSE h : Growing(s, new, i, h)
             clear == {m \in i - 1 .. n : m = n \/ s[m + 1][1] > g[m][2]}
             j == Min(clear)
             u == SubSeq(s, 1, i - 1) \o <<g[j]>> \o SubSeq(s, j + 1, n)
  <1>1. Insert(s, new) = u
    BY DEF Insert, Growing
  <1>2. /\ n \in Nat /\ s \in Seq(Proper)
        /\ \A m \in 1 .. n : s[m][1] \in Nat /\ s[m][2] \in Nat /\ s[m][1] < s[m][2] /\ s[m] \in Proper
        /\ \A m \in 1 .. n : \A k \in m + 1 .. n : s[m][2] < s[k][1] /\ s[m][2] < s[k][2]
    BY SeparatedAre
  <1>3. new[1] \in Nat /\ new[2] \in Nat /\ new[1] < new[2]
    BY DEF Proper
  <1> HIDE DEF n, u
  <1>4. /\ i \in 1 .. n + 1
        /\ \A m \in 1 .. n : m < i => s[m][2] < new[1]
        /\ \A m \in 1 .. n : i <= m => new[1] <= s[m][2]
    <2>1. behind \subseteq Nat /\ n + 1 \in behind
      BY <1>2
    <2>2. i \in behind /\ \A m \in behind : i <= m
      <3> HIDE DEF behind
      <3> QED  BY <2>1, LeastIsMin
    <2> HIDE DEF i
    <2>3. i \in 1 .. n + 1 /\ (i > n \/ s[i][2] >= new[1])
      BY <2>2
    <2>4. ASSUME NEW m \in 1 .. n, m < i PROVE s[m][2] < new[1]
      <3>1. m \notin behind
        BY <2>2, <2>3, <2>4
      <3>2. ~(s[m][2] >= new[1])
        BY <1>2, <3>1
      <3> QED  BY <1>2, <1>3, <3>2
    <2>5. ASSUME NEW m \in 1 .. n, i <= m PROVE new[1] <= s[m][2]
      <3>1. i \in 1 .. n /\ new[1] <= s[i][2]
        BY <1>2, <1>3, <2>3, <2>5
      <3>2. i = m \/ m \in i + 1 .. n
        BY <2>3, <2>5
      <3>3. m \in i + 1 .. n => s[i][2] < s[m][2]
        BY <1>2, <3>1
      <3> QED  BY <1>2, <1>3, <3>1, <3>2, <3>3
    <2> QED  BY <2>3, <2>4, <2>5
  <1> HIDE DEF i
  <1>5. Growing(s, new, i, g)
    BY <1>2, <1>4, GrowingExists DEF n
  <1> HIDE DEF g
  <1>6. /\ g[i - 1] = new
        /\ \A m \in i .. n : g[m] = <<Smaller(g[m - 1][1], s[m][1]), Larger(g[m - 1][2], s[m][2])>>
    <2>1. i - 1 \in i - 1 .. n /\ i - 1 < i
      BY <1>2, <1>4
    <2>2. \A m \in i .. n : m \in i - 1 .. n /\ ~(m < i)
      BY <1>2, <1>4
    <2> QED  BY <1>5, <2>1, <2>2 DEF Growing, n
  <1>7. /\ j \in i - 1 .. n /\ (j = n \/ s[j + 1][1] > g[j][2])
        /\ \A m \in i - 1 .. n : m < j => m # n /\ ~(s[m + 1][1] > g[m][2])
    <2>1. clear \subseteq Nat /\ n \in clear
      BY <1>2, <1>4
    <2>2. j \in clear /\ \A m \in clear : j <= m
      <3> HIDE DEF clear
      <3> QED  BY <2>1, LeastIsMin
    <2> HIDE DEF j
    <2>3. \A m \in i - 1 .. n : m < j => m \notin clear
      BY <2>1, <2>2
    <2> QED  BY <2>2, <2>3
  <1> HIDE DEF j
  <1> DEFINE before(m) == \A k \in 1 .. i - 1 : s[k][2] < g[m][1]
             taken(m) == \A x \in Int : Covers(g[m], x) <=>
                           Covers(new, x) \/ \E k \in i .. m : Covers(s[k], x)
             right == {m \in i - 1 .. j : g[m] \in Proper /\ g[m][1] <= new[1] /\ before(m) /\ taken(m)}
  <1>8. i - 1 \in right
    <2>1. \A k \in 1 .. i - 1 : s[k][2] < new[1]
      <3> TAKE k \in 1 .. i - 1
      <3>1. k \in 1 .. n /\ k < i
        BY <1>2, <1>4
      <3> QED  BY <1>4, <3>1
    <2>2. taken(i - 1)
      <3>1. \A k \in i .. i - 1 : FALSE
        BY <1>4
      <3> QED  BY <1>6, <3>1
    <2>3. before(i - 1)
      BY <1>6, <2>1
    <2>4. i - 1 \in i - 1 .. j
      BY <1>2, <1>4, <1>7
    <2>5. g[i - 1] \in Proper /\ g[i - 1][1] <= new[1]
      BY <1>3, <1>6
    <2> HIDE DEF taken, before
    <2> QED  BY <2>2, <2>3, <2>4, <2>5
  <1>9. \A m \in i - 1 .. j - 1 : m \in right => m + 1 \in right
    <2> SUFFICES ASSUME NEW m \in i - 1 .. j - 1, m \in right PROVE m + 1 \in right
      OBVIOUS
    <2>1. /\ m + 1 \in i .. n /\ m + 1 \in 1 .. n /\ m \in i - 1 .. n /\ m < j /\ m + 1 \in i - 1 .. j
          /\ (m + 1) - 1 = m /\ i <= m + 1
      BY <1>2, <1>4, <1>7
    <2> DEFINE a == g[m][1]
               b == g[m][2]
               c == s[m + 1][1]
               d == s[m + 1][2]
               e == Smaller(a, c)
               h == Larger(b, d)
    <2>2. a \in Nat /\ b \in Nat /\ a < b /\ a <= new[1]
      BY DEF Proper
    <2>3. c \in Nat /\ d \in Nat /\ c < d /\ new[1] <= d
      BY <1>2, <1>4, <2>1
    <2>4. c <= b
      <3>1. ~(c > b)
        BY <1>7, <2>1
      <3> HIDE DEF b, c
      <3> QED  BY <2>2, <2>3, <3>1
    <2>5. a <= d
      <3> HIDE DEF a, d
      <3> QED  BY <1>3, <2>2, <2>3
    <2>6. g[m + 1] = <<e, h>>
      BY <1>6, <2>1
    <2>7. /\ e \in Nat /\ h \in Nat /\ e < h /\ e <= a /\ e <= c /\ (e = a \/ e = c)
          /\ h >= b /\ h >= d /\ (h = b \/ h = d)
      <3> HIDE DEF a, b, c, d
      <3> QED  BY <2>2, <2>3 DEF Smaller, Larger
    <2>8. ASSUME NEW x \in Int
          PROVE  Covers(g[m + 1], x) <=> Covers(g[m], x) \/ Covers(s[m + 1], x)
      <3>1. g[m + 1][1] = e /\ g[m + 1][2] = h
        BY <2>6
      <3>2. /\ Covers(g[m + 1], x) <=> 2 * e <= x /\ x <= 2 * h
            /\ Covers(g[m], x) <=> 2 * a <= x /\ x <= 2 * b
            /\ Covers(s[m + 1], x) <=> 2 * c <= x /\ x <= 2 * d
        BY <3>1 DEF Covers
      <3> HIDE DEF a, b, c, d, e, h
      <3>3. (2 * e <= x /\ x <= 2 * h) <=> (2 * a <= x /\ x <= 2 * b) \/ (2 * c <= x /\ x <= 2 * d)
        BY <2>2, <2>3, <2>4, <2>5, <2>7
      <3> QED  BY <3>2, <3>3
    <2>9. taken(m + 1)
      <3> TAKE x \in Int
      <3>1. Covers(g[m], x) <=> Covers(new, x) \/ \E k \in i .. m : Covers(s[k], x)
        OBVIOUS
      <3>2. \A k \in i .. m + 1 : k \in i .. m \/ k = m + 1
        BY <2>1
      <3>3. \A k \in i .. m : k \in i .. m + 1
        BY <2>1
      <3>4. m + 1 \in i .. m + 1
        BY <2>1
      <3> QED  BY <2>8, <3>1, <3>2, <3>3, <3>4
    <2>10. before(m + 1)
      <3> TAKE k \in 1 .. i - 1
      <3>0. i \in 1 .. n + 1 /\ n \in Nat
        BY <1>2, <1>4
      <3>1. k \in 1 .. n /\ m + 1 \in k + 1 .. n
        BY <2>1, <3>0
      <3>2. s[k][2] < c /\ s[k][2] < a /\ s[k][2] \in Nat
        BY <1>2, <3>1
      <3>3. s[k][2] < e
        <4> HIDE DEF a, c, e
        <4> QED  BY <2>2, <2>3, <2>7, <3>2
      <3> QED  BY <2>6, <3>3
    <2>11. g[m + 1] \in Proper /\ g[m + 1][1] <= new[1]
      <3>1. g[m + 1][1] = e /\ g[m + 1][2] = h /\ g[m + 1] \in Nat \X Nat
        BY <2>6, <2>7
      <3>2. e <= new[1]
        <4> HIDE DEF a, b, c, d, e, h
        <4> QED  BY <1>3, <2>2, <2>3, <2>7
      <3> QED  BY <2>7, <3>1, <3>2 DEF Proper
    <2> QED  BY <2>1, <2>9, <2>10, <2>11
  <1>10. j \in right
    <2>1. i - 1 \in Int /\ j \in Int /\ j \in i - 1 .. j
      BY <1>2, <1>4, <1>7
    <2> HIDE DEF right
    <2> QED  BY <1>8, <1>9, <2>1, RangeInduction
  <1>11. g[j] \in Proper /\ before(j) /\ taken(j)
    BY <1>10
  <1> HIDE DEF right, before, taken
  <1>12. /\ u \in Seq(Proper) /\ Len(u) = i + (n - j)
         /\ \A k \in 1 .. i - 1 : u[k] = s[k]
         /\ u[i] = g[j]
         /\ \A k \in i + 1 .. i + (n - j) : u[k] = s[(k - i) + j]
    <2>1. i \in 1 .. Len(s) + 1 /\ j \in i - 1 .. Len(s) /\ s \in Seq(Proper) /\ g[j] \in Proper
      BY <1>2, <1>4, <1>7, <1>11 DEF n
    <2>2. u = Spliced(s, i, j, g[j])
      BY DEF n, u, Spliced
    <2>3. u \in Seq(Proper) /\ IsSpliced(u, s, i, j, g[j])
      <3> HIDE DEF u
      <3> QED  BY <2>1, <2>2, SplicedIs
    <2> QED  BY <2>3 DEF IsSpliced, n
  <1>13. ASSUME NEW k \in 1 .. Len(u) - 1 PROVE u[k][2] < u[k + 1][1]
    <2>0. k \in 1 .. (i + (n - j)) - 1 /\ j \in i - 1 .. n /\ n - j \in Nat
      BY <1>2, <1>4, <1>7, <1>12
    <2>1. CASE k + 1 < i
      <3>1. k \in 1 .. i - 1 /\ k + 1 \in 1 .. i - 1 /\ k \in 1 .. n /\ k + 1 \in k + 1 .. n
        BY <1>2, <1>4, <2>0, <2>1
      <3> QED  BY <1>2, <1>12, <3>1
    <2>2. CASE k + 1 = i
      <3>1. k \in 1 .. i - 1
        BY <1>4, <2>0, <2>2
      <3> QED  BY <1>11, <1>12, <2>2, <3>1 DEF before
    <2>3. CASE k = i
      <3>1. k + 1 \in i + 1 .. i + (n - j) /\ ((k + 1) - i) + j = j + 1 /\ j # n /\ j + 1 \in 1 .. n
        BY <1>2, <1>4, <2>0, <2>3
      <3>2. u[k] = g[j] /\ u[k + 1] = s[j + 1] /\ s[j + 1][1] > g[j][2]
        BY <1>7, <1>12, <2>3, <3>1
      <3>3. s[j + 1][1] \in Nat /\ g[j][2] \in Nat
        BY <1>2, <1>11, <3>1 DEF Proper
      <3> QED  BY <3>2, <3>3
    <2>4. CASE k > i
      <3>1. /\ k \in i + 1 .. i + (n - j) /\ k + 1 \in i + 1 .. i + (n - j)
            /\ (k - i) + j \in 1 .. n /\ ((k + 1) - i) + j \in ((k - i) + j) + 1 .. n
        BY <1>2, <1>4, <2>0, <2>4
      <3> QED  BY <1>2, <1>12, <3>1
    <2> QED  BY <1>4, <2>0, <2>1, <2>2, <2>3, <2>4
  <1>14. u \in Separated
    BY <1>12, <1>13 DEF Separated
  <1>15. ASSUME NEW x \in Int
         PROVE  (\E k \in 1 .. Len(u) : Covers(u[k], x)) <=>
                  Covers(new, x) \/ \E k \in 1 .. n : Covers(s[k], x)
    <2>0. j \in i - 1 .. n /\ n - j \in Nat /\ i \in 1 .. n + 1
      BY <1>2, <1>4, <1>7
    <2>1. (\E k \in 1 .. Len(u) : Covers(u[k], x)) =>
            Covers(g[j], x) \/ \E k \in 1 .. n : Covers(s[k], x)
      <3> SUFFICES ASSUME NEW k \in 1 .. i + (n - j), Covers(u[k], x)
                   PROVE  Covers(g[j], x) \/ \E l \in 1 .. n : Covers(s[l], x)
        BY <1>12
      <3>1. CASE k < i
        <4>1. k \in 1 .. i - 1 /\ k \in 1 .. n
          BY <1>2, <2>0, <3>1
        <4> QED  BY <1>12, <4>1
      <3>2. CASE k = i
        BY <1>12, <3>2
      <3>3. CASE k > i
        <4>1. k \in i + 1 .. i + (n - j) /\ (k - i) + j \in 1 .. n
          BY <1>2, <2>0, <3>3
        <4>2. Covers(s[(k - i) + j], x)
          BY <1>12, <4>1
        <4> QED  BY <4>1, <4>2
      <3> QED  BY <2>0, <3>1, <3>2, <3>3
    <2>2. Covers(g[j], x) <=> Covers(new, x) \/ \E k \in i .. j : Covers(s[k], x)
      BY <1>11 DEF taken
    <2>3. \A k \in i .. j : k \in 1 .. n
      BY <1>2, <2>0
    <2>4. Covers(g[j], x) => \E k \in 1 .. Len(u) : Covers(u[k], x)
      <3>1. i \in 1 .. Len(u)
        BY <1>12, <2>0
      <3> QED  BY <1>12, <3>1
    <2>5. ASSUME NEW l \in 1 .. n, Covers(s[l], x) PROVE \E k \in 1 .. Len(u) : Covers(u[k], x)
      <3>1. CASE l < i
        <4>1. l \in 1 .. i - 1 /\ l \in 1 .. Len(u)
          BY <1>12, <2>0, <3>1
        <4>2. u[l] = s[l]
          BY <1>12, <4>1
        <4> QED  BY <2>5, <4>1, <4>2
      <3>2. CASE l \in i .. j
        BY <2>2, <2>4, <2>5, <3>2
      <3>3. CASE l > j
        <4> DEFINE k == (l - j) + i
        <4>1. k \in i + 1 .. i + (n - j) /\ (k - i) + j = l /\ k \in 1 .. Len(u)
          BY <1>2, <1>12, <2>0, <3>3
        <4> HIDE DEF k
        <4>2. u[k] = s[l]
          BY <1>12, <4>1
        <4> QED  BY <2>5, <4>1, <4>2
      <3> QED  BY <2>0, <3>1, <3>2, <3>3
    <2> QED  BY <2>1, <2>2, <2>3, <2>4, <2>5
  <1> QED  BY <1>1, <1>14, <1>15 DEF n

LEMMA TailIs ==
  ASSUME NEW A, NEW s \in Seq(A), s # <<>>
  PROVE  /\ Head(s) \in A /\ Head(s) = s[1] /\ Tail(s) \in Seq(A) /\ Len(Tail(s)) = Len(s) - 1
         /\ \A i \in 1 .. Len(s) - 1 : Tail(s)[i] = s[i + 1]
PROOF
  <1>1. Len(s) \in Nat /\ Len(s) # 0 /\ 1 \in 1 .. Len(s)
    OBVIOUS
  <1>2. Head(s) = s[1] /\ s[1] \in A
    BY <1>1
  <1>3. Tail(s) \in Seq(A) /\ Len(Tail(s)) = Len(s) - 1 /\ \A i \in 1 .. Len(s) - 1 : Tail(s)[i] = s[i + 1]
    BY <1>1
  <1> QED  BY <1>2, <1>3

\* Insert: inserting into what is merged gives the same as merging it all, wherever
\* the new interval falls and however many it takes in.
THEOREM InsertIsRight ==
  ASSUME NEW intervals \in Seq(Proper)
  PROVE  InsertRight(intervals)
PROOF
  <1> SUFFICES ASSUME intervals # <<>> PROVE Insert(Merge(Tail(intervals)), Head(intervals)) = Merge(intervals)
    BY DEF InsertRight
  <1> DEFINE s == Tail(intervals)
             new == Head(intervals)
             n == Len(intervals)
             a == Insert(Merge(s), new)
  <1>1. /\ new \in Proper /\ new = intervals[1] /\ s \in Seq(Proper) /\ Len(s) = n - 1
        /\ \A i \in 1 .. n - 1 : s[i] = intervals[i + 1]
    BY TailIs
  <1>2. n \in Nat /\ n # 0
    OBVIOUS
  <1> HIDE DEF s, new, n
  <1>3. Merge(s) \in Separated /\ \A x : x \in Points(Merge(s)) <=> x \in Points(s)
    BY <1>1, MergeIs
  <1>4. Merge(intervals) \in Separated /\ \A x : x \in Points(Merge(intervals)) <=> x \in Points(intervals)
    BY MergeIs
  <1>5. /\ a \in Separated
        /\ \A x \in Int : (\E k \in 1 .. Len(a) : Covers(a[k], x)) <=>
              Covers(new, x) \/ \E k \in 1 .. Len(Merge(s)) : Covers(Merge(s)[k], x)
    BY <1>1, <1>3, InsertIs
  <1> HIDE DEF a
  <1>6. a \in Seq(Proper) /\ Merge(s) \in Seq(Proper)
    BY <1>3, <1>5 DEF Separated
  <1>7. ASSUME NEW x PROVE x \in Points(a) <=> x \in Points(Merge(intervals))
    <2>1. x \in Points(a) <=> x \in Int /\ \E k \in 1 .. Len(a) : Covers(a[k], x)
      BY <1>6, PointsAre
    <2>2. x \in Points(Merge(s)) <=> x \in Int /\ \E k \in 1 .. Len(Merge(s)) : Covers(Merge(s)[k], x)
      BY <1>6, PointsAre
    <2>3. x \in Points(s) <=> x \in Int /\ \E k \in 1 .. n - 1 : Covers(s[k], x)
      BY <1>1, PointsAre
    <2>4. x \in Points(intervals) <=> x \in Int /\ \E k \in 1 .. n : Covers(intervals[k], x)
      BY PointsAre DEF n
    <2>5. (\E k \in 1 .. n : Covers(intervals[k], x)) <=>
            Covers(new, x) \/ \E k \in 1 .. n - 1 : Covers(s[k], x)
      <3>1. \A k \in 1 .. n - 1 : k + 1 \in 1 .. n
        BY <1>2
      <3>2. \A k \in 1 .. n : k = 1 \/ (k - 1 \in 1 .. n - 1 /\ (k - 1) + 1 = k)
        BY <1>2
      <3>3. 1 \in 1 .. n
        BY <1>2
      <3> QED  BY <1>1, <3>1, <3>2, <3>3
    <2> QED  BY <1>3, <1>4, <1>5, <2>1, <2>2, <2>3, <2>4, <2>5
  <1>8. a = Merge(intervals)
    BY <1>4, <1>5, <1>7, SeparatedUnique
  <1> QED  BY <1>8 DEF a, s, new

-----------------------------------------------------------------------------
(* Greedy choices among intervals in the order of their ends.                *)

ByEnds(t, n) ==
  \A i \in 1 .. n : /\ t[i][1] \in Nat /\ t[i][2] \in Nat /\ t[i][1] < t[i][2]
                    /\ \A j \in i .. n : t[i][2] <= t[j][2]

Apart(t, K) == \A i, j \in K : i # j => ~Overlap(t[i], t[j])

\* As many as can be of the first i are kept, and of those that are as many
\* none ends earlier.
KeptSo(t, i, acc) ==
  \E G \in SUBSET (1 .. i) :
    Apart(t, G) /\ Cardinality(G) = acc.count /\ \A k \in G : t[k][2] <= acc.currentEnd
NoneBetter(t, acc, K) ==
  /\ Cardinality(K) <= acc.count
  /\ Cardinality(K) = acc.count /\ K # {} => \E k \in K : acc.currentEnd <= t[k][2]
KeepsMost(t, i, acc) ==
  /\ acc.count \in Nat /\ acc.currentEnd \in Int
  /\ acc.count = 0 => acc.currentEnd = -1
  /\ acc.currentEnd # -1 => \E k \in 1 .. i : acc.currentEnd = t[k][2]
  /\ KeptSo(t, i, acc)
  /\ \A K \in SUBSET (1 .. i) : Apart(t, K) => NoneBetter(t, acc, K)

LEMMA KeepsMostStep ==
  ASSUME NEW n \in Nat, NEW t, ByEnds(t, n), NEW i \in 0 .. n - 1, NEW acc, KeepsMost(t, i, acc)
  PROVE  KeepsMost(t, i + 1, Granted(acc, t[i + 1]))
PROOF
  <1> DEFINE x == t[i + 1]
             c == acc.count
             e == acc.currentEnd
             new == Granted(acc, x)
  <1>1. /\ i \in Nat /\ i + 1 \in 1 .. n /\ \A k \in 1 .. i : k \in 1 .. n /\ i + 1 \in k .. n
        /\ \A k \in 1 .. i + 1 : k \in 1 .. i \/ k = i + 1
    OBVIOUS
  <1>2. x[1] \in Nat /\ x[2] \in Nat /\ x[1] < x[2]
    BY <1>1 DEF ByEnds
  <1>3. \A k \in 1 .. i : /\ t[k][1] \in Nat /\ t[k][2] \in Nat /\ t[k][1] < t[k][2]
                          /\ t[k][2] <= x[2]
    BY <1>1 DEF ByEnds
  <1>4. /\ c \in Nat /\ e \in Int /\ (c = 0 => e = -1)
        /\ (e # -1 => \E k \in 1 .. i : e = t[k][2])
        /\ \A K \in SUBSET (1 .. i) : Apart(t, K) => NoneBetter(t, acc, K)
    BY DEF KeepsMost
  <1>5. PICK G \in SUBSET (1 .. i) :
          Apart(t, G) /\ Cardinality(G) = c /\ \A k \in G : t[k][2] <= e
    BY DEF KeepsMost, KeptSo
  <1>6. \A K \in SUBSET (1 .. i + 1) : IsFiniteSet(K) /\ Cardinality(K) \in Nat
    <2>1. IsFiniteSet(1 .. i + 1)
      BY <1>1, FS_Interval
    <2> QED  BY <2>1, FS_Subset, FS_CardinalityType
  <1>7. IsFiniteSet(G)
    <2>1. IsFiniteSet(1 .. i)
      BY <1>1, FS_Interval
    <2> QED  BY <2>1, FS_Subset
  <1>8. ASSUME NEW K \in SUBSET (1 .. i + 1), Apart(t, K)
        PROVE  LET R == K \ {i + 1} IN
               /\ R \in SUBSET (1 .. i) /\ Apart(t, R) /\ NoneBetter(t, acc, R)
               /\ Cardinality(K) = Cardinality(R) + (IF i + 1 \in K THEN 1 ELSE 0)
               /\ Cardinality(R) \in Nat
    <2> DEFINE R == K \ {i + 1}
    <2>1. R \in SUBSET (1 .. i) /\ R \in SUBSET (1 .. i + 1)
      BY <1>1
    <2>2. Apart(t, R)
      BY <1>8 DEF Apart
    <2>3. IsFiniteSet(K) /\ Cardinality(K) \in Nat /\ Cardinality(R) \in Nat
      BY <1>6, <2>1
    <2>4. Cardinality(R) = IF i + 1 \in K THEN Cardinality(K) - 1 ELSE Cardinality(K)
      BY <2>3, FS_RemoveElement
    <2>5. Cardinality(K) = Cardinality(R) + (IF i + 1 \in K THEN 1 ELSE 0)
      <3> DEFINE a == Cardinality(K)
                 b == Cardinality(R)
      <3>1. a \in Nat /\ b \in Nat /\ b = IF i + 1 \in K THEN a - 1 ELSE a
        BY <2>3, <2>4
      <3>2. a = b + (IF i + 1 \in K THEN 1 ELSE 0)
        <4> HIDE DEF a, b
        <4> QED  BY <3>1
      <3> QED  BY <3>2
    <2>6. NoneBetter(t, acc, R)
      BY <1>4, <2>1, <2>2
    <2> QED  BY <2>1, <2>2, <2>3, <2>5, <2>6
  <1>9. CASE x[1] >= e
    <2>1. new.count = c + 1 /\ new.currentEnd = x[2]
      BY <1>9 DEF Granted
    <2> HIDE DEF new
    <2>2. KeptSo(t, i + 1, new)
      <3> DEFINE H == G \cup {i + 1}
      <3>1. H \in SUBSET (1 .. i + 1) /\ i + 1 \notin G
        BY <1>1
      <3>2. Cardinality(H) = c + 1
        BY <1>5, <1>7, <3>1, FS_AddElement
      <3>3. ASSUME NEW k \in G PROVE ~Overlap(t[k], x) /\ ~Overlap(x, t[k]) /\ t[k][2] <= x[2]
        <4>1. t[k][2] <= e /\ t[k][2] \in Nat /\ t[k][2] <= x[2]
          BY <1>3, <1>5
        <4> QED  BY <1>2, <1>4, <1>9, <4>1 DEF Overlap
      <3>4. Apart(t, H)
        <4> SUFFICES ASSUME NEW k \in H, NEW l \in H, k # l PROVE ~Overlap(t[k], t[l])
          BY DEF Apart
        <4>1. CASE k \in G /\ l \in G
          BY <1>5, <4>1 DEF Apart
        <4>2. CASE k = i + 1
          BY <3>3, <4>2
        <4>3. CASE l = i + 1
          BY <3>3, <4>3
        <4> QED  BY <4>1, <4>2, <4>3
      <3>5. \A k \in H : t[k][2] <= new.currentEnd
        BY <1>2, <2>1, <3>3
      <3> QED  BY <2>1, <3>1, <3>2, <3>4, <3>5 DEF KeptSo
    <2>3. ASSUME NEW K \in SUBSET (1 .. i + 1), Apart(t, K) PROVE NoneBetter(t, new, K)
      <3> DEFINE a == Cardinality(K)
                 R == K \ {i + 1}
                 b == Cardinality(R)
      <3>1. NoneBetter(t, acc, R) /\ a = b + (IF i + 1 \in K THEN 1 ELSE 0) /\ b \in Nat
        BY <1>8, <2>3
      <3>2. b <= c
        BY <3>1 DEF NoneBetter
      <3>3. a <= c + 1 /\ (a = c + 1 => i + 1 \in K)
        <4> HIDE DEF a, b, R
        <4> QED  BY <1>4, <3>1, <3>2
      <3>4. i + 1 \in K => \E k \in K : x[2] <= t[k][2]
        BY <1>2
      <3> QED  BY <2>1, <3>3, <3>4 DEF NoneBetter
    <2>4. \E k \in 1 .. i + 1 : x[2] = t[k][2]
      BY <1>1
    <2>5. c + 1 \in Nat /\ c + 1 # 0
      BY <1>4
    <2>6. KeepsMost(t, i + 1, new)
      BY <1>2, <2>1, <2>2, <2>3, <2>4, <2>5 DEF KeepsMost
    <2> QED  BY <2>6 DEF new
  <1>10. CASE ~(x[1] >= e)
    <2>1. new = acc
      BY <1>10 DEF Granted
    <2>2. c # 0 /\ x[1] < e
      BY <1>2, <1>4, <1>10
    <2>3. e <= x[2]
      <3>1. PICK k \in 1 .. i : e = t[k][2]
        BY <1>2, <1>4, <2>2
      <3> QED  BY <1>3, <3>1
    <2>4. KeptSo(t, i + 1, acc)
      <3>1. G \in SUBSET (1 .. i + 1)
        BY <1>1
      <3> QED  BY <1>5, <3>1 DEF KeptSo
    <2>5. ASSUME NEW K \in SUBSET (1 .. i + 1), Apart(t, K) PROVE NoneBetter(t, acc, K)
      <3> DEFINE R == K \ {i + 1}
                 b == Cardinality(R)
      <3>1. /\ NoneBetter(t, acc, R) /\ b \in Nat /\ R \in SUBSET (1 .. i)
            /\ Cardinality(K) = b + (IF i + 1 \in K THEN 1 ELSE 0)
        BY <1>8, <2>5
      <3>2. CASE i + 1 \notin K
        <4>1. R = K
          BY <3>2
        <4> QED  BY <3>1, <4>1
      <3>3. CASE i + 1 \in K
        <4>1. b # c
          <5> SUFFICES ASSUME b = c PROVE FALSE
            OBVIOUS
          <5>1. R # {}
            <6>1. R = {} => b = 0
              BY FS_EmptySet
            <6> HIDE DEF b
            <6> QED  BY <2>2, <6>1
          <5>2. PICK k \in R : e <= t[k][2]
            BY <3>1, <5>1 DEF NoneBetter
          <5>3. k \in 1 .. i /\ k \in K /\ k # i + 1
            BY <3>1
          <5>4. ~Overlap(t[k], x)
            BY <2>5, <3>3, <5>3 DEF Apart
          <5>5. t[k][1] < x[2] /\ x[1] < t[k][2]
            BY <1>2, <1>3, <1>4, <2>2, <5>2, <5>3
          <5> QED  BY <5>4, <5>5 DEF Overlap
        <4>2. b <= c
          BY <3>1 DEF NoneBetter
        <4>3. Cardinality(K) <= c
          <5> DEFINE a == Cardinality(K)
          <5>1. a = b + 1
            BY <3>1, <3>3
          <5> HIDE DEF a, b
          <5>2. a <= c
            BY <1>4, <3>1, <4>1, <4>2, <5>1
          <5> QED  BY <5>2 DEF a
        <4>4. \E k \in K : e <= t[k][2]
          BY <2>3, <3>3
        <4> QED  BY <4>3, <4>4 DEF NoneBetter
      <3> QED  BY <3>2, <3>3
    <2>6. e # -1 => \E k \in 1 .. i + 1 : e = t[k][2]
      <3>1. \A k \in 1 .. i : k \in 1 .. i + 1
        BY <1>1
      <3> QED  BY <1>4, <3>1
    <2> QED  BY <1>4, <2>1, <2>4, <2>5, <2>6 DEF KeepsMost
  <1> QED  BY <1>9, <1>10

Grantings == [count : Nat, currentEnd : Int]
Granting(t, n, f) ==
  f = [i \in 0 .. n |-> IF i = 0 THEN [count |-> 0, currentEnd |-> -1] ELSE Granted(f[i - 1], t[i])]

LEMMA GrantingExists ==
  ASSUME NEW n \in Nat, NEW t, ByEnds(t, n)
  PROVE  \E f : Granting(t, n, f)
PROOF
  <1> DEFINE A == Grantings
             base == [count |-> 0, currentEnd |-> -1]
             step == [i \in 1 .. n |-> [a \in A |-> Granted(a, t[i])]]
  <1>1. base \in A
    BY DEF Grantings
  <1>2. \A i \in 1 .. n : \A a \in A : step[i][a] = Granted(a, t[i]) /\ step[i][a] \in A
    <2> TAKE i \in 1 .. n
    <2> TAKE a \in A
    <2>1. t[i][2] \in Int /\ a.count + 1 \in Nat
      BY DEF ByEnds, Grantings
    <2> QED  BY <2>1 DEF Granted, Grantings
  <1> HIDE DEF step, base
  <1>3. PICK f : Passes(f, n, base, step) /\ \A i \in 0 .. n : f[i] \in A
    <2>1. \A i \in 1 .. n : \A a \in A : step[i][a] \in A
      BY <1>2
    <2> QED  BY <1>1, <2>1, PassExists
  <1>4. ASSUME NEW i \in 0 .. n, i # 0 PROVE step[i][f[i - 1]] = Granted(f[i - 1], t[i])
    <2>1. i \in 1 .. n /\ i - 1 \in 0 .. n
      BY <1>4
    <2> QED  BY <1>2, <1>3, <2>1
  <1>5. \A i \in 0 .. n : (IF i = 0 THEN base ELSE step[i][f[i - 1]])
                          = (IF i = 0 THEN base ELSE Granted(f[i - 1], t[i]))
    BY <1>4
  <1>6. f = [i \in 0 .. n |-> IF i = 0 THEN base ELSE Granted(f[i - 1], t[i])]
    BY <1>3, <1>5 DEF Passes
  <1> QED  BY <1>6 DEF Granting, base

\* After all of them no more can be kept.
LEMMA GrantingIs ==
  ASSUME NEW n \in Nat, NEW t, ByEnds(t, n), NEW f, Granting(t, n, f)
  PROVE  /\ f[0] = [count |-> 0, currentEnd |-> -1]
         /\ \A i \in 1 .. n : f[i] = Granted(f[i - 1], t[i])
         /\ \A i \in 0 .. n : KeepsMost(t, i, f[i])
PROOF
  <1> DEFINE right == {i \in 0 .. n : KeepsMost(t, i, f[i])}
  <1>1. f[0] = [count |-> 0, currentEnd |-> -1] /\ \A i \in 1 .. n : f[i] = Granted(f[i - 1], t[i])
    BY DEF Granting
  <1>2. 0 \in right
    <2>1. f[0].count = 0 /\ f[0].currentEnd = -1
      BY <1>1
    <2>2. \A K \in SUBSET (1 .. 0) : K = {}
      <3>1. \A k \in 1 .. 0 : FALSE
        OBVIOUS
      <3> QED  BY <3>1
    <2>3. Cardinality({}) = 0
      BY FS_EmptySet
    <2>4. KeptSo(t, 0, f[0])
      <3>1. {} \in SUBSET (1 .. 0) /\ Apart(t, {})
        BY DEF Apart
      <3> QED  BY <2>1, <2>3, <3>1 DEF KeptSo
    <2>5. \A K \in SUBSET (1 .. 0) : NoneBetter(t, f[0], K)
      <3> TAKE K \in SUBSET (1 .. 0)
      <3>1. K = {} /\ Cardinality(K) = 0
        BY <2>2, <2>3
      <3> QED  BY <2>1, <3>1 DEF NoneBetter
    <2> QED  BY <2>1, <2>4, <2>5 DEF KeepsMost
  <1>3. \A i \in 0 .. n - 1 : i \in right => i + 1 \in right
    <2> SUFFICES ASSUME NEW i \in 0 .. n - 1, i \in right PROVE i + 1 \in right
      OBVIOUS
    <2>1. i + 1 \in 1 .. n /\ (i + 1) - 1 = i /\ i + 1 \in 0 .. n
      OBVIOUS
    <2>2. f[i + 1] = Granted(f[i], t[i + 1])
      BY <1>1, <2>1
    <2> QED  BY <2>1, <2>2, KeepsMostStep
  <1>4. \A i \in 0 .. n : i \in right
    <2>1. 0 \in Int /\ n \in Int
      OBVIOUS
    <2> HIDE DEF right
    <2> QED  BY <1>2, <1>3, <2>1, RangeInduction
  <1> QED  BY <1>1, <1>4

Erasings == [removed : Nat, currentEnd : Int]
Erasing(t, n, f) ==
  f = [i \in 1 .. n |->
         IF i = 1 THEN [removed |-> 0, currentEnd |-> t[1][2]] ELSE Erased(f[i - 1], t[i])]

LEMMA ErasingExists ==
  ASSUME NEW n \in Nat \ {0}, NEW t, ByEnds(t, n)
  PROVE  \E f : Erasing(t, n, f) /\ \A i \in 1 .. n : f[i] \in Erasings
PROOF
  <1> DEFINE A == Erasings
             base == [removed |-> 0, currentEnd |-> t[1][2]]
             next == [ia \in (2 .. n) \X A |-> Erased(ia[2], t[ia[1]])]
  <1>1. base \in A
    <2>1. 1 \in 1 .. n
      OBVIOUS
    <2> QED  BY <2>1 DEF Erasings, ByEnds
  <1>2. ASSUME NEW i \in 2 .. n, NEW a \in A PROVE Erased(a, t[i]) \in A
    <2>1. i \in 1 .. n
      OBVIOUS
    <2>2. t[i][2] \in Int /\ a.removed + 1 \in Nat
      BY <2>1 DEF ByEnds, Erasings
    <2> QED  BY <2>2 DEF Erased, Erasings
  <1>3. next \in Steps(A, 1, n)
    <2>1. \A ia \in (2 .. n) \X A : Erased(ia[2], t[ia[1]]) \in A
      BY <1>2
    <2>2. 1 + 1 = 2
      OBVIOUS
    <2> QED  BY <2>1, <2>2 DEF Steps
  <1>4. \A i \in 2 .. n, a \in A : next[<<i, a>>] = Erased(a, t[i])
    OBVIOUS
  <1> HIDE DEF next, base
  <1>5. PICK f : Follows(f, A, 1, n, base, next)
    <2>1. 1 \in Int /\ n \in Int /\ 1 <= n
      OBVIOUS
    <2> QED  BY <1>1, <1>3, <2>1, RecursionExists
  <1>6. f \in [1 .. n -> A] /\ f[1] = base /\ \A i \in 2 .. n : f[i] = next[<<i, f[i - 1]>>]
    BY <1>5 DEF Follows
  <1>7. ASSUME NEW i \in 1 .. n PROVE f[i] = IF i = 1 THEN base ELSE Erased(f[i - 1], t[i])
    <2>1. CASE i = 1
      BY <1>6, <2>1
    <2>2. CASE i # 1
      <3>1. i \in 2 .. n /\ i - 1 \in 1 .. n
        BY <2>2
      <3> QED  BY <1>4, <1>6, <2>2, <3>1
    <2> QED  BY <2>1, <2>2
  <1>8. f = [i \in 1 .. n |-> IF i = 1 THEN base ELSE Erased(f[i - 1], t[i])]
    BY <1>6, <1>7
  <1> QED  BY <1>6, <1>8 DEF Erasing, base

\* What is erased and what is kept are all of them.
LEMMA ErasedAndGranted ==
  ASSUME NEW n \in Nat \ {0}, NEW t, ByEnds(t, n), NEW f, Granting(t, n, f), NEW g, Erasing(t, n, g)
  PROVE  g[n].removed = n - f[n].count
PROOF
  <1> DEFINE right == {i \in 1 .. n : /\ f[i].count + g[i].removed = i
                                      /\ f[i].currentEnd = g[i].currentEnd}
  <1>1. /\ f[0] = [count |-> 0, currentEnd |-> -1]
        /\ \A i \in 1 .. n : f[i] = Granted(f[i - 1], t[i])
        /\ \A i \in 0 .. n : KeepsMost(t, i, f[i])
    BY GrantingIs
  <1>2. PICK h : Erasing(t, n, h) /\ \A i \in 1 .. n : h[i] \in Erasings
    BY ErasingExists
  <1>3. g[1] = [removed |-> 0, currentEnd |-> t[1][2]] /\ \A i \in 2 .. n : g[i] = Erased(g[i - 1], t[i])
    <2>1. 1 \in 1 .. n /\ \A i \in 2 .. n : i \in 1 .. n /\ i # 1
      OBVIOUS
    <2> QED  BY <2>1 DEF Erasing
  <1> DEFINE typed == {i \in 1 .. n : g[i] \in Erasings}
  <1>4. 1 \in typed
    <2>1. 1 \in 1 .. n
      OBVIOUS
    <2> QED  BY <1>3, <2>1 DEF ByEnds, Erasings
  <1>5. \A i \in 1 .. n - 1 : i \in typed => i + 1 \in typed
    <2> SUFFICES ASSUME NEW i \in 1 .. n - 1, i \in typed PROVE i + 1 \in typed
      OBVIOUS
    <2>1. i + 1 \in 2 .. n /\ (i + 1) - 1 = i /\ i + 1 \in 1 .. n
      OBVIOUS
    <2>2. g[i + 1] = Erased(g[i], t[i + 1]) /\ t[i + 1][2] \in Int /\ g[i].removed + 1 \in Nat
      BY <1>3, <2>1 DEF ByEnds, Erasings
    <2> QED  BY <2>1, <2>2 DEF Erased, Erasings
  <1>6. \A i \in 1 .. n : i \in typed
    <2>1. 1 \in Int /\ n \in Int
      OBVIOUS
    <2> HIDE DEF typed
    <2> QED  BY <1>4, <1>5, <2>1, RangeInduction
  <1>7. \A i \in 0 .. n : f[i].count \in Nat /\ f[i].currentEnd \in Int
    BY <1>1 DEF KeepsMost
  <1>8. 1 \in right
    <2>1. 1 \in 1 .. n /\ 1 - 1 = 0
      OBVIOUS
    <2>2. f[1] = Granted(f[0], t[1]) /\ t[1][1] \in Nat
      BY <1>1, <2>1 DEF ByEnds
    <2>3. f[1].count = 1 /\ f[1].currentEnd = t[1][2]
      BY <1>1, <2>2 DEF Granted
    <2> QED  BY <1>3, <2>1, <2>3
  <1>9. \A i \in 1 .. n - 1 : i \in right => i + 1 \in right
    <2> SUFFICES ASSUME NEW i \in 1 .. n - 1, i \in right PROVE i + 1 \in right
      OBVIOUS
    <2>1. i + 1 \in 2 .. n /\ (i + 1) - 1 = i /\ i + 1 \in 1 .. n /\ i \in 0 .. n /\ i \in 1 .. n
      OBVIOUS
    <2>2. /\ g[i + 1] = Erased(g[i], t[i + 1]) /\ f[i + 1] = Granted(f[i], t[i + 1])
          /\ t[i + 1][1] \in Nat /\ t[i + 1][2] \in Nat
      BY <1>1, <1>3, <2>1 DEF ByEnds
    <2>3. /\ g[i] \in Erasings /\ f[i].count \in Nat /\ f[i].currentEnd \in Int
          /\ f[i].count + g[i].removed = i /\ f[i].currentEnd = g[i].currentEnd
      BY <1>6, <1>7, <2>1
    <2>4. CASE t[i + 1][1] < g[i].currentEnd
      <3>1. g[i + 1].removed = g[i].removed + 1 /\ g[i + 1].currentEnd = g[i].currentEnd
        BY <2>2, <2>3, <2>4 DEF Erased, Erasings
      <3>2. f[i + 1] = f[i]
        BY <2>2, <2>3, <2>4 DEF Granted
      <3>3. g[i].removed \in Nat
        BY <2>3 DEF Erasings
      <3> QED  BY <2>1, <2>3, <3>1, <3>2, <3>3
    <2>5. CASE ~(t[i + 1][1] < g[i].currentEnd)
      <3>1. g[i + 1].removed = g[i].removed /\ g[i + 1].currentEnd = t[i + 1][2]
        BY <2>2, <2>3, <2>5 DEF Erased, Erasings
      <3>2. f[i + 1].count = f[i].count + 1 /\ f[i + 1].currentEnd = t[i + 1][2]
        BY <2>2, <2>3, <2>5 DEF Granted
      <3>3. g[i].removed \in Nat
        BY <2>3 DEF Erasings
      <3> QED  BY <2>1, <2>3, <3>1, <3>2, <3>3
    <2> QED  BY <2>4, <2>5
  <1>10. n \in right
    <2>1. 1 \in Int /\ n \in Int /\ n \in 1 .. n
      OBVIOUS
    <2>2. \A i \in 1 .. n : i \in right
      <3> HIDE DEF right
      <3> QED  BY <1>8, <1>9, <2>1, RangeInduction
    <2> QED  BY <2>1, <2>2
  <1>11. f[n].count \in Nat /\ g[n].removed \in Nat /\ f[n].count + g[n].removed = n
    <2>1. n \in 0 .. n /\ n \in 1 .. n
      OBVIOUS
    <2> QED  BY <1>6, <1>7, <1>10, <2>1 DEF Erasings
  <1> QED  BY <1>11

Differ(p, S) == \A x, y \in S : p[x] = p[y] => x = y

LEMMA ImageAsLarge ==
  ASSUME NEW S, IsFiniteSet(S), NEW p, Differ(p, S)
  PROVE  Cardinality({p[x] : x \in S}) = Cardinality(S)
PROOF
  <1> DEFINE T == {p[x] : x \in S}
             f == [x \in S |-> p[x]]
  <1>1. f \in Surjection(S, T)
    BY DEF Surjection
  <1>2. f \in Injection(S, T)
    BY DEF Injection, IsInjective, Differ
  <1> HIDE DEF T, f
  <1>3. Cardinality(T) = Cardinality(S)
    BY <1>1, <1>2, FS_Surjection
  <1> QED  BY <1>3 DEF T

Moves(p, t, s, n) ==
  /\ \A i \in 1 .. n : p[i] \in 1 .. n /\ t[i] = s[p[i]]
  /\ \A i, j \in 1 .. n : p[i] = p[j] => i = j
AsMany(s, n, K) ==
  \E R \in SUBSET (1 .. n) : Apart(s, R) /\ Cardinality(R) = Cardinality(K)

\* Renamed, what is apart stays apart and is as many.
LEMMA ApartRenamed ==
  ASSUME NEW n \in Nat, NEW s, NEW t, NEW p, Moves(p, t, s, n),
         NEW K \in SUBSET (1 .. n), Apart(t, K)
  PROVE  AsMany(s, n, K)
PROOF
  <1> USE DEF Moves
  <1> DEFINE R == {p[i] : i \in K}
  <1>1. R \in SUBSET (1 .. n)
    OBVIOUS
  <1>2. Apart(s, R)
    <2> SUFFICES ASSUME NEW a \in R, NEW b \in R, a # b PROVE ~Overlap(s[a], s[b])
      BY DEF Apart
    <2>1. PICK i \in K : a = p[i]
      OBVIOUS
    <2>2. PICK j \in K : b = p[j]
      OBVIOUS
    <2>3. i # j /\ s[a] = t[i] /\ s[b] = t[j]
      BY <2>1, <2>2
    <2> QED  BY <2>3 DEF Apart
  <1>3. Cardinality(R) = Cardinality(K)
    <2>1. IsFiniteSet(K)
      <3>1. IsFiniteSet(1 .. n)
        BY FS_Interval
      <3> QED  BY <3>1, FS_Subset
    <2>2. Differ(p, K)
      BY DEF Differ
    <2> HIDE DEF Moves
    <2> QED  BY <2>1, <2>2, ImageAsLarge
  <1> QED  BY <1>1, <1>2, <1>3 DEF AsMany

\* MaxNonOverlapping and EraseOverlapIntervals: to keep what ends first keeps the
\* most intervals that can be apart, and erases the fewest.
THEOREM NonOverlappingIsRight ==
  ASSUME NEW intervals \in Seq(Proper)
  PROVE  NonOverlappingRight(intervals)
PROOF
  <1> DEFINE n == Len(intervals)
             t == Ordered(intervals, 2, 2)
             f == CHOOSE h : Granting(t, n, h)
             g == CHOOSE h : Erasing(t, n, h)
             apart == {K \in SUBSET (1 .. n) : Apart(intervals, K)}
             sizes == {Cardinality(K) : K \in apart}
  <1>1. PICK p, q : SortedSpans(t, intervals, 2, p, q)
    BY SpansOrdered
  <1>2. /\ MaxNonOverlapping(intervals) = f[n].count
        /\ EraseOverlapIntervals(intervals) = IF intervals = <<>> THEN 0 ELSE g[n].removed
    BY DEF MaxNonOverlapping, EraseOverlapIntervals, Order, ByEnd, Granting, Erasing
  <1> HIDE DEF t, f, g
  <1>3. /\ n \in Nat /\ DOMAIN intervals = 1 .. n
        /\ \A i \in 1 .. n : /\ p[i] \in 1 .. n /\ q[i] \in 1 .. n
                             /\ q[p[i]] = i /\ p[q[i]] = i /\ t[i] = intervals[p[i]] /\ intervals[i] = t[q[i]]
    BY <1>1, SortedSpansAre
  <1>4. ByEnds(t, n)
    BY <1>1, SortedSpansAre DEF ByEnds
  <1>5. NonOverlappingRight(intervals) <=>
          MaxNonOverlapping(intervals) = Max(sizes) /\ EraseOverlapIntervals(intervals) = n - Max(sizes)
    BY <1>3 DEF NonOverlappingRight, Apart
  <1>6. intervals = <<>> <=> n = 0
    OBVIOUS
  <1> HIDE DEF n
  <1>7. Granting(t, n, f)
    BY <1>3, <1>4, GrantingExists DEF f
  <1>8. KeepsMost(t, n, f[n]) /\ f[0].count = 0
    <2>1. n \in 0 .. n
      BY <1>3
    <2> QED  BY <1>3, <1>4, <1>7, <2>1, GrantingIs
  <1>9. f[n].count \in Nat
    BY <1>8 DEF KeepsMost
  <1>10. f[n].count \in sizes
    <2>1. PICK G \in SUBSET (1 .. n) : Apart(t, G) /\ Cardinality(G) = f[n].count
      BY <1>8 DEF KeepsMost, KeptSo
    <2>2. Moves(p, t, intervals, n)
      BY <1>3 DEF Moves
    <2>3. AsMany(intervals, n, G)
      BY <1>3, <2>1, <2>2, ApartRenamed
    <2> QED  BY <2>1, <2>3 DEF AsMany
  <1>11. \A k \in sizes : k <= f[n].count /\ k \in Int
    <2> TAKE k \in sizes
    <2>1. PICK K \in SUBSET (1 .. n) : Apart(intervals, K) /\ k = Cardinality(K)
      OBVIOUS
    <2>2. Moves(q, intervals, t, n)
      BY <1>3 DEF Moves
    <2>3. AsMany(t, n, K)
      BY <1>3, <2>1, <2>2, ApartRenamed
    <2>6. PICK R \in SUBSET (1 .. n) : Apart(t, R) /\ Cardinality(R) = Cardinality(K)
      BY <2>3 DEF AsMany
    <2>4. Cardinality(R) <= f[n].count
      BY <1>8, <2>6 DEF KeepsMost, NoneBetter
    <2>5. IsFiniteSet(K)
      <3>1. IsFiniteSet(1 .. n)
        BY <1>3, FS_Interval
      <3> QED  BY <3>1, FS_Subset
    <2> QED  BY <2>1, <2>4, <2>6, <2>5, FS_CardinalityType
  <1>12. Max(sizes) = f[n].count
    <2> HIDE DEF sizes
    <2> QED  BY <1>10, <1>11, MaxIs
  <1>13. CASE n = 0
    <2>1. f[n].count = 0
      BY <1>8, <1>13
    <2> QED  BY <1>2, <1>5, <1>6, <1>12, <1>13, <2>1
  <1>14. CASE n # 0
    <2>1. n \in Nat \ {0}
      BY <1>3, <1>14
    <2>2. Erasing(t, n, g)
      BY <1>4, <2>1, ErasingExists DEF g
    <2>3. g[n].removed = n - f[n].count
      BY <1>4, <1>7, <2>1, <2>2, ErasedAndGranted
    <2> QED  BY <1>2, <1>5, <1>6, <1>12, <1>14, <2>3
  <1> QED  BY <1>13, <1>14

-----------------------------------------------------------------------------
(* Arrows.                                                                   *)

\* The times that matter reach from 0 to the last end.
LEMMA TimesAre ==
  ASSUME NEW s \in Seq(Proper)
  PROVE  \E T \in Nat : /\ Times(s) = 0 .. T
                        /\ \A i \in 1 .. Len(s) : s[i][2] \in 0 .. T
                        /\ T # 0 => \E i \in 1 .. Len(s) : T = s[i][2]
PROOF
  <1> DEFINE n == Len(s)
             S == {0} \cup {s[i][2] : i \in 1 .. n}
             top(i, m) == m \in S /\ \A k \in 1 .. i : s[k][2] <= m
             right == {i \in 0 .. n : \E m \in S : top(i, m)}
  <1>1. n \in Nat /\ DOMAIN s = 1 .. n /\ \A i \in 1 .. n : s[i][2] \in Nat
    <2>1. \A i \in 1 .. n : s[i] \in Proper
      OBVIOUS
    <2> QED  BY <2>1 DEF Proper
  <1>2. Times(s) = 0 .. Max(S)
    BY <1>1 DEF Times
  <1> HIDE DEF n
  <1>3. S \subseteq Nat /\ 0 \in S
    BY <1>1
  <1>4. \A i \in 1 .. n : s[i][2] \in S
    OBVIOUS
  <1>5. \A x \in S : x = 0 \/ \E i \in 1 .. n : x = s[i][2]
    OBVIOUS
  <1> HIDE DEF S
  <1>6. 0 \in right
    <2>1. top(0, 0)
      BY <1>3
    <2> QED  BY <1>1, <1>3, <2>1
  <1>7. \A i \in 0 .. n - 1 : i \in right => i + 1 \in right
    <2> SUFFICES ASSUME NEW i \in 0 .. n - 1, i \in right PROVE i + 1 \in right
      OBVIOUS
    <2>1. PICK m \in S : top(i, m)
      OBVIOUS
    <2>2. /\ i + 1 \in 1 .. n /\ i + 1 \in 0 .. n /\ s[i + 1][2] \in Nat /\ m \in Nat
          /\ \A k \in 1 .. i + 1 : k \in 1 .. i \/ k = i + 1
          /\ \A k \in 1 .. i : k \in 1 .. n /\ s[k][2] \in Nat
      BY <1>1, <1>3
    <2>3. CASE s[i + 1][2] <= m
      <3>1. top(i + 1, m)
        BY <2>1, <2>2, <2>3
      <3> QED  BY <2>2, <3>1
    <2>4. CASE ~(s[i + 1][2] <= m)
      <3>1. \A k \in 1 .. i : s[k][2] <= s[i + 1][2]
        BY <2>1, <2>2, <2>4
      <3>2. top(i + 1, s[i + 1][2])
        BY <1>4, <2>2, <3>1
      <3>3. s[i + 1][2] \in S
        BY <3>2
      <3> HIDE DEF top
      <3> QED  BY <2>2, <3>2, <3>3
    <2> QED  BY <2>3, <2>4
  <1>8. n \in right
    <2>1. 0 \in Int /\ n \in Int /\ n \in 0 .. n
      BY <1>1
    <2> HIDE DEF right
    <2> QED  BY <1>6, <1>7, <2>1, RangeInduction
  <1>9. PICK T \in S : \A k \in 1 .. n : s[k][2] <= T
    BY <1>8
  <1>10. \A x \in S : x <= T
    BY <1>3, <1>5, <1>9
  <1>11. Max(S) = T
    <2>1. S \subseteq Int
      BY <1>3
    <2> QED  BY <1>10, <2>1, MaxIs
  <1>12. T \in Nat /\ (T # 0 => \E i \in 1 .. n : T = s[i][2])
    BY <1>3, <1>5
  <1>13. \A i \in 1 .. n : s[i][2] \in 0 .. T
    BY <1>1, <1>9, <1>12
  <1> QED  BY <1>2, <1>11, <1>12, <1>13 DEF n

Hit(span, x) == span[1] <= x /\ x <= span[2]
Reached(t, n, X) == \A i \in 1 .. n : \E x \in X : Hit(t[i], x)

\* As many shots as balloons of which no two can be hit by one, and every balloon
\* so far is hit.
Enough(t, i, T, acc) ==
  \E X \in SUBSET (0 .. T) :
    /\ Cardinality(X) = acc.arrows /\ Reached(t, i, X)
    /\ acc.shotAt = -1 \/ acc.shotAt \in X
    /\ \A x \in X : x <= acc.shotAt
Distant(t, D) == \A k, l \in D : k # l => t[k][2] < t[l][1] \/ t[l][2] < t[k][1]
Needed(t, i, acc) ==
  \E D \in SUBSET (1 .. i) :
    Cardinality(D) = acc.arrows /\ Distant(t, D) /\ \A k \in D : t[k][2] <= acc.shotAt
ShotWell(t, i, T, acc) ==
  /\ acc.arrows \in Nat /\ acc.shotAt \in Int
  /\ acc.shotAt # -1 => \E k \in 1 .. i : acc.shotAt = t[k][2]
  /\ Enough(t, i, T, acc) /\ Needed(t, i, acc)

LEMMA ShotWellStep ==
  ASSUME NEW n \in Nat, NEW t, ByEnds(t, n), NEW T \in Nat, \A k \in 1 .. n : t[k][2] \in 0 .. T,
         NEW i \in 0 .. n - 1, NEW acc, ShotWell(t, i, T, acc)
  PROVE  ShotWell(t, i + 1, T, Shot(acc, t[i + 1]))
PROOF
  <1> DEFINE b == t[i + 1]
             e == acc.shotAt
             new == Shot(acc, b)
  <1>1. /\ i \in Nat /\ i + 1 \in 1 .. n /\ i + 1 \in 1 .. i + 1
        /\ \A k \in 1 .. i : k \in 1 .. n /\ i + 1 \in k .. n /\ k \in 1 .. i + 1
        /\ \A k \in 1 .. i + 1 : k \in 1 .. i \/ k = i + 1
    OBVIOUS
  <1>2. b[1] \in Nat /\ b[2] \in Nat /\ b[1] < b[2] /\ b[2] \in 0 .. T
    BY <1>1 DEF ByEnds
  <1>3. \A k \in 1 .. i : t[k][1] \in Nat /\ t[k][2] \in Nat /\ t[k][2] <= b[2]
    BY <1>1 DEF ByEnds
  <1>4. acc.arrows \in Nat /\ e \in Int /\ (e # -1 => \E k \in 1 .. i : e = t[k][2])
    BY DEF ShotWell
  <1>5. PICK X \in SUBSET (0 .. T) :
          /\ Cardinality(X) = acc.arrows /\ Reached(t, i, X)
          /\ e = -1 \/ e \in X
          /\ \A x \in X : x <= e
    BY DEF ShotWell, Enough
  <1>6. PICK D \in SUBSET (1 .. i) :
          Cardinality(D) = acc.arrows /\ Distant(t, D) /\ \A k \in D : t[k][2] <= e
    BY DEF ShotWell, Needed
  <1>7. IsFiniteSet(X) /\ IsFiniteSet(D)
    <2>1. IsFiniteSet(0 .. T) /\ IsFiniteSet(1 .. i)
      BY <1>1, FS_Interval
    <2> QED  BY <2>1, FS_Subset
  <1>8. CASE b[1] > e
    <2>1. new.arrows = acc.arrows + 1 /\ new.shotAt = b[2]
      BY <1>8 DEF Shot
    <2> HIDE DEF new
    <2>2. Enough(t, i + 1, T, new)
      <3> DEFINE Y == X \cup {b[2]}
      <3>1. \A x \in X : x \in 0 .. T /\ x \in Int /\ x < b[2]
        <4> TAKE x \in X
        <4>1. x \in 0 .. T
          BY <1>5
        <4>2. x <= e
          BY <1>5
        <4> QED  BY <1>2, <1>4, <1>8, <4>1, <4>2
      <3>2. b[2] \notin X
        BY <1>2, <3>1
      <3>3. Cardinality(Y) = acc.arrows + 1
        <4>1. Cardinality(X) = acc.arrows
          BY <1>5
        <4> QED  BY <1>7, <3>2, <4>1, FS_AddElement
      <3>4. Reached(t, i + 1, Y)
        <4> SUFFICES ASSUME NEW k \in 1 .. i + 1 PROVE \E x \in Y : Hit(t[k], x)
          BY DEF Reached
        <4>1. CASE k \in 1 .. i
          BY <1>5, <4>1 DEF Reached
        <4>2. CASE k = i + 1
          <5>1. Hit(b, b[2])
            BY <1>2 DEF Hit
          <5> QED  BY <4>2, <5>1
        <4> QED  BY <1>1, <4>1, <4>2
      <3>5. Y \in SUBSET (0 .. T) /\ b[2] \in Y /\ \A x \in Y : x <= b[2]
        <4>1. Y \subseteq 0 .. T
          BY <1>2, <3>1
        <4>2. \A x \in Y : x <= b[2]
          BY <1>2, <3>1
        <4> QED  BY <4>1, <4>2
      <3> HIDE DEF Y
      <3> QED  BY <2>1, <3>3, <3>4, <3>5 DEF Enough
    <2>3. Needed(t, i + 1, new)
      <3> DEFINE F == D \cup {i + 1}
      <3>1. F \in SUBSET (1 .. i + 1) /\ i + 1 \notin D
        <4>1. \A k \in D : k \in 1 .. i
          BY <1>6
        <4>2. i + 1 \notin 1 .. i
          BY <1>1
        <4> QED  BY <1>1, <4>1, <4>2
      <3>2. Cardinality(F) = acc.arrows + 1
        BY <1>6, <1>7, <3>1, FS_AddElement
      <3>3. ASSUME NEW k \in D PROVE t[k][2] < b[1] /\ t[k][2] <= b[2]
        <4>1. t[k][2] <= e /\ t[k][2] \in Nat /\ t[k][2] <= b[2]
          BY <1>3, <1>6
        <4> QED  BY <1>2, <1>4, <1>8, <4>1
      <3>4. Distant(t, F)
        <4> SUFFICES ASSUME NEW k \in F, NEW l \in F, k # l
                     PROVE  t[k][2] < t[l][1] \/ t[l][2] < t[k][1]
          BY DEF Distant
        <4>1. CASE k \in D /\ l \in D
          BY <1>6, <4>1 DEF Distant
        <4>2. CASE k = i + 1
          BY <3>3, <4>2
        <4>3. CASE l = i + 1
          BY <3>3, <4>3
        <4> QED  BY <4>1, <4>2, <4>3
      <3>5. \A k \in F : t[k][2] <= b[2]
        BY <1>2, <3>3
      <3> HIDE DEF F
      <3> QED  BY <2>1, <3>1, <3>2, <3>4, <3>5 DEF Needed
    <2>4. \E k \in 1 .. i + 1 : b[2] = t[k][2]
      BY <1>1
    <2>5. ShotWell(t, i + 1, T, new)
      BY <1>2, <1>4, <2>1, <2>2, <2>3, <2>4 DEF ShotWell
    <2> QED  BY <2>5 DEF new
  <1>9. CASE ~(b[1] > e)
    <2>1. new = acc
      BY <1>9 DEF Shot
    <2>2. e # -1
      BY <1>2, <1>9
    <2>3. PICK k \in 1 .. i : e = t[k][2]
      BY <1>4, <2>2
    <2>4. Hit(b, e)
      BY <1>2, <1>3, <1>4, <1>9, <2>3 DEF Hit
    <2>5. Reached(t, i + 1, X)
      <3> SUFFICES ASSUME NEW l \in 1 .. i + 1 PROVE \E x \in X : Hit(t[l], x)
        BY DEF Reached
      <3>1. CASE l \in 1 .. i
        BY <1>5, <3>1 DEF Reached
      <3>2. CASE l = i + 1
        BY <1>5, <2>2, <2>4, <3>2
      <3> QED  BY <1>1, <3>1, <3>2
    <2>6. Enough(t, i + 1, T, acc)
      BY <1>5, <2>5 DEF Enough
    <2>7. Needed(t, i + 1, acc)
      <3>1. D \in SUBSET (1 .. i + 1)
        BY <1>1
      <3> QED  BY <1>6, <3>1 DEF Needed
    <2>8. k \in 1 .. i + 1
      BY <1>1
    <2> QED  BY <1>4, <2>1, <2>3, <2>6, <2>7, <2>8 DEF ShotWell
  <1> QED  BY <1>8, <1>9

Shootings == [arrows : Nat, shotAt : Int]
Shooting(t, n, f) ==
  f = [i \in 0 .. n |-> IF i = 0 THEN [arrows |-> 0, shotAt |-> -1] ELSE Shot(f[i - 1], t[i])]

LEMMA ShootingExists ==
  ASSUME NEW n \in Nat, NEW t, ByEnds(t, n)
  PROVE  \E f : Shooting(t, n, f)
PROOF
  <1> DEFINE A == Shootings
             base == [arrows |-> 0, shotAt |-> -1]
             step == [i \in 1 .. n |-> [a \in A |-> Shot(a, t[i])]]
  <1>1. base \in A
    BY DEF Shootings
  <1>2. \A i \in 1 .. n : \A a \in A : step[i][a] = Shot(a, t[i]) /\ step[i][a] \in A
    <2> TAKE i \in 1 .. n
    <2> TAKE a \in A
    <2>1. t[i][2] \in Int /\ a.arrows + 1 \in Nat
      BY DEF ByEnds, Shootings
    <2> QED  BY <2>1 DEF Shot, Shootings
  <1> HIDE DEF step, base
  <1>3. PICK f : Passes(f, n, base, step) /\ \A i \in 0 .. n : f[i] \in A
    <2>1. \A i \in 1 .. n : \A a \in A : step[i][a] \in A
      BY <1>2
    <2> QED  BY <1>1, <2>1, PassExists
  <1>4. ASSUME NEW i \in 0 .. n, i # 0 PROVE step[i][f[i - 1]] = Shot(f[i - 1], t[i])
    <2>1. i \in 1 .. n /\ i - 1 \in 0 .. n
      BY <1>4
    <2> QED  BY <1>2, <1>3, <2>1
  <1>5. \A i \in 0 .. n : (IF i = 0 THEN base ELSE step[i][f[i - 1]])
                          = (IF i = 0 THEN base ELSE Shot(f[i - 1], t[i]))
    BY <1>4
  <1>6. f = [i \in 0 .. n |-> IF i = 0 THEN base ELSE Shot(f[i - 1], t[i])]
    BY <1>3, <1>5 DEF Passes
  <1> QED  BY <1>6 DEF Shooting, base

\* After all of them, the shots are enough and needed.
LEMMA ShootingIs ==
  ASSUME NEW n \in Nat, NEW t, ByEnds(t, n), NEW T \in Nat, \A k \in 1 .. n : t[k][2] \in 0 .. T,
         NEW f, Shooting(t, n, f)
  PROVE  ShotWell(t, n, T, f[n])
PROOF
  <1> DEFINE right == {i \in 0 .. n : ShotWell(t, i, T, f[i])}
  <1>1. f[0] = [arrows |-> 0, shotAt |-> -1] /\ \A i \in 1 .. n : f[i] = Shot(f[i - 1], t[i])
    BY DEF Shooting
  <1>2. 0 \in right
    <2>1. f[0].arrows = 0 /\ f[0].shotAt = -1
      BY <1>1
    <2>2. \A k \in 1 .. 0 : FALSE
      OBVIOUS
    <2>3. Cardinality({}) = 0
      BY FS_EmptySet
    <2>4. Enough(t, 0, T, f[0])
      <3>1. Reached(t, 0, {}) /\ {} \in SUBSET (0 .. T)
        BY <2>2 DEF Reached
      <3> QED  BY <2>1, <2>3, <3>1 DEF Enough
    <2>5. Needed(t, 0, f[0])
      <3>1. Distant(t, {}) /\ {} \in SUBSET (1 .. 0)
        BY DEF Distant
      <3> QED  BY <2>1, <2>3, <3>1 DEF Needed
    <2> QED  BY <2>1, <2>4, <2>5 DEF ShotWell
  <1>3. \A i \in 0 .. n - 1 : i \in right => i + 1 \in right
    <2> SUFFICES ASSUME NEW i \in 0 .. n - 1, i \in right PROVE i + 1 \in right
      OBVIOUS
    <2>1. i + 1 \in 1 .. n /\ (i + 1) - 1 = i /\ i + 1 \in 0 .. n
      OBVIOUS
    <2>2. f[i + 1] = Shot(f[i], t[i + 1])
      BY <1>1, <2>1
    <2>3. ShotWell(t, i + 1, T, f[i + 1])
      BY <2>2, ShotWellStep
    <2> QED  BY <2>1, <2>3
  <1>4. n \in right
    <2>1. 0 \in Int /\ n \in Int /\ n \in 0 .. n
      OBVIOUS
    <2> HIDE DEF right
    <2> QED  BY <1>2, <1>3, <2>1, RangeInduction
  <1> QED  BY <1>4

\* FindMinArrowShots: the arrows, each shot at the end of the first balloon that is
\* left, are the fewest that hit every balloon.
THEOREM ArrowsAreRight ==
  ASSUME NEW points \in Seq(Proper)
  PROVE  ArrowsRight(points)
PROOF
  <1> DEFINE n == Len(points)
             t == Ordered(points, 2, 2)
             f == CHOOSE h : Shooting(t, n, h)
             enough == {X \in SUBSET Times(points) : Reached(points, n, X)}
             sizes == {Cardinality(X) : X \in enough}
  <1>1. PICK p, q : SortedSpans(t, points, 2, p, q)
    BY SpansOrdered
  <1>2. FindMinArrowShots(points) = f[n].arrows
    BY DEF FindMinArrowShots, ByEnd, Shooting
  <1> HIDE DEF t, f
  <1>3. /\ n \in Nat /\ DOMAIN points = 1 .. n
        /\ \A i \in 1 .. n : /\ p[i] \in 1 .. n /\ q[i] \in 1 .. n
                             /\ q[p[i]] = i /\ p[q[i]] = i /\ t[i] = points[p[i]] /\ points[i] = t[q[i]]
    BY <1>1, SortedSpansAre
  <1>4. ByEnds(t, n)
    BY <1>1, SortedSpansAre DEF ByEnds
  <1>5. ArrowsRight(points) <=> FindMinArrowShots(points) = Min(sizes)
    BY <1>3 DEF ArrowsRight, Reached, Hit
  <1>6. PICK T \in Nat : Times(points) = 0 .. T /\ \A i \in 1 .. n : points[i][2] \in 0 .. T
    BY TimesAre
  <1> HIDE DEF n
  <1>7. Shooting(t, n, f)
    BY <1>3, <1>4, ShootingExists DEF f
  <1>8. \A k \in 1 .. n : t[k][2] \in 0 .. T
    BY <1>3, <1>6
  <1>9. ShotWell(t, n, T, f[n])
    BY <1>3, <1>4, <1>7, <1>8, ShootingIs
  <1>10. \A X : Reached(points, n, X) <=> Reached(t, n, X)
    BY <1>3 DEF Reached
  <1>11. IsFiniteSet(0 .. T)
    BY FS_Interval
  <1>12. f[n].arrows \in sizes /\ f[n].arrows \in Nat
    <2>1. PICK X \in SUBSET (0 .. T) : Cardinality(X) = f[n].arrows /\ Reached(t, n, X)
      BY <1>9 DEF ShotWell, Enough
    <2>2. X \in enough
      BY <1>6, <1>10, <2>1
    <2>3. f[n].arrows \in Nat
      BY <1>9 DEF ShotWell
    <2> QED  BY <2>1, <2>2, <2>3
  <1>13. \A k \in sizes : f[n].arrows <= k /\ k \in Int
    <2> TAKE k \in sizes
    <2>1. PICK X \in SUBSET (0 .. T) : k = Cardinality(X) /\ Reached(t, n, X)
      BY <1>6, <1>10
    <2>2. PICK D \in SUBSET (1 .. n) : Cardinality(D) = f[n].arrows /\ Distant(t, D)
      BY <1>9 DEF ShotWell, Needed
    <2>3. IsFiniteSet(X)
      BY <1>11, <2>1, FS_Subset
    <2> DEFINE h == [l \in D |-> CHOOSE x \in X : Hit(t[l], x)]
    <2>4. \A l \in D : h[l] \in X /\ Hit(t[l], h[l])
      BY <2>1 DEF Reached
    <2>5. h \in [D -> X]
      BY <2>4
    <2> HIDE DEF h
    <2>6. ASSUME NEW l \in D, NEW m \in D, h[l] = h[m] PROVE l = m
      <3> SUFFICES ASSUME l # m PROVE FALSE
        OBVIOUS
      <3> DEFINE x == h[l]
      <3>1. t[l][1] <= x /\ x <= t[l][2] /\ t[m][1] <= x /\ x <= t[m][2]
        BY <2>4, <2>6 DEF Hit
      <3>2. x \in Int
        <4>1. h[l] \in 0 .. T
          BY <2>1, <2>4
        <4> QED  BY <4>1
      <3>3. l \in 1 .. n /\ m \in 1 .. n
        BY <2>2
      <3>4. t[l][1] \in Nat /\ t[l][2] \in Nat /\ t[m][1] \in Nat /\ t[m][2] \in Nat
        BY <1>4, <3>3 DEF ByEnds
      <3>5. t[l][2] < t[m][1] \/ t[m][2] < t[l][1]
        BY <2>2 DEF Distant
      <3> HIDE DEF x
      <3> QED  BY <3>1, <3>2, <3>4, <3>5
    <2>7. h \in Injection(D, X)
      BY <2>5, <2>6 DEF Injection, IsInjective
    <2>8. Cardinality(D) <= Cardinality(X)
      BY <2>3, <2>7, FS_Injection
    <2> QED  BY <2>1, <2>2, <2>3, <2>8, FS_CardinalityType
  <1>14. Min(sizes) = f[n].arrows
    <2> HIDE DEF sizes
    <2>1. sizes \subseteq Int
      BY <1>13
    <2> QED  BY <1>12, <1>13, <2>1, MinIs
  <1> QED  BY <1>2, <1>5, <1>14

-----------------------------------------------------------------------------
(* Sweeping over the events at the ends of the intervals.                    *)

\* More members, and a sum that is not smaller.
LEMMA SumGrows ==
  ASSUME NEW R, IsFiniteSet(R), NEW S \in SUBSET R, NEW f, \A x \in R : f[x] \in Nat
  PROVE  /\ SumFunctionOnSet(f, S) \in Nat /\ SumFunctionOnSet(f, R) \in Nat
         /\ SumFunctionOnSet(f, S) <= SumFunctionOnSet(f, R)
PROOF
  <1> DEFINE D == R \ S
             a == SumFunctionOnSet(f, S)
             b == SumFunctionOnSet(f, D)
             c == SumFunctionOnSet(f, R)
  <1>1. IsFiniteSet(S) /\ IsFiniteSet(D)
    BY FS_Subset
  <1>2. a \in Nat /\ b \in Nat /\ c \in Nat
    BY <1>1, SumIsNat
  <1>3. S \cup D = R /\ S \cap D = {}
    OBVIOUS
  <1>4. SumFunctionOnSet(f, S \cup D) = a + b
    BY <1>1, <1>3, SumOfUnion
  <1>5. SumFunctionOnSet(f, S \cup D) = c
    BY <1>3
  <1> HIDE DEF a, b, c
  <1>6. a <= c
    BY <1>2, <1>4, <1>5
  <1> QED  BY <1>2, <1>6 DEF a, c

\* The sum of what is taken away.
LEMMA SumNegates ==
  ASSUME NEW S, IsFiniteSet(S), NEW f, NEW g, \A x \in S : f[x] \in Int /\ g[x] = -f[x]
  PROVE  SumFunctionOnSet(g, S) = -SumFunctionOnSet(f, S)
PROOF
  <1> DEFINE z == [x \in S |-> 0]
             a == SumFunctionOnSet(f, S)
             b == SumFunctionOnSet(g, S)
             c == SumFunctionOnSet(z, S)
  <1>1. \A x \in S : f[x] \in Int /\ g[x] \in Int /\ z[x] = f[x] + g[x]
    OBVIOUS
  <1>2. c = a + b
    BY <1>1, SumAdds
  <1>3. c = 0
    BY SumOfZeros
  <1>4. a \in Int /\ b \in Int
    BY <1>1, SumIsInt
  <1> HIDE DEF a, b, c
  <1>5. b = -a
    BY <1>2, <1>3, <1>4
  <1> QED  BY <1>5 DEF a, b

EventsOf(E, s, load, n) ==
  /\ E \in Seq(Pairs) /\ Len(E) = n + n
  /\ \A i \in 1 .. n : /\ E[i][1] = s[i][1] /\ E[i][2] = load[i]
                       /\ E[i + n][1] = s[i][2] /\ E[i + n][2] = -load[i]

LEMMA EndsAre ==
  ASSUME NEW s \in Seq(Proper), NEW load, \A i \in 1 .. Len(s) : load[i] \in Nat
  PROVE  EventsOf(Ends(s, load), s, load, Len(s))
PROOF
  <1> DEFINE n == Len(s)
             a == [i \in 1 .. n |-> <<s[i][1], load[i]>>]
             b == [i \in 1 .. n |-> <<s[i][2], -load[i]>>]
             E == a \o b
  <1>1. n \in Nat /\ DOMAIN s = 1 .. n /\ \A i \in 1 .. n : s[i][1] \in Nat /\ s[i][2] \in Nat
    <2>1. \A i \in 1 .. n : s[i] \in Proper
      OBVIOUS
    <2> QED  BY <2>1 DEF Proper
  <1>2. E = Ends(s, load)
    BY <1>1 DEF Ends
  <1>3. \A i \in 1 .. n : <<s[i][1], load[i]>> \in Pairs /\ <<s[i][2], -load[i]>> \in Pairs
    BY <1>1 DEF Pairs
  <1> HIDE DEF n
  <1>4. a \in Seq(Pairs) /\ Len(a) = n /\ b \in Seq(Pairs) /\ Len(b) = n
    <2> DEFINE c(i) == <<s[i][1], load[i]>>
               d(i) == <<s[i][2], -load[i]>>
    <2>1. a = [i \in 1 .. n |-> c(i)] /\ b = [i \in 1 .. n |-> d(i)]
      OBVIOUS
    <2>2. \A i \in 1 .. n : c(i) \in Pairs /\ d(i) \in Pairs
      BY <1>3
    <2> HIDE DEF c, d, a, b
    <2> QED  BY <1>1, <2>1, <2>2
  <1>5. \A i \in 1 .. n : a[i] = <<s[i][1], load[i]>> /\ b[i] = <<s[i][2], -load[i]>>
    OBVIOUS
  <1> HIDE DEF a, b
  <1>6. /\ E \in Seq(Pairs) /\ Len(E) = n + n
        /\ \A i \in 1 .. n + n : E[i] = IF i <= n THEN a[i] ELSE b[i - n]
    <2>1. /\ E \in Seq(Pairs) /\ Len(E) = Len(a) + Len(b)
          /\ \A i \in 1 .. Len(a) + Len(b) : E[i] = IF i <= Len(a) THEN a[i] ELSE b[i - Len(a)]
      BY <1>4, ConcatProperties
    <2> HIDE DEF E
    <2> QED  BY <1>4, <2>1
  <1> HIDE DEF E
  <1>7. ASSUME NEW i \in 1 .. n
        PROVE  /\ E[i][1] = s[i][1] /\ E[i][2] = load[i]
               /\ E[i + n][1] = s[i][2] /\ E[i + n][2] = -load[i]
    <2>1. i \in 1 .. n + n /\ i <= n /\ i + n \in 1 .. n + n /\ ~(i + n <= n) /\ (i + n) - n = i
      BY <1>1
    <2>2. E[i] = a[i] /\ E[i + n] = b[i]
      BY <1>6, <2>1
    <2> QED  BY <1>5, <2>2
  <1>8. EventsOf(E, s, load, n)
    BY <1>6, <1>7 DEF EventsOf
  <1> QED  BY <1>2, <1>8 DEF n

\* What has come and not gone by a time is what is there.
LEMMA LoadIs ==
  ASSUME NEW s \in Seq(Proper), NEW load, \A i \in 1 .. Len(s) : load[i] \in Nat,
         NEW E, EventsOf(E, s, load, Len(s)), NEW w, \A e \in 1 .. Len(E) : w[e] = E[e][2],
         NEW x \in Int
  PROVE  /\ SumFunctionOnSet(w, {e \in 1 .. Len(E) : E[e][1] <= x}) = Load(s, load, x)
         /\ Load(s, load, x) \in Nat
PROOF
  <1> DEFINE n == Len(s)
             began == {i \in 1 .. n : s[i][1] <= x}
             ended == {i \in 1 .. n : s[i][2] <= x}
             here == {i \in 1 .. n : s[i][1] <= x /\ x < s[i][2]}
             move == [i \in 1 .. n |-> i + n]
             gone == {e \in n + 1 .. n + n : E[e][1] <= x}
             minus == [i \in 1 .. n |-> -load[i]]
             F(S) == SumFunctionOnSet(load, S)
             W(S) == SumFunctionOnSet(w, S)
  <1>1. /\ n \in Nat /\ DOMAIN s = 1 .. n
        /\ \A i \in 1 .. n : s[i][1] \in Nat /\ s[i][2] \in Nat /\ s[i][1] < s[i][2]
    <2>1. \A i \in 1 .. n : s[i] \in Proper
      OBVIOUS
    <2> QED  BY <2>1 DEF Proper
  <1>2. Load(s, load, x) = F(here)
    BY <1>1 DEF Load, At
  <1>3. /\ Len(E) = n + n
        /\ \A i \in 1 .. n : /\ E[i][1] = s[i][1] /\ E[i][2] = load[i]
                             /\ E[i + n][1] = s[i][2] /\ E[i + n][2] = -load[i]
    BY DEF EventsOf
  <1>4. \A i \in 1 .. n : load[i] \in Nat /\ load[i] \in Int
    OBVIOUS
  <1> HIDE DEF n
  <1>5. /\ \A i \in 1 .. n : i \in 1 .. n + n /\ i + n \in n + 1 .. n + n /\ i + n \in 1 .. n + n
        /\ \A e \in n + 1 .. n + n : e - n \in 1 .. n /\ (e - n) + n = e /\ e \notin 1 .. n
                                     /\ e \in 1 .. n + n
        /\ \A e \in 1 .. n + n : e \in 1 .. n \/ e \in n + 1 .. n + n
    BY <1>1
  <1>6. IsFiniteSet(1 .. n) /\ IsFiniteSet(n + 1 .. n + n)
    BY <1>1, FS_Interval
  <1>7. IsFiniteSet(began) /\ IsFiniteSet(ended) /\ IsFiniteSet(here) /\ IsFiniteSet(gone)
    BY <1>6, FS_Subset
  <1>8. {e \in 1 .. n + n : E[e][1] <= x} = began \cup gone
    BY <1>3, <1>5
  <1>9. began \cap gone = {}
    BY <1>5
  <1>10. began = here \cup ended /\ here \cap ended = {}
    BY <1>1
  <1>11. F(here) \in Nat /\ F(ended) \in Nat
    BY <1>4, <1>7, SumIsNat
  <1>12. F(here \cup ended) = F(here) + F(ended)
    <2>1. \A i \in here \cup ended : load[i] \in Int
      BY <1>4
    <2> HIDE DEF here, ended
    <2> QED  BY <1>7, <1>10, <2>1, SumOfUnion
  <1>13. \A e \in began \cup gone : w[e] \in Int
    <2>1. \A e \in 1 .. n : w[e] = load[e]
      BY <1>3, <1>5
    <2>2. \A e \in n + 1 .. n + n : w[e] = -load[e - n] /\ e - n \in 1 .. n
      <3> TAKE e \in n + 1 .. n + n
      <3>1. e - n \in 1 .. n /\ (e - n) + n = e /\ e \in 1 .. Len(E)
        BY <1>3, <1>5
      <3>2. E[(e - n) + n][2] = -load[e - n]
        BY <1>3, <3>1
      <3> QED  BY <3>1, <3>2
    <2>3. \A e \in n + 1 .. n + n : w[e] \in Int
      <3> TAKE e \in n + 1 .. n + n
      <3>1. load[e - n] \in Int /\ w[e] = -load[e - n]
        BY <1>4, <2>2
      <3> DEFINE y == load[e - n]
      <3>2. y \in Int /\ w[e] = -y
        BY <3>1
      <3> HIDE DEF y
      <3> QED  BY <3>2
    <2> QED  BY <1>4, <2>1, <2>3
  <1>14. W(began \cup gone) = W(began) + W(gone)
    BY <1>7, <1>9, <1>13, SumOfUnion
  <1>15. W(began) = F(began)
    <2>1. \A i \in began : w[i] = load[i]
      BY <1>3, <1>5
    <2> QED  BY <1>7, <2>1, SumOfEqual
  <1>16. W(gone) = SumFunctionOnSet(minus, ended)
    <2> DEFINE up == [i \in ended |-> i + n]
    <2>1. up \in [ended -> gone]
      <3>1. \A i \in ended : i + n \in gone
        BY <1>3, <1>5
      <3> QED  BY <3>1
    <2>2. \A i, j \in ended : up[i] = up[j] => i = j
      BY <1>1
    <2>3. \A e \in gone : \E i \in ended : up[i] = e
      <3> TAKE e \in gone
      <3>1. e - n \in 1 .. n /\ (e - n) + n = e
        BY <1>5
      <3>2. s[e - n][2] <= x
        BY <1>3, <3>1
      <3>3. e - n \in ended
        BY <3>1, <3>2
      <3>4. up[e - n] = e
        BY <3>1, <3>3
      <3> QED  BY <3>3, <3>4
    <2>4. \A i \in ended : minus[i] \in Int /\ w[up[i]] = minus[i]
      <3> TAKE i \in ended
      <3>1. i \in 1 .. n /\ up[i] = i + n /\ i + n \in 1 .. Len(E)
        BY <1>3, <1>5
      <3>2. w[i + n] = -load[i]
        BY <1>3, <3>1
      <3> QED  BY <1>4, <3>1, <3>2
    <2>5. Renames(up, ended, gone)
      <3> HIDE DEF up, gone, ended
      <3> QED  BY <2>1, <2>2, <2>3 DEF Renames
    <2>6. Carries(w, up, minus, ended)
      BY <2>4 DEF Carries
    <2> HIDE DEF up, gone, ended, minus
    <2> QED  BY <1>7, <2>5, <2>6, SumRenamed
  <1>17. SumFunctionOnSet(minus, ended) = -F(ended)
    <2>1. \A i \in ended : load[i] \in Int /\ minus[i] = -load[i]
      BY <1>4
    <2> HIDE DEF ended, minus
    <2> QED  BY <1>7, <2>1, SumNegates
  <1>18. W({e \in 1 .. Len(E) : E[e][1] <= x}) = W(began \cup gone)
    BY <1>3, <1>8
  <1>19. F(began) = F(here \cup ended)
    BY <1>10
  <1> DEFINE all == W({e \in 1 .. Len(E) : E[e][1] <= x})
  <1>20. all = F(here)
    <2> DEFINE a == F(here)
               b == F(ended)
               c == W(began)
               d == W(gone)
    <2>1. a \in Nat /\ b \in Nat /\ c = a + b /\ d = -b /\ all = c + d
      BY <1>11, <1>12, <1>14, <1>15, <1>16, <1>17, <1>18, <1>19
    <2> HIDE DEF a, b, c, d, all
    <2>2. all = a
      BY <2>1
    <2> QED  BY <2>2 DEF a
  <1> QED  BY <1>2, <1>11, <1>20

Summing(now, v, n) == now = [i \in 0 .. n |-> IF i = 0 THEN 0 ELSE now[i - 1] + v[i]]
Topping(best, now, n) == best = [i \in 0 .. n |-> IF i = 0 THEN 0 ELSE Larger(best[i - 1], now[i])]

SummedUp(now, v, n) ==
  \A i \in 0 .. n : /\ now[i] = SumFunctionOnSet(v, 1 .. i) /\ now[i] \in Int
                    /\ i # 0 => now[i] = now[i - 1] + v[i]

LEMMA SummingIs ==
  ASSUME NEW n \in Nat, NEW v, \A k \in 1 .. n : v[k] \in Int
  PROVE  /\ \E now : Summing(now, v, n)
         /\ \A now : Summing(now, v, n) => SummedUp(now, v, n)
PROOF
  <1>1. \E now : Summing(now, v, n)
    <2> DEFINE step == [i \in 1 .. n |-> [a \in Int |-> a + v[i]]]
    <2>1. \A i \in 1 .. n : \A a \in Int : step[i][a] = a + v[i] /\ step[i][a] \in Int
      OBVIOUS
    <2> HIDE DEF step
    <2>2. PICK f : Passes(f, n, 0, step) /\ \A i \in 0 .. n : f[i] \in Int
      <3>1. \A i \in 1 .. n : \A a \in Int : step[i][a] \in Int
        BY <2>1
      <3>2. 0 \in Int
        OBVIOUS
      <3> QED  BY <3>1, <3>2, PassExists
    <2>3. ASSUME NEW i \in 0 .. n, i # 0 PROVE step[i][f[i - 1]] = f[i - 1] + v[i]
      <3>1. i \in 1 .. n /\ i - 1 \in 0 .. n
        BY <2>3
      <3> QED  BY <2>1, <2>2, <3>1
    <2>4. \A i \in 0 .. n : (IF i = 0 THEN 0 ELSE step[i][f[i - 1]])
                            = (IF i = 0 THEN 0 ELSE f[i - 1] + v[i])
      BY <2>3
    <2>5. f = [i \in 0 .. n |-> IF i = 0 THEN 0 ELSE f[i - 1] + v[i]]
      BY <2>2, <2>4 DEF Passes
    <2>6. Summing(f, v, n)
      BY <2>5 DEF Summing
    <2> QED  BY <2>6
  <1>2. ASSUME NEW now, Summing(now, v, n)
        PROVE  SummedUp(now, v, n)
    <2> DEFINE V(i) == SumFunctionOnSet(v, 1 .. i)
               right == {i \in 0 .. n : now[i] = V(i) /\ now[i] \in Int}
    <2>1. now[0] = 0 /\ \A i \in 0 .. n : i # 0 => now[i] = now[i - 1] + v[i]
      BY <1>2 DEF Summing
    <2>2. 0 \in right
      <3>1. IsFiniteSet({}) /\ \A k \in {} : v[k] \in Int
        BY FS_EmptySet
      <3>2. 1 .. 0 = {}
        OBVIOUS
      <3>3. SumFunctionOnSet(v, {}) = 0
        BY <3>1, SumUnfolds
      <3>4. V(0) = 0
        BY <3>2, <3>3
      <3> QED  BY <2>1, <3>4
    <2>3. \A i \in 0 .. n - 1 : i \in right => i + 1 \in right
      <3> SUFFICES ASSUME NEW i \in 0 .. n - 1, i \in right PROVE i + 1 \in right
        OBVIOUS
      <3>1. /\ i + 1 \in 1 .. n /\ i + 1 \in 0 .. n /\ (i + 1) - 1 = i /\ i + 1 # 0 /\ i + 1 \in 1 .. i + 1
            /\ \A k \in 1 .. i + 1 : v[k] \in Int
        OBVIOUS
      <3>2. (1 .. i + 1) \ {i + 1} = 1 .. i
        OBVIOUS
      <3>3. IsFiniteSet(1 .. i + 1)
        BY FS_Interval
      <3>4. SumFunctionOnSet(v, 1 .. i + 1) = v[i + 1] + SumFunctionOnSet(v, (1 .. i + 1) \ {i + 1})
        BY <3>1, <3>3, SumTakesOut
      <3>5. V(i + 1) = v[i + 1] + V(i)
        BY <3>2, <3>4
      <3>6. now[i + 1] = now[i] + v[i + 1] /\ now[i] = V(i) /\ now[i] \in Int /\ v[i + 1] \in Int
        BY <2>1, <3>1
      <3> HIDE DEF V
      <3>7. now[i + 1] = V(i + 1) /\ now[i + 1] \in Int
        BY <3>5, <3>6
      <3> QED  BY <3>1, <3>7
    <2>4. \A i \in 0 .. n : i \in right
      <3>1. 0 \in Int /\ n \in Int
        OBVIOUS
      <3> HIDE DEF right
      <3> QED  BY <2>2, <2>3, <3>1, RangeInduction
    <2> QED  BY <2>1, <2>4 DEF SummedUp
  <1> QED  BY <1>1, <1>2

LEMMA ToppingIs ==
  ASSUME NEW n \in Nat, NEW now, \A i \in 0 .. n : now[i] \in Int, now[0] = 0
  PROVE  /\ \E best : Topping(best, now, n)
         /\ \A best : Topping(best, now, n) =>
              /\ best[n] \in Int
              /\ \E k \in 0 .. n : best[n] = now[k]
              /\ \A k \in 0 .. n : now[k] <= best[n]
PROOF
  <1>1. \E best : Topping(best, now, n)
    <2> DEFINE step == [i \in 1 .. n |-> [a \in Int |-> Larger(a, now[i])]]
    <2>1. \A i \in 1 .. n : \A a \in Int : step[i][a] = Larger(a, now[i]) /\ step[i][a] \in Int
      BY DEF Larger
    <2> HIDE DEF step
    <2>2. PICK f : Passes(f, n, 0, step) /\ \A i \in 0 .. n : f[i] \in Int
      <3>1. \A i \in 1 .. n : \A a \in Int : step[i][a] \in Int
        BY <2>1
      <3>2. 0 \in Int
        OBVIOUS
      <3> QED  BY <3>1, <3>2, PassExists
    <2>3. ASSUME NEW i \in 0 .. n, i # 0 PROVE step[i][f[i - 1]] = Larger(f[i - 1], now[i])
      <3>1. i \in 1 .. n /\ i - 1 \in 0 .. n
        BY <2>3
      <3> QED  BY <2>1, <2>2, <3>1
    <2>4. \A i \in 0 .. n : (IF i = 0 THEN 0 ELSE step[i][f[i - 1]])
                            = (IF i = 0 THEN 0 ELSE Larger(f[i - 1], now[i]))
      BY <2>3
    <2>5. f = [i \in 0 .. n |-> IF i = 0 THEN 0 ELSE Larger(f[i - 1], now[i])]
      BY <2>2, <2>4 DEF Passes
    <2>6. Topping(f, now, n)
      BY <2>5 DEF Topping
    <2> QED  BY <2>6
  <1>2. ASSUME NEW best, Topping(best, now, n)
        PROVE  /\ best[n] \in Int
               /\ \E k \in 0 .. n : best[n] = now[k]
               /\ \A k \in 0 .. n : now[k] <= best[n]
    <2> DEFINE top(i) == /\ best[i] \in Int
                         /\ \E k \in 0 .. i : best[i] = now[k]
                         /\ \A k \in 0 .. i : now[k] <= best[i]
               right == {i \in 0 .. n : top(i)}
    <2>1. best[0] = 0 /\ \A i \in 1 .. n : best[i] = Larger(best[i - 1], now[i])
      BY <1>2 DEF Topping
    <2>2. 0 \in right
      <3>1. \A k \in 0 .. 0 : k = 0
        OBVIOUS
      <3>2. 0 \in 0 .. 0
        OBVIOUS
      <3> QED  BY <2>1, <3>1, <3>2
    <2>3. \A i \in 0 .. n - 1 : i \in right => i + 1 \in right
      <3> SUFFICES ASSUME NEW i \in 0 .. n - 1, i \in right PROVE i + 1 \in right
        OBVIOUS
      <3>1. /\ i + 1 \in 1 .. n /\ i + 1 \in 0 .. n /\ (i + 1) - 1 = i /\ i + 1 \in 0 .. i + 1
            /\ \A k \in 0 .. i + 1 : k \in 0 .. i \/ k = i + 1
            /\ \A k \in 0 .. i : k \in 0 .. i + 1 /\ k \in 0 .. n
        OBVIOUS
      <3>2. best[i + 1] = Larger(best[i], now[i + 1]) /\ top(i) /\ now[i + 1] \in Int
        BY <2>1, <3>1
      <3>3. /\ best[i + 1] \in Int /\ best[i] <= best[i + 1] /\ now[i + 1] <= best[i + 1]
            /\ (best[i + 1] = best[i] \/ best[i + 1] = now[i + 1])
        BY <3>2 DEF Larger
      <3>4. \E k \in 0 .. i + 1 : best[i + 1] = now[k]
        <4>1. PICK k \in 0 .. i : best[i] = now[k]
          BY <3>2
        <4> QED  BY <3>1, <3>3, <4>1
      <3>5. \A k \in 0 .. i + 1 : now[k] <= best[i + 1]
        <4> TAKE k \in 0 .. i + 1
        <4>1. CASE k = i + 1
          BY <3>3, <4>1
        <4>2. CASE k \in 0 .. i
          <5>1. now[k] <= best[i] /\ now[k] \in Int /\ best[i] \in Int
            BY <3>1, <3>2, <4>2
          <5> QED  BY <3>3, <5>1
        <4> QED  BY <3>1, <4>1, <4>2
      <3>6. top(i + 1)
        BY <3>3, <3>4, <3>5
      <3> HIDE DEF top
      <3> QED  BY <3>1, <3>6
    <2>4. n \in right
      <3>1. 0 \in Int /\ n \in Int /\ n \in 0 .. n
        OBVIOUS
      <3> HIDE DEF right
      <3> QED  BY <2>2, <2>3, <3>1, RangeInduction
    <2> QED  BY <2>4
  <1> QED  BY <1>1, <1>2

\* The sweep finds the greatest load there ever is.
LEMMA SweepIs ==
  ASSUME NEW s \in Seq(Proper), NEW load, \A i \in 1 .. Len(s) : load[i] \in Nat
  PROVE  LET best == Sweep(Ends(s, load)) IN
         /\ best \in Int
         /\ \A x \in Times(s) : Load(s, load, x) <= best
         /\ \E x \in Times(s) : Load(s, load, x) = best
PROOF
  <1> DEFINE n == Len(s)
             E == Ends(s, load)
             N == Len(E)
             t == Ordered(E, 1, 2)
             v == [k \in 1 .. N |-> t[k][2]]
             w == [e \in 1 .. N |-> E[e][2]]
             f == CHOOSE now : Summing(now, v, N)
             b == CHOOSE best : Topping(best, f, N)
             L(x) == Load(s, load, x)
  <1>1. EventsOf(E, s, load, n)
    BY EndsAre
  <1>2. E \in Seq(Pairs) /\ N = n + n /\ n \in Nat /\ N \in Nat
    BY <1>1 DEF EventsOf
  <1>3. t \in Seq(Pairs) /\ Len(t) = N /\ InOrder(t, 1, 2) /\ Rearranges(t, E, N)
    <2> HIDE DEF E
    <2>1. 1 \in {1, 2} /\ 2 \in {1, 2}
      OBVIOUS
    <2> QED  BY <1>2, <2>1, OrderedIs
  <1>4. Sweep(E) = b[N]
    <2>1. \A i \in 0 .. N : i # 0 => i \in 1 .. N
      BY <1>2
    <2> DEFINE g == CHOOSE now : now = [i \in 0 .. N |-> IF i = 0 THEN 0 ELSE now[i - 1] + t[i][2]]
               h == CHOOSE best : best = [i \in 0 .. N |-> IF i = 0 THEN 0 ELSE Larger(best[i - 1], g[i])]
    <2>2. Sweep(E) = h[N]
      BY DEF Sweep
    <2>3. ASSUME NEW now
          PROVE  [i \in 0 .. N |-> IF i = 0 THEN 0 ELSE now[i - 1] + t[i][2]]
                 = [i \in 0 .. N |-> IF i = 0 THEN 0 ELSE now[i - 1] + v[i]]
      <3> HIDE DEF N, t
      <3> QED  BY <2>1
    <2>4. ASSUME NEW now
          PROVE  (now = [i \in 0 .. N |-> IF i = 0 THEN 0 ELSE now[i - 1] + t[i][2]]) <=> Summing(now, v, N)
      <3> HIDE DEF N, t, v
      <3> QED  BY <2>3 DEF Summing
    <2>5. g = f
      <3> HIDE DEF N, t, v
      <3> QED  BY <2>4
    <2>6. h = b
      <3> HIDE DEF N, t, v, f, g
      <3>1. \A best : (best = [i \in 0 .. N |-> IF i = 0 THEN 0 ELSE Larger(best[i - 1], g[i])])
                       <=> Topping(best, f, N)
        BY <2>5 DEF Topping
      <3> QED  BY <3>1
    <2> QED  BY <2>2, <2>6
  <1> HIDE DEF f, b, t, E, n
  <1>5. PICK p, q : MovedBy(t, E, N, p, q)
    BY <1>3 DEF Rearranges
  <1>6. \A k \in 1 .. N : p[k] \in 1 .. N /\ q[k] \in 1 .. N /\ q[p[k]] = k /\ p[q[k]] = k /\ t[k] = E[p[k]]
    BY <1>5 DEF MovedBy
  <1>7. \A k \in 1 .. N : t[k] \in Pairs /\ t[k][1] \in Int /\ t[k][2] \in Int /\ v[k] = t[k][2]
    <2>1. \A k \in 1 .. N : t[k] \in Pairs /\ v[k] = t[k][2]
      BY <1>3
    <2> QED  BY <2>1 DEF Pairs
  <1>8. \A e \in 1 .. N : w[e] = E[e][2]
    OBVIOUS
  <1> HIDE DEF N, v, w
  <1>9. Summing(f, v, N)
    <2>1. \A k \in 1 .. N : v[k] \in Int
      BY <1>7
    <2> QED  BY <1>2, <2>1, SummingIs DEF f
  <1>10. \A i \in 0 .. N : /\ f[i] = SumFunctionOnSet(v, 1 .. i) /\ f[i] \in Int
                           /\ i # 0 => f[i] = f[i - 1] + v[i]
    <2>1. \A k \in 1 .. N : v[k] \in Int
      BY <1>7
    <2>2. SummedUp(f, v, N)
      BY <1>2, <1>9, <2>1, SummingIs
    <2> QED  BY <2>2 DEF SummedUp
  <1>11. f[0] = 0
    BY <1>2, <1>9 DEF Summing
  <1>12. Topping(b, f, N)
    BY <1>2, <1>10, <1>11, ToppingIs DEF b
  <1>13. /\ b[N] \in Int /\ \E k \in 0 .. N : b[N] = f[k] /\ \A j \in 0 .. N : f[j] <= b[N]
    BY <1>2, <1>10, <1>11, <1>12, ToppingIs
  <1>14. PICK T \in Nat : /\ Times(s) = 0 .. T
                          /\ \A i \in 1 .. n : s[i][2] \in 0 .. T
    BY TimesAre DEF n
  <1>15. \A k \in 1 .. N : t[k][1] \in Times(s)
    <2>1. \A e \in 1 .. N : E[e][1] \in 0 .. T
      <3> TAKE e \in 1 .. N
      <3>1. \A i \in 1 .. n : s[i][1] \in 0 .. T /\ s[i][2] \in 0 .. T
        <4> TAKE i \in 1 .. n
        <4>1. s[i] \in Proper
          BY DEF n
        <4>2. s[i][1] \in Nat /\ s[i][1] < s[i][2] /\ s[i][2] \in Nat /\ s[i][2] <= T
          BY <1>14, <4>1 DEF Proper
        <4> QED  BY <1>14, <4>2
      <3>2. CASE e \in 1 .. n
        BY <1>1, <3>1, <3>2 DEF EventsOf
      <3>3. CASE e \notin 1 .. n
        <4>1. e - n \in 1 .. n /\ (e - n) + n = e
          BY <1>2, <3>3
        <4>2. E[(e - n) + n][1] = s[e - n][2]
          BY <1>1, <4>1 DEF EventsOf
        <4> QED  BY <3>1, <4>1, <4>2
      <3> QED  BY <3>2, <3>3
    <2> QED  BY <1>6, <1>14, <2>1
  <1>16. ASSUME NEW x \in Int
         PROVE  /\ L(x) \in Nat
                /\ \E m \in 0 .. N : /\ f[m] = L(x)
                                     /\ \A k \in 1 .. N : t[k][1] <= x <=> k <= m
    <2> DEFINE upto == {k \in 1 .. N : t[k][1] <= x}
               came == {e \in 1 .. N : E[e][1] <= x}
    <2>1. SumFunctionOnSet(w, came) = L(x) /\ L(x) \in Nat
      BY <1>1, <1>8, LoadIs DEF n, N
    <2> DEFINE pp == [k \in upto |-> p[k]]
    <2>2. \A k \in upto : pp[k] = p[k] /\ p[k] \in came /\ w[p[k]] = v[k] /\ v[k] \in Int
      BY <1>6, <1>7, <1>8
    <2>3. Renames(pp, upto, came)
      <3>1. pp \in [upto -> came]
        BY <2>2
      <3>2. \A k, l \in upto : pp[k] = pp[l] => k = l
        BY <1>6, <2>2
      <3>3. \A e \in came : \E k \in upto : pp[k] = e
        <4> TAKE e \in came
        <4>1. q[e] \in upto /\ p[q[e]] = e
          BY <1>6
        <4> QED  BY <2>2, <4>1
      <3> HIDE DEF pp, upto, came
      <3> QED  BY <3>1, <3>2, <3>3 DEF Renames
    <2>4. Carries(w, pp, v, upto)
      BY <2>2 DEF Carries
    <2>5. IsFiniteSet(upto)
      <3>1. IsFiniteSet(1 .. N)
        BY <1>2, FS_Interval
      <3> QED  BY <3>1, FS_Subset
    <2>6. SumFunctionOnSet(w, came) = SumFunctionOnSet(v, upto)
      <3> HIDE DEF pp, upto, came
      <3> QED  BY <2>3, <2>4, <2>5, SumRenamed
    <2>7. PICK m \in {0} \cup upto : \A k \in {0} \cup upto : k <= m
      <3>1. {0} \cup upto \subseteq 0 .. N /\ {0} \cup upto # {}
        BY <1>2
      <3> HIDE DEF upto
      <3> QED  BY <1>2, <3>1, GreatestExists
    <2>8. m \in 0 .. N /\ \A k \in 1 .. N : t[k][1] <= x <=> k <= m
      <3>1. m \in 0 .. N
        BY <1>2, <2>7
      <3>2. ASSUME NEW k \in 1 .. N, k <= m PROVE t[k][1] <= x
        <4>1. m \in 1 .. N /\ m \in upto /\ m \in k .. N
          BY <2>7, <3>1, <3>2
        <4>2. NotAfter(t[k], t[m], 1, 2) /\ t[m][1] <= x
          BY <1>3, <4>1 DEF InOrder
        <4>3. t[k][1] <= t[m][1] /\ t[k][1] \in Int /\ t[m][1] \in Int
          BY <1>7, <4>1, <4>2 DEF NotAfter
        <4> QED  BY <4>2, <4>3
      <3>3. \A k \in 1 .. N : t[k][1] <= x => k <= m
        BY <2>7
      <3> QED  BY <3>1, <3>2, <3>3
    <2>9. upto = 1 .. m
      <3>1. \A k : k \in 1 .. m <=> k \in 1 .. N /\ k <= m
        BY <1>2, <2>8
      <3>2. \A k : k \in upto <=> k \in 1 .. m
        BY <2>8, <3>1
      <3> QED  BY <3>2
    <2>10. f[m] = L(x)
      <3>1. SumFunctionOnSet(v, upto) = SumFunctionOnSet(v, 1 .. m)
        BY <2>9
      <3> HIDE DEF L, came, upto
      <3> QED  BY <1>10, <2>1, <2>6, <2>8, <3>1
    <2> HIDE DEF L
    <2> QED  BY <2>1, <2>8, <2>10
  <1> DEFINE bounded(i) == \E x \in Times(s) : f[i] <= L(x)
             right == {i \in 0 .. N : bounded(i)}
  <1> HIDE DEF L
  <1>17. 0 \in right
    <2>1. 0 \in Times(s) /\ 0 \in Int
      BY <1>14
    <2>2. L(0) \in Nat
      BY <1>16, <2>1
    <2> QED  BY <1>2, <1>11, <2>1, <2>2
  <1>18. \A i \in 0 .. N - 1 : i \in right => i + 1 \in right
    <2> SUFFICES ASSUME NEW i \in 0 .. N - 1, i \in right PROVE bounded(i + 1)
      BY <1>2
    <2>1. i \in 0 .. N /\ i + 1 \in 1 .. N /\ i + 1 \in 0 .. N /\ i + 1 # 0 /\ (i + 1) - 1 = i
      BY <1>2
    <2>2. f[i + 1] = f[i] + v[i + 1] /\ f[i] \in Int /\ f[i + 1] \in Int /\ v[i + 1] \in Int
      BY <1>7, <1>10, <2>1
    <2>3. CASE v[i + 1] <= 0
      <3>1. PICK x \in Times(s) : f[i] <= L(x)
        OBVIOUS
      <3>2. L(x) \in Nat
        <4>1. x \in Int
          BY <1>14, <3>1
        <4> QED  BY <1>16, <4>1
      <3>3. f[i + 1] <= L(x)
        BY <2>2, <2>3, <3>1, <3>2
      <3> QED  BY <3>3
    <2>4. CASE v[i + 1] > 0
      <3> DEFINE x == t[i + 1][1]
      <3>1. x \in Int /\ x \in Times(s)
        BY <1>7, <1>15, <2>1
      <3>2. PICK m \in 0 .. N : f[m] = L(x) /\ \A k \in 1 .. N : t[k][1] <= x <=> k <= m
        BY <1>16, <3>1
      <3>3. i + 1 <= m
        BY <2>1, <3>1, <3>2
      <3> DEFINE above == {j \in i + 1 .. m : f[i + 1] <= f[j]}
      <3>4. i + 1 \in above
        BY <2>1, <2>2, <3>3
      <3>5. \A j \in i + 1 .. m - 1 : j \in above => j + 1 \in above
        <4> SUFFICES ASSUME NEW j \in i + 1 .. m - 1, j \in above PROVE j + 1 \in above
          OBVIOUS
        <4>1. /\ j \in 0 .. N /\ j + 1 \in 1 .. N /\ j + 1 \in 0 .. N /\ j + 1 # 0 /\ (j + 1) - 1 = j
              /\ j + 1 \in i + 1 .. N /\ j + 1 <= m /\ j + 1 \in i + 1 .. m
          BY <1>2, <2>1, <3>2
        <4>2. f[j + 1] = f[j] + v[j + 1] /\ f[j] \in Int /\ f[j + 1] \in Int /\ v[j + 1] \in Int
          BY <1>7, <1>10, <4>1
        <4>3. NotAfter(t[i + 1], t[j + 1], 1, 2)
          BY <1>3, <2>1, <4>1 DEF InOrder
        <4>4. t[j + 1][1] <= x /\ t[j + 1][1] \in Int
          BY <1>7, <3>2, <4>1
        <4>5. t[i + 1][2] <= t[j + 1][2]
          BY <3>1, <4>3, <4>4 DEF NotAfter
        <4>6. v[i + 1] <= v[j + 1]
          BY <1>7, <2>1, <4>1, <4>5
        <4>7. f[i + 1] <= f[j]
          OBVIOUS
        <4>8. f[i + 1] <= f[j + 1]
          BY <2>2, <2>4, <4>2, <4>6, <4>7
        <4> QED  BY <4>1, <4>8
      <3>6. m \in above
        <4>1. i + 1 \in Int /\ m \in Int /\ m \in i + 1 .. m
          BY <2>1, <3>2, <3>3
        <4> HIDE DEF above
        <4> QED  BY <3>4, <3>5, <4>1, RangeInduction
      <3>7. f[i + 1] <= L(x)
        BY <3>2, <3>6
      <3> HIDE DEF x
      <3> QED  BY <3>1, <3>7
    <2> QED  BY <2>2, <2>3, <2>4
  <1>19. \A i \in 0 .. N : bounded(i)
    <2>1. 0 \in Int /\ N \in Int
      BY <1>2
    <2>2. \A i \in 0 .. N : i \in right
      <3> HIDE DEF right
      <3> QED  BY <1>17, <1>18, <2>1, RangeInduction
    <2> QED  BY <2>2
  <1>20. ASSUME NEW x \in Times(s) PROVE L(x) <= b[N] /\ L(x) \in Nat
    <2>1. x \in Int
      BY <1>14
    <2>2. PICK m \in 0 .. N : f[m] = L(x)
      BY <1>16, <2>1
    <2> QED  BY <1>13, <1>16, <2>1, <2>2
  <1>21. \E x \in Times(s) : L(x) = b[N]
    <2>1. PICK k \in 0 .. N : b[N] = f[k]
      BY <1>13
    <2>2. PICK x \in Times(s) : f[k] <= L(x)
      BY <1>19
    <2>3. L(x) = b[N]
      BY <1>13, <1>20, <2>1, <2>2
    <2> QED  BY <2>3
  <1>22. Sweep(E) = b[N] /\ \A x : L(x) = Load(s, load, x)
    BY <1>4 DEF L
  <1> QED  BY <1>13, <1>20, <1>21, <1>22 DEF E

\* As many members as the sum of a one for each.
LEMMA SumOfOnes ==
  ASSUME NEW S, IsFiniteSet(S), NEW f, \A x \in S : f[x] = 1
  PROVE  SumFunctionOnSet(f, S) = Cardinality(S)
PROOF
  <1> DEFINE F(T) == SumFunctionOnSet(f, T)
             bad == {T \in SUBSET S : F(T) # Cardinality(T)}
  <1>1. SUFFICES ASSUME bad # {} PROVE FALSE
    OBVIOUS
  <1>2. \A T \in bad : IsFiniteSet(T)
    BY FS_Subset
  <1>3. PICK U \in bad : \A x \in U : U \ {x} \notin bad
    <2> HIDE DEF bad
    <2> QED  BY <1>1, <1>2, SmallestCounterexample
  <1>4. IsFiniteSet(U) /\ U \in SUBSET S /\ F(U) # Cardinality(U)
    BY <1>2
  <1>5. U # {}
    <2> SUFFICES ASSUME U = {} PROVE FALSE
      OBVIOUS
    <2>1. F(U) = 0 /\ Cardinality(U) = 0
      BY <1>4, SumUnfolds, FS_EmptySet
    <2> HIDE DEF F
    <2> QED  BY <1>4, <2>1
  <1>6. PICK x : x \in U /\ x \in S
    BY <1>4, <1>5
  <1>7. F(U) = f[x] + F(U \ {x})
    <2>1. \A y \in U : f[y] \in Int
      BY <1>4
    <2> QED  BY <1>4, <1>6, <2>1, SumTakesOut
  <1>8. F(U \ {x}) = Cardinality(U \ {x})
    BY <1>3, <1>4, <1>6
  <1>9. Cardinality(U) \in Nat /\ Cardinality(U \ {x}) = Cardinality(U) - 1
    BY <1>4, <1>6, FS_RemoveElement, FS_CardinalityType
  <1>10. f[x] = 1
    BY <1>6
  <1> HIDE DEF F
  <1>11. F(U) = 1 + (Cardinality(U) - 1)
    BY <1>7, <1>8, <1>9, <1>10
  <1> QED  BY <1>4, <1>9, <1>11

LEMMA AtIs ==
  ASSUME NEW s \in Seq(Proper), NEW x
  PROVE  IsFiniteSet(At(s, x)) /\ At(s, x) \in SUBSET (1 .. Len(s))
PROOF
  <1>1. Len(s) \in Nat /\ DOMAIN s = 1 .. Len(s)
    OBVIOUS
  <1>2. At(s, x) \in SUBSET (1 .. Len(s))
    BY <1>1 DEF At
  <1>3. IsFiniteSet(1 .. Len(s))
    BY <1>1, FS_Interval
  <1> QED  BY <1>2, <1>3, FS_Subset

\* MinMeetingRooms: the sweep over the sorted events finds the most meetings there
\* are at one time.
THEOREM MeetingRoomsAreRight ==
  ASSUME NEW intervals \in Seq(Proper)
  PROVE  MeetingRoomsRight(intervals)
PROOF
  <1> DEFINE n == Len(intervals)
             load == [i \in 1 .. n |-> 1]
             best == Sweep(Ends(intervals, load))
             sizes == {Cardinality(At(intervals, x)) : x \in Times(intervals)}
  <1>1. DOMAIN intervals = 1 .. n /\ n \in Nat
    OBVIOUS
  <1>2. \A i \in 1 .. n : load[i] \in Nat /\ load[i] = 1
    OBVIOUS
  <1>3. MinMeetingRooms(intervals) = best
    BY <1>1 DEF MinMeetingRooms
  <1> HIDE DEF load
  <1>4. /\ best \in Int
        /\ \A x \in Times(intervals) : Load(intervals, load, x) <= best
        /\ \E x \in Times(intervals) : Load(intervals, load, x) = best
    BY <1>2, SweepIs
  <1>5. \A x : Load(intervals, load, x) = Cardinality(At(intervals, x))
    <2> TAKE x
    <2>1. IsFiniteSet(At(intervals, x)) /\ \A i \in At(intervals, x) : load[i] = 1
      BY <1>2, AtIs
    <2> QED  BY <2>1, SumOfOnes DEF Load
  <1> HIDE DEF best
  <1>6. best \in sizes /\ \A k \in sizes : k <= best
    BY <1>4, <1>5
  <1>7. sizes \subseteq Int
    BY AtIs, FS_CardinalityType
  <1>8. Max(sizes) = best
    <2> HIDE DEF sizes
    <2> QED  BY <1>6, <1>7, MaxIs
  <1> QED  BY <1>3, <1>8 DEF MeetingRoomsRight

Fits(s, load, capacity) == \A x \in Times(s) : Load(s, load, x) <= capacity

LEMMA CarPoolingFits ==
  ASSUME NEW s \in Seq(Proper), NEW load, \A i \in 1 .. Len(s) : load[i] \in Nat,
         NEW capacity \in Nat
  PROVE  CarPooling(s, load, capacity) <=> Fits(s, load, capacity)
PROOF
  <1> DEFINE best == Sweep(Ends(s, load))
  <1>1. /\ best \in Int
        /\ \A x \in Times(s) : Load(s, load, x) <= best
        /\ \E x \in Times(s) : Load(s, load, x) = best
    BY SweepIs
  <1>2. \A x \in Times(s) : Load(s, load, x) \in Nat
    <2> TAKE x \in Times(s)
    <2> DEFINE E == Ends(s, load)
               w == [e \in 1 .. Len(E) |-> E[e][2]]
    <2>1. x \in Int
      BY TimesAre
    <2>2. EventsOf(E, s, load, Len(s))
      BY EndsAre
    <2>3. \A e \in 1 .. Len(E) : w[e] = E[e][2]
      OBVIOUS
    <2> HIDE DEF E, w
    <2> QED  BY <2>1, <2>2, <2>3, LoadIs
  <1>3. CarPooling(s, load, capacity) <=> best <= capacity
    BY DEF CarPooling
  <1> HIDE DEF best
  <1>4. ASSUME best <= capacity, NEW x \in Times(s) PROVE Load(s, load, x) <= capacity
    BY <1>1, <1>2, <1>4
  <1>5. ASSUME \A x \in Times(s) : Load(s, load, x) <= capacity PROVE best <= capacity
    BY <1>1, <1>5
  <1> QED  BY <1>3, <1>4, <1>5 DEF Fits

LEMMA PartIs ==
  ASSUME NEW s \in Seq(Proper), NEW n \in 1 .. Len(s), NEW x
  PROVE  At(SubSeq(s, 1, n), x) = {i \in At(s, x) : i <= n}
PROOF
  <1> DEFINE r == SubSeq(s, 1, n)
  <1>1. Len(s) \in Nat /\ n \in Nat /\ DOMAIN s = 1 .. Len(s)
    OBVIOUS
  <1>2. r = [i \in 1 .. n |-> s[i]]
    OBVIOUS
  <1> HIDE DEF r
  <1>3. DOMAIN r = 1 .. n /\ \A i \in 1 .. n : r[i] = s[i]
    BY <1>2
  <1>4. \A i : i \in 1 .. n <=> i \in 1 .. Len(s) /\ i <= n
    BY <1>1
  <1>5. At(r, x) = {i \in 1 .. n : s[i][1] <= x /\ x < s[i][2]}
    BY <1>3 DEF At
  <1>6. At(s, x) = {i \in 1 .. Len(s) : s[i][1] <= x /\ x < s[i][2]}
    BY <1>1 DEF At
  <1> QED  BY <1>4, <1>5, <1>6 DEF r

\* Counting trip by trip sees the greatest load at the last trip that starts there.
LEMMA BruteForceFits ==
  ASSUME NEW s \in Seq(Proper), NEW load, \A i \in 1 .. Len(s) : load[i] \in Nat,
         NEW capacity \in Nat
  PROVE  CarPoolingBruteForce(s, load, capacity) <=> Fits(s, load, capacity)
PROOF
  <1> DEFINE N == Len(s)
             F(S) == SumFunctionOnSet(load, S)
             part(n, x) == {i \in At(s, x) : i <= n}
  <1>1. N \in Nat /\ DOMAIN s = 1 .. N /\ \A i \in 1 .. N : s[i][1] \in Nat /\ s[i][2] \in Nat
    <2>1. \A i \in 1 .. N : s[i] \in Proper
      OBVIOUS
    <2> QED  BY <2>1 DEF Proper
  <1>2. CarPoolingBruteForce(s, load, capacity) <=>
          \A n \in 1 .. N : \A x \in s[n][1] .. s[n][2] - 1 : F(part(n, x)) <= capacity
    <2>1. \A n \in 1 .. N : \A x : Load(SubSeq(s, 1, n), load, x) = F(part(n, x))
      <3> TAKE n \in 1 .. N
      <3> TAKE x
      <3>1. At(SubSeq(s, 1, n), x) = part(n, x)
        BY PartIs
      <3> QED  BY <3>1 DEF Load
    <2> QED  BY <1>1, <2>1, ZenonT(30) DEF CarPoolingBruteForce
  <1>3. \A x : Load(s, load, x) = F(At(s, x))
    BY DEF Load
  <1>4. \A n, x : F(part(n, x)) \in Nat /\ F(At(s, x)) \in Nat /\ F(part(n, x)) <= F(At(s, x))
    <2> TAKE n, x
    <2>1. IsFiniteSet(At(s, x)) /\ part(n, x) \in SUBSET At(s, x) /\ \A i \in At(s, x) : load[i] \in Nat
      BY AtIs
    <2> HIDE DEF part
    <2> QED  BY <2>1, SumGrows
  <1>5. PICK T \in Nat : Times(s) = 0 .. T /\ \A i \in 1 .. N : s[i][2] \in 0 .. T
    BY TimesAre
  <1> HIDE DEF N, F
  <1>6. ASSUME Fits(s, load, capacity), NEW n \in 1 .. N, NEW x \in s[n][1] .. s[n][2] - 1
        PROVE  F(part(n, x)) <= capacity
    <2>1. s[n][1] \in Nat /\ s[n][2] \in Nat /\ s[n][2] <= T
      BY <1>1, <1>5
    <2>2. x \in Times(s)
      BY <1>5, <2>1
    <2>3. F(At(s, x)) <= capacity
      BY <1>3, <1>6, <2>2 DEF Fits
    <2>4. F(part(n, x)) \in Nat /\ F(At(s, x)) \in Nat /\ F(part(n, x)) <= F(At(s, x))
      BY <1>4
    <2> HIDE DEF part
    <2> QED  BY <2>3, <2>4
  <1>7. ASSUME \A n \in 1 .. N : \A x \in s[n][1] .. s[n][2] - 1 : F(part(n, x)) <= capacity,
               NEW x \in Times(s)
        PROVE  F(At(s, x)) <= capacity
    <2>1. CASE At(s, x) = {}
      <3>1. IsFiniteSet({})
        BY FS_EmptySet
      <3>2. F({}) = 0
        BY <3>1, SumUnfolds DEF F
      <3>3. F(At(s, x)) = F({})
        BY <2>1
      <3> QED  BY <3>2, <3>3
    <2>2. CASE At(s, x) # {}
      <3>1. At(s, x) \subseteq 0 .. N
        BY <1>1, AtIs DEF N
      <3>2. PICK n \in At(s, x) : \A i \in At(s, x) : i <= n
        BY <1>1, <2>2, <3>1, GreatestExists
      <3>3. part(n, x) = At(s, x)
        BY <3>2
      <3>4. n \in 1 .. N /\ s[n][1] <= x /\ x < s[n][2]
        BY <1>1, <3>2 DEF At
      <3>5. x \in s[n][1] .. s[n][2] - 1
        <4>1. x \in Int /\ s[n][1] \in Int /\ s[n][2] \in Int
          BY <1>1, <1>5, <3>4
        <4> QED  BY <3>4, <4>1
      <3>6. F(part(n, x)) <= capacity
        BY <1>7, <3>4, <3>5
      <3> HIDE DEF part
      <3> QED  BY <3>3, <3>6
    <2> QED  BY <2>1, <2>2
  <1> HIDE DEF part
  <1>8. Fits(s, load, capacity) <=> \A x \in Times(s) : F(At(s, x)) <= capacity
    BY <1>3 DEF Fits
  <1> QED  BY <1>2, <1>6, <1>7, <1>8

Currents(cur, diff, T) ==
  cur = [x \in 0 .. T |-> diff[x] + (IF x = 0 THEN 0 ELSE cur[x - 1])]

LEMMA CurrentsExist ==
  ASSUME NEW T \in Nat, NEW diff, \A x \in 0 .. T : diff[x] \in Int
  PROVE  \E cur : Currents(cur, diff, T)
PROOF
  <1> DEFINE step == [x \in 1 .. T |-> [a \in Int |-> diff[x] + a]]
  <1>1. \A x \in 1 .. T : \A a \in Int : step[x][a] = diff[x] + a /\ step[x][a] \in Int
    <2> TAKE x \in 1 .. T
    <2> TAKE a \in Int
    <2>1. x \in 0 .. T
      OBVIOUS
    <2>2. diff[x] \in Int
      BY <2>1
    <2> QED  BY <2>2
  <1> HIDE DEF step
  <1>2. PICK f : Passes(f, T, diff[0], step) /\ \A i \in 0 .. T : f[i] \in Int
    <2>1. \A x \in 1 .. T : \A a \in Int : step[x][a] \in Int
      BY <1>1
    <2>2. diff[0] \in Int
      <3>1. 0 \in 0 .. T
        OBVIOUS
      <3> QED  BY <3>1
    <2> QED  BY <2>1, <2>2, PassExists
  <1>3. ASSUME NEW x \in 0 .. T
        PROVE  (IF x = 0 THEN diff[0] ELSE step[x][f[x - 1]])
               = diff[x] + (IF x = 0 THEN 0 ELSE f[x - 1])
    <2>1. CASE x = 0
      <3>1. diff[0] \in Int
        BY <2>1
      <3> QED  BY <2>1, <3>1
    <2>2. CASE x # 0
      <3>1. x \in 1 .. T /\ x - 1 \in 0 .. T
        BY <2>2
      <3> QED  BY <1>1, <1>2, <2>2, <3>1
    <2> QED  BY <2>1, <2>2
  <1>4. f = [x \in 0 .. T |-> diff[x] + (IF x = 0 THEN 0 ELSE f[x - 1])]
    BY <1>2, <1>3 DEF Passes
  <1> QED  BY <1>4 DEF Currents

\* The difference array adds up to the load at each time.
LEMMA DifferenceArrayFits ==
  ASSUME NEW s \in Seq(Proper), NEW load, \A i \in 1 .. Len(s) : load[i] \in Nat,
         NEW capacity \in Nat
  PROVE  CarPoolingDifferenceArray(s, load, capacity) <=> Fits(s, load, capacity)
PROOF
  <1> DEFINE E == Ends(s, load)
             N == Len(E)
             w == [e \in 1 .. N |-> E[e][2]]
             W(S) == SumFunctionOnSet(w, S)
             at(x) == {e \in 1 .. N : E[e][1] = x}
             upto(x) == {e \in 1 .. N : E[e][1] <= x}
             diff == [x \in Times(s) |-> W(at(x))]
             cur == CHOOSE c : c = [x \in Times(s) |-> diff[x] + (IF x = 0 THEN 0 ELSE c[x - 1])]
  <1>1. EventsOf(E, s, load, Len(s))
    BY EndsAre
  <1>2. /\ E \in Seq(Pairs) /\ N \in Nat /\ DOMAIN E = 1 .. N
        /\ \A e \in 1 .. N : E[e][1] \in Int /\ E[e][2] \in Int
    <2>1. E \in Seq(Pairs)
      BY <1>1 DEF EventsOf
    <2> HIDE DEF E
    <2>2. \A e \in 1 .. N : E[e] \in Pairs
      BY <2>1
    <2> QED  BY <2>1, <2>2 DEF Pairs
  <1>3. CarPoolingDifferenceArray(s, load, capacity) <=> \A x \in Times(s) : cur[x] <= capacity
    BY <1>2 DEF CarPoolingDifferenceArray
  <1>4. PICK T \in Nat : Times(s) = 0 .. T /\ \A i \in 1 .. Len(s) : s[i][2] \in 0 .. T
    BY TimesAre
  <1>5. \A e \in 1 .. N : w[e] = E[e][2] /\ w[e] \in Int
    BY <1>2
  <1> HIDE DEF E, N, w
  <1>6. IsFiniteSet(1 .. N)
    BY <1>2, FS_Interval
  <1>7. \A x : IsFiniteSet(at(x)) /\ IsFiniteSet(upto(x)) /\ W(at(x)) \in Int /\ W(upto(x)) \in Int
    <2> TAKE x
    <2>1. IsFiniteSet(at(x)) /\ IsFiniteSet(upto(x))
      BY <1>6, FS_Subset
    <2>2. \A e \in at(x) : w[e] \in Int
      BY <1>5
    <2>3. \A e \in upto(x) : w[e] \in Int
      BY <1>5
    <2> HIDE DEF at, upto
    <2> QED  BY <2>1, <2>2, <2>3, SumIsInt
  <1>8. \A x \in 0 .. T : diff[x] = W(at(x)) /\ diff[x] \in Int
    <2> HIDE DEF W, at
    <2> QED  BY <1>4, <1>7
  <1> HIDE DEF diff
  <1>9. Currents(cur, diff, T)
    <2>1. \E c : Currents(c, diff, T)
      BY <1>8, CurrentsExist
    <2> QED  BY <1>4, <2>1 DEF Currents
  <1> HIDE DEF cur
  <1> DEFINE right == {x \in 0 .. T : cur[x] = W(upto(x))}
  <1>10. \A e \in 1 .. N : E[e][1] >= 0
    <2> TAKE e \in 1 .. N
    <2> DEFINE n == Len(s)
    <2>1. n \in Nat /\ N = n + n /\ \A i \in 1 .. n : s[i][1] \in Nat /\ s[i][2] \in Nat
      <3>1. \A i \in 1 .. n : s[i] \in Proper
        OBVIOUS
      <3> QED  BY <1>1, <3>1 DEF Proper, EventsOf, N
    <2>2. \A i \in 1 .. n : E[i][1] = s[i][1] /\ E[i + n][1] = s[i][2]
      BY <1>1 DEF EventsOf
    <2> HIDE DEF n
    <2>3. CASE e \in 1 .. n
      BY <2>1, <2>2, <2>3
    <2>4. CASE e \notin 1 .. n
      <3>1. e - n \in 1 .. n /\ (e - n) + n = e
        BY <2>1, <2>4
      <3>2. E[(e - n) + n][1] = s[e - n][2]
        BY <2>2, <3>1
      <3> QED  BY <2>1, <3>1, <3>2
    <2> QED  BY <2>3, <2>4
  <1>11. 0 \in right
    <2>1. upto(0) = at(0)
      <3>1. \A e \in 1 .. N : E[e][1] <= 0 <=> E[e][1] = 0
        BY <1>2, <1>10
      <3> QED  BY <3>1
    <2>2. W(upto(0)) = W(at(0))
      BY <2>1
    <2>3. cur[0] = diff[0] + 0 /\ 0 \in 0 .. T
      BY <1>9 DEF Currents
    <2>4. cur[0] = W(upto(0))
      <3> HIDE DEF W, upto, at
      <3> QED  BY <1>8, <2>2, <2>3
    <2> QED  BY <2>3, <2>4
  <1>12. \A x \in 0 .. T - 1 : x \in right => x + 1 \in right
    <2> SUFFICES ASSUME NEW x \in 0 .. T - 1, x \in right PROVE x + 1 \in right
      OBVIOUS
    <2>1. x + 1 \in 0 .. T /\ x + 1 # 0 /\ (x + 1) - 1 = x
      OBVIOUS
    <2>2. cur[x + 1] = diff[x + 1] + cur[x]
      BY <1>9, <2>1 DEF Currents
    <2>3. upto(x + 1) = upto(x) \cup at(x + 1) /\ upto(x) \cap at(x + 1) = {}
      <3>1. \A e \in 1 .. N : /\ E[e][1] <= x + 1 <=> (E[e][1] <= x \/ E[e][1] = x + 1)
                              /\ ~(E[e][1] <= x /\ E[e][1] = x + 1)
        BY <1>2
      <3> QED  BY <3>1
    <2>4. W(upto(x) \cup at(x + 1)) = W(upto(x)) + W(at(x + 1))
      <3>1. \A e \in upto(x) \cup at(x + 1) : w[e] \in Int
        BY <1>5
      <3> HIDE DEF upto, at
      <3> QED  BY <1>7, <2>3, <3>1, SumOfUnion
    <2>5. W(upto(x + 1)) = W(upto(x) \cup at(x + 1))
      BY <2>3
    <2>6. cur[x] = W(upto(x))
      OBVIOUS
    <2>7. cur[x + 1] = W(upto(x + 1))
      <3> HIDE DEF W, upto, at
      <3> QED  BY <1>7, <1>8, <2>1, <2>2, <2>4, <2>5, <2>6
    <2> QED  BY <2>1, <2>7
  <1>13. \A x \in 0 .. T : cur[x] = W(upto(x))
    <2>1. 0 \in Int /\ T \in Int
      OBVIOUS
    <2>2. \A x \in 0 .. T : x \in right
      <3> HIDE DEF right
      <3> QED  BY <1>11, <1>12, <2>1, RangeInduction
    <2> QED  BY <2>2
  <1>14. \A x \in 0 .. T : W(upto(x)) = Load(s, load, x)
    <2> TAKE x \in 0 .. T
    <2>1. x \in Int /\ \A e \in 1 .. Len(E) : w[e] = E[e][2]
      BY <1>5 DEF N
    <2> DEFINE came == {e \in 1 .. Len(E) : E[e][1] <= x}
    <2>2. SumFunctionOnSet(w, came) = Load(s, load, x) /\ Load(s, load, x) \in Nat
      BY <1>1, <2>1, LoadIs
    <2>3. came = upto(x)
      BY DEF N
    <2>4. W(came) = W(upto(x))
      BY <2>3
    <2> QED  BY <2>2, <2>4
  <1> HIDE DEF W, upto
  <1> QED  BY <1>3, <1>4, <1>13, <1>14 DEF Fits

\* The three approaches to car pooling say that the seats suffice exactly when the
\* load never exceeds them.
THEOREM CarPoolingIsRight ==
  ASSUME NEW intervals \in Seq(Proper), NEW passengers,
         \A i \in 1 .. Len(intervals) : passengers[i] \in Nat, NEW capacity \in Nat
  PROVE  CarPoolingRight(intervals, passengers, capacity)
PROOF
  <1>1. /\ CarPoolingBruteForce(intervals, passengers, capacity) <=> Fits(intervals, passengers, capacity)
        /\ CarPoolingDifferenceArray(intervals, passengers, capacity) <=> Fits(intervals, passengers, capacity)
        /\ CarPooling(intervals, passengers, capacity) <=> Fits(intervals, passengers, capacity)
    BY BruteForceFits, DifferenceArrayFits, CarPoolingFits
  <1>2. /\ CarPoolingBruteForce(intervals, passengers, capacity) \in BOOLEAN
        /\ CarPoolingDifferenceArray(intervals, passengers, capacity) \in BOOLEAN
        /\ CarPooling(intervals, passengers, capacity) \in BOOLEAN
        /\ Fits(intervals, passengers, capacity) \in BOOLEAN
    BY DEF CarPoolingBruteForce, CarPoolingDifferenceArray, CarPooling, Fits
  <1>3. /\ CarPoolingBruteForce(intervals, passengers, capacity) = Fits(intervals, passengers, capacity)
        /\ CarPoolingDifferenceArray(intervals, passengers, capacity) = Fits(intervals, passengers, capacity)
        /\ CarPooling(intervals, passengers, capacity) = Fits(intervals, passengers, capacity)
    BY <1>1, <1>2
  <1> QED  BY <1>3 DEF CarPoolingRight, Fits

-----------------------------------------------------------------------------
(* Meeting Rooms III.                                                        *)

\* The rooms v are available, the others busy until free[r].
Occupied(free, R) == {<<free[r], r>> : r \in R}
Booked(rooms, v, free, count) ==
  [available |-> v, busy |-> Occupied(free, rooms \ v), count |-> count]

\* The room that is taken, and until when: the first of those that are free, or
\* the first of those that are free first.
TakesFree(w, meeting, room, finish) ==
  /\ room \in w /\ \A r \in w : room <= r
  /\ finish = meeting[2]
TakesNext(rooms, free, meeting, room, finish) ==
  /\ room \in rooms /\ \A r \in rooms : free[room] < free[r] \/ (free[room] = free[r] /\ room <= r)
  /\ finish = free[room] + (meeting[2] - meeting[1])
Takes(rooms, v, free, meeting, room, finish) ==
  LET w == v \cup {r \in rooms : free[r] <= meeting[1]}
  IN IF w # {} THEN TakesFree(w, meeting, room, finish)
     ELSE TakesNext(rooms, free, meeting, room, finish)

\* Where it leaves them.
BookedNext(rooms, v, free, count, meeting, room, finish) ==
  Booked(rooms, (v \cup {r \in rooms : free[r] <= meeting[1]}) \ {room},
         [free EXCEPT ![room] = finish], [count EXCEPT ![room] = @ + 1])

LEMMA LexLeastExists ==
  ASSUME NEW rooms, rooms \subseteq Nat, rooms # {}, NEW free \in [rooms -> Nat]
  PROVE  \E room \in rooms : \A r \in rooms :
           free[room] < free[r] \/ (free[room] = free[r] /\ room <= r)
PROOF
  <1> DEFINE ends == {free[r] : r \in rooms}
  <1>1. ends \subseteq Nat /\ ends # {}
    OBVIOUS
  <1>2. PICK a \in ends : \A b \in ends : a <= b
    <2> HIDE DEF ends
    <2> QED  BY <1>1, LeastNat
  <1> DEFINE first == {r \in rooms : free[r] = a}
  <1>3. first \subseteq Nat /\ first # {}
    OBVIOUS
  <1>4. PICK room \in first : \A r \in first : room <= r
    <2> HIDE DEF first
    <2> QED  BY <1>3, LeastNat
  <1>5. ASSUME NEW r \in rooms
        PROVE  free[room] < free[r] \/ (free[room] = free[r] /\ room <= r)
    <2>1. a <= free[r] /\ a \in Nat /\ free[r] \in Nat /\ free[room] = a
      BY <1>1, <1>2, <1>4
    <2>2. CASE free[r] = a
      BY <1>4, <2>1, <2>2
    <2>3. CASE free[r] # a
      BY <2>1, <2>3
    <2> QED  BY <2>2, <2>3
  <1> QED  BY <1>5

\* What is done with the heaps.
LEMMA HeldIs ==
  ASSUME NEW rooms, rooms \subseteq Nat, rooms # {}, NEW v \in SUBSET rooms,
         NEW free \in [rooms -> Nat], NEW count \in [rooms -> Nat], NEW meeting \in Proper
  PROVE  \E room \in rooms, finish \in Nat :
           /\ Takes(rooms, v, free, meeting, room, finish)
           /\ Held(Booked(rooms, v, free, count), meeting)
                = BookedNext(rooms, v, free, count, meeting, room, finish)
PROOF
  <1> DEFINE acc == Booked(rooms, v, free, count)
             late == {r \in rooms : free[r] <= meeting[1]}
             w == v \cup late
             freed == {b \in acc.busy : b[1] <= meeting[1]}
             busy == acc.busy \ freed
             available == acc.available \cup {b[2] : b \in freed}
             next == CHOOSE b \in busy : \A c \in busy : Earlier(b, c)
             taken == IF available # {} THEN Min(available) ELSE next[2]
             until == IF available # {} THEN meeting[2] ELSE next[1] + (meeting[2] - meeting[1])
             result == [available |-> available \ {taken},
                        busy |-> {b \in busy : b[2] # taken} \cup {<<until, taken>>},
                        count |-> [acc.count EXCEPT ![taken] = @ + 1]]
  <1>1. Held(acc, meeting) = result
    BY DEF Held
  <1>2. meeting[1] \in Nat /\ meeting[2] \in Nat /\ meeting[1] < meeting[2]
    BY DEF Proper
  <1>3. acc.available = v /\ acc.busy = Occupied(free, rooms \ v) /\ acc.count = count
    BY DEF Booked
  <1>4. \A b : b \in acc.busy <=> \E r \in rooms \ v : b = <<free[r], r>>
    BY <1>3 DEF Occupied
  <1>5. available = w
    <2>1. ASSUME NEW r PROVE r \in available <=> r \in w
      <3>1. ASSUME NEW b \in freed, r = b[2] PROVE r \in w
        <4>1. PICK k \in rooms \ v : b = <<free[k], k>>
          BY <1>4
        <4>2. r = k /\ free[k] <= meeting[1]
          BY <3>1, <4>1
        <4> QED  BY <4>2
      <3>2. ASSUME r \in late, r \notin v PROVE r \in available
        <4>1. <<free[r], r>> \in acc.busy
          BY <1>4, <3>2
        <4>2. <<free[r], r>> \in freed
          BY <3>2, <4>1
        <4>3. <<free[r], r>>[2] = r
          OBVIOUS
        <4> QED  BY <4>2, <4>3
      <3>3. v \subseteq available
        BY <1>3
      <3>4. r \in available => r \in v \/ \E b \in freed : r = b[2]
        BY <1>3
      <3> HIDE DEF available, freed, late
      <3> QED  BY <3>1, <3>2, <3>3, <3>4
    <2> HIDE DEF available, w
    <2> QED  BY <2>1
  <1>6. \A b : b \in busy <=> \E r \in rooms \ w : b = <<free[r], r>>
    <2> TAKE b
    <2>1. ASSUME b \in busy PROVE \E r \in rooms \ w : b = <<free[r], r>>
      <3>1. PICK r \in rooms \ v : b = <<free[r], r>>
        BY <1>4, <2>1
      <3>2. ~(free[r] <= meeting[1])
        BY <2>1, <3>1
      <3> QED  BY <3>1, <3>2
    <2>2. ASSUME NEW r \in rooms \ w, b = <<free[r], r>> PROVE b \in busy
      <3>1. r \in rooms \ v /\ ~(free[r] <= meeting[1])
        OBVIOUS
      <3>2. b \in acc.busy /\ b[1] = free[r]
        BY <1>4, <2>2, <3>1
      <3> QED  BY <3>1, <3>2
    <2> QED  BY <2>1, <2>2
  <1>7. w \subseteq rooms
    OBVIOUS
  <1>8. /\ taken \in rooms /\ until \in Nat /\ Takes(rooms, v, free, meeting, taken, until)
    <2>1. CASE w # {}
      <3>1. taken = Min(w) /\ until = meeting[2]
        BY <1>5, <2>1
      <3>2. Min(w) \in w /\ \A r \in w : Min(w) <= r
        <4>1. w \subseteq Nat
          OBVIOUS
        <4> HIDE DEF w
        <4> QED  BY <2>1, <4>1, LeastIsMin
      <3> HIDE DEF taken, until
      <3>3. TakesFree(w, meeting, taken, until)
        BY <3>1, <3>2 DEF TakesFree
      <3> QED  BY <1>2, <1>7, <2>1, <3>1, <3>2, <3>3 DEF Takes
    <2>2. CASE w = {}
      <3>1. taken = next[2] /\ until = next[1] + (meeting[2] - meeting[1])
        BY <1>5, <2>2
      <3>2. \A b : b \in busy <=> \E r \in rooms : b = <<free[r], r>>
        BY <1>6, <2>2
      <3>3. PICK room \in rooms : \A r \in rooms :
              free[room] < free[r] \/ (free[room] = free[r] /\ room <= r)
        BY LexLeastExists
      <3> HIDE DEF busy, taken, until
      <3> DEFINE best == <<free[room], room>>
      <3>4. best \in busy /\ \A c \in busy : Earlier(best, c)
        <4>1. \A c \in busy : \E r \in rooms : c[1] = free[r] /\ c[2] = r
          BY <3>2
        <4>2. best \in busy
          BY <3>2
        <4> QED  BY <3>3, <4>1, <4>2 DEF Earlier
      <3>5. next \in busy /\ \A c \in busy : Earlier(next, c)
        <4> HIDE DEF best
        <4> QED  BY <3>4
      <3> HIDE DEF next
      <3>6. PICK k \in rooms : next = <<free[k], k>>
        BY <3>2, <3>5
      <3>7. \A r \in rooms : free[k] < free[r] \/ (free[k] = free[r] /\ k <= r)
        <4> TAKE r \in rooms
        <4>1. <<free[r], r>> \in busy
          BY <3>2
        <4>2. Earlier(next, <<free[r], r>>)
          BY <3>5, <4>1
        <4> QED  BY <3>6, <4>2 DEF Earlier
      <3>8. taken = k /\ until = free[k] + (meeting[2] - meeting[1])
        BY <3>1, <3>6
      <3>9. until \in Nat
        <4>1. free[k] \in Nat
          BY <3>6
        <4> QED  BY <1>2, <3>8, <4>1
      <3>10. TakesNext(rooms, free, meeting, taken, until)
        BY <3>6, <3>7, <3>8 DEF TakesNext
      <3> QED  BY <2>2, <3>6, <3>8, <3>9, <3>10 DEF Takes
    <2> QED  BY <2>1, <2>2
  <1> HIDE DEF taken, until
  <1> DEFINE free2 == [free EXCEPT ![taken] = until]
  <1>9. {b \in busy : b[2] # taken} \cup {<<until, taken>>} = Occupied(free2, rooms \ (w \ {taken}))
    <2>1. free2[taken] = until /\ \A r \in rooms : r # taken => free2[r] = free[r]
      BY <1>8
    <2> HIDE DEF free2
    <2>2. ASSUME NEW b
          PROVE  b \in {c \in busy : c[2] # taken} \cup {<<until, taken>>}
                   <=> b \in Occupied(free2, rooms \ (w \ {taken}))
      <3>1. b \in Occupied(free2, rooms \ (w \ {taken})) <=>
              \E r \in rooms \ (w \ {taken}) : b = <<free2[r], r>>
        BY DEF Occupied
      <3>2. ASSUME b \in busy, b[2] # taken
            PROVE  \E r \in rooms \ (w \ {taken}) : b = <<free2[r], r>>
        <4>1. PICK r \in rooms \ w : b = <<free[r], r>>
          BY <1>6, <3>2
        <4>2. r # taken /\ r \in rooms \ (w \ {taken}) /\ free2[r] = free[r]
          BY <2>1, <3>2, <4>1
        <4> QED  BY <4>1, <4>2
      <3>3. ASSUME b = <<until, taken>>
            PROVE  \E r \in rooms \ (w \ {taken}) : b = <<free2[r], r>>
        <4>1. taken \in rooms \ (w \ {taken})
          BY <1>8
        <4> QED  BY <2>1, <3>3, <4>1
      <3>4. ASSUME NEW r \in rooms \ (w \ {taken}), b = <<free2[r], r>>
            PROVE  (b \in busy /\ b[2] # taken) \/ b = <<until, taken>>
        <4>1. CASE r = taken
          BY <2>1, <3>4, <4>1
        <4>2. CASE r # taken
          <5>1. r \in rooms \ w /\ free2[r] = free[r]
            BY <2>1, <4>2
          <5>2. b \in busy /\ b[2] = r
            BY <1>6, <3>4, <5>1
          <5> QED  BY <4>2, <5>2
        <4> QED  BY <4>1, <4>2
      <3> HIDE DEF busy, w
      <3> QED  BY <3>1, <3>2, <3>3, <3>4
    <2> HIDE DEF busy, w
    <2> QED  BY <2>2
  <1>10. result = BookedNext(rooms, v, free, count, meeting, taken, until)
    <2>1. result = [available |-> w \ {taken}, busy |-> Occupied(free2, rooms \ (w \ {taken})),
                    count |-> [count EXCEPT ![taken] = @ + 1]]
      BY <1>3, <1>5, <1>9
    <2> QED  BY <2>1 DEF BookedNext, Booked
  <1> QED  BY <1>1, <1>8, <1>10

Seating(free, count) == [free |-> free, count |-> count]
SeatsIn(rooms, free, count, meeting, room, finish) ==
  Seated(rooms, Seating(free, count), meeting)
    = Seating([free EXCEPT ![room] = finish], [count EXCEPT ![room] = @ + 1])

\* The rule of the problem takes the same room until the same time.
LEMMA SeatedIs ==
  ASSUME NEW rooms, rooms \subseteq Nat, rooms # {}, NEW v \in SUBSET rooms,
         NEW free \in [rooms -> Nat], NEW count \in [rooms -> Nat], NEW meeting \in Proper,
         \A r \in v : free[r] <= meeting[1], NEW room \in rooms, NEW finish \in Nat,
         Takes(rooms, v, free, meeting, room, finish)
  PROVE  SeatsIn(rooms, free, count, meeting, room, finish)
PROOF
  <1> DEFINE wait == [r \in rooms |-> Larger(0, free[r] - meeting[1])]
             waits == {wait[r] : r \in rooms}
             least == Min(waits)
             first == {r \in rooms : wait[r] = least}
             w == v \cup {r \in rooms : free[r] <= meeting[1]}
  <1>1. meeting[1] \in Nat /\ meeting[2] \in Nat /\ meeting[1] < meeting[2]
    BY DEF Proper
  <1>2. \A r \in rooms : /\ free[r] \in Nat /\ wait[r] \in Nat
                         /\ free[r] <= meeting[1] => wait[r] = 0
                         /\ ~(free[r] <= meeting[1]) => wait[r] = free[r] - meeting[1]
                         /\ ~(free[r] <= meeting[1]) => wait[r] # 0
    <2> TAKE r \in rooms
    <2>1. free[r] \in Nat /\ wait[r] = Larger(0, free[r] - meeting[1])
      OBVIOUS
    <2> HIDE DEF wait
    <2> QED  BY <1>1, <2>1 DEF Larger
  <1> HIDE DEF wait
  <1>3. least \in waits /\ \A a \in waits : least <= a
    <2>1. waits \subseteq Nat /\ waits # {}
      BY <1>2
    <2> HIDE DEF waits
    <2> QED  BY <2>1, LeastIsMin
  <1> HIDE DEF least
  <1>4. least \in Nat /\ \A r \in rooms : least <= wait[r]
    BY <1>2, <1>3
  <1>5. first \subseteq Nat /\ first # {}
    BY <1>3
  <1>6. Min(first) = room /\ finish = meeting[2] + least
    <2>1. CASE w # {}
      <3>1. TakesFree(w, meeting, room, finish)
        BY <2>1 DEF Takes
      <3>2. room \in w /\ finish = meeting[2] /\ \A r \in w : room <= r
        BY <3>1 DEF TakesFree
      <3>3. \A r \in rooms : r \in w <=> free[r] <= meeting[1]
        OBVIOUS
      <3>4. wait[room] = 0
        BY <1>2, <3>2, <3>3
      <3>5. least = 0
        BY <1>4, <3>4
      <3>6. \A r \in rooms : r \in w <=> r \in first
        BY <1>2, <3>3, <3>5
      <3>7. room \in first /\ \A r \in first : room <= r
        BY <3>2, <3>6
      <3>8. Min(first) = room
        <4>1. first \subseteq Int
          BY <1>5
        <4> HIDE DEF first
        <4> QED  BY <3>7, <4>1, MinIs
      <3> QED  BY <1>1, <3>2, <3>5, <3>8
    <2>2. CASE w = {}
      <3>1. TakesNext(rooms, free, meeting, room, finish)
        BY <2>2 DEF Takes
      <3>2. /\ finish = free[room] + (meeting[2] - meeting[1])
            /\ \A r \in rooms : free[room] < free[r] \/ (free[room] = free[r] /\ room <= r)
        BY <3>1 DEF TakesNext
      <3>3. \A r \in rooms : ~(free[r] <= meeting[1]) /\ wait[r] = free[r] - meeting[1]
        BY <1>2, <2>2
      <3>4. \A r \in rooms : wait[room] <= wait[r]
        BY <1>1, <1>2, <3>2, <3>3
      <3>5. least = wait[room]
        <4>1. PICK r \in rooms : least = wait[r]
          BY <1>3
        <4> QED  BY <1>2, <1>4, <3>4, <4>1
      <3>6. room \in first
        BY <3>5
      <3>7. \A r \in first : room <= r
        <4> TAKE r \in first
        <4>1. wait[r] = wait[room] /\ r \in rooms
          BY <3>5
        <4>2. free[r] = free[room]
          BY <1>1, <1>2, <3>3, <4>1
        <4> QED  BY <1>2, <3>2, <4>1, <4>2
      <3>8. Min(first) = room
        <4>1. first \subseteq Int
          BY <1>5
        <4> HIDE DEF first
        <4> QED  BY <3>6, <3>7, <4>1, MinIs
      <3>9. finish = meeting[2] + least
        BY <1>1, <1>2, <3>2, <3>3, <3>5
      <3> QED  BY <3>8, <3>9
    <2> QED  BY <2>1, <2>2
  <1>7. Seated(rooms, Seating(free, count), meeting)
          = [free |-> [free EXCEPT ![Min(first)] = meeting[2] + least],
             count |-> [count EXCEPT ![Min(first)] = @ + 1]]
    BY DEF Seated, Seating, first, least, waits, wait
  <1> QED  BY <1>6, <1>7 DEF Seating, SeatsIn

\* The states of either, and the passes over the meetings.
Counts(rooms) == [rooms -> Nat]
Bookings(rooms) ==
  {Booked(rooms, x[1], x[2], x[3]) : x \in (SUBSET rooms) \X Counts(rooms) \X Counts(rooms)}
Seatings(rooms) == {Seating(x[1], x[2]) : x \in Counts(rooms) \X Counts(rooms)}
None(rooms) == [r \in rooms |-> 0]

Holding(rooms, t, n, f) ==
  f = [i \in 0 .. n |->
         IF i = 0 THEN [available |-> rooms, busy |-> {}, count |-> [r \in rooms |-> 0]]
         ELSE Held(f[i - 1], t[i])]
Placing(rooms, t, n, f) ==
  f = [i \in 0 .. n |->
         IF i = 0 THEN [free |-> [r \in rooms |-> 0], count |-> [r \in rooms |-> 0]]
         ELSE Seated(rooms, f[i - 1], t[i])]

LEMMA StartsNone ==
  ASSUME NEW rooms
  PROVE  /\ None(rooms) \in Counts(rooms)
         /\ [available |-> rooms, busy |-> {}, count |-> [r \in rooms |-> 0]]
              = Booked(rooms, rooms, None(rooms), None(rooms))
         /\ [free |-> [r \in rooms |-> 0], count |-> [r \in rooms |-> 0]]
              = Seating(None(rooms), None(rooms))
PROOF
  <1>1. None(rooms) = [r \in rooms |-> 0] /\ None(rooms) \in Counts(rooms)
    BY DEF None, Counts
  <1>2. Occupied(None(rooms), rooms \ rooms) = {}
    <2>1. \A b : b \in Occupied(None(rooms), rooms \ rooms) => FALSE
      BY DEF Occupied
    <2> QED  BY <2>1
  <1> QED  BY <1>1, <1>2 DEF Booked, Seating

LEMMA CountsMove ==
  ASSUME NEW rooms, NEW free \in Counts(rooms), NEW count \in Counts(rooms),
         NEW room \in rooms, NEW finish \in Nat
  PROVE  /\ [free EXCEPT ![room] = finish] \in Counts(rooms)
         /\ [count EXCEPT ![room] = @ + 1] \in Counts(rooms)
PROOF
  <1>1. count[room] + 1 \in Nat
    BY DEF Counts
  <1> QED  BY <1>1 DEF Counts

LEMMA HoldingExists ==
  ASSUME NEW rooms, rooms \subseteq Nat, rooms # {}, NEW n \in Nat, NEW t,
         \A i \in 1 .. n : t[i] \in Proper
  PROVE  \E f : Holding(rooms, t, n, f)
PROOF
  <1> DEFINE A == Bookings(rooms)
             base == Booked(rooms, rooms, None(rooms), None(rooms))
             step == [i \in 1 .. n |-> [a \in A |-> Held(a, t[i])]]
  <1>1. base \in A
    <2>1. None(rooms) \in Counts(rooms)
      BY StartsNone
    <2>2. <<rooms, None(rooms), None(rooms)>> \in (SUBSET rooms) \X Counts(rooms) \X Counts(rooms)
      BY <2>1
    <2> QED  BY <2>2 DEF Bookings
  <1>2. ASSUME NEW i \in 1 .. n, NEW a \in A
        PROVE  step[i][a] = Held(a, t[i]) /\ step[i][a] \in A
    <2>1. PICK v \in SUBSET rooms, free \in Counts(rooms), count \in Counts(rooms) :
            a = Booked(rooms, v, free, count)
      BY DEF Bookings
    <2>2. free \in [rooms -> Nat] /\ count \in [rooms -> Nat]
      BY DEF Counts
    <2>3. PICK room \in rooms, finish \in Nat :
            /\ Takes(rooms, v, free, t[i], room, finish)
            /\ Held(Booked(rooms, v, free, count), t[i])
                 = BookedNext(rooms, v, free, count, t[i], room, finish)
      BY <2>2, HeldIs, ZenonT(30)
    <2> DEFINE w == (v \cup {r \in rooms : free[r] <= t[i][1]}) \ {room}
               free2 == [free EXCEPT ![room] = finish]
               count2 == [count EXCEPT ![room] = @ + 1]
    <2>4. Held(a, t[i]) = Booked(rooms, w, free2, count2)
      BY <2>1, <2>3 DEF BookedNext
    <2>5. w \in SUBSET rooms
      OBVIOUS
    <2>6. free2 \in Counts(rooms) /\ count2 \in Counts(rooms)
      BY CountsMove
    <2>7. step[i][a] = Held(a, t[i])
      OBVIOUS
    <2> HIDE DEF w, free2, count2, step
    <2>8. <<w, free2, count2>> \in (SUBSET rooms) \X Counts(rooms) \X Counts(rooms)
      BY <2>5, <2>6
    <2>9. Booked(rooms, w, free2, count2) \in A
      BY <2>8 DEF Bookings
    <2> QED  BY <2>4, <2>7, <2>9
  <1> HIDE DEF step, base, A
  <1>3. PICK f : Passes(f, n, base, step) /\ \A i \in 0 .. n : f[i] \in A
    <2>1. \A i \in 1 .. n : \A a \in A : step[i][a] \in A
      BY <1>2
    <2> QED  BY <1>1, <2>1, PassExists
  <1>4. ASSUME NEW i \in 0 .. n, i # 0 PROVE step[i][f[i - 1]] = Held(f[i - 1], t[i])
    <2>1. i \in 1 .. n /\ i - 1 \in 0 .. n
      BY <1>4
    <2> QED  BY <1>2, <1>3, <2>1
  <1>5. \A i \in 0 .. n : (IF i = 0 THEN base ELSE step[i][f[i - 1]])
                          = (IF i = 0 THEN base ELSE Held(f[i - 1], t[i]))
    BY <1>4
  <1>6. f = [i \in 0 .. n |-> IF i = 0 THEN base ELSE Held(f[i - 1], t[i])]
    BY <1>3, <1>5 DEF Passes
  <1>7. base = [available |-> rooms, busy |-> {}, count |-> [r \in rooms |-> 0]]
    BY StartsNone DEF base
  <1> QED  BY <1>6, <1>7 DEF Holding

LEMMA PlacingExists ==
  ASSUME NEW rooms, rooms \subseteq Nat, rooms # {}, NEW n \in Nat, NEW t,
         \A i \in 1 .. n : t[i] \in Proper
  PROVE  \E f : Placing(rooms, t, n, f)
PROOF
  <1> DEFINE A == Seatings(rooms)
             base == Seating(None(rooms), None(rooms))
             step == [i \in 1 .. n |-> [a \in A |-> Seated(rooms, a, t[i])]]
  <1>1. base \in A
    <2>1. <<None(rooms), None(rooms)>> \in Counts(rooms) \X Counts(rooms)
      BY StartsNone
    <2> QED  BY <2>1 DEF Seatings
  <1>2. ASSUME NEW i \in 1 .. n, NEW a \in A
        PROVE  step[i][a] = Seated(rooms, a, t[i]) /\ step[i][a] \in A
    <2>1. PICK free \in Counts(rooms), count \in Counts(rooms) : a = Seating(free, count)
      BY DEF Seatings
    <2>2. free \in [rooms -> Nat] /\ count \in [rooms -> Nat] /\ {} \in SUBSET rooms
      BY DEF Counts
    <2>3. PICK room \in rooms, finish \in Nat : Takes(rooms, {}, free, t[i], room, finish)
      BY <2>2, HeldIs
    <2>4. \A r \in {} : free[r] <= t[i][1]
      OBVIOUS
    <2> DEFINE free2 == [free EXCEPT ![room] = finish]
               count2 == [count EXCEPT ![room] = @ + 1]
    <2>5. Seated(rooms, a, t[i]) = Seating(free2, count2)
      <3>1. t[i] \in Proper
        OBVIOUS
      <3>2. SeatsIn(rooms, free, count, t[i], room, finish)
        BY <2>2, <2>3, <2>4, <3>1, SeatedIs
      <3> QED  BY <2>1, <3>2 DEF SeatsIn
    <2>6. free2 \in Counts(rooms) /\ count2 \in Counts(rooms)
      BY CountsMove
    <2>7. step[i][a] = Seated(rooms, a, t[i])
      OBVIOUS
    <2> HIDE DEF free2, count2, step
    <2>8. <<free2, count2>> \in Counts(rooms) \X Counts(rooms)
      BY <2>6
    <2>9. Seating(free2, count2) \in A
      BY <2>8 DEF Seatings
    <2> QED  BY <2>5, <2>7, <2>9
  <1> HIDE DEF step, base, A
  <1>3. PICK f : Passes(f, n, base, step) /\ \A i \in 0 .. n : f[i] \in A
    <2>1. \A i \in 1 .. n : \A a \in A : step[i][a] \in A
      BY <1>2
    <2> QED  BY <1>1, <2>1, PassExists
  <1>4. ASSUME NEW i \in 0 .. n, i # 0 PROVE step[i][f[i - 1]] = Seated(rooms, f[i - 1], t[i])
    <2>1. i \in 1 .. n /\ i - 1 \in 0 .. n
      BY <1>4
    <2> QED  BY <1>2, <1>3, <2>1
  <1>5. \A i \in 0 .. n : (IF i = 0 THEN base ELSE step[i][f[i - 1]])
                          = (IF i = 0 THEN base ELSE Seated(rooms, f[i - 1], t[i]))
    BY <1>4
  <1>6. f = [i \in 0 .. n |-> IF i = 0 THEN base ELSE Seated(rooms, f[i - 1], t[i])]
    BY <1>3, <1>5 DEF Passes
  <1>7. base = [free |-> [r \in rooms |-> 0], count |-> [r \in rooms |-> 0]]
    BY StartsNone DEF base
  <1> QED  BY <1>6, <1>7 DEF Placing

\* After i meetings the heaps and the rule agree, and what is available is free
\* when any of the meetings to come starts.
AgreeAs(rooms, t, n, i, held, seated, v, free, count) ==
  /\ held = Booked(rooms, v, free, count) /\ seated = Seating(free, count)
  /\ \A r \in v : \A j \in i + 1 .. n : free[r] <= t[j][1]
Agree(rooms, t, n, i, held, seated) ==
  \E v \in SUBSET rooms, free \in Counts(rooms), count \in Counts(rooms) :
    AgreeAs(rooms, t, n, i, held, seated, v, free, count)

LEMMA AgreeStep ==
  ASSUME NEW rooms, rooms \subseteq Nat, rooms # {}, NEW n \in Nat, NEW t,
         \A i \in 1 .. n : t[i] \in Proper,
         \A i \in 1 .. n : \A j \in i .. n : t[i][1] <= t[j][1],
         NEW i \in 0 .. n - 1, NEW held, NEW seated, Agree(rooms, t, n, i, held, seated)
  PROVE  Agree(rooms, t, n, i + 1, Held(held, t[i + 1]), Seated(rooms, seated, t[i + 1]))
PROOF
  <1> DEFINE meeting == t[i + 1]
  <1>1. PICK v \in SUBSET rooms, free \in Counts(rooms), count \in Counts(rooms) :
          AgreeAs(rooms, t, n, i, held, seated, v, free, count)
    BY DEF Agree
  <1>2. free \in [rooms -> Nat] /\ count \in [rooms -> Nat]
    BY DEF Counts
  <1>3. i + 1 \in 1 .. n /\ i + 1 \in i + 1 .. n /\ meeting \in Proper
    OBVIOUS
  <1>4. \A r \in v : free[r] <= meeting[1]
    BY <1>1, <1>3 DEF AgreeAs
  <1>5. PICK room \in rooms, finish \in Nat :
          /\ Takes(rooms, v, free, meeting, room, finish)
          /\ Held(Booked(rooms, v, free, count), meeting)
               = BookedNext(rooms, v, free, count, meeting, room, finish)
    BY <1>2, <1>3, HeldIs, ZenonT(30)
  <1> DEFINE w == (v \cup {r \in rooms : free[r] <= meeting[1]}) \ {room}
             free2 == [free EXCEPT ![room] = finish]
             count2 == [count EXCEPT ![room] = @ + 1]
  <1>6. Seated(rooms, Seating(free, count), meeting) = Seating(free2, count2)
    <2> HIDE DEF meeting
    <2>1. SeatsIn(rooms, free, count, meeting, room, finish)
      BY <1>2, <1>3, <1>4, <1>5, SeatedIs
    <2> QED  BY <2>1 DEF SeatsIn
  <1>7. Held(Booked(rooms, v, free, count), meeting) = Booked(rooms, w, free2, count2)
    BY <1>5 DEF BookedNext
  <1>8. free2 \in Counts(rooms) /\ count2 \in Counts(rooms) /\ w \in SUBSET rooms
    BY CountsMove
  <1>9. ASSUME NEW r \in w, NEW j \in i + 1 + 1 .. n PROVE free2[r] <= t[j][1]
    <2>1. r \in rooms /\ r # room /\ free2[r] = free[r] /\ free[r] <= meeting[1]
      BY <1>2, <1>4
    <2>2. j \in i + 1 .. n /\ j \in 1 .. n
      OBVIOUS
    <2>3. meeting[1] <= t[j][1] /\ t[j] \in Proper
      BY <1>3, <2>2
    <2>4. free[r] \in Nat /\ meeting[1] \in Nat /\ t[j][1] \in Nat
      BY <1>2, <1>3, <2>1, <2>3 DEF Proper
    <2> HIDE DEF meeting, free2
    <2> QED  BY <2>1, <2>3, <2>4
  <1>10. held = Booked(rooms, v, free, count) /\ seated = Seating(free, count)
    BY <1>1 DEF AgreeAs
  <1> HIDE DEF meeting, w, free2, count2
  <1>11. AgreeAs(rooms, t, n, i + 1, Held(held, meeting), Seated(rooms, seated, meeting),
                 w, free2, count2)
    BY <1>6, <1>7, <1>9, <1>10 DEF AgreeAs
  <1>12. Agree(rooms, t, n, i + 1, Held(held, meeting), Seated(rooms, seated, meeting))
    BY <1>8, <1>11 DEF Agree
  <1> QED  BY <1>12 DEF meeting

\* MostBooked: the heaps seat every meeting where the rule of the problem does, so
\* the room they use most is the one the rule uses most.
THEOREM MostBookedIsRight ==
  ASSUME NEW rooms, rooms \subseteq Nat, rooms # {}, NEW meetings \in Seq(Proper)
  PROVE  MostBookedRight(rooms, meetings)
PROOF
  <1> DEFINE n == Len(meetings)
             t == Ordered(meetings, 1, 1)
             f == CHOOSE h : Holding(rooms, t, n, h)
             g == CHOOSE h : Placing(rooms, t, n, h)
  <1>1. PICK p, q : SortedSpans(t, meetings, 1, p, q)
    BY SpansOrdered
  <1>2. MostBooked(rooms, meetings) = Busiest(rooms, f[n].count)
    BY DEF MostBooked, ByStart, Holding
  <1>3. MostBookedRight(rooms, meetings) <=>
          MostBooked(rooms, meetings) = Busiest(rooms, g[n].count)
    BY DEF MostBookedRight, ByStart, Placing
  <1> HIDE DEF f, g
  <1>4. n \in Nat /\ \A i \in 1 .. n : \A j \in i .. n : t[i][1] <= t[j][1]
    BY <1>1, SortedSpansAre
  <1>5. \A i \in 1 .. n : t[i] \in Proper
    <2>1. t \in Seq(Proper) /\ Len(t) = n
      BY <1>1 DEF SortedSpans
    <2> HIDE DEF t, n
    <2> QED  BY <2>1
  <1> HIDE DEF t, n
  <1>6. Holding(rooms, t, n, f) /\ Placing(rooms, t, n, g)
    <2>1. (\E h : Holding(rooms, t, n, h)) /\ \E h : Placing(rooms, t, n, h)
      BY <1>4, <1>5, HoldingExists, PlacingExists
    <2> QED  BY <2>1 DEF f, g
  <1>7. /\ f[0] = [available |-> rooms, busy |-> {}, count |-> [r \in rooms |-> 0]]
        /\ g[0] = [free |-> [r \in rooms |-> 0], count |-> [r \in rooms |-> 0]]
        /\ \A i \in 1 .. n : f[i] = Held(f[i - 1], t[i]) /\ g[i] = Seated(rooms, g[i - 1], t[i])
    <2>1. \A i \in 1 .. n : i \in 0 .. n /\ i # 0
      BY <1>4
    <2>2. 0 \in 0 .. n
      BY <1>4
    <2>3. /\ f[0] = [available |-> rooms, busy |-> {}, count |-> [r \in rooms |-> 0]]
          /\ \A i \in 1 .. n : f[i] = Held(f[i - 1], t[i])
      BY <1>6, <2>1, <2>2 DEF Holding
    <2>4. /\ g[0] = [free |-> [r \in rooms |-> 0], count |-> [r \in rooms |-> 0]]
          /\ \A i \in 1 .. n : g[i] = Seated(rooms, g[i - 1], t[i])
      BY <1>6, <2>1, <2>2 DEF Placing
    <2> QED  BY <2>3, <2>4
  <1> DEFINE right == {i \in 0 .. n : Agree(rooms, t, n, i, f[i], g[i])}
  <1>8. 0 \in right
    <2>1. f[0] = Booked(rooms, rooms, None(rooms), None(rooms)) /\ g[0] = Seating(None(rooms), None(rooms))
      BY <1>7, StartsNone
    <2>2. \A r \in rooms : \A j \in 0 + 1 .. n : None(rooms)[r] <= t[j][1]
      <3> TAKE r \in rooms
      <3> TAKE j \in 0 + 1 .. n
      <3>1. j \in 1 .. n /\ None(rooms)[r] = 0
        BY DEF None
      <3>2. t[j][1] \in Nat
        BY <1>5, <3>1 DEF Proper
      <3> QED  BY <3>1, <3>2
    <2>3. AgreeAs(rooms, t, n, 0, f[0], g[0], rooms, None(rooms), None(rooms))
      BY <2>1, <2>2 DEF AgreeAs
    <2>4. rooms \in SUBSET rooms /\ None(rooms) \in Counts(rooms)
      BY StartsNone
    <2>5. Agree(rooms, t, n, 0, f[0], g[0])
      BY <2>3, <2>4 DEF Agree
    <2> QED  BY <1>4, <2>5
  <1>9. \A i \in 0 .. n - 1 : i \in right => i + 1 \in right
    <2> SUFFICES ASSUME NEW i \in 0 .. n - 1, i \in right PROVE i + 1 \in right
      OBVIOUS
    <2>1. i + 1 \in 1 .. n /\ (i + 1) - 1 = i /\ i + 1 \in 0 .. n
      BY <1>4
    <2>2. f[i + 1] = Held(f[i], t[i + 1]) /\ g[i + 1] = Seated(rooms, g[i], t[i + 1])
      BY <1>7, <2>1
    <2>3. Agree(rooms, t, n, i, f[i], g[i])
      OBVIOUS
    <2>4. Agree(rooms, t, n, i + 1, f[i + 1], g[i + 1])
      BY <1>4, <1>5, <2>2, <2>3, AgreeStep
    <2> QED  BY <2>1, <2>4
  <1>10. n \in right
    <2>1. 0 \in Int /\ n \in Int /\ n \in 0 .. n
      BY <1>4
    <2> HIDE DEF right
    <2>2. \A i \in 0 .. n : i \in right
      BY <1>8, <1>9, <2>1, RangeInduction
    <2> QED  BY <2>1, <2>2
  <1>11. f[n].count = g[n].count
    <2>1. PICK v \in SUBSET rooms, free \in Counts(rooms), count \in Counts(rooms) :
            AgreeAs(rooms, t, n, n, f[n], g[n], v, free, count)
      BY <1>10 DEF Agree
    <2> QED  BY <2>1 DEF AgreeAs, Booked, Seating
  <1> QED  BY <1>2, <1>3, <1>11

-----------------------------------------------------------------------------
(* All of them.                                                              *)

\* Every sweep gives what its problem asks for, whatever the intervals are,
\* touching, nested or repeated.
THEOREM IntervalsAreRight ==
  ASSUME NEW intervals \in Seq(Proper)
  PROVE  IntervalsRight(intervals)
PROOF
  <1>1. \A capacity \in 0..4 : CarPoolingRight(intervals, [i \in DOMAIN intervals |-> i], capacity)
    <2> TAKE capacity \in 0..4
    <2> DEFINE passengers == [i \in DOMAIN intervals |-> i]
    <2>1. \A i \in 1 .. Len(intervals) : passengers[i] \in Nat
      OBVIOUS
    <2>2. capacity \in Nat
      OBVIOUS
    <2> HIDE DEF passengers
    <2>3. CarPoolingRight(intervals, passengers, capacity)
      BY <2>1, <2>2, CarPoolingIsRight
    <2> QED  BY <2>3 DEF passengers
  <1>2. \A n \in 1..3 : MostBookedRight(0..n - 1, intervals)
    <2> TAKE n \in 1..3
    <2>1. 0 .. n - 1 \subseteq Nat /\ 0 \in 0 .. n - 1
      OBVIOUS
    <2> QED  BY <2>1, MostBookedIsRight
  <1>3. CanAttendRight(intervals) /\ MergeRight(intervals) /\ InsertRight(intervals)
    BY CanAttendIsRight, MergeIsRight, InsertIsRight
  <1>4. NonOverlappingRight(intervals) /\ MeetingRoomsRight(intervals) /\ ArrowsRight(intervals)
    BY NonOverlappingIsRight, MeetingRoomsAreRight, ArrowsAreRight
  <1> QED  BY <1>1, <1>2, <1>3, <1>4 DEF IntervalsRight

-----------------------------------------------------------------------------
(* The inputs.                                                               *)

InputsInv == numbers \in Seq(Numbers) /\ spans \in Seq(Spans)

\* Every input of either kind is a sequence of what may occur in it.
LEMMA InputsTypes == Spec => []InputsInv
PROOF
  <1>1. Init => InputsInv
    BY DEF Init, InputsInv
  <1>2. InputsInv /\ [Next]_vars => InputsInv'
    <2> SUFFICES ASSUME InputsInv, [Next]_vars PROVE InputsInv'
      OBVIOUS
    <2>1. CASE GrowNumbers
      BY <2>1 DEF GrowNumbers, InputsInv
    <2>2. CASE GrowSpans
      BY <2>2 DEF GrowSpans, InputsInv
    <2>3. CASE GrowEdges
      BY <2>3 DEF GrowEdges, InputsInv
    <2>4. CASE GrowCells
      BY <2>4 DEF GrowCells, InputsInv
    <2>5. CASE UNCHANGED vars
      BY <2>5 DEF vars, InputsInv
    <2> QED  BY <2>1, <2>2, <2>3, <2>4, <2>5 DEF Next
  <1> QED  BY <1>1, <1>2, PTL DEF Spec

\* However long the inputs are: every scan of an array and every sweep over
\* intervals returns what its problem defines.
THEOREM SweepsAreRight == Spec => []SweepsRight
PROOF
  <1>1. InputsInv => SweepsRight
    <2> SUFFICES ASSUME InputsInv PROVE SweepsRight
      OBVIOUS
    <2>1. numbers \in Seq(Int) /\ \A i \in 1 .. Len(numbers) : numbers[i] >= -1
      <3>1. numbers \in Seq(Numbers)
        BY DEF InputsInv
      <3>2. \A i \in 1 .. Len(numbers) : numbers[i] \in Numbers
        BY <3>1
      <3>3. Numbers \subseteq Int
        BY NumbersAssumption
      <3>4. numbers \in Seq(Int)
        <4>1. \A A, B : A \subseteq B => Seq(A) \subseteq Seq(B)
          OBVIOUS
        <4> QED  BY <3>1, <3>3, <4>1
      <3>5. \A i \in 1 .. Len(numbers) : numbers[i] >= -1
        BY <3>2, NumbersAssumption
      <3> QED  BY <3>4, <3>5
    <2>2. spans \in Seq(Proper)
      <3>1. Spans \subseteq Proper
        BY SpansAssumption DEF Proper
      <3> QED  BY <3>1 DEF InputsInv
    <2>3. ArraysRight(numbers)
      BY <2>1, ArraysAreRight
    <2>4. IntervalsRight(spans)
      BY <2>2, IntervalsAreRight
    <2> QED  BY <2>3, <2>4 DEF SweepsRight
  <1> QED  BY <1>1, InputsTypes, PTL
=============================================================================
