------------------------------ MODULE SumProofs ------------------------------
(***************************************************************************)
(* Facts about SumFunction over a finite domain: its type, how it changes  *)
(* when one value changes, that it is monotone, adds up term by term and   *)
(* bounds each of its terms.  The library's                                *)
(* induction theorems take an operator; the well-foundedness of < on Nat    *)
(* does not, so induction here is the absence of a least counterexample.   *)
(***************************************************************************)
EXTENDS Integers, Functions, FiniteSetTheorems, WellFoundedInduction, TLAPS

\* A non-empty set of naturals has a least element.
LEMMA LeastNatural ==
  ASSUME NEW T, T \subseteq Nat, T # {}
  PROVE  \E m \in T : \A k \in T : m <= k
<1> DEFINE R == OpToRel(<, Nat)
<1>1. IsWellFoundedOn(R, Nat)
  BY NatLessThanWellFounded
<1>2. \A k, m \in Nat : <<k, m>> \in R <=> k < m
  BY DEF OpToRel
<1> HIDE DEF R
<1>3. PICK m \in T : \A k \in T : ~ (<<k, m>> \in R)
  BY <1>1, WFMin
<1>4. ASSUME NEW k \in T PROVE m <= k
  <2>1. k \in Nat /\ m \in Nat
    OBVIOUS
  <2>2. ~ (<<k, m>> \in R)
    BY <1>3
  <2>3. ~ (k < m)
    BY <2>1, <2>2, <1>2
  <2> QED
    BY <2>1, <2>3
<1> QED
  BY <1>4

-----------------------------------------------------------------------------
\* The element a fold takes out of a set first.
Picked(s) == CHOOSE x \in s : TRUE

\* Taking out that element leaves a smaller finite set.
LEMMA PickShrinks ==
  ASSUME NEW s, IsFiniteSet(s), s # {}
  PROVE  /\ Picked(s) \in s
         /\ IsFiniteSet(s \ {Picked(s)})
         /\ Cardinality(s) \in Nat /\ Cardinality(s) > 0
         /\ Cardinality(s \ {Picked(s)}) = Cardinality(s) - 1
<1>1. Picked(s) \in s
  BY DEF Picked
<1>2. IsFiniteSet(s \ {Picked(s)}) /\ Cardinality(s \ {Picked(s)}) = Cardinality(s) - 1
  BY <1>1, FS_RemoveElement
<1>3. Cardinality(s) \in Nat /\ Cardinality(s \ {Picked(s)}) \in Nat
  BY <1>2, FS_CardinalityType
<1> QED
  BY <1>1, <1>2, <1>3

\* Induction over the subsets of a finite set, as a fold walks them: a family
\* that holds the empty set, and each set with its picked element put back, holds
\* them all.
LEMMA SubsetInduction ==
  ASSUME NEW U, IsFiniteSet(U),
         NEW P,
         {} \in P,
         \A s \in SUBSET U : s # {} /\ (s \ {Picked(s)}) \in P => s \in P
  PROVE  \A s \in SUBSET U : s \in P
<1> DEFINE Bad == {s \in SUBSET U : s \notin P}
           Sizes == {Cardinality(s) : s \in Bad}
<1> SUFFICES ASSUME Bad # {} PROVE FALSE
  OBVIOUS
<1>1. \A s \in SUBSET U : IsFiniteSet(s) /\ Cardinality(s) \in Nat
  BY FS_Subset, FS_CardinalityType
<1>2. Sizes \subseteq Nat /\ Sizes # {}
  BY <1>1
<1>3. \E m \in Sizes : \A k \in Sizes : m <= k
  <2> HIDE DEF Sizes
  <2> QED BY <1>2, LeastNatural
<1>4. PICK s \in Bad : \A t \in Bad : Cardinality(s) <= Cardinality(t)
  BY <1>3
<1>5. s # {} /\ IsFiniteSet(s)
  BY <1>1
<1>6. s \ {Picked(s)} \in SUBSET U
  OBVIOUS
<1>7. Cardinality(s) \in Nat /\ Cardinality(s \ {Picked(s)}) = Cardinality(s) - 1
  BY <1>5, PickShrinks
<1>8. s \ {Picked(s)} \notin Bad
  BY <1>4, <1>7
<1> QED
  BY <1>5, <1>6, <1>8

-----------------------------------------------------------------------------
\* A partial-sum function: what the fold accumulates on every subset.
IsRunning(f, D, g) ==
  \A s \in D : g[s] = IF s = {} THEN 0 ELSE f[Picked(s)] + g[s \ {Picked(s)}]

\* Partial sums exist on the subsets of at most n elements.
LEMMA RunningExists ==
  ASSUME NEW U, IsFiniteSet(U), NEW f \in [U -> Int], NEW n \in Nat,
         NEW S, \A s : s \in S <=> s \in SUBSET U /\ Cardinality(s) <= n
  PROVE  \E g \in [S -> Int] : IsRunning(f, S, g)
<1> DEFINE D(i) == {s \in SUBSET U : Cardinality(s) <= i}
           Bad == {i \in Nat : ~ \E g \in [D(i) -> Int] : IsRunning(f, D(i), g)}
<1> SUFFICES ASSUME Bad # {} PROVE FALSE
  <2>1. S = D(n)
    OBVIOUS
  <2> QED BY <2>1
<1>1. PICK m \in Bad : \A i \in Bad : m <= i
  <2>1. Bad \subseteq Nat
    OBVIOUS
  <2> HIDE DEF Bad
  <2> QED BY <2>1, LeastNatural
<1>2. \A s \in SUBSET U : IsFiniteSet(s) /\ Cardinality(s) \in Nat
  BY FS_Subset, FS_CardinalityType
<1>3. CASE m = 0
  <2>1. \A s \in D(0) : s = {}
    <3> TAKE s \in D(0)
    <3>1. IsFiniteSet(s) /\ Cardinality(s) = 0
      BY <1>2
    <3> QED BY <3>1, FS_EmptySet
  <2>2. [s \in D(0) |-> 0] \in [D(0) -> Int] /\ IsRunning(f, D(0), [s \in D(0) |-> 0])
    BY <2>1 DEF IsRunning
  <2> QED BY <1>3, <2>2
<1>4. CASE m # 0
  <2>1. m - 1 \in Nat /\ m - 1 \notin Bad
    <3>1. m \in Nat /\ m - 1 \in Nat
      BY <1>4
    <3>2. m - 1 \in Bad => m <= m - 1
      <4> HIDE DEF Bad
      <4> QED BY <1>1
    <3> HIDE DEF Bad
    <3> QED BY <3>1, <3>2
  <2>2. PICK g \in [D(m - 1) -> Int] : IsRunning(f, D(m - 1), g)
    BY <2>1
  <2> DEFINE h == [s \in D(m) |-> IF s = {} THEN 0 ELSE f[Picked(s)] + g[s \ {Picked(s)}]]
  <2>3. ASSUME NEW s \in D(m), s # {}
        PROVE  Picked(s) \in U /\ s \ {Picked(s)} \in D(m - 1) /\ s \ {Picked(s)} \in D(m)
    <3>1. IsFiniteSet(s)
      BY <1>2
    <3>2. Picked(s) \in s /\ Cardinality(s \ {Picked(s)}) = Cardinality(s) - 1
      BY <2>3, <3>1, PickShrinks
    <3>3. Cardinality(s) \in Nat /\ Cardinality(s) <= m
      BY <1>2
    <3> QED BY <3>2, <3>3
  <2>4. h \in [D(m) -> Int]
    <3> SUFFICES ASSUME NEW s \in D(m), s # {} PROVE f[Picked(s)] + g[s \ {Picked(s)}] \in Int
      OBVIOUS
    <3> QED BY <2>3
  <2>5. \A s \in D(m - 1) : h[s] = g[s]
    <3>1. D(m - 1) \subseteq D(m)
      BY <1>2
    <3> HIDE DEF D
    <3> QED BY <2>2, <3>1 DEF IsRunning
  <2>6. IsRunning(f, D(m), h)
    <3> SUFFICES ASSUME NEW s \in D(m), s # {}
                 PROVE  h[s] = f[Picked(s)] + h[s \ {Picked(s)}]
      BY DEF IsRunning
    <3>1. h[s \ {Picked(s)}] = g[s \ {Picked(s)}]
      BY <2>3, <2>5
    <3> QED BY <3>1
  <2> QED BY <2>4, <2>6
<1> QED
  BY <1>3, <1>4

\* The sum of a function is what its partial sums reach on the whole domain.
LEMMA SumRuns ==
  ASSUME NEW U, IsFiniteSet(U), NEW f \in [U -> Int]
  PROVE  \E g \in [SUBSET U -> Int] : IsRunning(f, SUBSET U, g) /\ SumFunction(f) = g[U]
<1> DEFINE Eq(it) == it = [s \in SUBSET U |-> IF s = {} THEN 0 ELSE f[Picked(s)] + it[s \ {Picked(s)}]]
           iter == CHOOSE it : Eq(it)
<1>1. SumFunction(f) = iter[U]
  BY DEF SumFunction, SumFunctionOnSet, FoldFunction, FoldFunctionOnSet, MapThenFoldSet, Picked
<1>2. PICK g \in [SUBSET U -> Int] : IsRunning(f, SUBSET U, g)
  <2>1. PICK n \in Nat : n = Cardinality(U)
    BY FS_CardinalityType
  <2>2. PICK S : S = SUBSET U
    OBVIOUS
  <2>3. \A s : s \in S <=> s \in SUBSET U /\ Cardinality(s) <= n
    BY <2>1, <2>2, FS_Subset
  <2> HIDE DEF Eq, iter
  <2>4. \E g \in [S -> Int] : IsRunning(f, S, g)
    BY <2>3, RunningExists
  <2> QED BY <2>2, <2>4
<1>3. Eq(g)
  BY <1>2 DEF IsRunning
<1>4. Eq(iter)
  <2> HIDE DEF Eq
  <2> QED BY <1>3
<1>5. \A s \in SUBSET U : iter[s] = IF s = {} THEN 0 ELSE f[Picked(s)] + iter[s \ {Picked(s)}]
  <2> HIDE DEF iter
  <2> QED BY <1>4
<1>6. \A s \in SUBSET U : iter[s] = g[s]
  <2> DEFINE P == {s \in SUBSET U : iter[s] = g[s]}
  <2> HIDE DEF iter
  <2>1. {} \in P
    BY <1>2, <1>5 DEF IsRunning
  <2>2. ASSUME NEW s \in SUBSET U, s # {}, (s \ {Picked(s)}) \in P PROVE s \in P
    BY <1>2, <1>5, <2>2 DEF IsRunning
  <2>3. \A s \in SUBSET U : s \in P
    <3> HIDE DEF P
    <3> QED BY <2>1, <2>2, SubsetInduction
  <2> QED BY <2>3
<1>7. iter[U] = g[U]
  <2> HIDE DEF iter
  <2> QED BY <1>6
<1> QED
  BY <1>1, <1>2, <1>7

-----------------------------------------------------------------------------
\* A sum of integers is an integer.
LEMMA SumType ==
  ASSUME NEW U, IsFiniteSet(U), NEW f \in [U -> Int]
  PROVE  SumFunction(f) \in Int
<1>1. PICK g \in [SUBSET U -> Int] : SumFunction(f) = g[U]
  BY SumRuns
<1> QED
  BY <1>1

\* Changing one value changes the sum by the difference.
LEMMA SumUpdate ==
  ASSUME NEW U, IsFiniteSet(U), NEW f \in [U -> Int], NEW u \in U, NEW v \in Int
  PROVE  SumFunction([f EXCEPT ![u] = v]) = SumFunction(f) - f[u] + v
<1> DEFINE f2 == [f EXCEPT ![u] = v]
<1>1. f2 \in [U -> Int] /\ f2[u] = v /\ \A x \in U \ {u} : f2[x] = f[x]
  OBVIOUS
<1> HIDE DEF f2
<1>2. PICK g \in [SUBSET U -> Int] : IsRunning(f, SUBSET U, g) /\ SumFunction(f) = g[U]
  BY SumRuns
<1>3. PICK h \in [SUBSET U -> Int] : IsRunning(f2, SUBSET U, h) /\ SumFunction(f2) = h[U]
  BY <1>1, SumRuns
<1> DEFINE P == {s \in SUBSET U : h[s] = g[s] + (IF u \in s THEN v - f[u] ELSE 0)}
<1>4. {} \in P
  <2>1. g[{}] = 0 /\ h[{}] = 0
    BY <1>2, <1>3 DEF IsRunning
  <2> QED BY <2>1
<1>5. ASSUME NEW s \in SUBSET U, s # {}, (s \ {Picked(s)}) \in P PROVE s \in P
  <2>1. Picked(s) \in s
    BY <1>5 DEF Picked
  <2> DEFINE rest == s \ {Picked(s)}
  <2>2. /\ g[s] = f[Picked(s)] + g[rest] /\ h[s] = f2[Picked(s)] + h[rest]
        /\ h[rest] = g[rest] + (IF u \in rest THEN v - f[u] ELSE 0)
    BY <1>2, <1>3, <1>5 DEF IsRunning
  <2>3. g[rest] \in Int /\ h[rest] \in Int /\ f[u] \in Int /\ f[Picked(s)] \in Int
    BY <2>1
  <2>4. CASE Picked(s) = u
    <3>1. u \in s /\ u \notin rest
      BY <2>1, <2>4
    <3> QED BY <1>1, <2>2, <2>3, <2>4, <3>1
  <2>5. CASE Picked(s) # u
    <3>1. (u \in rest <=> u \in s) /\ f2[Picked(s)] = f[Picked(s)]
      BY <1>1, <2>1, <2>5
    <3>2. CASE u \in s
      BY <2>2, <2>3, <3>1, <3>2
    <3>3. CASE u \notin s
      BY <2>2, <2>3, <3>1, <3>3
    <3> QED BY <3>2, <3>3
  <2> QED BY <2>4, <2>5
<1>6. U \in P
  <2> HIDE DEF P
  <2> QED BY <1>4, <1>5, SubsetInduction
<1>7. f[u] \in Int /\ g[U] \in Int
  OBVIOUS
<1> QED
  BY <1>2, <1>3, <1>6, <1>7 DEF f2

\* A sum is no more than the sum of values that are no less.
LEMMA SumMonotone ==
  ASSUME NEW U, IsFiniteSet(U), NEW f \in [U -> Int], NEW k \in [U -> Int],
         \A u \in U : f[u] <= k[u]
  PROVE  SumFunction(f) <= SumFunction(k)
<1>1. PICK g \in [SUBSET U -> Int] : IsRunning(f, SUBSET U, g) /\ SumFunction(f) = g[U]
  BY SumRuns
<1>2. PICK h \in [SUBSET U -> Int] : IsRunning(k, SUBSET U, h) /\ SumFunction(k) = h[U]
  BY SumRuns
<1> DEFINE P == {s \in SUBSET U : g[s] <= h[s]}
<1>3. {} \in P
  <2>1. g[{}] = 0 /\ h[{}] = 0
    BY <1>1, <1>2 DEF IsRunning
  <2> QED BY <2>1
<1>4. ASSUME NEW s \in SUBSET U, s # {}, (s \ {Picked(s)}) \in P PROVE s \in P
  <2>1. Picked(s) \in U
    BY <1>4 DEF Picked
  <2> DEFINE rest == s \ {Picked(s)}
  <2>2. g[s] = f[Picked(s)] + g[rest] /\ h[s] = k[Picked(s)] + h[rest] /\ g[rest] <= h[rest]
    BY <1>1, <1>2, <1>4 DEF IsRunning
  <2>3. g[rest] \in Int /\ h[rest] \in Int /\ f[Picked(s)] \in Int /\ k[Picked(s)] \in Int
    BY <2>1
  <2> QED BY <2>1, <2>2, <2>3
<1>5. U \in P
  <2> HIDE DEF P
  <2> QED BY <1>3, <1>4, SubsetInduction
<1> QED
  BY <1>1, <1>2, <1>5

\* The sum of nothing but zeros is zero.
LEMMA SumZero ==
  ASSUME NEW U, IsFiniteSet(U)
  PROVE  SumFunction([u \in U |-> 0]) = 0
<1> DEFINE z == [u \in U |-> 0]
<1>1. z \in [U -> Int] /\ \A u \in U : z[u] = 0
  OBVIOUS
<1> HIDE DEF z
<1>2. PICK g \in [SUBSET U -> Int] : IsRunning(z, SUBSET U, g) /\ SumFunction(z) = g[U]
  BY <1>1, SumRuns
<1> DEFINE P == {s \in SUBSET U : g[s] = 0}
<1>3. {} \in P
  BY <1>2 DEF IsRunning
<1>4. ASSUME NEW s \in SUBSET U, s # {}, (s \ {Picked(s)}) \in P PROVE s \in P
  <2>1. Picked(s) \in U
    BY <1>4 DEF Picked
  <2> QED BY <1>1, <1>2, <1>4, <2>1 DEF IsRunning
<1>5. U \in P
  <2> HIDE DEF P
  <2> QED BY <1>3, <1>4, SubsetInduction
<1> QED
  BY <1>2, <1>5 DEF z

\* Two functions on U that agree everywhere but at one point.
DifferAt(u, f, k, U) == \A x \in U \ {u} : k[x] = f[x]

\* The sums of two such functions.
LEMMA SumChange ==
  ASSUME NEW U, IsFiniteSet(U), NEW f \in [U -> Int], NEW k \in [U -> Int], NEW u \in U,
         DifferAt(u, f, k, U)
  PROVE  SumFunction(k) = SumFunction(f) - f[u] + k[u]
<1>1. k = [f EXCEPT ![u] = k[u]]
  BY DEF DifferAt
<1> QED
  BY <1>1, SumUpdate

\* Sums add.
LEMMA SumAdd ==
  ASSUME NEW U, IsFiniteSet(U), NEW f \in [U -> Int], NEW g \in [U -> Int], NEW k \in [U -> Int],
         \A u \in U : k[u] = f[u] + g[u]
  PROVE  SumFunction(k) = SumFunction(f) + SumFunction(g)
<1>1. PICK a \in [SUBSET U -> Int] : IsRunning(f, SUBSET U, a) /\ SumFunction(f) = a[U]
  BY SumRuns
<1>2. PICK b \in [SUBSET U -> Int] : IsRunning(g, SUBSET U, b) /\ SumFunction(g) = b[U]
  BY SumRuns
<1>3. PICK c \in [SUBSET U -> Int] : IsRunning(k, SUBSET U, c) /\ SumFunction(k) = c[U]
  BY SumRuns
<1> DEFINE P == {s \in SUBSET U : c[s] = a[s] + b[s]}
<1>4. {} \in P
  <2>1. {} \in SUBSET U
    OBVIOUS
  <2>2. a[{}] = 0 /\ b[{}] = 0 /\ c[{}] = 0
    BY <1>1, <1>2, <1>3, <2>1 DEF IsRunning
  <2> QED
    BY <2>1, <2>2
<1>5. ASSUME NEW s \in SUBSET U, s # {}, (s \ {Picked(s)}) \in P PROVE s \in P
  <2>1. Picked(s) \in U /\ IsFiniteSet(s)
    BY <1>5, FS_Subset, PickShrinks
  <2>2. s \ {Picked(s)} \in SUBSET U
    OBVIOUS
  <2>3. /\ a[s] = f[Picked(s)] + a[s \ {Picked(s)}] /\ b[s] = g[Picked(s)] + b[s \ {Picked(s)}]
        /\ c[s] = k[Picked(s)] + c[s \ {Picked(s)}]
    BY <1>1, <1>2, <1>3, <1>5 DEF IsRunning
  <2>4. c[s \ {Picked(s)}] = a[s \ {Picked(s)}] + b[s \ {Picked(s)}] /\ k[Picked(s)] = f[Picked(s)] + g[Picked(s)]
    BY <1>5, <2>1
  <2>5. /\ a[s \ {Picked(s)}] \in Int /\ b[s \ {Picked(s)}] \in Int
        /\ f[Picked(s)] \in Int /\ g[Picked(s)] \in Int
    BY <2>1, <2>2
  <2> QED
    BY <2>3, <2>4, <2>5
<1>6. \A s \in SUBSET U : s \in P
  <2> HIDE DEF P
  <2> QED BY <1>4, <1>5, SubsetInduction
<1> QED
  BY <1>1, <1>2, <1>3, <1>6

\* No term of a sum of naturals exceeds it.
LEMMA SumTerm ==
  ASSUME NEW U, IsFiniteSet(U), NEW f \in [U -> Nat]
  PROVE  SumFunction(f) \in Nat /\ \A u \in U : f[u] <= SumFunction(f)
<1> DEFINE zero == [u \in U |-> 0]
<1>1. zero \in [U -> Int] /\ SumFunction(zero) = 0 /\ f \in [U -> Int]
  BY SumZero
<1>2. SumFunction(f) \in Int /\ 0 <= SumFunction(f)
  <2>1. \A u \in U : zero[u] <= f[u]
    OBVIOUS
  <2> HIDE DEF zero
  <2> QED BY <1>1, <2>1, SumMonotone, SumType
<1>3. ASSUME NEW u \in U PROVE f[u] <= SumFunction(f)
  <2> DEFINE one == [zero EXCEPT ![u] = f[u]]
  <2>1. one \in [U -> Int] /\ \A v \in U : one[v] <= f[v]
    OBVIOUS
  <2>2. SumFunction(one) = SumFunction(zero) - zero[u] + f[u] /\ zero[u] = 0 /\ f[u] \in Int
    <3>1. zero[u] = 0 /\ f[u] \in Int
      OBVIOUS
    <3>2. DifferAt(u, zero, one, U) /\ one[u] = f[u]
      BY DEF DifferAt
    <3>3. SumFunction(one) = SumFunction(zero) - zero[u] + one[u]
      <4> HIDE DEF zero, one
      <4> QED BY <1>1, <2>1, <3>2, SumChange
    <3> QED BY <3>1, <3>2, <3>3
  <2> HIDE DEF one, zero
  <2>3. SumFunction(one) <= SumFunction(f)
    BY <1>1, <2>1, SumMonotone
  <2> QED
    BY <1>1, <2>2, <2>3
<1> QED
  BY <1>2, <1>3

\* The partial sums of f over the subsets of a finite set.
PartialSums(U, f, g) ==
  /\ IsFiniteSet(U) /\ f \in [U -> Int] /\ g \in [SUBSET U -> Int]
  /\ IsRunning(f, SUBSET U, g)

TakesOutAny(U, f, g) == \A s \in SUBSET U : \A x \in s : g[s] = f[x] + g[s \ {x}]

\* A partial sum takes any element out, not only the one picked first.
LEMMA RunRemove ==
  ASSUME NEW U, NEW f, NEW g, PartialSums(U, f, g)
  PROVE  TakesOutAny(U, f, g)
<1> USE DEF PartialSums, TakesOutAny
<1> DEFINE Any(s) == \A x \in s : g[s] = f[x] + g[s \ {x}]
           Bad == {s \in SUBSET U : ~Any(s)}
           Sizes == {Cardinality(s) : s \in Bad}
<1> SUFFICES ASSUME Bad # {} PROVE FALSE
  OBVIOUS
<1>1. \A s \in SUBSET U : IsFiniteSet(s) /\ Cardinality(s) \in Nat
  BY FS_Subset, FS_CardinalityType
<1>2. PICK s \in Bad : \A t \in Bad : Cardinality(s) <= Cardinality(t)
  <2>1. Sizes \subseteq Nat /\ Sizes # {}
    BY <1>1
  <2>2. PICK m \in Sizes : \A k \in Sizes : m <= k
    <3> HIDE DEF Sizes
    <3> QED BY <2>1, LeastNatural
  <2> HIDE DEF Bad
  <2>3. PICK s \in Bad : m = Cardinality(s)
    OBVIOUS
  <2>4. \A t \in Bad : Cardinality(t) \in Sizes
    OBVIOUS
  <2> HIDE DEF Sizes
  <2> QED BY <2>2, <2>3, <2>4
<1>3. PICK x \in s : g[s] # f[x] + g[s \ {x}]
  OBVIOUS
<1>4. s \in SUBSET U /\ s # {} /\ IsFiniteSet(s)
  BY <1>1, <1>3
<1> DEFINE p == Picked(s)
<1>5. p \in s /\ g[s] = f[p] + g[s \ {p}]
  BY <1>4, PickShrinks DEF IsRunning
<1> HIDE DEF p
<1>6. x # p
  BY <1>3, <1>5
<1>7. ASSUME NEW y \in s PROVE Any(s \ {y})
  <2>1. Cardinality(s \ {y}) = Cardinality(s) - 1 /\ Cardinality(s) \in Nat /\ s \ {y} \in SUBSET U
    BY <1>1, <1>4, FS_RemoveElement
  <2>2. ~ (Cardinality(s) <= Cardinality(s \ {y}))
    BY <2>1
  <2>3. s \ {y} \notin Bad
    <3> HIDE DEF Bad
    <3> QED BY <1>2, <2>2
  <2> QED
    BY <2>1, <2>3
<1>8. g[s \ {p}] = f[x] + g[(s \ {p}) \ {x}] /\ g[s \ {x}] = f[p] + g[(s \ {x}) \ {p}]
  <2>1. x \in s \ {p} /\ p \in s \ {x}
    BY <1>5, <1>6
  <2> QED
    BY <1>5, <1>7, <2>1
<1>9. (s \ {p}) \ {x} = (s \ {x}) \ {p} /\ (s \ {p}) \ {x} \in SUBSET U
  BY <1>4
<1>10. f[x] \in Int /\ f[p] \in Int /\ g[(s \ {p}) \ {x}] \in Int
  BY <1>4, <1>5, <1>9
<1>11. PICK a, b, c \in Int : a = f[x] /\ b = f[p] /\ c = g[(s \ {p}) \ {x}]
  BY <1>10
<1>12. g[s] = b + (a + c) /\ g[s \ {x}] = b + c
  BY <1>5, <1>8, <1>9, <1>11, Zenon
<1>13. b + (a + c) = a + (b + c)
  OBVIOUS
<1>14. g[s] = f[x] + g[s \ {x}]
  BY <1>11, <1>12, <1>13, Zenon
<1> QED
  BY <1>3, <1>14, Zenon

\* Two functions that agree on a part of their domain.
AgreeOn(V, f, k) == \A v \in V : k[v] = f[v]

\* Partial sums of functions that agree on what is summed are the same.
LEMMA RunsAgree ==
  ASSUME NEW U, NEW V, V \subseteq U, NEW f, NEW k, NEW g, NEW h,
         PartialSums(U, f, g), PartialSums(V, k, h), AgreeOn(V, f, k)
  PROVE  g[V] = h[V]
<1> DEFINE P == {s \in SUBSET V : g[s] = h[s]}
<1>1. IsFiniteSet(V)
  BY FS_Subset DEF PartialSums
<1>2. {} \in P
  BY DEF IsRunning, PartialSums, AgreeOn
<1>3. ASSUME NEW s \in SUBSET V, s # {}, (s \ {Picked(s)}) \in P PROVE s \in P
  <2>1. Picked(s) \in V
    BY <1>1, <1>3, FS_Subset, PickShrinks
  <2>2. s \in SUBSET U
    OBVIOUS
  <2> QED
    BY <1>3, <2>1, <2>2 DEF IsRunning, PartialSums, AgreeOn
<1>4. \A s \in SUBSET V : s \in P
  <2> HIDE DEF P
  <2> QED BY <1>1, <1>2, <1>3, SubsetInduction
<1> QED
  BY <1>4

\* A term of zero may be left out.
LEMMA SumWithout ==
  ASSUME NEW U, IsFiniteSet(U), NEW f \in [U -> Int], NEW x \in U, f[x] = 0,
         NEW k \in [U \ {x} -> Int], \A u \in U \ {x} : k[u] = f[u]
  PROVE  SumFunction(f) = SumFunction(k)
<1>1. PICK V \in SUBSET U : V = U \ {x}
  OBVIOUS
<1>2. IsFiniteSet(V) /\ k \in [V -> Int]
  BY <1>1, FS_Subset
<1>3. PICK g \in [SUBSET U -> Int] : IsRunning(f, SUBSET U, g) /\ SumFunction(f) = g[U]
  BY SumRuns
<1>4. PICK h \in [SUBSET V -> Int] : IsRunning(k, SUBSET V, h) /\ SumFunction(k) = h[V]
  BY <1>2, SumRuns
<1>5. g[V] = h[V]
  <2>1. AgreeOn(V, f, k) /\ V \subseteq U
    BY <1>1 DEF AgreeOn
  <2>2. PartialSums(U, f, g) /\ PartialSums(V, k, h)
    BY <1>2, <1>3, <1>4 DEF PartialSums
  <2> QED
    BY <2>1, <2>2, RunsAgree
<1>6. g[U] = f[x] + g[V]
  <2>1. PartialSums(U, f, g) /\ U \in SUBSET U
    BY <1>3 DEF PartialSums
  <2>2. TakesOutAny(U, f, g)
    BY <2>1, RunRemove
  <2> QED
    BY <1>1, <2>1, <2>2 DEF TakesOutAny
<1>7. g[V] \in Int
  OBVIOUS
<1> QED
  BY <1>3, <1>4, <1>5, <1>6, <1>7

\* Every place from 1 to n is one element's.
Ranks(turn, batch, n) ==
  /\ turn \in [batch -> 1..n]
  /\ \A u, v \in batch : turn[u] = turn[v] => u = v
  /\ \A i \in 1..n : \E u \in batch : turn[u] = i

\* A base and, for the elements whose turn has come, what a running value fell
\* by in their turn.
UpToTurn(i, base, U, batch, turn, left) ==
  [u \in U |-> IF u \in batch /\ turn[u] <= i
                THEN base[u] + (left[turn[u] - 1] - left[turn[u]])
                ELSE base[u]]

\* A batch of elements of a finite set, their turns, and a value that runs along.
IsRun(n, base, U, batch, turn, left) ==
  /\ IsFiniteSet(U) /\ batch \in SUBSET U /\ n \in Nat /\ Ranks(turn, batch, n)
  /\ left \in [0..n -> Int] /\ base \in [U -> Int]

\* Every intermediate function has integer values.
LEMMA UpToTurnType ==
  ASSUME NEW n, NEW base, NEW U, NEW batch, NEW turn, NEW left,
         IsRun(n, base, U, batch, turn, left), NEW i \in 0..n
  PROVE  UpToTurn(i, base, U, batch, turn, left) \in [U -> Int]
<1> USE DEF IsRun
<1>1. ASSUME NEW u \in batch PROVE left[turn[u] - 1] - left[turn[u]] \in Int
  <2>1. turn[u] \in 1..n
    BY DEF Ranks
  <2>2. turn[u] \in 0..n /\ turn[u] - 1 \in 0..n
    BY <2>1
  <2> QED BY <2>2
<1> QED
  BY <1>1 DEF UpToTurn

\* Each element of a batch adds the amount by which a running value falls in its
\* turn: together they add what the value fell by in all turns.
LEMMA Telescope ==
  ASSUME NEW n, NEW base, NEW U, NEW batch, NEW turn, NEW left,
         IsRun(n, base, U, batch, turn, left)
  PROVE  SumFunction(UpToTurn(n, base, U, batch, turn, left)) =
           SumFunction(base) + left[0] - left[n]
<1> USE DEF IsRun
<1>1. SumFunction(base) \in Int /\ left[0] \in Int
  BY SumType
<1>2. PICK whole \in Int : whole = SumFunction(base) + left[0]
  BY <1>1
<1> DEFINE at(i) == UpToTurn(i, base, U, batch, turn, left)
           Fits(i) == SumFunction(at(i)) = whole - left[i]
           Bad == {i \in 0..n : ~Fits(i)}
<1>3. Fits(0)
  <2>1. \A u \in batch : turn[u] \in 1..n /\ ~(turn[u] <= 0)
    BY DEF Ranks
  <2>2. at(0) = base
    BY <2>1 DEF UpToTurn
  <2> HIDE DEF at
  <2> QED BY <1>1, <1>2, <2>2
<1>4. ASSUME NEW m \in 1..n, Fits(m - 1) PROVE Fits(m)
  <2>1. m \in 0..n /\ m - 1 \in 0..n
    OBVIOUS
  <2>2. at(m) \in [U -> Int] /\ at(m - 1) \in [U -> Int]
    BY <2>1, UpToTurnType
  <2>3. left[m - 1] \in Int /\ left[m] \in Int
    BY <2>1
  <2>4. PICK u \in U : u \in batch /\ turn[u] = m
    BY DEF Ranks
  <2>5. at(m)[u] = at(m - 1)[u] + (left[m - 1] - left[m])
    <3>1. ~(m <= m - 1) /\ m <= m /\ base[u] \in Int
      OBVIOUS
    <3>2. at(m)[u] = base[u] + (left[m - 1] - left[m]) /\ at(m - 1)[u] = base[u]
      BY <2>4, <3>1 DEF UpToTurn
    <3> QED BY <3>2
  <2>6. ASSUME NEW x \in U \ {u} PROVE at(m)[x] = at(m - 1)[x]
    <3>1. CASE x \in batch
      <4>1. turn[x] \in 1..n /\ turn[x] # m
        BY <2>4, <2>6, <3>1 DEF Ranks
      <4>2. turn[x] <= m <=> turn[x] <= m - 1
        BY <4>1
      <4> QED BY <4>2 DEF UpToTurn
    <3>2. CASE x \notin batch
      BY <3>2 DEF UpToTurn
    <3> QED BY <3>1, <3>2
  <2> HIDE DEF at
  <2>7. SumFunction(at(m)) = SumFunction(at(m - 1)) - at(m - 1)[u] + at(m)[u]
    <3>1. DifferAt(u, at(m - 1), at(m), U)
      BY <2>6 DEF DifferAt
    <3>2. /\ at(m) \in [U -> Int] /\ at(m - 1) \in [U -> Int]
          /\ IsFiniteSet(U)
      BY <2>2
    <3> HIDE DEF IsRun
    <3> QED BY <2>4, <3>1, <3>2, SumChange
  <2>8. at(m - 1)[u] \in Int /\ at(m)[u] \in Int
    BY <2>2
  <2> QED BY <1>4, <2>3, <2>5, <2>7, <2>8
<1> HIDE DEF Fits
<1>5. Bad = {}
  <2> SUFFICES ASSUME Bad # {} PROVE FALSE
    OBVIOUS
  <2>1. Bad \subseteq Nat
    OBVIOUS
  <2>2. PICK m \in Bad : \A i \in Bad : m <= i
    <3> HIDE DEF Bad
    <3> QED BY <2>1, LeastNatural
  <2>3. m \in 1..n /\ m - 1 \in 0..n /\ m - 1 \notin Bad /\ ~Fits(m)
    BY <1>3, <2>1, <2>2
  <2> QED BY <1>4, <2>3
<1>6. Fits(n)
  BY <1>5
<1>7. left[n] \in Int
  OBVIOUS
<1> QED
  BY <1>1, <1>2, <1>6, <1>7 DEF Fits

=============================================================================
