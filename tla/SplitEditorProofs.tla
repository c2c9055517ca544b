------------------------- MODULE SplitEditorProofs -------------------------
(***************************************************************************)
(* What module SplitEditor guarantees for any groups, amounts and typed    *)
(* numbers, proved with TLAPS.                                             *)
(***************************************************************************)
EXTENDS SplitEditor, FiniteSetTheorems, SequenceTheorems, TLAPS

-----------------------------------------------------------------------------
(* Induction over a finite set, for a set B of the subsets that are known  *)
(* to be good.                                                             *)

LEMMA SubsetInduction ==
  ASSUME NEW S, IsFiniteSet(S), NEW B,
         \A T \in SUBSET S : (\A U \in SUBSET T : U # T => U \in B) => T \in B
  PROVE  S \in B
<1> DEFINE Bad == {T \in SUBSET S : T \notin B}
<1> SUFFICES ASSUME S \notin B PROVE FALSE
  OBVIOUS
<1>1. IsWellFoundedOn(StrictSubsetOrdering(S), SUBSET S)
  <2>1. FiniteSubsetsOf(S) = SUBSET S
    BY FS_FiniteSubsetsOfFinite
  <2>2. IsWellFoundedOn(StrictSubsetOrdering(S), FiniteSubsetsOf(S))
    BY FS_StrictSubsetOrderingWellFounded
  <2> QED
    BY <2>1, <2>2, Zenon
<1>2. PICK T \in Bad : \A U \in Bad : ~(<<U, T>> \in StrictSubsetOrdering(S))
  <2>1. Bad # {} /\ Bad \subseteq SUBSET S
    OBVIOUS
  <2> HIDE DEF Bad
  <2> QED
    BY <1>1, <2>1, WFMin
<1>3. ASSUME NEW U \in SUBSET T, U # T PROVE U \in B
  BY <1>2, <1>3 DEF StrictSubsetOrdering
<1> QED
  BY <1>2, <1>3

LEMMA OneByOne ==
  ASSUME NEW S, IsFiniteSet(S), NEW B, {} \in B,
         \A T \in SUBSET S : \A x \in S \ T : T \in B => T \cup {x} \in B
  PROVE  S \in B
<1>1. ASSUME NEW T \in SUBSET S, \A U \in SUBSET T : U # T => U \in B
      PROVE  T \in B
  <2>1. CASE T = {}
    BY <2>1
  <2>2. CASE T # {}
    <3>1. PICK x \in T : TRUE
      BY <2>2
    <3>2. T \ {x} \in SUBSET S /\ x \in S \ (T \ {x}) /\ T \ {x} \in B
      BY <1>1, <3>1
    <3>3. (T \ {x}) \cup {x} = T
      BY <3>1
    <3> QED
      BY <3>2, <3>3
  <2> QED
    BY <2>1, <2>2
<1> QED
  BY <1>1, SubsetInduction

-----------------------------------------------------------------------------
(* Sums.  Sum is a recursive function on the subsets of a set: that it     *)
(* exists, and does not depend on the order in which the elements are      *)
(* taken, is what the other lemmas rest on.                                *)

Pick(s) == CHOOSE x \in s : TRUE
IsSum(g, f, S) ==
  g = [s \in SUBSET S |-> IF s = {} THEN 0 ELSE f[Pick(s)] + g[s \ {Pick(s)}]]

LEMMA PickIsIn == ASSUME NEW s, s # {} PROVE Pick(s) \in s
BY DEF Pick

LEMMA SumIsSum ==
  ASSUME NEW f, NEW S
  PROVE  Sum(f, S) = (CHOOSE g : IsSum(g, f, S))[S]
BY DEF Sum, MapThenSumSet, MapThenFoldSet, IsSum, Pick

LEMMA SumValues ==
  ASSUME NEW S, NEW f, NEW g, IsSum(g, f, S), NEW s \in SUBSET S
  PROVE  g[s] = IF s = {} THEN 0 ELSE f[Pick(s)] + g[s \ {Pick(s)}]
BY DEF IsSum

LEMMA SumsAgree ==
  ASSUME NEW S, IsFiniteSet(S), NEW f,
         NEW g, IsSum(g, f, S), NEW h, IsSum(h, f, S)
  PROVE  g = h
<1> DEFINE B == {s \in SUBSET S : \A u \in SUBSET s : g[u] = h[u]}
<1>1. ASSUME NEW s \in SUBSET S, \A U \in SUBSET s : U # s => U \in B
      PROVE  s \in B
  <2>1. \A u \in SUBSET s : u # s => g[u] = h[u]
    BY <1>1
  <2>2. g[s] = h[s]
    <3>1. CASE s = {}
      BY <3>1, SumValues
    <3>2. CASE s # {}
      <4>1. Pick(s) \in s
        BY <3>2, PickIsIn
      <4>2. g[s \ {Pick(s)}] = h[s \ {Pick(s)}]
        BY <2>1, <4>1
      <4> QED
        BY <3>2, <4>2, SumValues
    <3> QED
      BY <3>1, <3>2
  <2> QED
    BY <2>1, <2>2
<1>2. S \in B
  <2> HIDE DEF B
  <2> QED
    BY <1>1, SubsetInduction
<1>3. \A u \in SUBSET S : g[u] = h[u]
  BY <1>2
<1>4. g = [u \in SUBSET S |-> g[u]] /\ h = [u \in SUBSET S |-> h[u]]
  BY DEF IsSum
<1> QED
  BY <1>3, <1>4

LEMMA SumRestricts ==
  ASSUME NEW S, NEW f, NEW g, IsSum(g, f, S), NEW T \in SUBSET S
  PROVE  IsSum([s \in SUBSET T |-> g[s]], f, T)
<1> DEFINE h == [s \in SUBSET T |-> g[s]]
<1>1. ASSUME NEW s \in SUBSET T
      PROVE  h[s] = IF s = {} THEN 0 ELSE f[Pick(s)] + h[s \ {Pick(s)}]
  <2>1. h[s] = g[s] /\ h[s \ {Pick(s)}] = g[s \ {Pick(s)}]
    OBVIOUS
  <2> QED
    BY <2>1, SumValues
<1>2. h = [s \in SUBSET T |-> h[s]]
  OBVIOUS
<1> HIDE DEF h
<1>3. h = [s \in SUBSET T |-> IF s = {} THEN 0 ELSE f[Pick(s)] + h[s \ {Pick(s)}]]
  BY <1>1, <1>2
<1>4. IsSum(h, f, T)
  BY <1>3 DEF IsSum
<1> QED
  BY <1>4 DEF h

LEMMA SumExists ==
  ASSUME NEW S, IsFiniteSet(S), NEW f
  PROVE  \E g : IsSum(g, f, S)
<1> DEFINE B == {T \in SUBSET S : \E g : IsSum(g, f, T)}
<1>1. ASSUME NEW T \in SUBSET S, \A U \in SUBSET T : U # T => U \in B
      PROVE  T \in B
  <2> DEFINE It(U) == CHOOSE g : IsSum(g, f, U)
             g == [s \in SUBSET T |-> IF s = {} THEN 0
                     ELSE f[Pick(s)] + It(s \ {Pick(s)})[s \ {Pick(s)}]]
  <2>1. \A U \in SUBSET T : U # T => IsSum(It(U), f, U)
    BY <1>1
  <2>2. ASSUME NEW U \in SUBSET T, U # T, NEW V \in SUBSET U
        PROVE  It(U)[V] = It(V)[V]
    <3>1. IsSum(It(U), f, U)
      BY <2>1, <2>2
    <3>2. IsSum(It(V), f, V)
      BY <2>1, <2>2
    <3> HIDE DEF It
    <3>3. IsSum([s \in SUBSET V |-> It(U)[s]], f, V)
      BY <3>1, SumRestricts
    <3>4. IsFiniteSet(V)
      BY FS_Subset
    <3>5. [s \in SUBSET V |-> It(U)[s]] = It(V)
      BY <3>2, <3>3, <3>4, SumsAgree
    <3> QED
      BY <3>5
  <2>3. ASSUME NEW s \in SUBSET T, s # {}
        PROVE  g[s \ {Pick(s)}] = It(s \ {Pick(s)})[s \ {Pick(s)}]
    <3> DEFINE U == s \ {Pick(s)}
    <3>1. Pick(s) \in s
      BY <2>3, PickIsIn
    <3>2. U \in SUBSET T /\ U # T
      BY <3>1
    <3>3. IsSum(It(U), f, U)
      BY <2>1, <3>2
    <3> HIDE DEF U, It
    <3>4. It(U)[U] = IF U = {} THEN 0 ELSE f[Pick(U)] + It(U)[U \ {Pick(U)}]
      BY <3>3, SumValues
    <3>5. It(U)[U \ {Pick(U)}] = It(U \ {Pick(U)})[U \ {Pick(U)}]
      BY <2>2, <3>2
    <3>6. g[U] = IF U = {} THEN 0
                 ELSE f[Pick(U)] + It(U \ {Pick(U)})[U \ {Pick(U)}]
      BY <3>2
    <3>7. g[U] = It(U)[U]
      BY <3>4, <3>5, <3>6
    <3> QED
      BY <3>7 DEF U
  <2> HIDE DEF It
  <2>4. \A s \in SUBSET T : s # {} =>
          It(s \ {Pick(s)})[s \ {Pick(s)}] = g[s \ {Pick(s)}]
    BY <2>3
  <2>5. g = [s \in SUBSET T |-> IF s = {} THEN 0 ELSE f[Pick(s)] + g[s \ {Pick(s)}]]
    BY <2>4
  <2> HIDE DEF g
  <2>6. IsSum(g, f, T)
    BY <2>5 DEF IsSum
  <2> QED
    BY <2>6
<1>2. S \in B
  <2> HIDE DEF B
  <2> QED
    BY <1>1, SubsetInduction
<1> QED
  BY <1>2

LEMMA SumRecursion ==
  ASSUME NEW S, IsFiniteSet(S), NEW f
  PROVE  Sum(f, S) = IF S = {} THEN 0 ELSE f[Pick(S)] + Sum(f, S \ {Pick(S)})
<1> DEFINE It(U) == CHOOSE g : IsSum(g, f, U)
           U == S \ {Pick(S)}
<1>1. IsSum(It(S), f, S)
  BY SumExists
<1>2. IsFiniteSet(U) /\ U \in SUBSET S
  BY FS_Subset
<1>3. IsSum(It(U), f, U)
  <2> HIDE DEF U
  <2> QED
    BY <1>2, SumExists
<1>4. Sum(f, S) = It(S)[S] /\ Sum(f, U) = It(U)[U]
  BY SumIsSum
<1> HIDE DEF It
<1>5. It(S)[S] = IF S = {} THEN 0 ELSE f[Pick(S)] + It(S)[U]
  BY <1>1, SumValues
<1> HIDE DEF U
<1>6. IsSum([s \in SUBSET U |-> It(S)[s]], f, U)
  BY <1>1, <1>2, SumRestricts
<1>7. [s \in SUBSET U |-> It(S)[s]] = It(U)
  BY <1>2, <1>3, <1>6, SumsAgree
<1>8. It(S)[U] = It(U)[U]
  BY <1>7
<1> QED
  BY <1>4, <1>5, <1>8 DEF U

LEMMA SumEmpty == ASSUME NEW f PROVE Sum(f, {}) = 0
BY SumRecursion, FS_EmptySet

LEMMA SumIsInt ==
  ASSUME NEW S, IsFiniteSet(S), NEW f, \A x \in S : f[x] \in Int
  PROVE  Sum(f, S) \in Int
<1> DEFINE B == {T \in SUBSET S : Sum(f, T) \in Int}
<1>1. ASSUME NEW T \in SUBSET S, \A U \in SUBSET T : U # T => U \in B
      PROVE  T \in B
  <2>1. Sum(f, T) = IF T = {} THEN 0 ELSE f[Pick(T)] + Sum(f, T \ {Pick(T)})
    BY FS_Subset, SumRecursion
  <2>2. CASE T # {}
    <3>1. Pick(T) \in T
      BY <2>2, PickIsIn
    <3>2. Sum(f, T \ {Pick(T)}) \in Int /\ f[Pick(T)] \in Int
      BY <1>1, <3>1
    <3> QED
      BY <2>1, <2>2, <3>2
  <2> QED
    BY <2>1, <2>2
<1>2. S \in B
  <2> HIDE DEF B
  <2> QED
    BY <1>1, SubsetInduction
<1> QED
  BY <1>2

\* Any element can be taken first.
LEMMA SumTakes ==
  ASSUME NEW S, IsFiniteSet(S), NEW f, \A x \in S : f[x] \in Int, NEW m \in S
  PROVE  Sum(f, S) = f[m] + Sum(f, S \ {m})
<1> DEFINE B == {T \in SUBSET S : \A x \in T : Sum(f, T) = f[x] + Sum(f, T \ {x})}
<1>0. \A T \in SUBSET S : IsFiniteSet(T) /\ Sum(f, T) \in Int
  BY FS_Subset, SumIsInt
<1>1. ASSUME NEW T \in SUBSET S, \A U \in SUBSET T : U # T => U \in B,
             NEW x \in T
      PROVE  Sum(f, T) = f[x] + Sum(f, T \ {x})
  <2> DEFINE y == Pick(T)
             W == (T \ {x}) \ {y}
  <2>1. y \in T /\ Sum(f, T) = f[y] + Sum(f, T \ {y})
    BY <1>0, PickIsIn, SumRecursion
  <2> HIDE DEF y
  <2>2. CASE x # y
    <3>1. Sum(f, T \ {y}) = f[x] + Sum(f, (T \ {y}) \ {x})
      BY <1>1, <2>1, <2>2
    <3>2. Sum(f, T \ {x}) = f[y] + Sum(f, W)
      BY <1>1, <2>1, <2>2
    <3>3. (T \ {y}) \ {x} = W
      OBVIOUS
    <3>4. f[x] \in Int /\ f[y] \in Int /\ Sum(f, W) \in Int
      BY <1>0, <2>1
    <3> HIDE DEF W, B
    <3>5. Sum(f, (T \ {y}) \ {x}) = Sum(f, W)
      BY <3>3
    <3>6. Sum(f, T) = f[y] + (f[x] + Sum(f, W))
      BY <2>1, <3>1, <3>5
    <3>7. f[y] + (f[x] + Sum(f, W)) = f[x] + (f[y] + Sum(f, W))
      BY <3>4
    <3> QED
      BY <3>2, <3>6, <3>7
  <2> QED
    BY <2>1, <2>2
<1>2. \A T \in SUBSET S : (\A U \in SUBSET T : U # T => U \in B) => T \in B
  BY <1>1
<1>3. S \in B
  <2> HIDE DEF B
  <2> QED
    BY <1>2, SubsetInduction
<1> QED
  BY <1>3

LEMMA SumAdds ==
  ASSUME NEW S, IsFiniteSet(S), NEW f, \A x \in S : f[x] \in Int,
         NEW T \in SUBSET S, NEW m \in S \ T
  PROVE  /\ Sum(f, T) \in Int /\ f[m] \in Int
         /\ Sum(f, T \cup {m}) = f[m] + Sum(f, T)
<1>1. T \cup {m} \in SUBSET S /\ (T \cup {m}) \ {m} = T
  OBVIOUS
<1>2. IsFiniteSet(T \cup {m}) /\ IsFiniteSet(T)
  BY <1>1, FS_Subset
<1>3. Sum(f, T \cup {m}) = f[m] + Sum(f, (T \cup {m}) \ {m})
  BY <1>1, <1>2, SumTakes
<1> QED
  BY <1>1, <1>2, <1>3, SumIsInt

LEMMA SumCongruent ==
  ASSUME NEW S, IsFiniteSet(S), NEW f, NEW g,
         \A x \in S : f[x] \in Int /\ f[x] = g[x]
  PROVE  Sum(f, S) = Sum(g, S)
<1> DEFINE B == {T \in SUBSET S : Sum(f, T) = Sum(g, T)}
<1>1. {} \in B
  BY SumEmpty
<1>2. ASSUME NEW T \in SUBSET S, NEW x \in S \ T, T \in B PROVE T \cup {x} \in B
  <2>1. \A y \in S : f[y] \in Int /\ g[y] \in Int
    OBVIOUS
  <2>2. /\ Sum(f, T \cup {x}) = f[x] + Sum(f, T)
        /\ Sum(g, T \cup {x}) = g[x] + Sum(g, T)
    BY <2>1, SumAdds
  <2> QED
    BY <1>2, <2>2
<1>3. S \in B
  <2> HIDE DEF B
  <2> QED
    BY <1>1, <1>2, OneByOne
<1> QED
  BY <1>3

LEMMA SumScales ==
  ASSUME NEW S, IsFiniteSet(S), NEW f, \A x \in S : f[x] \in Int
  PROVE  \A c \in Int : \A g :
           (\A x \in S : g[x] = c * f[x]) => Sum(g, S) = c * Sum(f, S)
<1>1. \A T \in SUBSET S : \A x \in S \ T :
        /\ Sum(f, T) \in Int /\ f[x] \in Int
        /\ Sum(f, T \cup {x}) = f[x] + Sum(f, T)
  BY SumAdds
<1>2. \A g : (\A x \in S : g[x] \in Int) =>
        \A T \in SUBSET S : \A x \in S \ T : Sum(g, T \cup {x}) = g[x] + Sum(g, T)
  <2> SUFFICES ASSUME NEW g, \A x \in S : g[x] \in Int,
                      NEW T \in SUBSET S, NEW x \in S \ T
               PROVE  Sum(g, T \cup {x}) = g[x] + Sum(g, T)
    OBVIOUS
  <2> QED
    BY SumAdds
<1>3. \A i, j, k \in Int : i * (j + k) = i * j + i * k
  OBVIOUS
<1> TAKE c \in Int
<1> TAKE g
<1> HAVE \A x \in S : g[x] = c * f[x]
<1> DEFINE B == {T \in SUBSET S : Sum(g, T) = c * Sum(f, T)}
<1>4. \A y \in S : g[y] \in Int
  OBVIOUS
<1>5. \A T \in SUBSET S : \A x \in S \ T : Sum(g, T \cup {x}) = g[x] + Sum(g, T)
  BY <1>4, <1>2, Zenon
<1>6. {} \in B
  BY SumEmpty
<1>7. ASSUME NEW T \in SUBSET S, NEW x \in S \ T, T \in B PROVE T \cup {x} \in B
  <2>1. c * (f[x] + Sum(f, T)) = c * f[x] + c * Sum(f, T)
    BY <1>1, <1>3, Zenon
  <2> QED
    BY <1>1, <1>5, <1>7, <2>1
<1>8. S \in B
  <2> HIDE DEF B
  <2> QED
    BY <1>6, <1>7, OneByOne
<1> QED
  BY <1>8

LEMMA SumOfEqual ==
  ASSUME NEW S, IsFiniteSet(S), NEW c \in Int, NEW f, \A x \in S : f[x] = c
  PROVE  Sum(f, S) = c * Cardinality(S)
<1> DEFINE B == {T \in SUBSET S : Sum(f, T) = c * Cardinality(T)}
<1>1. {} \in B
  BY SumEmpty, FS_EmptySet
<1>2. ASSUME NEW T \in SUBSET S, NEW x \in S \ T, T \in B PROVE T \cup {x} \in B
  <2>1. Sum(f, T \cup {x}) = c + Sum(f, T)
    BY SumAdds
  <2>2. IsFiniteSet(T)
    BY FS_Subset
  <2>3. Cardinality(T \cup {x}) = Cardinality(T) + 1 /\ Cardinality(T) \in Nat
    BY <2>2, FS_AddElement, FS_CardinalityType
  <2>4. c * (Cardinality(T) + 1) = c + c * Cardinality(T)
    BY <2>3
  <2> QED
    BY <1>2, <2>1, <2>3, <2>4
<1>3. S \in B
  <2> HIDE DEF B
  <2> QED
    BY <1>1, <1>2, OneByOne
<1> QED
  BY <1>3

\* Errors of half a unit each add up to half a unit for each element.
Near(d, n, r, a) == 2 * (d * r) - 2 * a <= d * n /\ 2 * a - 2 * (d * r) <= d * n

LEMMA SumIsNear ==
  ASSUME NEW S, IsFiniteSet(S), NEW d \in Nat, NEW r, NEW a,
         \A x \in S : r[x] \in Int /\ a[x] \in Int /\ Near(d, 1, r[x], a[x])
  PROVE  Near(d, Cardinality(S), Sum(r, S), Sum(a, S))
<1> DEFINE B == {T \in SUBSET S : Near(d, Cardinality(T), Sum(r, T), Sum(a, T))}
<1>1. {} \in B
  <2>1. Cardinality({}) = 0 /\ Sum(r, {}) = 0 /\ Sum(a, {}) = 0
    BY SumEmpty, FS_EmptySet
  <2> QED
    BY <2>1 DEF Near
<1>2. ASSUME NEW T \in SUBSET S, NEW x \in S \ T, T \in B PROVE T \cup {x} \in B
  <2> DEFINE R == Sum(r, T)
             A == Sum(a, T)
             n == Cardinality(T)
  <2>1. /\ Sum(r, T \cup {x}) = r[x] + R /\ R \in Int /\ r[x] \in Int
        /\ Sum(a, T \cup {x}) = a[x] + A /\ A \in Int /\ a[x] \in Int
    BY SumAdds
  <2>2. IsFiniteSet(T)
    BY FS_Subset
  <2>3. Cardinality(T \cup {x}) = n + 1 /\ n \in Nat
    BY <2>2, FS_AddElement, FS_CardinalityType
  <2>4. Near(d, n, R, A) /\ Near(d, 1, r[x], a[x])
    BY <1>2
  <2> HIDE DEF R, A, n
  <2>5. Near(d, n + 1, r[x] + R, a[x] + A)
    <3>1. d * (n + 1) = d * n + d * 1 /\ d * (r[x] + R) = d * r[x] + d * R
      BY <2>1, <2>3
    <3>2. d * n \in Int /\ d * 1 \in Int /\ d * r[x] \in Int /\ d * R \in Int
      BY <2>1, <2>3
    <3> QED
      BY <2>1, <2>4, <3>1, <3>2 DEF Near
  <2> QED
    BY <2>1, <2>3, <2>5 DEF R, A, n
<1>3. S \in B
  <2> HIDE DEF B
  <2> QED
    BY <1>1, <1>2, OneByOne
<1> QED
  BY <1>3

-----------------------------------------------------------------------------
(* Rounding.                                                               *)

LEMMA RoundsNear ==
  ASSUME NEW a \in Int, NEW d \in Nat \ {0}, NEW n,
         \/ n = a \div d + 1 /\ 2 * (a % d) >= d
         \/ n = a \div d /\ 2 * (a % d) <= d
  PROVE  n \in Int /\ Near(d, 1, n, a)
<1> DEFINE q == a \div d
           r == a % d
<1>1. q \in Int /\ r \in 0 .. d - 1 /\ a = d * q + r
  OBVIOUS
<1>2. (n = q + 1 /\ 2 * r >= d) \/ (n = q /\ 2 * r <= d)
  OBVIOUS
<1> HIDE DEF q, r
<1>3. d * (q + 1) = d * q + d /\ d * q \in Int
  BY <1>1
<1> QED
  BY <1>1, <1>2, <1>3 DEF Near

\* Whichever way a tie goes, half a unit is all that rounding moves.
LEMMA RoundingIsNear ==
  ASSUME NEW a \in Int, NEW d \in Nat \ {0}
  PROVE  /\ \A up : Nearest(a, d, up) \in Int /\ Near(d, 1, Nearest(a, d, up), a)
         /\ HalfUp(a, d) \in Int /\ Near(d, 1, HalfUp(a, d), a)
         /\ HalfEven(a, d) \in Int /\ Near(d, 1, HalfEven(a, d), a)
<1>1. a \div d \in Int /\ a % d \in Int
  OBVIOUS
<1> DEFINE OK(n) == \/ n = a \div d + 1 /\ 2 * (a % d) >= d
                    \/ n = a \div d /\ 2 * (a % d) <= d
<1>2. ASSUME NEW up PROVE OK(Nearest(a, d, up))
  BY <1>1 DEF Nearest
<1>3. OK(HalfUp(a, d))
  BY <1>1 DEF HalfUp, Nearest
<1>4. OK(HalfEven(a, d))
  BY <1>1 DEF HalfEven, Nearest
<1>5. ASSUME NEW n, OK(n) PROVE n \in Int /\ Near(d, 1, n, a)
  BY <1>5, RoundsNear
<1> HIDE DEF OK
<1>6. ASSUME NEW up
      PROVE  Nearest(a, d, up) \in Int /\ Near(d, 1, Nearest(a, d, up), a)
  BY <1>2, <1>5
<1> QED
  BY <1>3, <1>4, <1>5, <1>6

LEMMA NearIsWide ==
  ASSUME NEW d \in Nat, NEW j \in Nat, NEW k \in Nat, j <= k,
         NEW r \in Int, NEW a \in Int, Near(d, j, r, a)
  PROVE  Near(d, k, r, a)
<1>1. d * j \in Int /\ d * k \in Int /\ d * r \in Int
  OBVIOUS
<1>2. d * k = d * j + d * (k - j) /\ d * (k - j) >= 0
  OBVIOUS
<1> QED
  BY <1>1, <1>2 DEF Near

LEMMA NearIsWithin ==
  ASSUME NEW d \in Nat \ {0}, NEW k \in Nat, NEW a \in Int, NEW b \in Int,
         NEW e \in Nat, a - b <= e, b - a <= e,
         NEW r \in Int, NEW s \in Int, Near(d, k, r, a), Near(d, k, s, b)
  PROVE  d * (Abs(r - s) - k) <= e
<1>1. /\ 2 * (d * r) - 2 * (d * s) <= 2 * (d * k) + 2 * e
      /\ 2 * (d * s) - 2 * (d * r) <= 2 * (d * k) + 2 * e
      /\ d * r \in Int /\ d * s \in Int /\ d * k \in Int
  BY DEF Near
<1>2. /\ d * (r - s - k) = d * r - d * s - d * k
      /\ d * (s - r - k) = d * s - d * r - d * k
  OBVIOUS
<1>3. d * (r - s - k) <= e /\ d * (s - r - k) <= e
  BY <1>1, <1>2
<1>4. Abs(r - s) = r - s \/ Abs(r - s) = s - r
  BY DEF Abs
<1> QED
  BY <1>3, <1>4

LEMMA NearIsClose ==
  ASSUME NEW d \in Nat \ {0}, NEW k \in Nat, NEW a \in Int,
         NEW r \in Int, NEW s \in Int, Near(d, k, r, a), Near(d, k, s, a)
  PROVE  Abs(r - s) <= k
<1>1. d * (Abs(r - s) - k) <= 0
  BY NearIsWithin
<1>2. Abs(r - s) \in Int
  BY DEF Abs
<1>3. \A j \in Int : d * j <= 0 => j <= 0
  OBVIOUS
<1>4. Abs(r - s) - k <= 0
  BY <1>1, <1>2, <1>3
<1> QED
  BY <1>2, <1>4

-----------------------------------------------------------------------------
(* One part absorbs the difference.                                        *)

LEMMA Absorbs ==
  ASSUME NEW D, IsFiniteSet(D), NEW rest, DOMAIN rest = D,
         \A x \in D : rest[x] \in Int, NEW m0 \in D, NEW amount \in Int
  PROVE  /\ DOMAIN Absorb(amount, rest, m0) = D
         /\ \A m \in D : /\ Absorb(amount, rest, m0)[m] \in Int
                         /\ m # m0 => Absorb(amount, rest, m0)[m] = rest[m]
         /\ Absorb(amount, rest, m0)[m0] = amount - Sum(rest, D \ {m0})
         /\ Sum(rest, D \ {m0}) \in Int
<1> DEFINE f == Absorb(amount, rest, m0)
           others == D \ {m0}
<1>1. IsFiniteSet(others) /\ Sum(rest, others) \in Int
  BY FS_RemoveElement, SumIsInt
<1>2. /\ DOMAIN f = D
      /\ \A m \in D : m # m0 => f[m] = rest[m]
      /\ f[m0] = amount - Sum(rest, others)
  BY DEF Absorb
<1> HIDE DEF f
<1>3. \A m \in D : f[m] \in Int
  BY <1>1, <1>2
<1> QED
  BY <1>1, <1>2, <1>3 DEF f

LEMMA AbsorbSums ==
  ASSUME NEW D, IsFiniteSet(D), NEW rest, DOMAIN rest = D,
         \A x \in D : rest[x] \in Int, NEW m0 \in D, NEW amount \in Int
  PROVE  Sum(Absorb(amount, rest, m0), D) = amount
<1> DEFINE f == Absorb(amount, rest, m0)
           others == D \ {m0}
<1>1. /\ \A m \in D : f[m] \in Int /\ (m # m0 => f[m] = rest[m])
      /\ f[m0] = amount - Sum(rest, others)
      /\ Sum(rest, others) \in Int
  BY Absorbs
<1>2. IsFiniteSet(others)
  BY FS_RemoveElement
<1> HIDE DEF f
<1>3. Sum(f, D) = f[m0] + Sum(f, others)
  BY <1>1, SumTakes
<1>4. Sum(rest, others) = Sum(f, others)
  BY <1>1, <1>2, SumCongruent
<1>5. amount - Sum(rest, others) + Sum(rest, others) = amount
  BY <1>1
<1>6. Sum(f, D) = amount
  BY <1>1, <1>3, <1>4, <1>5
<1> QED
  BY <1>6 DEF f

\* If the exact parts add up to the amount, the absorbing one is as near to
\* its exact part as the others together are to theirs; if they add up to more
\* or less, it takes the difference.
LEMMA AbsorbIsWithin ==
  ASSUME NEW D, IsFiniteSet(D), NEW n, n = Cardinality(D), n >= 2,
         NEW d \in Nat \ {0}, NEW amount \in Int, NEW e \in Int,
         NEW a, \A x \in D : a[x] \in Int, Sum(a, D) = d * amount + e,
         NEW rest, DOMAIN rest = D,
         \A x \in D : rest[x] \in Int /\ Near(d, 1, rest[x], a[x]),
         NEW m0 \in D, NEW m \in D
  PROVE  Near(d, n - 1, Absorb(amount, rest, m0)[m], IF m = m0 THEN a[m] - e ELSE a[m])
<1> DEFINE f == Absorb(amount, rest, m0)
           others == D \ {m0}
           R == Sum(rest, others)
           A == Sum(a, others)
<1>0. \A x \in D : rest[x] \in Int /\ a[x] \in Int
  OBVIOUS
<1>1. /\ f[m0] = amount - R /\ R \in Int
      /\ m # m0 => f[m] = rest[m]
  <2>1. IsFiniteSet(others)
    BY FS_RemoveElement
  <2>2. R \in Int
    BY <1>0, <2>1, SumIsInt
  <2>3. f[m0] = amount - R /\ (m # m0 => f[m] = rest[m])
    BY DEF Absorb
  <2> QED
    BY <2>2, <2>3
<1>2. IsFiniteSet(others) /\ Cardinality(others) = n - 1 /\ n \in Nat
  BY FS_RemoveElement, FS_CardinalityType
<1>3. A \in Int /\ Sum(a, D) = a[m0] + A /\ a[m0] \in Int
  BY <1>0, <1>2, SumTakes, SumIsInt
<1>4. Near(d, n - 1, R, A)
  BY <1>2, SumIsNear
<1> HIDE DEF f, R, A, others
<1>5. CASE m = m0
  <2>1. d * (amount - R) = d * amount - d * R
    BY <1>1
  <2>2. d * amount \in Int /\ d * R \in Int /\ d * (n - 1) \in Int
    BY <1>1, <1>2
  <2>3. a[m0] - e = d * amount - A
    BY <1>3, <2>2
  <2>4. Near(d, n - 1, amount - R, a[m0] - e)
    BY <1>1, <1>3, <1>4, <2>1, <2>2, <2>3 DEF Near
  <2> QED
    BY <1>1, <1>5, <2>4 DEF f
<1>6. CASE m # m0
  <2>1. f[m] = rest[m]
    BY <1>1, <1>6
  <2>2. 1 <= n - 1 /\ n - 1 \in Nat
    BY <1>2
  <2>3. Near(d, n - 1, rest[m], a[m])
    BY <2>2, NearIsWide
  <2> QED
    BY <1>6, <2>1, <2>3 DEF f
<1> QED
  BY <1>5, <1>6

LEMMA AbsorbIsNear ==
  ASSUME NEW D, IsFiniteSet(D), NEW n, n = Cardinality(D), n >= 2,
         NEW d \in Nat \ {0}, NEW amount \in Int,
         NEW a, \A x \in D : a[x] \in Int, Sum(a, D) = d * amount,
         NEW rest, DOMAIN rest = D,
         \A x \in D : rest[x] \in Int /\ Near(d, 1, rest[x], a[x]),
         NEW m0 \in D, NEW m \in D
  PROVE  Near(d, n - 1, Absorb(amount, rest, m0)[m], a[m])
<1>1. Sum(a, D) = d * amount + 0 /\ 0 \in Int
  OBVIOUS
<1>2. Near(d, n - 1, Absorb(amount, rest, m0)[m], IF m = m0 THEN a[m] - 0 ELSE a[m])
  BY <1>1, AbsorbIsWithin
<1>3. a[m] - 0 = a[m]
  OBVIOUS
<1> QED
  BY <1>2, <1>3

-----------------------------------------------------------------------------
(* Lists.                                                                  *)

LEMMA MaxIsIn ==
  ASSUME NEW S, IsFiniteSet(S), S # {}, S \subseteq Int
  PROVE  Max(S) \in S
<1> DEFINE B == {T \in SUBSET S : T = {} \/ \E x \in T : \A y \in T : x >= y}
<1>1. {} \in B
  OBVIOUS
<1>2. ASSUME NEW T \in SUBSET S, NEW z \in S \ T, T \in B PROVE T \cup {z} \in B
  <2>1. CASE T = {}
    BY <2>1
  <2>2. CASE T # {}
    <3>1. PICK x \in T : \A y \in T : x >= y
      BY <1>2, <2>2
    <3>2. CASE x >= z
      BY <3>1, <3>2
    <3>3. CASE z >= x
      <4>1. \A y \in T \cup {z} : z >= y
        BY <3>1, <3>3
      <4> QED
        BY <4>1
    <3> QED
      BY <3>2, <3>3
  <2> QED
    BY <2>1, <2>2
<1>3. S \in B
  <2> HIDE DEF B
  <2> QED
    BY <1>1, <1>2, OneByOne
<1>4. \E x \in S : \A y \in S : x >= y
  BY <1>3
<1> QED
  BY <1>4 DEF Max

LEMMA LastOfIsIn ==
  ASSUME NEW P, NEW s \in Seq(P), NEW S, ToSet(s) \cap S # {}
  PROVE  LastOf(s, S) \in ToSet(s) \cap S
<1> DEFINE I == {i \in DOMAIN s : s[i] \in S}
<1>1. DOMAIN s = 1 .. Len(s) /\ Len(s) \in Nat
  OBVIOUS
<1>2. I # {} /\ I \subseteq 1 .. Len(s)
  BY <1>1 DEF ToSet
<1>3. IsFiniteSet(I) /\ I \subseteq Int
  <2>1. IsFiniteSet(1 .. Len(s))
    BY <1>1, FS_Interval
  <2>2. I \in SUBSET (1 .. Len(s)) /\ I \subseteq Int
    BY <1>1, <1>2
  <2> HIDE DEF I
  <2> QED
    BY <2>1, <2>2, FS_Subset
<1>4. Max(I) \in I
  <2> HIDE DEF I
  <2> QED
    BY <1>2, <1>3, MaxIsIn
<1> QED
  BY <1>4 DEF LastOf, ToSet

LEMMA Removes ==
  ASSUME NEW P, NEW s \in Seq(P), IsInjective(s), NEW e
  PROVE  RemoveFirst(s, e) \in Seq(P) /\ IsInjective(RemoveFirst(s, e))
<1>1. CASE ~ \E i \in 1 .. Len(s) : s[i] = e
  BY <1>1 DEF RemoveFirst
<1>2. CASE \E i \in 1 .. Len(s) : s[i] = e
  <2> DEFINE I == {i \in 1 .. Len(s) : s[i] = e}
  <2>0. Len(s) \in Nat /\ \A i \in 1 .. Len(s) : s[i] \in P
    OBVIOUS
  <2>1. PICK k \in I : TRUE
    BY <1>2
  <2>2. I = {k}
    BY <2>0, <2>1 DEF IsInjective
  <2>3. SelectInSeq(s, LAMBDA v : v = e) = k
    <3>1. Min({k}) = k
      BY <2>0, <2>1 DEF Min
    <3>2. SelectInSeq(s, LAMBDA v : v = e) = IF I # {} THEN Min(I) ELSE 0
      BY DEF SelectInSeq
    <3> QED
      BY <2>2, <3>1, <3>2
  <2> DEFINE a == SubSeq(s, 1, k - 1)
             b == SubSeq(s, k + 1, Len(s))
  <2>4. RemoveFirst(s, e) = a \o b
    BY <1>2, <2>3 DEF RemoveFirst, RemoveAt
  <2>5. k \in 1 .. Len(s)
    BY <2>1
  <2>6. /\ a \in Seq(P) /\ Len(a) = k - 1
        /\ \A i \in 1 .. k - 1 : a[i] = s[i]
    <3>1. \A i \in 1 .. k - 1 : s[i] \in P
      BY <2>0, <2>5
    <3>2. 1 \in Int /\ k - 1 \in Int
      BY <2>0, <2>5
    <3>3. /\ SubSeq(s, 1, k - 1) \in Seq(P)
          /\ Len(SubSeq(s, 1, k - 1)) = IF 1 <= k - 1 THEN (k - 1) - 1 + 1 ELSE 0
          /\ \A i \in 1 .. (k - 1) - 1 + 1 : SubSeq(s, 1, k - 1)[i] = s[1 + i - 1]
      BY <3>1, <3>2, SubSeqProperties
    <3> QED
      BY <2>0, <2>5, <3>3
  <2>7. /\ b \in Seq(P) /\ Len(b) = Len(s) - k
        /\ \A i \in 1 .. Len(s) - k : b[i] = s[k + i]
    <3>1. \A i \in k + 1 .. Len(s) : s[i] \in P
      BY <2>0, <2>5
    <3>2. k + 1 \in Int /\ Len(s) \in Int
      BY <2>0, <2>5
    <3>3. /\ SubSeq(s, k + 1, Len(s)) \in Seq(P)
          /\ Len(SubSeq(s, k + 1, Len(s)))
             = IF k + 1 <= Len(s) THEN Len(s) - (k + 1) + 1 ELSE 0
          /\ \A i \in 1 .. Len(s) - (k + 1) + 1 :
               SubSeq(s, k + 1, Len(s))[i] = s[(k + 1) + i - 1]
      BY <3>1, <3>2, SubSeqProperties
    <3> QED
      BY <2>0, <2>5, <3>3
  <2> HIDE DEF a, b
  <2>8. /\ a \o b \in Seq(P) /\ Len(a \o b) = Len(s) - 1
        /\ \A i \in 1 .. Len(s) - 1 :
             (a \o b)[i] = IF i <= k - 1 THEN s[i] ELSE s[i + 1]
    <3>1. /\ a \o b \in Seq(P) /\ Len(a \o b) = Len(a) + Len(b)
          /\ \A i \in 1 .. Len(a) + Len(b) :
               (a \o b)[i] = IF i <= Len(a) THEN a[i] ELSE b[i - Len(a)]
      BY <2>6, <2>7, ConcatProperties
    <3>2. Len(a) + Len(b) = Len(s) - 1
      BY <2>0, <2>5, <2>6, <2>7
    <3>3. ASSUME NEW i \in 1 .. Len(s) - 1
          PROVE  (a \o b)[i] = IF i <= k - 1 THEN s[i] ELSE s[i + 1]
      <4>1. (a \o b)[i] = IF i <= k - 1 THEN a[i] ELSE b[i - (k - 1)]
        BY <2>6, <3>1, <3>2
      <4>2. i <= k - 1 => a[i] = s[i]
        BY <2>5, <2>6
      <4>3. ~(i <= k - 1) => b[i - (k - 1)] = s[i + 1]
        <5> SUFFICES ASSUME ~(i <= k - 1) PROVE b[i - (k - 1)] = s[i + 1]
          OBVIOUS
        <5>1. i - (k - 1) \in 1 .. Len(s) - k /\ k + (i - (k - 1)) = i + 1
          BY <2>0, <2>5
        <5> QED
          BY <2>7, <5>1
      <4> QED
        BY <4>1, <4>2, <4>3
    <3> QED
      BY <3>1, <3>2, <3>3
  <2>9. IsInjective(a \o b)
    <3>1. DOMAIN (a \o b) = 1 .. Len(s) - 1
      BY <2>8
    <3> SUFFICES ASSUME NEW i \in 1 .. Len(s) - 1, NEW j \in 1 .. Len(s) - 1,
                        (a \o b)[i] = (a \o b)[j]
                 PROVE  i = j
      BY <3>1 DEF IsInjective
    <3>2. \A x, y \in 1 .. Len(s) : s[x] = s[y] => x = y
      BY DEF IsInjective
    <3>3. (IF i <= k - 1 THEN s[i] ELSE s[i + 1]) = IF j <= k - 1 THEN s[j] ELSE s[j + 1]
      BY <2>8
    <3>4. /\ i \in 1 .. Len(s) /\ i + 1 \in 1 .. Len(s)
          /\ j \in 1 .. Len(s) /\ j + 1 \in 1 .. Len(s)
      BY <2>0
    <3> QED
      BY <2>0, <2>5, <3>2, <3>3, <3>4
  <2> QED
    BY <2>4, <2>8, <2>9
<1> QED
  BY <1>1, <1>2

LEMMA Appends ==
  ASSUME NEW P, NEW s \in Seq(P), IsInjective(s), NEW m \in P, m \notin ToSet(s)
  PROVE  Append(s, m) \in Seq(P) /\ IsInjective(Append(s, m))
<1>1. Len(s) \in Nat /\ DOMAIN s = 1 .. Len(s)
  OBVIOUS
<1>2. /\ Append(s, m) \in Seq(P) /\ Len(Append(s, m)) = Len(s) + 1
      /\ \A i \in 1 .. Len(s) : Append(s, m)[i] = s[i]
      /\ Append(s, m)[Len(s) + 1] = m
  BY AppendProperties
<1>3. \A i \in 1 .. Len(s) : s[i] # m
  BY <1>1 DEF ToSet
<1>4. DOMAIN Append(s, m) = 1 .. Len(s) + 1
  BY <1>2
<1>5. \A i \in 1 .. Len(s) + 1 : i \in 1 .. Len(s) \/ i = Len(s) + 1
  BY <1>1
<1> QED
  BY <1>1, <1>2, <1>3, <1>4, <1>5 DEF IsInjective

-----------------------------------------------------------------------------
(* Type correctness.                                                       *)

LEMMA ListsAreLists ==
  ASSUME TypeOK
  PROVE  /\ ListOf[group] \in Seq(Person) /\ IsInjective(ListOf[group])
         /\ Listed \subseteq Person /\ Listed # {}
         /\ IsFiniteSet(Listed) /\ Cardinality(Listed) \in Nat \ {0}
<1>1. ListOf[group] \in Seq(Person) /\ IsInjective(ListOf[group]) /\ ListOf[group] # <<>>
  BY SplitEditorAssumption DEF TypeOK
<1>2. Listed \subseteq Person /\ Listed # {}
  <2> DEFINE s == ListOf[group]
  <2>1. Listed = {s[i] : i \in DOMAIN s}
    BY DEF Listed, ToSet
  <2> HIDE DEF s
  <2>2. s \in Seq(Person) /\ s # <<>>
    BY <1>1 DEF s
  <2>3. DOMAIN s = 1 .. Len(s) /\ Len(s) \in Nat \ {0}
    BY <2>2, LenProperties, EmptySeq
  <2>4. \A i \in DOMAIN s : s[i] \in Person
    BY <2>2, <2>3, ElementOfSeq
  <2> QED
    BY <2>1, <2>3, <2>4
<1>3. IsFiniteSet(Listed)
  BY <1>2, FS_Subset, SplitEditorAssumption
<1> QED
  BY <1>1, <1>2, <1>3, FS_CardinalityType, FS_EmptySet

\* Who takes part, is listed or is billed is some set of persons.
LEMMA SetsAreFinite ==
  ASSUME TypeOK
  PROVE  /\ Included \subseteq Listed /\ Listed \subseteq Person
         /\ Members \subseteq Person /\ Entered \subseteq Person
         /\ Lines \subseteq Entered /\ Splits = Lines
         /\ Billed \subseteq Person
         /\ \A S \in SUBSET Person : /\ IsFiniteSet(S) /\ Cardinality(S) \in Nat
                                     /\ \A T \in SUBSET S :
                                          /\ Cardinality(T) <= Cardinality(S)
                                          /\ Cardinality(S) = Cardinality(T) => S = T
<1>1. Listed \subseteq Person /\ Members \subseteq Person
  BY ListsAreLists DEF Members, TypeOK
<1>2. Entered \subseteq Person
  BY DEF TypeOK, Entered, ToSet
<1>3. ASSUME NEW S \in SUBSET Person PROVE IsFiniteSet(S) /\ Cardinality(S) \in Nat
  BY SplitEditorAssumption, FS_Subset, FS_CardinalityType
<1>4. ASSUME NEW S \in SUBSET Person, NEW T \in SUBSET S
      PROVE  Cardinality(T) <= Cardinality(S) /\ (Cardinality(S) = Cardinality(T) => S = T)
  BY <1>3, FS_Subset
<1> QED
  BY <1>1, <1>2, <1>3, <1>4 DEF Included, Lines, Splits, Billed

LEMMA GivenAreNumbers ==
  ASSUME TypeOK
  PROVE  /\ \A m \in Person : given[m] \in Int
         /\ \A S \in SUBSET Person : Sum(given, S) \in Int
         /\ Hundredth \in Nat \ {0} /\ Full \in Nat \ {0} /\ Full = 10000 * Hundredth
         /\ total \in Nat \ {0}
<1>1. \A m \in Person : given[m] \in Int
  BY DEF TypeOK
<1>2. ASSUME NEW S \in SUBSET Person PROVE Sum(given, S) \in Int
  BY <1>1, SetsAreFinite, SumIsInt
<1>3. /\ Hundredth \in Nat \ {0} /\ Full \in Nat \ {0} /\ Full = 10000 * Hundredth
      /\ total \in Nat \ {0}
  BY SplitEditorAssumption DEF TypeOK, Hundredth, Full
<1> QED
  BY <1>1, <1>2, <1>3

LEMMA LastIsBilled ==
  ASSUME TypeOK, type # "equal", Billed # {}
  PROVE  LastOf(order, Splits) \in Billed
<1>1. Billed = Splits /\ Splits \subseteq ToSet(order) /\ order \in Seq(Person)
  BY DEF Billed, Splits, Entered, TypeOK
<1>2. ToSet(order) \cap Splits # {}
  BY <1>1
<1> QED
  BY <1>1, <1>2, LastOfIsIn

\* The parts of a weighted split, before and after one absorbs the rest
Rounded(whole) == [m \in Billed |-> HalfEven(total * given[m], whole)]

LEMMA RoundedIsNear ==
  ASSUME TypeOK, NEW whole \in Nat \ {0}
  PROVE  /\ DOMAIN Rounded(whole) = Billed
         /\ \A m \in Billed :
              /\ total * given[m] \in Int
              /\ Rounded(whole)[m] \in Int
              /\ Near(whole, 1, Rounded(whole)[m], total * given[m])
<1>1. ASSUME NEW m \in Billed
      PROVE  /\ total * given[m] \in Int
             /\ HalfEven(total * given[m], whole) \in Int
             /\ Near(whole, 1, HalfEven(total * given[m], whole), total * given[m])
  <2>1. total * given[m] \in Int
    BY SetsAreFinite, GivenAreNumbers
  <2> DEFINE a == total * given[m]
  <2> HIDE DEF a
  <2>2. HalfEven(a, whole) \in Int /\ Near(whole, 1, HalfEven(a, whole), a)
    BY <2>1, RoundingIsNear DEF a
  <2> QED
    BY <2>1, <2>2 DEF a
<1> QED
  BY <1>1 DEF Rounded

LEMMA WeightedParts ==
  ASSUME TypeOK, type # "equal", Billed # {}, NEW whole \in Nat \ {0}
  PROVE  /\ Weighted(whole) = Absorb(total, Rounded(whole), LastOf(order, Splits))
         /\ DOMAIN Weighted(whole) = Billed
         /\ \A m \in Billed : Weighted(whole)[m] \in Int
         /\ Sum(Weighted(whole), Billed) = total
<1>1. Weighted(whole) = Absorb(total, Rounded(whole), LastOf(order, Splits))
  BY DEF Weighted, Rounded
<1>2. /\ LastOf(order, Splits) \in Billed /\ IsFiniteSet(Billed)
      /\ DOMAIN Rounded(whole) = Billed
      /\ \A m \in Billed : Rounded(whole)[m] \in Int
      /\ total \in Int
  BY LastIsBilled, SetsAreFinite, RoundedIsNear, GivenAreNumbers
<1> DEFINE rest == Rounded(whole)
           m0 == LastOf(order, Splits)
           D == Billed
<1> HIDE DEF rest, m0, D
<1>3. /\ DOMAIN Absorb(total, rest, m0) = D
      /\ \A m \in D : Absorb(total, rest, m0)[m] \in Int
      /\ Sum(Absorb(total, rest, m0), D) = total
  <2>1. /\ m0 \in D /\ IsFiniteSet(D) /\ DOMAIN rest = D
        /\ \A m \in D : rest[m] \in Int
    BY <1>2 DEF rest, m0, D
  <2>2. total \in Int
    BY <1>2
  <2>3. Sum(Absorb(total, rest, m0), D) = total
    BY <2>1, <2>2, AbsorbSums
  <2>4. DOMAIN Absorb(total, rest, m0) = D
    BY <2>1 DEF Absorb
  <2>5. \A m \in D : Absorb(total, rest, m0)[m] \in Int
    BY <2>1, <2>2, Absorbs
  <2> QED
    BY <2>3, <2>4, <2>5
<1> QED
  BY <1>1, <1>3 DEF rest, m0, D

\* calculate_equal_split's part of each, and what the payer adds to it
Each == HalfUp(total, Cardinality(Billed))

LEMMA EqualPartsAre ==
  ASSUME TypeOK, Cardinality(Billed) >= 2
  PROVE  /\ Cardinality(Billed) \in Nat \ {0}
         /\ Each \in Int /\ Near(Cardinality(Billed), 1, Each, total)
         /\ DOMAIN EqualParts = Billed
         /\ \A m \in Billed : /\ EqualParts[m] \in Int
                              /\ m # payer => EqualParts[m] = Each
         /\ payer \in Billed =>
              EqualParts[payer] = Each + (total - Each * Cardinality(Billed))
<1> DEFINE n == Cardinality(Billed)
<1>1. n \in Nat \ {0} /\ total \in Int
  BY SetsAreFinite, GivenAreNumbers
<1>2. Each \in Int /\ Near(n, 1, Each, total)
  <2> HIDE DEF n
  <2> QED
    BY <1>1, RoundingIsNear DEF Each, n
<1>3. EqualParts = [m \in Billed |-> IF m = payer THEN Each + (total - Each * n) ELSE Each]
  BY DEF EqualParts, Each
<1>4. Each + (total - Each * n) \in Int
  BY <1>1, <1>2
<1> HIDE DEF n
<1>5. /\ DOMAIN EqualParts = Billed
      /\ \A m \in Billed : EqualParts[m] \in Int /\ (m # payer => EqualParts[m] = Each)
      /\ payer \in Billed => EqualParts[payer] = Each + (total - Each * n)
  BY <1>2, <1>3, <1>4
<1> QED
  BY <1>1, <1>2, <1>5 DEF n

\* What the server stores is a number for everybody it bills.
LEMMA PartsAreNumbers ==
  ASSUME TypeOK, Accepts
  PROVE  DOMAIN Parts = Billed /\ \A m \in Billed : Parts[m] \in Int
<1>1. Cardinality(Billed) >= 2 /\ Billed # {}
  BY FS_EmptySet DEF Accepts
<1>2. type \in Types
  BY DEF TypeOK
<1>3. CASE type = "equal"
  BY <1>1, <1>3, EqualPartsAre DEF Parts
<1>4. CASE type = "unequal"
  <2>1. Parts = [m \in Billed |-> given[m] \div Hundredth]
    BY <1>4 DEF Parts
  <2>2. \A i \in Int, d \in Nat \ {0} : i \div d \in Int
    OBVIOUS
  <2>3. \A m \in Billed : given[m] \in Int /\ Hundredth \in Nat \ {0}
    BY SetsAreFinite, GivenAreNumbers
  <2>4. \A m \in Billed : given[m] \div Hundredth \in Int
    BY <2>2, <2>3
  <2> QED
    BY <2>1, <2>4
<1>5. CASE type = "percentage"
  <2>1. Parts = Weighted(Full) /\ Full \in Nat \ {0}
    BY <1>5, GivenAreNumbers DEF Parts
  <2> QED
    BY <1>1, <1>5, <2>1, WeightedParts
<1>6. CASE type = "shares"
  <2>1. Parts = Weighted(SharesBilled) /\ SharesBilled \in Nat \ {0}
    BY <1>6, SetsAreFinite, GivenAreNumbers DEF Parts, SharesBilled, Accepts
  <2> QED
    BY <1>1, <1>6, <2>1, WeightedParts
<1> QED
  BY <1>2, <1>3, <1>4, <1>5, <1>6 DEF Types

\* Whatever is not a Confirm or a Join clears the answer.
LEMMA OnlyConfirmStores ==
  ASSUME Next
  PROVE  answer'.kind = "none" \/ Confirm
BY DEF Next, ChooseType, Toggle, SetPayer, Join, Enter, SetTotal, ChangeGroup,
       Editing, NoAnswer

LEMMA SeedsAreTyped ==
  ASSUME TypeOK, NEW t, Seed(t)
  PROVE  given' \in [Person -> Nat] /\ order' \in Seq(Person) /\ IsInjective(order')
<1>1. SeedValue(t) \in Nat
  <2>1. \A a \in Nat, d \in Nat \ {0} : a \div d \in Nat
    OBVIOUS
  <2>2. Full \in Nat /\ Cardinality(Listed) \in Nat \ {0}
    BY ListsAreLists, GivenAreNumbers
  <2> QED
    BY <2>1, <2>2, Zenon DEF SeedValue
<1>2. given' \in [Person -> Nat]
  BY <1>1 DEF Seed
<1>3. order' = ListOf[group] \/ order' = <<>>
  BY DEF Seed
<1>4. <<>> \in Seq(Person) /\ IsInjective(<<>>)
  BY DEF IsInjective
<1> QED
  BY <1>2, <1>3, <1>4, ListsAreLists

LEMMA EntriesAreTyped ==
  ASSUME TypeOK, NEW m \in Person, NEW v \in Nat
  PROVE  Entry(m, v) \/ NoEntry(m) =>
           /\ given' \in [Person -> Nat]
           /\ order' \in Seq(Person) /\ IsInjective(order')
<1>1. given \in [Person -> Nat] /\ order \in Seq(Person) /\ IsInjective(order)
  BY DEF TypeOK
<1>2. CASE Entry(m, v)
  <2>1. given' \in [Person -> Nat]
    BY <1>1, <1>2 DEF Entry
  <2>2. CASE m \in ToSet(order)
    BY <1>1, <1>2, <2>1, <2>2 DEF Entry, Placed, Entered
  <2>3. CASE m \notin ToSet(order)
    <3>1. order' = Append(order, m)
      BY <1>2, <2>3 DEF Entry, Placed, Entered
    <3> QED
      BY <1>1, <2>1, <2>3, <3>1, Appends
  <2> QED
    BY <2>2, <2>3
<1>3. CASE NoEntry(m)
  <2>1. given' \in [Person -> Nat] /\ order' = RemoveFirst(order, m)
    BY <1>1, <1>3 DEF NoEntry
  <2> QED
    BY <1>1, <2>1, Removes
<1> QED
  BY <1>2, <1>3

LEMMA InitTyped == Init => TypeOK
<1> SUFFICES ASSUME Init PROVE TypeOK
  OBVIOUS
<1>1. ListOf[group] \in Seq(Person) /\ Listed \subseteq Person
  BY SplitEditorAssumption DEF Init, Listed, ToSet
<1>2. <<>> \in Seq(Person) /\ IsInjective(<<>>)
  BY DEF IsInjective
<1> QED
  BY <1>1, <1>2 DEF Init, TypeOK, Types, NoAnswer

LEMMA ConfirmTyped == ASSUME TypeOK, Confirm PROVE TypeOK'
<1>1. UNCHANGED <<group, joined, total, payer, type, excluded, given, order>>
  BY DEF Confirm
<1>2. /\ answer'.kind \in {"none", "refused", "stored"}
      /\ answer'.kind = "stored" =>
           /\ DOMAIN answer'.parts \subseteq Person
           /\ \A m \in DOMAIN answer'.parts : answer'.parts[m] \in Int
  <2>1. CASE Accepts
    <3>1. answer' = [kind |-> "stored", parts |-> Parts]
      BY <2>1 DEF Confirm
    <3>2. answer'.kind = "stored" /\ answer'.parts = Parts
      BY <3>1
    <3> QED
      BY <2>1, <3>2, PartsAreNumbers, SetsAreFinite
  <2>2. CASE ~Accepts
    BY <2>2 DEF Confirm, Refusal
  <2> QED
    BY <2>1, <2>2
<1> QED
  BY <1>1, <1>2 DEF TypeOK, Listed

LEMMA EnterTyped ==
  ASSUME TypeOK, NEW m \in Person, type # "equal", NEW v \in Typed[type], Enter(m, v)
  PROVE  TypeOK'
<1>1. type \in {"unequal", "percentage", "shares"} /\ v \in Nat
  BY SplitEditorAssumption DEF TypeOK, Types
<1>2. Entry(m, v) \/ NoEntry(m) \/ Seed(type)
  BY DEF Enter, SetCustomAmount, SetPercentage, SetShare
<1>3. given' \in [Person -> Nat] /\ order' \in Seq(Person) /\ IsInjective(order')
  BY <1>1, <1>2, EntriesAreTyped, SeedsAreTyped
<1> QED
  BY <1>3 DEF Enter, Editing, NoAnswer, TypeOK, Listed

LEMMA NextTyped == ASSUME TypeOK, Next PROVE TypeOK'
<1>1. ASSUME NEW t \in Types, ChooseType(t) PROVE TypeOK'
  <2>1. given' \in [Person -> Nat] /\ order' \in Seq(Person) /\ IsInjective(order')
    BY <1>1, SeedsAreTyped DEF ChooseType
  <2> QED
    BY <1>1, <2>1 DEF ChooseType, Editing, NoAnswer, TypeOK, Listed
<1>2. ASSUME NEW m \in Person, Toggle(m) PROVE TypeOK'
  BY <1>2 DEF Toggle, Flipped, Editing, NoAnswer, TypeOK, Listed
<1>3. ASSUME NEW m \in Person, SetPayer(m) PROVE TypeOK'
  BY <1>3 DEF SetPayer, Editing, NoAnswer, TypeOK, Listed
<1>4. ASSUME NEW m \in Person, Join(m) PROVE TypeOK'
  BY <1>4 DEF Join, Members, TypeOK, Listed
<1>5. ASSUME NEW m \in Person, type # "equal", NEW v \in Typed[type], Enter(m, v)
      PROVE  TypeOK'
  BY <1>5, EnterTyped
<1>6. ASSUME NEW v \in Total, SetTotal(v) PROVE TypeOK'
  BY <1>6 DEF SetTotal, Editing, NoAnswer, TypeOK, Listed
<1>7. ASSUME NEW g \in Group, ChangeGroup(g) PROVE TypeOK'
  BY <1>7 DEF ChangeGroup, Editing, NoAnswer, TypeOK, Listed
<1>8. CASE Confirm
  BY <1>8, ConfirmTyped
<1> QED
  BY <1>1, <1>2, <1>3, <1>4, <1>5, <1>6, <1>7, <1>8 DEF Next

\* Every variable keeps its type; in particular nobody has two entries,
\* whichever are typed and cleared, and whatever is stored is a number.
THEOREM TypeCorrect == Spec => []TypeOK
<1>1. TypeOK /\ UNCHANGED vars => TypeOK'
  BY DEF vars, TypeOK, Listed
<1> QED
  BY <1>1, InitTyped, NextTyped, PTL DEF Spec

-----------------------------------------------------------------------------
(* What Confirm finds when the editor calls the split valid.               *)

\* Two at least take part, whoever else is on the list of exclusions.
LEMMA TwoTakePart ==
  ASSUME TypeOK, NEW edge, Valid(edge)
  PROVE  Cardinality(Included) >= 2
<1>1. IsFiniteSet(Listed) /\ IsFiniteSet(excluded)
  BY SetsAreFinite, ListsAreLists DEF TypeOK
<1>2. Cardinality(Included) = Cardinality(Listed) - Cardinality(Listed \cap excluded)
  BY <1>1, FS_Difference DEF Included
<1>3. /\ Cardinality(Listed \cap excluded) <= Cardinality(excluded)
      /\ IsFiniteSet(Listed \cap excluded)
  BY <1>1, FS_Intersection
<1>4. /\ Cardinality(Listed) \in Nat /\ Cardinality(excluded) \in Nat
      /\ Cardinality(Listed \cap excluded) \in Nat
  BY <1>1, <1>3, FS_CardinalityType
<1> QED
  BY <1>2, <1>3, <1>4 DEF Valid

\* Unless the entries are of another group, those of the request are exactly
\* the members who take part.
LEMMA EntriesOfIncluded ==
  ASSUME TypeOK, NEW edge, Valid(edge), type # "equal", Entered \subseteq Listed \/ Billed \subseteq Listed
  PROVE  Billed = Included
<1>1. Billed = Lines /\ Lines = Entered \ excluded /\ Lines \subseteq Included
  BY SetsAreFinite DEF Billed, Lines, Included
<1>2. type \in {"unequal", "percentage", "shares"}
  BY DEF TypeOK, Types
<1>3. CASE EveryoneEntered
  BY <1>1, <1>3 DEF EveryoneEntered, Included
<1>4. CASE type = "percentage"
  <2>1. Cardinality(Lines) = Cardinality(Included)
    BY <1>4 DEF Valid
  <2>2. Included \in SUBSET Person /\ Lines \in SUBSET Included
    BY <1>1, SetsAreFinite
  <2> QED
    BY <1>1, <2>1, <2>2, SetsAreFinite
<1> QED
  BY <1>2, <1>3, <1>4 DEF Valid

\* Off by less than a hundredth, or by a hundredth.
LEMMA SumsAreClose ==
  ASSUME TypeOK, NEW edge, NEW whole \in Int, SumsTo(whole, edge),
         Lines \in SUBSET Person
  PROVE  Abs(Sum(given, Lines) - whole) <= Hundredth
<1>1. Sum(given, Lines) \in Int /\ Hundredth \in Int
  BY GivenAreNumbers
<1>2. Abs(Sum(given, Lines) - whole) \in Int
  BY <1>1 DEF Abs
<1> QED
  BY <1>1, <1>2 DEF SumsTo

LEMMA ValidIsAccepted0 ==
  ASSUME TypeOK, NEW edge, Valid(edge), ~LeftOver, ~Finer
  PROVE  Accepts
<1>1. payer \in Listed /\ excluded \subseteq Listed /\ Entered \subseteq Listed
  BY DEF LeftOver
<1>2. payer \in Members /\ excluded \subseteq Members
  BY <1>1 DEF Members
<1>3. Billed \subseteq Members /\ Billed \in SUBSET Person /\ Included \subseteq Billed
  <2>1. CASE type = "equal"
    BY <2>1, SetsAreFinite DEF Billed, Included, Members
  <2>2. CASE type # "equal"
    BY <1>1, <2>2, EntriesOfIncluded, SetsAreFinite DEF Included, Members
  <2> QED
    BY <2>1, <2>2
<1>4. Cardinality(Billed) >= 2
  <2>1. Included \in SUBSET Billed
    BY <1>3
  <2>2. Cardinality(Included) <= Cardinality(Billed)
    BY <1>3, <2>1, SetsAreFinite
  <2>3. Cardinality(Included) \in Nat /\ Cardinality(Billed) \in Nat
    BY <1>3, <2>1, SetsAreFinite
  <2> QED
    BY <2>2, <2>3, TwoTakePart
<1>5. type \in Types
  BY DEF TypeOK
<1>6. CASE type = "equal"
  BY <1>2, <1>3, <1>4, <1>6 DEF Accepts
<1>7. CASE type = "unequal"
  <2>1. SumsTo(total * Hundredth, edge) /\ Billed = Lines
    BY <1>7, SetsAreFinite DEF Valid, Billed
  <2>2. total * Hundredth \in Int
    BY GivenAreNumbers
  <2>3. Abs(Sum(given, Billed) - total * Hundredth) <= Hundredth
    BY <1>3, <2>1, <2>2, SumsAreClose
  <2>4. TwoDecimals
    BY <1>7 DEF Finer
  <2> QED
    BY <1>2, <1>3, <1>4, <1>7, <2>3, <2>4 DEF Accepts
<1>8. CASE type = "percentage"
  <2>1. SumsTo(Full, edge) /\ Billed = Lines
    BY <1>8, SetsAreFinite DEF Valid, Billed
  <2>2. Abs(Sum(given, Billed) - Full) <= Hundredth
    BY <1>3, <2>1, GivenAreNumbers, SumsAreClose
  <2>3. TwoDecimals
    BY <1>8 DEF Finer
  <2> QED
    BY <1>2, <1>3, <1>4, <1>8, <2>2, <2>3 DEF Accepts
<1>9. CASE type = "shares"
  <2>1. Billed = Included
    BY <1>1, <1>9, EntriesOfIncluded
  <2>2. Sum(given, Billed) > 0
    BY <1>9, <2>1 DEF Valid
  <2> QED
    BY <1>2, <1>3, <1>4, <1>9, <2>2 DEF Accepts
<1> QED
  BY <1>5, <1>6, <1>7, <1>8, <1>9 DEF Types

\* What a Confirm answers
LEMMA ConfirmAnswers ==
  ASSUME Confirm
  PROVE  /\ \E edge \in BOOLEAN : Valid(edge)
         /\ UNCHANGED <<group, joined, total, payer, type, excluded, given, order>>
         /\ answer'.kind = "stored" => Accepts /\ answer'.parts = Parts
         /\ answer'.kind = "refused" => ~Accepts
BY DEF Confirm, Refusal

LEMMA ConfirmAccepts == ASSUME TypeOK, Confirm PROVE ValidIsAccepted'
<1>1. LeftOver' = LeftOver /\ Finer' = Finer
  BY ConfirmAnswers DEF LeftOver, Finer, TwoDecimals, Splits, Entered, Listed
<1> QED
  BY <1>1, ConfirmAnswers, ValidIsAccepted0 DEF ValidIsAccepted

\* What the editor lets through, the server takes, but for state left from
\* another group and for amounts and percentages of more than two decimals.
THEOREM ValidAccepted == Spec => []ValidIsAccepted
<1>1. Init => ValidIsAccepted
  BY DEF Init, NoAnswer, ValidIsAccepted
<1>2. TypeOK /\ ValidIsAccepted /\ [Next]_vars => ValidIsAccepted'
  <2> SUFFICES ASSUME TypeOK, ValidIsAccepted, [Next]_vars PROVE ValidIsAccepted'
    OBVIOUS
  <2>1. CASE Next
    <3>1. answer'.kind = "none" => ValidIsAccepted'
      BY DEF ValidIsAccepted
    <3> QED
      BY <2>1, <3>1, OnlyConfirmStores, ConfirmAccepts
  <2>2. CASE UNCHANGED vars
    <3>1. LeftOver' = LeftOver /\ Finer' = Finer
      BY <2>2 DEF vars, LeftOver, Finer, TwoDecimals, Splits, Entered, Listed
    <3> QED
      BY <2>2, <3>1 DEF vars, ValidIsAccepted
  <2> QED
    BY <2>1, <2>2
<1> QED
  BY <1>1, <1>2, TypeCorrect, PTL DEF Spec

LEMMA ConfirmBills == ASSUME TypeOK, Confirm PROVE NobodyElsePays'
<1> SUFFICES ASSUME Stored'
             PROVE  \/ DOMAIN answer'.parts = Included'
                    \/ joined' # {} /\ (type' = "equal" \/ LeftOver')
  BY DEF NobodyElsePays
<1>0. PICK edge \in BOOLEAN : Valid(edge)
  BY ConfirmAnswers
<1>1. Accepts /\ answer'.parts = Parts
  BY ConfirmAnswers DEF Stored
<1>2. DOMAIN answer'.parts = Billed
  BY <1>1, PartsAreNumbers
<1>3. Included' = Included /\ LeftOver' = LeftOver
      /\ joined' = joined /\ type' = type
  BY ConfirmAnswers DEF Included, LeftOver, Entered, Listed
<1>4. CASE joined = {} /\ type = "equal"
  BY <1>2, <1>3, <1>4 DEF Billed, Members, Included
<1>5. CASE joined = {} /\ type # "equal"
  <2>1. Billed \subseteq Listed
    BY <1>1, <1>5 DEF Accepts, Members
  <2> QED
    BY <1>0, <1>1, <1>2, <1>3, <1>5, <2>1, EntriesOfIncluded
<1>6. CASE joined # {} /\ ~(type = "equal" \/ LeftOver)
  <2>1. Entered \subseteq Listed
    BY <1>6 DEF LeftOver
  <2> QED
    BY <1>0, <1>1, <1>2, <1>3, <1>6, <2>1, EntriesOfIncluded
<1> QED
  BY <1>3, <1>4, <1>5, <1>6

\* Everybody who is selected owes a part and nobody else does, but for a
\* member who joined unseen: buildSplitPayload leaves out what was typed for
\* members who were excluded later, and isValid counts what is left.
THEOREM OnlyTheSelectedPay == Spec => []NobodyElsePays
<1>1. Init => NobodyElsePays
  BY DEF Init, NoAnswer, NobodyElsePays, Stored
<1>2. TypeOK /\ NobodyElsePays /\ [Next]_vars => NobodyElsePays'
  <2> SUFFICES ASSUME TypeOK, NobodyElsePays, [Next]_vars PROVE NobodyElsePays'
    OBVIOUS
  <2>1. CASE Next
    <3>1. answer'.kind = "none" => NobodyElsePays'
      BY DEF NobodyElsePays, Stored
    <3> QED
      BY <2>1, <3>1, OnlyConfirmStores, ConfirmBills
  <2>2. CASE UNCHANGED vars
    <3>1. Included' = Included /\ LeftOver' = LeftOver /\ Stored' = Stored
      BY <2>2 DEF vars, LeftOver, Included, Entered, Listed, Stored
    <3> QED
      BY <2>2, <3>1 DEF vars, NobodyElsePays
  <2> QED
    BY <2>1, <2>2
<1> QED
  BY <1>1, <1>2, TypeCorrect, PTL DEF Spec

-----------------------------------------------------------------------------
(* What the server stores adds up.                                         *)

\* Numbers of two decimals, counted in hundredths
LEMMA WholeCents ==
  ASSUME TypeOK, NEW S \in SUBSET Person, \A m \in S : given[m] % Hundredth = 0
  PROVE  /\ Sum(given, S) = Hundredth * Sum([m \in S |-> given[m] \div Hundredth], S)
         /\ Sum([m \in S |-> given[m] \div Hundredth], S) \in Int
<1> DEFINE k == [m \in S |-> given[m] \div Hundredth]
<1>1. /\ IsFiniteSet(S) /\ Hundredth \in Nat \ {0}
      /\ \A m \in S : given[m] \in Int
  BY SetsAreFinite, GivenAreNumbers
<1>2. \A m \in S : k[m] \in Int /\ given[m] = Hundredth * k[m]
  <2> SUFFICES ASSUME NEW m \in S
               PROVE  k[m] \in Int /\ given[m] = Hundredth * k[m]
    OBVIOUS
  <2>1. /\ given[m] \div Hundredth \in Int
        /\ given[m] % Hundredth = 0 => given[m] = Hundredth * (given[m] \div Hundredth)
    <3>1. PICK i \in Int : i = given[m]
      BY <1>1
    <3>2. PICK d \in Nat \ {0} : d = Hundredth
      BY <1>1
    <3>3. i \div d \in Int /\ (i % d = 0 => i = d * (i \div d))
      OBVIOUS
    <3> QED
      BY <3>1, <3>2, <3>3
  <2> QED
    BY <2>1
<1> HIDE DEF k
<1>3. Sum(given, S) = Hundredth * Sum(k, S) /\ Sum(k, S) \in Int
  BY <1>1, <1>2, SumScales, SumIsInt
<1> QED
  BY <1>3 DEF k

LEMMA PartsSum ==
  ASSUME TypeOK, Accepts
  PROVE  \/ Sum(Parts, Billed) = total
         \/ /\ type = "equal" /\ payer \notin Billed
            /\ Sum(Parts, Billed) \in Int
            /\ 2 * Abs(Sum(Parts, Billed) - total) <= Cardinality(Billed)
         \/ type = "unequal" /\ Abs(Sum(Parts, Billed) - total) = 1
<1>1. Cardinality(Billed) >= 2 /\ Billed # {} /\ IsFiniteSet(Billed)
  BY FS_EmptySet, SetsAreFinite DEF Accepts
<1>2. type \in Types /\ total \in Int
  BY GivenAreNumbers DEF TypeOK
<1>3. CASE type = "equal" /\ payer \in Billed
  <2> DEFINE n == Cardinality(Billed)
             others == Billed \ {payer}
  <2>1. Parts = EqualParts
    BY <1>3 DEF Parts
  <2>2. /\ n \in Nat \ {0} /\ Each \in Int
        /\ \A m \in Billed : EqualParts[m] \in Int
        /\ \A m \in others : EqualParts[m] = Each
        /\ EqualParts[payer] = Each + (total - Each * n)
    BY <1>1, <1>3, EqualPartsAre
  <2>3. IsFiniteSet(others) /\ Cardinality(others) = n - 1
    BY <1>1, <1>3, FS_RemoveElement
  <2>4. Sum(EqualParts, Billed) = EqualParts[payer] + Sum(EqualParts, others)
    BY <1>1, <1>3, <2>2, SumTakes
  <2>5. Sum(EqualParts, others) = Each * (n - 1)
    <3>1. Sum(EqualParts, others) = Each * Cardinality(others)
      <4> HIDE DEF others
      <4> QED
        BY <2>2, <2>3, SumOfEqual
    <3> QED
      BY <2>3, <3>1
  <2>6. Each * (n - 1) = Each * n - Each /\ Each * n \in Int
    <3> HIDE DEF n
    <3> QED
      BY <2>2
  <2>7. Each + (total - Each * n) + (Each * n - Each) = total
    BY <1>2, <2>2, <2>6
  <2> QED
    BY <2>1, <2>2, <2>4, <2>5, <2>6, <2>7
<1>4. CASE type = "equal" /\ payer \notin Billed
  <2> DEFINE n == Cardinality(Billed)
  <2>1. Parts = EqualParts
    BY <1>4 DEF Parts
  <2>2. /\ n \in Nat \ {0} /\ Each \in Int /\ Near(n, 1, Each, total)
        /\ \A m \in Billed : EqualParts[m] = Each
    BY <1>1, <1>4, EqualPartsAre
  <2>3. Sum(EqualParts, Billed) = Each * n
    BY <1>1, <2>2, SumOfEqual
  <2> HIDE DEF n
  <2>4. Each * n = n * Each /\ n * Each \in Int /\ n * 1 = n
    BY <2>2
  <2>5. 2 * Abs(n * Each - total) <= n
    BY <1>2, <2>2, <2>4 DEF Near, Abs
  <2> QED
    BY <1>4, <2>1, <2>3, <2>4, <2>5 DEF n
<1>5. CASE type = "unequal"
  <2>1. Parts = [m \in Billed |-> given[m] \div Hundredth]
    BY <1>5 DEF Parts
  <2>2. /\ \A m \in Billed : given[m] % Hundredth = 0
        /\ Abs(Sum(given, Billed) - total * Hundredth) <= Hundredth
    BY <1>5, SetsAreFinite DEF Accepts, TwoDecimals, Billed
  <2>3. /\ Sum(given, Billed) = Hundredth * Sum(Parts, Billed)
        /\ Sum(Parts, Billed) \in Int
    BY <2>1, <2>2, SetsAreFinite, WholeCents
  <2>4. \A H \in Nat \ {0}, t, c \in Int : Abs(H * c - t * H) <= H => Abs(c - t) <= 1
    <3> SUFFICES ASSUME NEW H \in Nat \ {0}, NEW t \in Int, NEW c \in Int,
                        Abs(H * c - t * H) <= H
                 PROVE  Abs(c - t) <= 1
      OBVIOUS
    <3>1. H * c \in Int /\ t * H \in Int /\ H * (c - t) = H * c - t * H
          /\ H * (t - c) = t * H - H * c
      OBVIOUS
    <3>2. H * (c - t) <= H * 1 /\ H * (t - c) <= H * 1
      BY <3>1 DEF Abs
    <3>3. \A i, j \in Int : H * i <= H * j => i <= j
      OBVIOUS
    <3>4. c - t <= 1 /\ t - c <= 1
      BY <3>2, <3>3
    <3> QED
      BY <3>4 DEF Abs
  <2>5. Abs(Sum(Parts, Billed) - total) <= 1
    BY <1>2, <2>2, <2>3, <2>4, GivenAreNumbers
  <2> QED
    BY <1>2, <1>5, <2>3, <2>5 DEF Abs
<1>6. CASE type = "percentage"
  <2>1. Parts = Weighted(Full) /\ Full \in Nat \ {0}
    BY <1>6, GivenAreNumbers DEF Parts
  <2> QED
    BY <1>1, <1>6, <2>1, WeightedParts
<1>7. CASE type = "shares"
  <2>1. Parts = Weighted(SharesBilled) /\ SharesBilled \in Nat \ {0}
    BY <1>7, SetsAreFinite, GivenAreNumbers DEF Parts, SharesBilled, Accepts
  <2> QED
    BY <1>1, <1>7, <2>1, WeightedParts
<1> QED
  BY <1>2, <1>3, <1>4, <1>5, <1>6, <1>7 DEF Types

LEMMA ConfirmAddsUp == ASSUME TypeOK, Confirm PROVE PartsAddUp'
<1> SUFFICES ASSUME Stored' PROVE PartsAddUp'
  BY DEF PartsAddUp
<1>1. /\ Accepts /\ answer'.parts = Parts
      /\ total' = total /\ type' = type /\ payer' = payer
  BY ConfirmAnswers DEF Stored
<1>2. DOMAIN answer'.parts = Billed
  BY <1>1, PartsAreNumbers
<1>3. Sum(Parts, Billed) = total => Abs(Sum(Parts, Billed) - total) = 0
  BY GivenAreNumbers DEF Abs
<1> DEFINE off == Abs(Sum(Parts, Billed) - total)
<1>4. \/ off = 0
      \/ type = "equal" /\ payer \notin Billed /\ 2 * off <= Cardinality(Billed)
      \/ type = "unequal" /\ off = 1
  BY <1>1, <1>3, PartsSum
<1>5. Off' = off
  BY <1>1, <1>2 DEF Off
<1> QED
  BY <1>1, <1>2, <1>4, <1>5 DEF PartsAddUp

\* The parts stored add up to the amount, but for an equal split without the
\* payer, which loses or gains half a cent for each at most, and for amounts
\* typed by hand, which may be a cent off: the other calculate_ functions let
\* one person take what the others leave.
THEOREM PartsSumToTotal == Spec => []PartsAddUp
<1>1. Init => PartsAddUp
  BY DEF Init, NoAnswer, PartsAddUp, Stored
<1>2. TypeOK /\ PartsAddUp /\ [Next]_vars => PartsAddUp'
  <2> SUFFICES ASSUME TypeOK, PartsAddUp, [Next]_vars PROVE PartsAddUp'
    OBVIOUS
  <2>1. CASE Next
    <3>1. answer'.kind = "none" => PartsAddUp'
      BY DEF PartsAddUp, Stored
    <3> QED
      BY <2>1, <3>1, OnlyConfirmStores, ConfirmAddsUp
  <2>2. CASE UNCHANGED vars
    BY <2>2 DEF vars, PartsAddUp, Off, Stored
  <2> QED
    BY <2>1, <2>2
<1> QED
  BY <1>1, <1>2, TypeCorrect, PTL DEF Spec

-----------------------------------------------------------------------------
(* What was shown is what is stored, to within a cent for every person.    *)

\* splitAmounts and calculate_percentage_split or calculate_shares_split, with
\* different ties and another one to absorb the rest, which includes what the
\* weights leave of the whole
LEMMA WeightedIsClose ==
  ASSUME TypeOK, type # "equal", NEW n, n = Cardinality(Billed), n >= 2,
         NEW whole \in Nat \ {0}, NEW e \in Int,
         total * Sum(given, Billed) = whole * total + e,
         NEW rest, DOMAIN rest = Billed,
         \A m \in Billed : \E up : rest[m] = Nearest(total * given[m], whole, up),
         NEW m0 \in Billed, NEW m \in Billed
  PROVE  /\ whole * (Abs(Absorb(total, rest, m0)[m] - Weighted(whole)[m]) - n) <= Abs(e)
         /\ Abs(Absorb(total, rest, m0)[m] - Weighted(whole)[m]) \in Int
<1> DEFINE D == Billed
           a == [x \in D |-> total * given[x]]
           m1 == LastOf(order, Splits)
<1>1. /\ IsFiniteSet(D) /\ D # {} /\ n \in Nat /\ total \in Int
      /\ \A x \in D : given[x] \in Int
  BY SetsAreFinite, GivenAreNumbers
<1>2. \A x \in D : total * given[x] \in Int
  BY <1>1
<1>3. \A x \in D : a[x] \in Int /\ a[x] = total * given[x]
  BY <1>2
<1>4. \A x \in D : rest[x] \in Int /\ Near(whole, 1, rest[x], a[x])
  <2> SUFFICES ASSUME NEW x \in D PROVE rest[x] \in Int /\ Near(whole, 1, rest[x], a[x])
    OBVIOUS
  <2>1. PICK up : rest[x] = Nearest(a[x], whole, up)
    BY <1>3
  <2> QED
    <3>1. PICK i \in Int : i = a[x]
      BY <1>3
    <3>2. Nearest(i, whole, up) \in Int /\ Near(whole, 1, Nearest(i, whole, up), i)
      BY RoundingIsNear
    <3> QED
      BY <2>1, <3>1, <3>2
<1>5. \A x \in D : /\ Rounded(whole)[x] \in Int
                   /\ Near(whole, 1, Rounded(whole)[x], a[x])
  BY <1>3, RoundedIsNear
<1> HIDE DEF a
<1>6. Sum(a, D) = whole * total + e
  <2>1. Sum(a, D) = total * Sum(given, D)
    BY <1>1, <1>3, SumScales
  <2> QED
    BY <2>1
<1>7. DOMAIN Rounded(whole) = D /\ m1 \in D
  BY <1>1, RoundedIsNear, LastIsBilled
<1>8. Weighted(whole)[m] = Absorb(total, Rounded(whole), m1)[m]
  BY <1>1, WeightedParts
<1>9. /\ Absorb(total, rest, m0)[m] \in Int
      /\ Absorb(total, Rounded(whole), m1)[m] \in Int
  <2> HIDE DEF D, m1
  <2>1. m0 \in D /\ m \in D /\ DOMAIN rest = D
    BY DEF D
  <2>2. PICK amount \in Int : amount = total
    BY <1>1
  <2>3. Absorb(amount, rest, m0)[m] \in Int
    BY <1>1, <1>4, <2>1, Absorbs
  <2>4. Absorb(amount, Rounded(whole), m1)[m] \in Int
    BY <1>1, <1>5, <1>7, <2>1, Absorbs
  <2> QED
    BY <2>2, <2>3, <2>4
<1>10. Near(whole, n - 1, Absorb(total, rest, m0)[m], IF m = m0 THEN a[m] - e ELSE a[m])
  BY <1>1, <1>3, <1>4, <1>6, AbsorbIsWithin
<1>11. Near(whole, n - 1, Absorb(total, Rounded(whole), m1)[m],
            IF m = m1 THEN a[m] - e ELSE a[m])
  <2> HIDE DEF m1
  <2> QED
    BY <1>1, <1>3, <1>5, <1>6, <1>7, AbsorbIsWithin
<1>12. whole * (Abs(Absorb(total, rest, m0)[m] - Absorb(total, Rounded(whole), m1)[m])
                  - (n - 1)) <= Abs(e)
  <2> DEFINE b0 == IF m = m0 THEN a[m] - e ELSE a[m]
             b1 == IF m = m1 THEN a[m] - e ELSE a[m]
  <2>1. n - 1 \in Nat /\ a[m] \in Int /\ Abs(e) \in Nat
    BY <1>1, <1>3 DEF Abs
  <2>2. b0 \in Int /\ b1 \in Int /\ b0 - b1 <= Abs(e) /\ b1 - b0 <= Abs(e)
    <3> HIDE DEF m1
    <3> QED
      BY <2>1 DEF Abs
  <2>3. /\ Near(whole, n - 1, Absorb(total, rest, m0)[m], b0)
        /\ Near(whole, n - 1, Absorb(total, Rounded(whole), m1)[m], b1)
    BY <1>10, <1>11
  <2> HIDE DEF b0, b1, m1
  <2> QED
    BY <1>9, <2>1, <2>2, <2>3, NearIsWithin DEF m1
<1>13. \A i, k, w \in Int : w > 0 => w * (i - k) <= w * (i - (k - 1))
  OBVIOUS
<1>14. PICK i \in Int : i = Abs(Absorb(total, rest, m0)[m] - Absorb(total, Rounded(whole), m1)[m])
  BY <1>9 DEF Abs
<1>15. Abs(e) \in Int /\ whole * (i - n) \in Int /\ whole * (i - (n - 1)) \in Int
  BY <1>1 DEF Abs
<1>16. whole * (i - n) <= Abs(e)
  BY <1>1, <1>12, <1>13, <1>14, <1>15
<1> QED
  BY <1>8, <1>14, <1>16

\* The same of the equal split
LEMMA EqualIsClose ==
  ASSUME TypeOK, type = "equal", NEW n, n = Cardinality(Billed), n >= 2,
         NEW up, NEW m0 \in Billed, NEW m \in Billed,
         payer \in Billed => m0 = payer
  PROVE  /\ Abs(Absorb(total, [x \in Billed |-> Nearest(total, n, up)], m0)[m]
                - EqualParts[m]) <= n
         /\ Abs(Absorb(total, [x \in Billed |-> Nearest(total, n, up)], m0)[m]
                - EqualParts[m]) \in Int
<1> DEFINE D == Billed
           a == [x \in D |-> total]
           rest == [x \in D |-> Nearest(total, n, up)]
           same == [x \in D |-> Each]
<1>1. /\ IsFiniteSet(D) /\ n \in Nat \ {0} /\ total \in Int
      /\ Each \in Int /\ Near(n, 1, Each, total)
      /\ \A x \in D : /\ EqualParts[x] \in Int
                      /\ x # payer => EqualParts[x] = Each
      /\ payer \in D => EqualParts[payer] = Each + (total - Each * n)
  BY SetsAreFinite, GivenAreNumbers, EqualPartsAre
<1>2. Nearest(total, n, up) \in Int /\ Near(n, 1, Nearest(total, n, up), total)
  BY <1>1, RoundingIsNear
<1>3. \A x \in D : a[x] \in Int /\ a[x] = total
  BY <1>1
<1>4. \A x \in D : rest[x] \in Int /\ Near(n, 1, rest[x], a[x])
  BY <1>2, <1>3
<1>5. \A x \in D : same[x] \in Int /\ same[x] = Each /\ Near(n, 1, same[x], a[x])
  BY <1>1, <1>3
<1>6. DOMAIN rest = D /\ DOMAIN same = D
  OBVIOUS
<1> HIDE DEF a, rest, same
<1>7. Sum(a, D) = n * total
  <2>1. Sum(a, D) = total * n
    BY <1>1, <1>3, SumOfEqual
  <2> QED
    BY <1>1, <2>1
<1>8. Near(n, n - 1, Absorb(total, rest, m0)[m], total)
  <2>1. PICK d \in Nat \ {0} : d = n
    BY <1>1
  <2>2. Near(d, n - 1, Absorb(total, rest, m0)[m], a[m])
    BY <1>1, <1>3, <1>4, <1>6, <1>7, <2>1, AbsorbIsNear
  <2> QED
    BY <1>3, <2>1, <2>2
<1>9. Absorb(total, rest, m0)[m] \in Int
  <2>1. PICK amount \in Int : amount = total
    BY <1>1
  <2>2. Absorb(amount, rest, m0)[m] \in Int
    BY <1>1, <1>4, <1>6, Absorbs
  <2> QED
    BY <2>1, <2>2
<1>10. Near(n, n - 1, EqualParts[m], total)
  <2>1. CASE m = payer
    <3> DEFINE others == D \ {m}
    <3>1. Near(n, n - 1, Absorb(total, same, m)[m], total)
      <4>1. PICK d \in Nat \ {0} : d = n
        BY <1>1
      <4>2. Near(d, n - 1, Absorb(total, same, m)[m], a[m])
        BY <1>1, <1>3, <1>5, <1>6, <1>7, <4>1, AbsorbIsNear
      <4> QED
        BY <1>3, <4>1, <4>2
    <3>2. Absorb(total, same, m)[m] = total - Sum(same, others)
      BY <1>6 DEF Absorb
    <3>3. IsFiniteSet(others) /\ Cardinality(others) = n - 1
      BY <1>1, FS_RemoveElement
    <3>4. \A x \in others : same[x] = Each
      BY <1>5
    <3> HIDE DEF others
    <3>5. Sum(same, others) = Each * (n - 1)
      BY <1>1, <3>3, <3>4, SumOfEqual
    <3>6. Each + (total - Each * n) = total - Each * (n - 1)
      BY <1>1
    <3> QED
      BY <1>1, <2>1, <3>1, <3>2, <3>5, <3>6
  <2>2. CASE m # payer
    <3>1. 1 <= n - 1 /\ n - 1 \in Nat
      BY <1>1
    <3>2. Near(n, n - 1, Each, total)
      BY <1>1, <3>1, NearIsWide
    <3> QED
      BY <1>1, <2>2, <3>2
  <2> QED
    BY <2>1, <2>2
<1>11. Abs(Absorb(total, rest, m0)[m] - EqualParts[m]) <= n - 1
  <2>1. n - 1 \in Nat /\ EqualParts[m] \in Int
    BY <1>1
  <2> QED
    BY <1>1, <1>8, <1>9, <1>10, <2>1, NearIsClose
<1>12. Abs(Absorb(total, rest, m0)[m] - EqualParts[m]) \in Int
  BY <1>1, <1>9 DEF Abs
<1> QED
  BY <1>1, <1>11, <1>12 DEF rest

LEMMA LastIdIsIn ==
  ASSUME NEW S \in SUBSET Person, S # {}
  PROVE  LastId(S) \in S
<1>1. IsFiniteSet(S)
  BY SplitEditorAssumption, FS_Subset
<1>2. S \subseteq Int
  BY SplitEditorAssumption
<1> QED
  BY <1>1, <1>2, MaxIsIn DEF LastId

LEMMA ShownParts ==
  ASSUME TypeOK, NEW edge, Valid(edge), Accepts, joined = {}, NEW f \in Shown, NEW m \in Included
  PROVE  Full * (Abs(f[m] - Parts[m]) - Cardinality(Included)) <= Slack
<1> DEFINE n == Cardinality(Included)
<1>1. Billed = Included
  <2>1. CASE type = "equal"
    BY <2>1 DEF Billed, Members, Included
  <2>2. CASE type # "equal"
    BY <2>2, EntriesOfIncluded DEF Accepts, Members
  <2> QED
    BY <2>1, <2>2
<1>2. n >= 2 /\ Included # {} /\ IsFiniteSet(Included) /\ n \in Nat /\ ~(n < 2)
  BY TwoTakePart, SetsAreFinite, FS_EmptySet
<1>3. type \in Types /\ m \in Billed /\ n = Cardinality(Billed)
  BY <1>1 DEF TypeOK
<1>0. /\ Full \in Nat \ {0} /\ Hundredth \in Nat \ {0} /\ total \in Nat
      /\ Slack \in Nat
  BY GivenAreNumbers DEF Slack
<1> DEFINE diff == Abs(f[m] - Parts[m])
<1>Q. ASSUME diff <= n, diff \in Int PROVE Full * (diff - n) <= Slack
  <2>1. PICK i \in Int : i = diff
    BY <1>Q
  <2>2. \A w, k \in Int : w > 0 /\ k <= 0 => w * k <= 0
    OBVIOUS
  <2>3. i - n <= 0 /\ i - n \in Int
    BY <1>2, <1>Q, <2>1
  <2>4. Full * (i - n) <= 0 /\ Full * (i - n) \in Int
    BY <1>0, <2>2, <2>3
  <2> QED
    BY <1>0, <2>1, <2>4
<1>4. CASE type = "equal"
  <2> DEFINE m0 == IF payer \in Included THEN payer ELSE LastListed
  <2>1. PICK up \in BOOLEAN :
          f = Absorb(total, [x \in Included |-> Nearest(total, n, up)], m0)
    BY <1>2, <1>4 DEF Shown
  <2>2. LastListed \in Included
    <3>1. ToSet(ListOf[group]) \cap Included = Included
      BY SetsAreFinite DEF Listed
    <3>2. LastOf(ListOf[group], Included) \in Included
      BY <1>2, <3>1, ListsAreLists, LastOfIsIn
    <3> QED
      BY <3>2 DEF LastListed
  <2>3. m0 \in Billed /\ (payer \in Billed => m0 = payer)
    BY <1>1, <2>2
  <2>4. Parts = EqualParts
    BY <1>4 DEF Parts
  <2> HIDE DEF m0, n
  <2>5. Abs(Absorb(total, [x \in Billed |-> Nearest(total, n, up)], m0)[m]
            - EqualParts[m]) <= n
    BY <1>2, <1>3, <1>4, <2>3, EqualIsClose
  <2>6. Abs(Absorb(total, [x \in Billed |-> Nearest(total, n, up)], m0)[m]
            - EqualParts[m]) \in Int
    BY <1>2, <1>3, <1>4, <2>3, EqualIsClose
  <2> QED
    BY <1>1, <1>Q, <2>1, <2>4, <2>5, <2>6 DEF n
<1>5. CASE type = "unequal"
  <2>1. PICK U \in SUBSET Lines : f = [x \in Lines |-> Nearest(given[x], Hundredth, x \in U)]
    BY <1>2, <1>5 DEF Shown
  <2>2. Parts = [x \in Billed |-> given[x] \div Hundredth] /\ Billed = Lines
    BY <1>5, SetsAreFinite DEF Parts, Billed
  <2>3. /\ f[m] = Nearest(given[m], Hundredth, m \in U)
        /\ Parts[m] = given[m] \div Hundredth /\ given[m] \in Int
    BY <1>3, <2>1, <2>2, SetsAreFinite, GivenAreNumbers
  <2>4. PICK q \in Int : q = given[m] \div Hundredth
    <3>1. \A i \in Int, d \in Nat \ {0} : i \div d \in Int
      OBVIOUS
    <3> QED
      BY <1>0, <2>3, <3>1
  <2>5. f[m] = q \/ f[m] = q + 1
    BY <2>3, <2>4 DEF Nearest
  <2>6. diff \in Int /\ diff <= n
    BY <1>2, <2>3, <2>4, <2>5 DEF Abs
  <2> QED
    BY <1>Q, <2>6
<1>6. CASE type = "percentage"
  <2>1. Billed = Lines /\ Lines # {} /\ Lines \in SUBSET Person
    BY <1>1, <1>2, <1>6, SetsAreFinite DEF Billed
  <2>2. PICK U \in SUBSET Lines :
          f = Absorb(total, [x \in Lines |-> Nearest(total * given[x], Full, x \in U)],
                     LastId(Lines))
    BY <1>2, <1>6, <2>1 DEF Shown
  <2> DEFINE e == total * Sum(given, Billed) - Full * total
  <2>3. /\ e \in Int /\ total * Sum(given, Billed) = Full * total + e
        /\ Abs(e) <= Slack
    <3>1. Sum(given, Billed) \in Int
      BY <2>1, GivenAreNumbers
    <3>2. Abs(Sum(given, Billed) - Full) <= Hundredth
      BY <1>6 DEF Accepts
    <3>3. \A t, H \in Nat, w, c \in Int :
            Abs(c - w) <= H => Abs(t * c - w * t) <= t * H
      <4> SUFFICES ASSUME NEW t \in Nat, NEW H \in Nat, NEW w \in Int, NEW c \in Int,
                          Abs(c - w) <= H
                   PROVE  Abs(t * c - w * t) <= t * H
        OBVIOUS
      <4>1. t * (c - w) = t * c - w * t /\ t * (w - c) = w * t - t * c
            /\ t * c \in Int /\ w * t \in Int /\ t * H \in Int
        OBVIOUS
      <4>2. c - w <= H /\ w - c <= H
        BY DEF Abs
      <4>3. \A i, j \in Int : i <= j => t * i <= t * j
        OBVIOUS
      <4>4. t * (c - w) <= t * H /\ t * (w - c) <= t * H
        BY <4>2, <4>3
      <4> QED
        BY <4>1, <4>4 DEF Abs
    <3>4. Abs(e) <= total * Hundredth
      <4>1. total \in Nat /\ Hundredth \in Nat /\ Full \in Int
        BY <1>0
      <4> QED
        BY <3>1, <3>2, <3>3, <4>1, Zenon
    <3>5. total * Sum(given, Billed) \in Int /\ Full * total \in Int
      BY <1>0, <3>1
    <3> HIDE DEF e
    <3>6. Abs(e) <= Slack
      BY <1>6, <3>4 DEF Slack
    <3> QED
      BY <3>5, <3>6 DEF e
  <2>4. Parts = Weighted(Full) /\ Full \in Nat \ {0}
    BY <1>6, GivenAreNumbers DEF Parts
  <2>5. LastId(Lines) \in Billed
    BY <2>1, LastIdIsIn
  <2> DEFINE rest == [x \in Lines |-> Nearest(total * given[x], Full, x \in U)]
  <2>6. /\ DOMAIN rest = Billed
        /\ \A x \in Billed : \E up : rest[x] = Nearest(total * given[x], Full, up)
    BY <2>1
  <2> HIDE DEF rest, n, e
  <2>7. Full * (Abs(Absorb(total, rest, LastId(Lines))[m] - Weighted(Full)[m]) - n) <= Abs(e)
    BY <1>2, <1>3, <1>6, <2>3, <2>4, <2>5, <2>6, WeightedIsClose
  <2>8. /\ Full * (diff - n) <= Abs(e) /\ diff \in Int
        /\ Abs(e) \in Int
    <3>1. Abs(Absorb(total, rest, LastId(Lines))[m] - Weighted(Full)[m]) \in Int
      BY <1>2, <1>3, <1>6, <2>3, <2>4, <2>5, <2>6, WeightedIsClose
    <3>2. Abs(e) \in Int
      BY <2>3 DEF Abs
    <3> QED
      BY <2>2, <2>4, <2>7, <3>1, <3>2 DEF rest
  <2>9. PICK w \in Int : w = Full * (diff - n)
    <3>1. n \in Int /\ Full \in Int
      BY <1>0, <1>2
    <3>2. \A i, j, k \in Int : i * (j - k) \in Int
      OBVIOUS
    <3> HIDE DEF diff
    <3> QED
      BY <2>8, <3>1, <3>2
  <2>10. w <= Slack
    BY <1>0, <2>3, <2>8, <2>9
  <2> QED
    BY <2>9, <2>10 DEF n
<1>7. CASE type = "shares"
  <2>1. Billed = Lines /\ ShareLines = Lines /\ Lines # {} /\ Lines \in SUBSET Person
    BY <1>1, <1>2, <1>7, SetsAreFinite DEF Billed, ShareLines, Included
  <2>2. PICK U \in SUBSET Lines :
          f = Absorb(total,
                [x \in Lines |-> Nearest(total * given[x], Sum(given, Lines), x \in U)],
                LastId(Lines))
    BY <1>2, <1>7, <2>1 DEF Shown
  <2>3. Parts = Weighted(SharesBilled) /\ SharesBilled \in Nat \ {0}
        /\ Sum(given, Billed) = SharesBilled
    BY <1>7, SetsAreFinite, GivenAreNumbers DEF Parts, SharesBilled, Accepts
  <2>4. LastId(Lines) \in Billed
    BY <2>1, LastIdIsIn
  <2> DEFINE rest == [x \in Lines |-> Nearest(total * given[x], SharesBilled, x \in U)]
  <2>5. /\ DOMAIN rest = Billed
        /\ \A x \in Billed : \E up : rest[x] = Nearest(total * given[x], SharesBilled, up)
    BY <2>1
  <2>6. f = Absorb(total, rest, LastId(Lines))
    BY <2>1, <2>2, <2>3
  <2> HIDE DEF rest, n
  <2>7. total * Sum(given, Billed) = SharesBilled * total + 0
    BY <1>0, <2>3
  <2>8. SharesBilled * (Abs(Absorb(total, rest, LastId(Lines))[m] - Weighted(SharesBilled)[m]) - n) <= Abs(0)
    BY <1>2, <1>3, <1>7, <2>3, <2>4, <2>5, <2>7, WeightedIsClose
  <2>9. SharesBilled * (diff - n) <= 0 /\ diff \in Int
    <3>1. Abs(Absorb(total, rest, LastId(Lines))[m] - Weighted(SharesBilled)[m]) \in Int
      BY <1>2, <1>3, <1>7, <2>3, <2>4, <2>5, <2>7, WeightedIsClose
    <3>2. Abs(0) = 0
      BY DEF Abs
    <3> QED
      BY <2>3, <2>6, <2>8, <3>1, <3>2
  <2>10. diff <= n
    <3>1. \A w \in Nat \ {0}, i, k \in Int : w * (i - k) <= 0 => i <= k
      <4>1. \A w \in Nat \ {0}, i \in Int : w * i <= 0 => i <= 0
        OBVIOUS
      <4> SUFFICES ASSUME NEW w \in Nat \ {0}, NEW i \in Int, NEW k \in Int,
                          w * (i - k) <= 0
                   PROVE  i <= k
        OBVIOUS
      <4>2. i - k \in Int /\ i - k <= 0
        BY <4>1
      <4> QED
        BY <4>2
    <3>2. n \in Int
      BY <1>2
    <3> HIDE DEF diff
    <3> QED
      BY <2>3, <2>9, <3>1, <3>2
  <2> QED
    BY <1>Q, <2>9, <2>10 DEF n
<1> QED
  BY <1>3, <1>4, <1>5, <1>6, <1>7 DEF Types

LEMMA UnchangedShown ==
  ASSUME UNCHANGED <<group, joined, total, payer, type, excluded, given, order>>
  PROVE  Shown' = Shown /\ Included' = Included /\ Slack' = Slack
BY DEF Slack, Shown, Included, Listed, Lines, ShareLines, Entered, LastListed

LEMMA ConfirmIsClose == ASSUME TypeOK, Confirm PROVE ShownIsClose'
<1>1. Shown' = Shown /\ Included' = Included /\ Slack' = Slack
  BY ConfirmAnswers, UnchangedShown
<1> SUFFICES ASSUME Stored', joined' = {}, NEW f \in Shown, NEW m \in Included
             PROVE  Full * (Abs([x \in Included |-> f[x]][m] - answer'.parts[m])
                              - Cardinality(Included)) <= Slack
  BY <1>1 DEF ShownIsClose, Rows
<1>2. PICK edge \in BOOLEAN : Valid(edge)
  BY ConfirmAnswers
<1>3. Accepts /\ answer'.parts = Parts /\ joined = {}
  BY ConfirmAnswers DEF Stored
<1> QED
  BY <1>2, <1>3, ShownParts

\* What splitAmounts showed differs from what the server stores by at most a
\* cent for every person, however they round and whoever absorbs, and by what
\* 0.01 % of the amount makes.
THEOREM ShownStaysClose == Spec => []ShownIsClose
<1>1. Init => ShownIsClose
  BY DEF Init, NoAnswer, ShownIsClose, Stored
<1>2. TypeOK /\ ShownIsClose /\ [Next]_vars => ShownIsClose'
  <2> SUFFICES ASSUME TypeOK, ShownIsClose, [Next]_vars PROVE ShownIsClose'
    OBVIOUS
  <2>1. CASE Next
    <3>1. answer'.kind = "none" => ShownIsClose'
      BY DEF ShownIsClose, Stored
    <3> QED
      BY <2>1, <3>1, OnlyConfirmStores, ConfirmIsClose
  <2>2. CASE UNCHANGED vars
    <3>1. Shown' = Shown /\ Included' = Included /\ Slack' = Slack
      BY <2>2, UnchangedShown DEF vars
    <3>2. Stored' = Stored /\ joined' = joined /\ answer' = answer
      BY <2>2 DEF vars, Stored
    <3> QED
      BY <3>1, <3>2 DEF ShownIsClose, Rows
  <2> QED
    BY <2>1, <2>2
<1> QED
  BY <1>1, <1>2, TypeCorrect, PTL DEF Spec
=============================================================================
