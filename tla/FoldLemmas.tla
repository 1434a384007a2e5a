---------------------------- MODULE FoldLemmas -----------------------------
(* What the folds of the community modules compute.  A fold is a recursive   *)
(* function, so what it computes has to be proved by induction over the      *)
(* subsets of its domain; the library's induction theorems take the          *)
(* proposition as an operator, so the induction is by the smallest           *)
(* counterexample, a set, of which the library has well-founded orders.      *)
EXTENDS Integers, FiniteSetsExt, FiniteSetTheorems, WellFoundedInduction, TLAPS

(* A set of numbers has a smallest one.                                      *)
LEMMA SmallestNumber ==
  ASSUME NEW T \in SUBSET Nat, T # {}
  PROVE  \E n \in T : \A m \in T : n <= m
<1>1. PICK n \in T : \A m \in T : <<m, n>> \notin OpToRel(<, Nat)
  BY NatLessThanWellFounded, WFMin
<1>2. \A m \in T : ~ (m < n)
  BY <1>1 DEF OpToRel
<1> QED
  BY <1>2

(* A set of subsets of a finite set has one of which no element can be       *)
(* taken away.                                                               *)
LEMMA SmallestSubset ==
  ASSUME NEW S, IsFiniteSet(S), NEW T \in SUBSET (SUBSET S), T # {}
  PROVE  \E s \in T : \A x \in s : s \ {x} \notin T
<1>1. FiniteSubsetsOf(S) = SUBSET S
  BY FS_FiniteSubsetsOfFinite
<1>2. PICK s \in T : \A r \in T : <<r, s>> \notin StrictSubsetOrdering(S)
  BY <1>1, FS_StrictSubsetOrderingWellFounded, WFMin
<1>3. ASSUME NEW x \in s, s \ {x} \in T
      PROVE  FALSE
  BY <1>2, <1>3 DEF StrictSubsetOrdering
<1> QED
  BY <1>3

(* The greatest element that the community modules choose.                   *)
LEMMA MaxIs ==
  ASSUME NEW bound \in Nat, NEW s \in SUBSET (1 .. bound), s # {}
  PROVE  Max(s) \in s
<1> DEFINE T == {n \in Nat : \A x \in s : x <= n}
<1>1. bound \in T
  OBVIOUS
<1>2. PICK n \in T : \A m \in T : n <= m
  BY <1>1, SmallestNumber
<1>3. n \in s
  <2>1. SUFFICES ASSUME n \notin s PROVE FALSE
    OBVIOUS
  <2>2. PICK x \in s : TRUE
    OBVIOUS
  <2>3. n - 1 \in Nat /\ \A y \in s : y <= n - 1
    BY <1>2, <2>1, <2>2
  <2> QED
    BY <1>2, <2>3
<1>4. \E x \in s : \A y \in s : x >= y
  BY <1>2, <1>3
<1> QED
  BY <1>4 DEF Max

(* The subsets of at most n elements.                                        *)
UpTo(S, n) == {s \in SUBSET S : Cardinality(s) <= n}

Picks(pick, S) == \A s \in SUBSET S : s # {} => pick[s] \in s

(* f takes the empty set to b, and any other set to what the step makes of   *)
(* the element picked and of the value of the rest.                          *)
Folds(f, b, step, pick, T) ==
  \A s \in T : f[s] = IF s = {} THEN b ELSE step[pick[s]][f[s \ {pick[s]}]]

(* There is such a function on the subsets of a finite set.                  *)
LEMMA FoldExists ==
  ASSUME NEW S, IsFiniteSet(S), NEW V, NEW b \in V,
         NEW step \in [S -> [V -> V]],
         NEW pick, Picks(pick, S)
  PROVE  \E f \in [SUBSET S -> V] : Folds(f, b, step, pick, SUBSET S)
<1> DEFINE Solves(n) == \E f \in [UpTo(S, n) -> V] : Folds(f, b, step, pick, UpTo(S, n))
           T == {m \in Nat : ~ Solves(m)}
<1>1. \A s \in SUBSET S : IsFiniteSet(s) /\ Cardinality(s) \in Nat /\ (Cardinality(s) = 0 => s = {})
  BY FS_Subset, FS_CardinalityType, FS_EmptySet
<1>2. T = {}
  <2>1. SUFFICES ASSUME T # {} PROVE FALSE
    OBVIOUS
  <2>2. PICK m \in T : \A k \in T : m <= k
    BY <2>1, SmallestNumber
  <2>3. m # 0
    <3> DEFINE f == [s \in UpTo(S, 0) |-> b]
    <3>1. \A s \in UpTo(S, 0) : s = {}
      BY <1>1 DEF UpTo
    <3>2. f \in [UpTo(S, 0) -> V] /\ Folds(f, b, step, pick, UpTo(S, 0))
      BY <3>1 DEF Folds
    <3> QED
      BY <2>2, <3>2
  <2>4. PICK h \in [UpTo(S, m - 1) -> V] : Folds(h, b, step, pick, UpTo(S, m - 1))
    <3>1. m - 1 \in Nat /\ m - 1 \notin T
      BY <2>2, <2>3
    <3> QED
      BY <3>1
  <2> DEFINE val(s) == IF s = {} THEN b ELSE step[pick[s]][h[s \ {pick[s]}]]
             f == [s \in UpTo(S, m) |-> val(s)]
  <2>5. ASSUME NEW s \in UpTo(S, m), s # {}
        PROVE  pick[s] \in S /\ s \ {pick[s]} \in UpTo(S, m - 1)
    <3>1. pick[s] \in s /\ IsFiniteSet(s) /\ s \in SUBSET S
      BY <1>1, <2>5 DEF UpTo, Picks
    <3>2. Cardinality(s \ {pick[s]}) = Cardinality(s) - 1
      BY <3>1, FS_RemoveElement
    <3> QED
      BY <1>1, <2>2, <3>1, <3>2 DEF UpTo
  <2>6. UpTo(S, m - 1) \subseteq UpTo(S, m)
    BY <1>1, <2>2 DEF UpTo
  <2>7. \A s \in UpTo(S, m - 1) : val(s) = h[s]
    BY <2>4 DEF Folds
  <2>8. \A s \in UpTo(S, m) : val(s) \in V
    BY <2>4, <2>5
  <2>9. ASSUME NEW s \in UpTo(S, m)
        PROVE  f[s] = IF s = {} THEN b ELSE step[pick[s]][f[s \ {pick[s]}]]
    <3>1. CASE s = {}
      BY <3>1
    <3>2. CASE s # {}
      <4>1. f[s \ {pick[s]}] = h[s \ {pick[s]}]
        BY <2>5, <2>6, <2>7, <3>2
      <4> QED
        BY <3>2, <4>1
    <3> QED
      BY <3>1, <3>2
  <2> HIDE DEF val
  <2>10. f \in [UpTo(S, m) -> V]
    BY <2>8
  <2> HIDE DEF f
  <2>11. Folds(f, b, step, pick, UpTo(S, m))
    BY <2>9 DEF Folds
  <2> QED
    BY <2>2, <2>10, <2>11
<1>3. Cardinality(S) \in Nat /\ UpTo(S, Cardinality(S)) = SUBSET S
  BY FS_Subset, FS_CardinalityType DEF UpTo
<1>4. Solves(Cardinality(S))
  BY <1>2, <1>3
<1> QED
  BY <1>3, <1>4

-----------------------------------------------------------------------------
Pick(s) == CHOOSE x \in s : TRUE

(* What the fold's definition makes of a function on the subsets of S.       *)
SumStep(f, S, g) ==
  [s \in SUBSET S |-> IF s = {} THEN 0 ELSE LET x == CHOOSE x \in s : TRUE IN f[x] + g[s \ {x}]]

Adds(f, s, g) == g[s] = IF s = {} THEN 0 ELSE f[Pick(s)] + g[s \ {Pick(s)}]

SumsOf(f, S) == CHOOSE g : g = SumStep(f, S, g)

(* The fold is that function's value at the whole set.                       *)
LEMMA SumIs ==
  ASSUME NEW f, NEW S
  PROVE  SumFunctionOnSet(f, S) = SumsOf(f, S)[S]
BY Zenon DEF SumFunctionOnSet, FoldFunctionOnSet, MapThenFoldSet, SumStep, SumsOf

(* Taking one element away.                                                  *)
LEMMA PickIs ==
  ASSUME NEW S, IsFiniteSet(S), NEW s \in SUBSET S, s # {}
  PROVE  /\ Pick(s) \in s /\ s \ {Pick(s)} \in SUBSET S
         /\ Cardinality(s) \in Nat /\ Cardinality(s \ {Pick(s)}) = Cardinality(s) - 1
<1>1. Pick(s) \in s
  BY DEF Pick
<1>2. IsFiniteSet(s)
  BY FS_Subset
<1> QED
  BY <1>1, <1>2, FS_RemoveElement, FS_CardinalityType

(* The function that the fold chooses adds up every subset.                  *)
LEMMA SumAdds ==
  ASSUME NEW S, IsFiniteSet(S), NEW W, S \subseteq W, NEW f \in [W -> Int]
  PROVE  /\ SumsOf(f, S) \in [SUBSET S -> Int]
         /\ \A s \in SUBSET S : Adds(f, s, SumsOf(f, S))
<1> DEFINE step == [x \in S |-> [i \in Int |-> f[x] + i]]
           pick == [s \in SUBSET S |-> Pick(s)]
<1>1. step \in [S -> [Int -> Int]] /\ \A x \in S, i \in Int : step[x][i] = f[x] + i
  OBVIOUS
<1>2. \A s \in SUBSET S : pick[s] = Pick(s)
  OBVIOUS
<1> HIDE DEF step, pick
<1>3. PICK g \in [SUBSET S -> Int] : Folds(g, 0, step, pick, SUBSET S)
  <2>1. Picks(pick, S)
    BY <1>2 DEF Pick, Picks
  <2>2. 0 \in Int /\ step \in [S -> [Int -> Int]]
    BY <1>1
  <2> QED
    BY <2>1, <2>2, FoldExists
<1>4. ASSUME NEW s \in SUBSET S
      PROVE  g[s] = IF s = {} THEN 0 ELSE f[Pick(s)] + g[s \ {Pick(s)}]
  <2>1. g[s] = IF s = {} THEN 0 ELSE step[Pick(s)][g[s \ {Pick(s)}]]
    BY <1>2, <1>3 DEF Folds
  <2>2. s # {} => Pick(s) \in S /\ s \ {Pick(s)} \in SUBSET S
    BY DEF Pick
  <2> QED
    BY <1>1, <1>3, <2>1, <2>2
<1>5. g = SumStep(f, S, g)
  BY <1>4 DEF SumStep, Pick
<1>6. SumsOf(f, S) = SumStep(f, S, SumsOf(f, S))
  BY <1>5, Zenon DEF SumsOf
<1> DEFINE F == SumsOf(f, S)
<1> HIDE DEF F
<1>7. F = SumStep(f, S, F)
  BY <1>6 DEF F
<1>8. \A s \in SUBSET S : Adds(f, s, F)
  BY <1>7 DEF Adds, SumStep, Pick
<1>9. DOMAIN F = SUBSET S
  BY <1>7 DEF SumStep
<1>10. \A s \in SUBSET S : F[s] \in Int
  <2> DEFINE T == {s \in SUBSET S : F[s] \notin Int}
  <2>1. SUFFICES ASSUME T # {} PROVE FALSE
    OBVIOUS
  <2>2. PICK s \in T : \A x \in s : s \ {x} \notin T
    BY <2>1, SmallestSubset
  <2>3. s # {}
    <3>1. F[{}] = 0
      BY <1>8 DEF Adds
    <3>2. F[{}] \in Int
      BY <3>1
    <3> QED
      BY <2>2, <3>2
  <2>4. Pick(s) \in s /\ Pick(s) \in W /\ s \ {Pick(s)} \in SUBSET S
    BY <2>2, <2>3, PickIs
  <2>5. F[s \ {Pick(s)}] \in Int /\ f[Pick(s)] \in Int
    BY <2>2, <2>4
  <2> QED
    BY <1>8, <2>2, <2>3, <2>5 DEF Adds
<1>11. F \in [SUBSET S -> Int]
  <2>1. F = [s \in SUBSET S |-> F[s]]
    BY <1>7 DEF SumStep
  <2> QED
    BY <2>1, <1>10
<1> QED
  BY <1>8, <1>11 DEF F

(* A sum follows the one value that changes.                                 *)
LEMMA SumFollows ==
  ASSUME NEW S, IsFiniteSet(S), NEW W, S \subseteq W, NEW f \in [W -> Int], NEW g \in [W -> Int],
         NEW x, NEW d \in Int, \A y \in S : g[y] = f[y] + (IF y = x THEN d ELSE 0)
  PROVE  SumFunctionOnSet(g, S) = SumFunctionOnSet(f, S) + (IF x \in S THEN d ELSE 0)
<1> DEFINE F == SumsOf(f, S)
           G == SumsOf(g, S)
           T == {s \in SUBSET S : G[s] # F[s] + (IF x \in s THEN d ELSE 0)}
<1>1. F \in [SUBSET S -> Int] /\ \A s \in SUBSET S : Adds(f, s, F)
  BY SumAdds
<1>2. G \in [SUBSET S -> Int] /\ \A s \in SUBSET S : Adds(g, s, G)
  BY SumAdds
<1> HIDE DEF F, G
<1>3. T = {}
  <2>1. SUFFICES ASSUME T # {} PROVE FALSE
    OBVIOUS
  <2>2. PICK s \in T : \A y \in s : s \ {y} \notin T
    BY <2>1, SmallestSubset
  <2>3. s # {}
    <3>1. F[{}] = 0 /\ G[{}] = 0
      BY <1>1, <1>2 DEF Adds
    <3>2. G[{}] = F[{}] + (IF x \in {} THEN d ELSE 0)
      BY <3>1
    <3> QED
      BY <2>2, <3>2
  <2> DEFINE y == Pick(s)
             r == s \ {y}
  <2>4. y \in s /\ y \in S /\ r \in SUBSET S
    BY <2>2, <2>3, PickIs
  <2>5. G[s] = g[y] + G[r] /\ F[s] = f[y] + F[r]
    BY <1>1, <1>2, <2>2, <2>3 DEF Adds
  <2>6. G[r] = F[r] + (IF x \in r THEN d ELSE 0)
    BY <2>2, <2>4
  <2>7. x \in s <=> x \in r \/ x = y
    BY <2>4
  <2>8. ~(x \in r /\ x = y)
    OBVIOUS
  <2> HIDE DEF y, r
  <2>9. g[y] \in Int /\ f[y] \in Int /\ G[r] \in Int /\ F[r] \in Int /\ G[s] \in Int /\ F[s] \in Int
    BY <1>1, <1>2, <2>2, <2>4
  <2>10. g[y] = f[y] + (IF y = x THEN d ELSE 0)
    BY <2>4
  <2>11. G[s] = F[s] + (IF x \in s THEN d ELSE 0)
    BY <2>5, <2>6, <2>7, <2>8, <2>9, <2>10
  <2> QED
    BY <2>2, <2>11
<1>4. G[S] = F[S] + (IF x \in S THEN d ELSE 0)
  BY <1>3
<1> QED
  BY <1>4, SumIs DEF F, G

(* A sum stays when no value of it changes.                                  *)
LEMMA SumAgrees ==
  ASSUME NEW S, IsFiniteSet(S), NEW W, S \subseteq W, NEW f \in [W -> Int], NEW g \in [W -> Int],
         \A y \in S : g[y] = f[y]
  PROVE  SumFunctionOnSet(g, S) = SumFunctionOnSet(f, S)
<1> DEFINE sum == SumFunctionOnSet(f, S)
<1>1. sum \in Int
  <2>1. sum = SumsOf(f, S)[S]
    BY SumIs
  <2>2. SumsOf(f, S) \in [SUBSET S -> Int]
    BY SumAdds
  <2> QED
    BY <2>1, <2>2
<1>2. \A d \in Int : \A x : (\A y \in S : g[y] = f[y] + (IF y = x THEN d ELSE 0)) =>
        SumFunctionOnSet(g, S) = sum + (IF x \in S THEN d ELSE 0)
  BY SumFollows
<1> HIDE DEF sum
<1>3. \A y \in S : f[y] + 0 = g[y]
  OBVIOUS
<1>4. 0 \in Int /\ \A y \in S : g[y] = f[y] + (IF y = S THEN 0 ELSE 0)
  BY <1>3
<1>5. SumFunctionOnSet(g, S) = sum + (IF S \in S THEN 0 ELSE 0)
  BY <1>2, <1>4, Zenon
<1>6. SumFunctionOnSet(g, S) = sum
  BY <1>1, <1>5
<1> QED
  BY <1>6 DEF sum

(* A sum of zeros.                                                           *)
LEMMA SumOfNothing ==
  ASSUME NEW S, IsFiniteSet(S), NEW W, S \subseteq W, NEW f \in [W -> Int], \A y \in S : f[y] = 0
  PROVE  SumFunctionOnSet(f, S) = 0
<1> DEFINE F == SumsOf(f, S)
           T == {s \in SUBSET S : F[s] # 0}
<1>1. F \in [SUBSET S -> Int] /\ \A s \in SUBSET S : Adds(f, s, F)
  BY SumAdds
<1> HIDE DEF F
<1>2. T = {}
  <2>1. SUFFICES ASSUME T # {} PROVE FALSE
    OBVIOUS
  <2>2. PICK s \in T : \A y \in s : s \ {y} \notin T
    BY <2>1, SmallestSubset
  <2>3. s # {}
    BY <1>1, <2>2 DEF Adds
  <2>4. Pick(s) \in s /\ Pick(s) \in S /\ s \ {Pick(s)} \in SUBSET S
    BY <2>2, <2>3, PickIs
  <2>5. F[s] = f[Pick(s)] + F[s \ {Pick(s)}]
    BY <1>1, <2>2, <2>3 DEF Adds
  <2>6. F[s \ {Pick(s)}] = 0
    BY <2>2, <2>4
  <2> QED
    BY <2>2, <2>4, <2>5, <2>6
<1> QED
  BY <1>2, SumIs DEF F
-----------------------------------------------------------------------------
(* The fold over a set is not disturbed by what it is part of.               *)
LEMMA SumIsLocal ==
  ASSUME NEW R, IsFiniteSet(R), NEW S \in SUBSET R,
         NEW V, R \subseteq V, NEW f \in [V -> Int],
         NEW W, S \subseteq W, NEW g \in [W -> Int], \A y \in S : g[y] = f[y]
  PROVE  SumFunctionOnSet(g, S) = SumsOf(f, R)[S]
<1> DEFINE F == SumsOf(f, R)
           G == SumsOf(g, S)
           T == {s \in SUBSET S : G[s] # F[s]}
<1>1. F \in [SUBSET R -> Int] /\ \A s \in SUBSET R : Adds(f, s, F)
  BY SumAdds
<1>2. IsFiniteSet(S)
  BY FS_Subset
<1>3. G \in [SUBSET S -> Int] /\ \A s \in SUBSET S : Adds(g, s, G)
  BY <1>2, SumAdds
<1> HIDE DEF F, G
<1>4. T = {}
  <2>1. SUFFICES ASSUME T # {} PROVE FALSE
    OBVIOUS
  <2>2. PICK s \in T : \A y \in s : s \ {y} \notin T
    BY <1>2, <2>1, SmallestSubset
  <2>3. s # {}
    BY <1>1, <1>3, <2>2 DEF Adds
  <2>4. Pick(s) \in s /\ s \ {Pick(s)} \in SUBSET S
    BY <1>2, <2>2, <2>3, PickIs
  <2>5. G[s] = g[Pick(s)] + G[s \ {Pick(s)}]
    BY <1>3, <2>2, <2>3 DEF Adds
  <2>6. F[s] = f[Pick(s)] + F[s \ {Pick(s)}]
    BY <1>1, <2>2, <2>3 DEF Adds
  <2>7. G[s \ {Pick(s)}] = F[s \ {Pick(s)}]
    BY <2>2, <2>4
  <2> QED
    BY <2>2, <2>4, <2>5, <2>6, <2>7
<1> QED
  BY <1>4, SumIs DEF F, G

(* Any element can be taken out of a sum, not only the one picked.           *)
LEMMA SumTakes ==
  ASSUME NEW S, IsFiniteSet(S), NEW W, S \subseteq W, NEW f \in [W -> Int], NEW x \in S
  PROVE  /\ SumFunctionOnSet(f, S) \in Int
         /\ SumFunctionOnSet(f, S) = f[x] + SumFunctionOnSet(f, S \ {x})
<1> DEFINE F == SumsOf(f, S)
           T == {s \in SUBSET S : \E y \in s : F[s] # f[y] + F[s \ {y}]}
<1>1. F \in [SUBSET S -> Int] /\ \A s \in SUBSET S : Adds(f, s, F)
  BY SumAdds
<1>2. SumFunctionOnSet(f, S) = F[S]
  BY SumIs
<1>3. S \ {x} \in SUBSET S /\ S \ {x} \subseteq W
  OBVIOUS
<1>4. \A r \in SUBSET S : SumFunctionOnSet(f, r) = F[r]
  BY SumIsLocal
<1> HIDE DEF F
<1>5. T = {}
  <2>1. SUFFICES ASSUME T # {} PROVE FALSE
    OBVIOUS
  <2>2. PICK s \in T : \A y \in s : s \ {y} \notin T
    BY <2>1, SmallestSubset
  <2>3. PICK y \in s : F[s] # f[y] + F[s \ {y}]
    BY <2>2
  <2> DEFINE p == Pick(s)
  <2>4. p \in s
    BY <2>2, <2>3, PickIs
  <2>5. F[s] = f[p] + F[s \ {p}]
    BY <1>1, <2>2, <2>3 DEF Adds
  <2> HIDE DEF p
  <2>6. y # p
    BY <2>3, <2>5
  <2>7. s \ {p} \notin T /\ s \ {y} \notin T /\ s \ {p} \in SUBSET S /\ s \ {y} \in SUBSET S
    BY <2>2, <2>3, <2>4
  <2>8. F[s \ {p}] = f[y] + F[(s \ {p}) \ {y}]
    BY <2>3, <2>6, <2>7
  <2>9. F[s \ {y}] = f[p] + F[(s \ {y}) \ {p}]
    BY <2>4, <2>6, <2>7
  <2> DEFINE rest == F[(s \ {y}) \ {p}]
  <2>10. (s \ {p}) \ {y} = (s \ {y}) \ {p} /\ (s \ {y}) \ {p} \in SUBSET S
    BY <2>7
  <2>11. F[s \ {p}] = f[y] + rest /\ F[s \ {y}] = f[p] + rest
    BY <2>8, <2>9, <2>10
  <2>12. f[y] \in Int /\ f[p] \in Int /\ rest \in Int
    BY <1>1, <2>2, <2>3, <2>4, <2>10
  <2> HIDE DEF rest
  <2>13. F[s] = f[y] + F[s \ {y}]
    BY <2>5, <2>11, <2>12
  <2> QED
    BY <2>3, <2>13
<1>6. F[S] = f[x] + F[S \ {x}]
  BY <1>5
<1> QED
  BY <1>1, <1>2, <1>3, <1>4, <1>6

(* A sum of smaller values is not greater.                                   *)
LEMMA SumIsMonotone ==
  ASSUME NEW S, IsFiniteSet(S), NEW W, S \subseteq W, NEW f \in [W -> Int], NEW g \in [W -> Int],
         \A y \in S : f[y] <= g[y]
  PROVE  /\ SumFunctionOnSet(f, S) \in Int /\ SumFunctionOnSet(g, S) \in Int
         /\ SumFunctionOnSet(f, S) <= SumFunctionOnSet(g, S)
<1> DEFINE F == SumsOf(f, S)
           G == SumsOf(g, S)
           T == {s \in SUBSET S : ~(F[s] <= G[s])}
<1>1. F \in [SUBSET S -> Int] /\ \A s \in SUBSET S : Adds(f, s, F)
  BY SumAdds
<1>2. G \in [SUBSET S -> Int] /\ \A s \in SUBSET S : Adds(g, s, G)
  BY SumAdds
<1>3. SumFunctionOnSet(f, S) = F[S] /\ SumFunctionOnSet(g, S) = G[S]
  BY SumIs
<1> HIDE DEF F, G
<1>4. T = {}
  <2>1. SUFFICES ASSUME T # {} PROVE FALSE
    OBVIOUS
  <2>2. PICK s \in T : \A y \in s : s \ {y} \notin T
    BY <2>1, SmallestSubset
  <2>3. s # {}
    <3>1. F[{}] = 0 /\ G[{}] = 0
      BY <1>1, <1>2 DEF Adds
    <3>2. F[{}] <= G[{}]
      BY <3>1
    <3> QED
      BY <2>2, <3>2
  <2> DEFINE y == Pick(s)
             r == s \ {y}
  <2>4. y \in s /\ y \in S /\ r \in SUBSET S
    BY <2>2, <2>3, PickIs
  <2>5. G[s] = g[y] + G[r] /\ F[s] = f[y] + F[r]
    BY <1>1, <1>2, <2>2, <2>3 DEF Adds
  <2>6. F[r] <= G[r]
    BY <2>2, <2>4
  <2> HIDE DEF y, r
  <2>7. g[y] \in Int /\ f[y] \in Int /\ G[r] \in Int /\ F[r] \in Int /\ f[y] <= g[y]
    BY <1>1, <1>2, <2>4
  <2>8. F[s] <= G[s]
    BY <2>5, <2>6, <2>7
  <2> QED
    BY <2>2, <2>8
<1> QED
  BY <1>1, <1>2, <1>3, <1>4
=============================================================================
