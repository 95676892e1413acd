------------------------------ MODULE FoldProofs ----------------------------
(***************************************************************************)
(* Folds over finite sets: lemmas about SumFunctionOnSet and FoldLeft, the *)
(* two folds the aggregates of the dashboard are written with.  The        *)
(* library's induction rules take the property as an operator, which the   *)
(* provers cannot instantiate; here it is a set of cases.                  *)
(***************************************************************************)
EXTENDS Integers, Functions, SequencesExt, FiniteSetTheorems, WellFoundedInduction,
        TLAPS

----------------------------------------------------------------------------
(* Induction *)

\* What holds of a finite set as soon as it holds of its proper subsets holds of all.
LEMMA SubsetInduction ==
  ASSUME NEW U, IsFiniteSet(U), NEW G,
         \A s \in SUBSET U : (\A t \in SUBSET s : t # s => t \in G) => s \in G
  PROVE  \A s \in SUBSET U : s \in G
<1> DEFINE Bad == {s \in SUBSET U : s \notin G}
<1> SUFFICES ASSUME Bad # {} PROVE FALSE
  OBVIOUS
<1>1. Bad \subseteq FiniteSubsetsOf(U)
  BY FS_Subset DEF FiniteSubsetsOf
<1>2. \E s \in Bad : \A t \in Bad : ~ (<<t, s>> \in StrictSubsetOrdering(U))
  <2>1. IsWellFoundedOn(StrictSubsetOrdering(U), FiniteSubsetsOf(U))
    BY FS_StrictSubsetOrderingWellFounded, Zenon
  <2> HIDE DEF Bad
  <2> QED BY <1>1, <2>1, WFMin
<1>3. PICK s \in Bad : \A t \in Bad : <<t, s>> \notin StrictSubsetOrdering(U)
  BY <1>2
<1>4. ASSUME NEW t \in SUBSET s, t # s PROVE t \in G
  BY <1>3, <1>4 DEF StrictSubsetOrdering
<1> QED BY <1>3, <1>4

\* From the empty set, one element after the other.
LEMMA SetInduction ==
  ASSUME NEW U, IsFiniteSet(U), NEW G, {} \in G,
         \A s \in SUBSET U, x \in U : s \in G /\ x \notin s => s \cup {x} \in G
  PROVE  U \in G
<1>1. ASSUME NEW s \in SUBSET U, \A t \in SUBSET s : t # s => t \in G
      PROVE  s \in G
  <2>1. CASE s = {}
    BY <2>1
  <2>2. CASE s # {}
    <3>1. PICK x \in s : TRUE
      BY <2>2
    <3>2. s \ {x} \in G
      BY <1>1, <3>1
    <3>3. (s \ {x}) \cup {x} = s
      BY <3>1
    <3> QED BY <3>1, <3>2, <3>3
  <2> QED BY <2>1, <2>2
<1> QED BY <1>1, SubsetInduction

\* Up to a number, one after the other.
LEMMA UpTo ==
  ASSUME NEW n \in Nat, NEW G, 0 \in G, \A k \in 0..n - 1 : k \in G => k + 1 \in G
  PROVE  \A k \in 0..n : k \in G
<1> DEFINE Done == {s \in SUBSET (1..n) : \A k \in 0..n : s = 1..k => k \in G}
<1>1. IsFiniteSet(1..n)
  BY FS_Interval
<1>2. ASSUME NEW s \in SUBSET (1..n), \A t \in SUBSET s : t # s => t \in Done
      PROVE  s \in Done
  <2> SUFFICES ASSUME NEW k \in 0..n, s = 1..k PROVE k \in G
    OBVIOUS
  <2>1. CASE k = 0
    BY <2>1
  <2>2. CASE k # 0
    <3>1. /\ 1..k - 1 \in SUBSET s /\ 1..k - 1 # s
          /\ k - 1 \in 0..n - 1 /\ (k - 1) + 1 = k /\ k - 1 \in 0..n
      BY <2>2
    <3>2. 1..k - 1 \in Done
      BY <1>2, <3>1
    <3> QED BY <3>1, <3>2
  <2> QED BY <2>1, <2>2
<1>3. \A s \in SUBSET (1..n) : s \in Done
  <2> HIDE DEF Done
  <2> QED BY <1>1, <1>2, SubsetInduction
<1>4. ASSUME NEW k \in 0..n PROVE k \in G
  <2>1. 1..k \in SUBSET (1..n)
    OBVIOUS
  <2> QED BY <1>3, <2>1
<1> QED BY <1>4

----------------------------------------------------------------------------
(* Recursion over the subsets of a finite set *)

\* f is the fold that takes pick[s] out of s and lets step count it.
Folds(f, U, base, pick, step) ==
  \A s \in SUBSET U :
    f[s] = IF s = {} THEN base ELSE step[<<pick[s], f[s \ {pick[s]}]>>]

\* The recursive definition of a fold defines one.
LEMMA FoldExists ==
  ASSUME NEW U, IsFiniteSet(U), NEW V, NEW base \in V, NEW pick,
         \A s \in SUBSET U : s # {} => pick[s] \in s,
         NEW step \in [U \X V -> V]
  PROVE  \E f \in [SUBSET U -> V] : Folds(f, U, base, pick, step)
<1> DEFINE Small(n) == {s \in SUBSET U : Cardinality(s) <= n}
           Next(f, s) == IF s = {} THEN base ELSE step[<<pick[s], f[s \ {pick[s]}]>>]
           Good == {n \in Nat : \E f \in [Small(n) -> V] :
                                  \A s \in Small(n) : f[s] = Next(f, s)}
<1>1. \A s \in SUBSET U : IsFiniteSet(s) /\ Cardinality(s) \in Nat /\ Cardinality(s) <= Cardinality(U)
  BY FS_Subset, FS_CardinalityType
<1>2. \A s \in SUBSET U : s # {} =>
        /\ s \ {pick[s]} \in SUBSET U
        /\ Cardinality(s \ {pick[s]}) = Cardinality(s) - 1
  BY <1>1, FS_RemoveElement
<1>3. 0 \in Good
  <2>1. Small(0) = {{}}
    BY <1>1, FS_EmptySet
  <2> DEFINE f == [s \in Small(0) |-> base]
  <2>2. f \in [Small(0) -> V] /\ \A s \in Small(0) : f[s] = Next(f, s)
    BY <2>1
  <2> QED BY <2>2
<1>4. ASSUME NEW n \in Nat, n \in Good PROVE n + 1 \in Good
  <2>1. PICK f \in [Small(n) -> V] : \A s \in Small(n) : f[s] = Next(f, s)
    BY <1>4
  <2> DEFINE g == [s \in Small(n + 1) |-> Next(f, s)]
  <2>2. \A s \in Small(n + 1) : s # {} =>
          pick[s] \in U /\ s \ {pick[s]} \in Small(n) /\ s \ {pick[s]} \in Small(n + 1)
    BY <1>1, <1>2
  <2>3. \A s \in Small(n + 1) : Next(f, s) \in V
    BY <2>2
  <2>4. \A s \in Small(n) : s \in Small(n + 1) /\ g[s] = f[s]
    BY <1>1, <2>1
  <2>5. \A s \in Small(n + 1) : g[s] = Next(g, s)
    BY <2>2, <2>4
  <2>6. g \in [Small(n + 1) -> V]
    BY <2>3
  <2>7. \E h \in [Small(n + 1) -> V] : \A s \in Small(n + 1) : h[s] = Next(h, s)
    <3> HIDE DEF g, Small
    <3> QED BY <2>5, <2>6
  <2>8. n + 1 \in Nat
    OBVIOUS
  <2> HIDE DEF Small, Next
  <2> QED BY <2>7, <2>8
<1>5. Cardinality(U) \in Good
  <2>1. Cardinality(U) \in Nat
    BY FS_CardinalityType
  <2> HIDE DEF Good
  <2> QED BY <1>3, <1>4, <2>1, UpTo
<1>6. Small(Cardinality(U)) = SUBSET U
  BY <1>1
<1> QED BY <1>5, <1>6 DEF Folds

\* It defines one only, also on the subsets of a smaller set.
LEMMA FoldIsUnique ==
  ASSUME NEW U, IsFiniteSet(U), NEW W \in SUBSET U, NEW base, NEW pick, NEW step, NEW f, NEW g,
         \A s \in SUBSET W : s # {} => pick[s] \in s,
         Folds(f, U, base, pick, step), Folds(g, W, base, pick, step)
  PROVE  f[W] = g[W]
<1> DEFINE Same == {s \in SUBSET W : f[s] = g[s]}
<1>1. IsFiniteSet(W)
  BY FS_Subset
<1>2. ASSUME NEW s \in SUBSET W, \A t \in SUBSET s : t # s => t \in Same
      PROVE  s \in Same
  <2>1. s # {} => s \ {pick[s]} \in SUBSET s /\ s \ {pick[s]} # s
    OBVIOUS
  <2> QED BY <1>2, <2>1 DEF Folds
<1>3. \A s \in SUBSET W : s \in Same
  <2> HIDE DEF Same
  <2> QED BY <1>1, <1>2, SubsetInduction
<1> QED BY <1>3

----------------------------------------------------------------------------
(* Sums *)

\* The element that a sum takes out of s first.
First(s) == CHOOSE x \in s : TRUE

\* f is the sum of a over each subset of S.
Sums(f, a, S) ==
  \A s \in SUBSET S : f[s] = IF s = {} THEN 0 ELSE a[First(s)] + f[s \ {First(s)}]

LEMMA FirstIsOne == ASSUME NEW s, s # {} PROVE First(s) \in s
BY DEF First

\* SumFunctionOnSet takes the elements out in the order of CHOOSE.
LEMMA SumIsFold ==
  ASSUME NEW S, IsFiniteSet(S), NEW a, \A x \in S : a[x] \in Int
  PROVE  \E f \in [SUBSET S -> Int] :
           SumFunctionOnSet(a, S) = f[S] /\ Sums(f, a, S)
<1> DEFINE pick == [s \in SUBSET S |-> First(s)]
           step == [p \in S \X Int |-> a[p[1]] + p[2]]
           Eqn(f) == f = [s \in SUBSET S |->
                            IF s = {} THEN 0
                            ELSE LET x == CHOOSE x \in s : TRUE IN a[x] + f[s \ {x}]]
           it == CHOOSE f : Eqn(f)
<1>1. \A s \in SUBSET S : s # {} => pick[s] \in s
  BY FirstIsOne
<1>2. step \in [S \X Int -> Int]
  OBVIOUS
<1>3. PICK f \in [SUBSET S -> Int] : Folds(f, S, 0, pick, step)
  <2>1. 0 \in Int
    OBVIOUS
  <2>2. \E f \in [SUBSET S -> Int] : Folds(f, S, 0, pick, step)
    <3> HIDE DEF pick, step
    <3> QED BY <1>1, <1>2, <2>1, FoldExists
  <2> QED BY <2>2
<1>4. Sums(f, a, S)
  <2> SUFFICES ASSUME NEW s \in SUBSET S
               PROVE  f[s] = IF s = {} THEN 0 ELSE a[First(s)] + f[s \ {First(s)}]
    BY DEF Sums
  <2>1. CASE s = {}
    BY <1>3, <2>1 DEF Folds
  <2>2. CASE s # {}
    <3>1. f[s] = step[<<pick[s], f[s \ {pick[s]}]>>]
      <4> HIDE DEF pick, step
      <4> QED BY <1>3, <2>2 DEF Folds
    <3>2. pick[s] \in S /\ f[s \ {pick[s]}] \in Int
      BY <1>1, <1>3, <2>2
    <3>3. f[s] = a[pick[s]] + f[s \ {pick[s]}]
      <4>1. ASSUME NEW x \in S, NEW v \in Int PROVE step[<<x, v>>] = a[x] + v
        OBVIOUS
      <4> HIDE DEF pick, step
      <4> QED BY <3>1, <3>2, <4>1
    <3> QED BY <2>2, <3>3
  <2> QED BY <2>1, <2>2
<1>5. Eqn(f)
  <2>1. f = [s \in SUBSET S |-> f[s]]
    OBVIOUS
  <2> QED BY <1>4, <2>1 DEF Sums, First
<1>6. Eqn(it)
  BY <1>5
<1>7. SumFunctionOnSet(a, S) = it[S]
  BY DEF SumFunctionOnSet, FoldFunctionOnSet, MapThenFoldSet
<1>8. f = it
  <2> DEFINE Same == {s \in SUBSET S : it[s] = f[s]}
  <2>1. ASSUME NEW s \in SUBSET S, \A t \in SUBSET s : t # s => t \in Same
        PROVE  s \in Same
    <3>1. it[s] = IF s = {} THEN 0 ELSE a[First(s)] + it[s \ {First(s)}]
      BY <1>6 DEF First
    <3>2. s # {} => s \ {First(s)} \in SUBSET s /\ s \ {First(s)} # s
      BY FirstIsOne
    <3> HIDE DEF it
    <3> QED BY <1>4, <2>1, <3>1, <3>2 DEF Sums
  <2>2. \A s \in SUBSET S : s \in Same
    <3> HIDE DEF Same
    <3> QED BY <2>1, SubsetInduction
  <2>3. it = [s \in SUBSET S |-> it[s]]
    BY <1>6
  <2>4. f = [s \in SUBSET S |-> f[s]]
    OBVIOUS
  <2> HIDE DEF it
  <2> QED BY <2>2, <2>3, <2>4
<1> HIDE DEF it
<1> QED BY <1>4, <1>7, <1>8

LEMMA SumOfNone == ASSUME NEW a PROVE SumFunctionOnSet(a, {}) = 0
<1>1. IsFiniteSet({})
  BY FS_EmptySet
<1>2. \A x \in {} : a[x] \in Int
  OBVIOUS
<1> QED BY <1>1, <1>2, SumIsFold DEF Sums

\* A sum depends on the values at the elements only; it takes one of them out.
LEMMA SumTakesOne ==
  ASSUME NEW S, IsFiniteSet(S), NEW a, \A x \in S : a[x] \in Int
  PROVE  /\ SumFunctionOnSet(a, S) \in Int
         /\ S # {} => SumFunctionOnSet(a, S) =
                         a[First(S)] + SumFunctionOnSet(a, S \ {First(S)})
<1>1. PICK f \in [SUBSET S -> Int] : SumFunctionOnSet(a, S) = f[S] /\ Sums(f, a, S)
  BY SumIsFold
<1>2. ASSUME S # {}, NEW x, x = First(S)
      PROVE  SumFunctionOnSet(a, S) = a[x] + SumFunctionOnSet(a, S \ {x})
  <2> DEFINE R == S \ {x}
  <2>1. x \in S /\ R \in SUBSET S /\ IsFiniteSet(R)
    BY <1>2, FirstIsOne, FS_Subset
  <2>2. PICK g \in [SUBSET R -> Int] : SumFunctionOnSet(a, R) = g[R] /\ Sums(g, a, R)
    BY <2>1, SumIsFold
  <2>3. \A s \in SUBSET R : f[s] = g[s]
    <3> DEFINE Same == {s \in SUBSET R : f[s] = g[s]}
    <3>1. ASSUME NEW s \in SUBSET R, \A t \in SUBSET s : t # s => t \in Same
          PROVE  s \in Same
      <4>1. s # {} => s \ {First(s)} \in SUBSET s /\ s \ {First(s)} # s
        BY FirstIsOne
      <4> QED BY <1>1, <2>1, <2>2, <3>1, <4>1 DEF Sums
    <3>2. \A s \in SUBSET R : s \in Same
      <4> HIDE DEF Same, R
      <4> QED BY <2>1, <3>1, SubsetInduction
    <3> QED BY <3>2
  <2>4. f[S] = a[x] + f[R]
    BY <1>1, <1>2 DEF Sums
  <2> QED BY <1>1, <2>2, <2>3, <2>4
<1>3. SumFunctionOnSet(a, S) \in Int
  BY <1>1
<1> QED BY <1>2, <1>3

\* ... any one of them.
LEMMA SumWithout ==
  ASSUME NEW S, IsFiniteSet(S), NEW a, \A x \in S : a[x] \in Int, NEW e \in S
  PROVE  SumFunctionOnSet(a, S) = a[e] + SumFunctionOnSet(a, S \ {e})
<1> DEFINE Sum(s) == SumFunctionOnSet(a, s)
           Good == {s \in SUBSET S : \A x \in s : Sum(s) = a[x] + Sum(s \ {x})}
<1>1. \A s \in SUBSET S : IsFiniteSet(s) /\ Sum(s) \in Int
  BY FS_Subset, SumTakesOne
<1>2. ASSUME NEW s \in SUBSET S, \A t \in SUBSET s : t # s => t \in Good
      PROVE  s \in Good
  <2> SUFFICES ASSUME NEW x \in s PROVE Sum(s) = a[x] + Sum(s \ {x})
    OBVIOUS
  <2> DEFINE y == First(s)
  <2>1. y \in s /\ Sum(s) = a[y] + Sum(s \ {y})
    BY <1>1, FirstIsOne, SumTakesOne
  <2>2. CASE x = y
    BY <2>1, <2>2
  <2>3. CASE x # y
    <3> HIDE DEF y
    <3>1. /\ s \ {y} \in Good /\ x \in s \ {y}
          /\ s \ {x} \in Good /\ y \in s \ {x}
      BY <1>2, <2>1, <2>3
    <3>2. (s \ {y}) \ {x} = (s \ {x}) \ {y} /\ (s \ {y}) \ {x} \in SUBSET S
      OBVIOUS
    <3>3. Sum(s \ {y}) = a[x] + Sum((s \ {y}) \ {x})
      BY <3>1
    <3>4. Sum(s \ {x}) = a[y] + Sum((s \ {y}) \ {x})
      BY <3>1, <3>2
    <3>5. a[x] \in Int /\ a[y] \in Int /\ Sum((s \ {y}) \ {x}) \in Int
      BY <1>1, <2>1, <3>2
    <3> HIDE DEF Sum
    <3> QED BY <2>1, <3>3, <3>4, <3>5
  <2> QED BY <2>2, <2>3
<1>3. \A s \in SUBSET S : s \in Good
  <2> HIDE DEF Good
  <2> QED BY <1>2, SubsetInduction
<1> QED BY <1>3

LEMMA SumIsAnInteger ==
  ASSUME NEW S, IsFiniteSet(S), NEW a, \A x \in S : a[x] \in Int
  PROVE  \A s \in SUBSET S : IsFiniteSet(s) /\ SumFunctionOnSet(a, s) \in Int
BY FS_Subset, SumTakesOne

\* A sum depends on the values at the elements only.
LEMMA SameSum ==
  ASSUME NEW S, IsFiniteSet(S), NEW a, NEW b, \A x \in S : a[x] \in Int /\ b[x] = a[x]
  PROVE  SumFunctionOnSet(b, S) = SumFunctionOnSet(a, S)
<1> DEFINE Good == {s \in SUBSET S : SumFunctionOnSet(b, s) = SumFunctionOnSet(a, s)}
<1>1. \A s \in SUBSET S : IsFiniteSet(s)
  BY FS_Subset
<1>2. {} \in Good
  BY SumOfNone
<1>3. ASSUME NEW s \in SUBSET S, NEW x \in S, s \in Good, x \notin s
      PROVE  s \cup {x} \in Good
  <2>1. s \cup {x} \in SUBSET S /\ IsFiniteSet(s \cup {x}) /\ (s \cup {x}) \ {x} = s
    BY <1>1, <1>3
  <2>2. SumFunctionOnSet(a, s \cup {x}) = a[x] + SumFunctionOnSet(a, (s \cup {x}) \ {x})
    BY <2>1, SumWithout
  <2>3. SumFunctionOnSet(b, s \cup {x}) = b[x] + SumFunctionOnSet(b, (s \cup {x}) \ {x})
    BY <2>1, SumWithout
  <2> QED BY <1>3, <2>1, <2>2, <2>3
<1> QED
  <2> HIDE DEF Good
  <2>1. S \in Good
    BY <1>2, <1>3, SetInduction
  <2> QED BY <2>1 DEF Good

\* Sums of parts that have no element in common add up.
LEMMA SumOfUnion ==
  ASSUME NEW S, IsFiniteSet(S), NEW a, \A x \in S : a[x] \in Int,
         NEW R \in SUBSET S, NEW T \in SUBSET S, R \cap T = {}
  PROVE  SumFunctionOnSet(a, R \cup T) = SumFunctionOnSet(a, R) + SumFunctionOnSet(a, T)
<1> DEFINE Sum(s) == SumFunctionOnSet(a, s)
           Good == {s \in SUBSET T : Sum(R \cup s) = Sum(R) + Sum(s)}
<1>1. \A s \in SUBSET S : IsFiniteSet(s) /\ Sum(s) \in Int
  BY SumIsAnInteger
<1>2. {} \in Good
  <2>1. R \cup {} = R /\ Sum({}) = 0 /\ Sum(R) \in Int
    BY <1>1, SumOfNone
  <2> HIDE DEF Sum
  <2> QED BY <2>1
<1>3. ASSUME NEW s \in SUBSET T, NEW x \in T, s \in Good, x \notin s
      PROVE  s \cup {x} \in Good
  <2>1. /\ s \cup {x} \in SUBSET S /\ (s \cup {x}) \ {x} = s
        /\ R \cup s \cup {x} \in SUBSET S /\ (R \cup s \cup {x}) \ {x} = R \cup s
    BY <1>3
  <2>2. Sum(s \cup {x}) = a[x] + Sum(s)
    BY <1>1, <2>1, SumWithout
  <2>3. Sum(R \cup s \cup {x}) = a[x] + Sum(R \cup s)
    BY <1>1, <2>1, SumWithout
  <2>4. Sum(R) \in Int /\ Sum(s) \in Int /\ a[x] \in Int
    BY <1>1
  <2>5. Sum(R \cup (s \cup {x})) = Sum(R \cup s \cup {x})
    <3>1. R \cup (s \cup {x}) = R \cup s \cup {x}
      OBVIOUS
    <3> QED BY <3>1, Zenon
  <2> HIDE DEF Sum
  <2>6. Sum(R \cup (s \cup {x})) = Sum(R) + Sum(s \cup {x})
    BY <1>3, <2>2, <2>3, <2>4, <2>5
  <2> QED BY <2>6
<1> QED
  <2>1. IsFiniteSet(T)
    BY <1>1
  <2>2. T \in Good
    <3> HIDE DEF Good
    <3> QED BY <1>2, <1>3, <2>1, SetInduction
  <2> QED BY <2>2

\* More elements, no smaller a sum.
LEMMA SumGrows ==
  ASSUME NEW S, IsFiniteSet(S), NEW a, \A x \in S : a[x] \in Nat, NEW R \in SUBSET S
  PROVE  /\ SumFunctionOnSet(a, R) \in Nat
         /\ SumFunctionOnSet(a, R) <= SumFunctionOnSet(a, S)
<1> DEFINE Sum(s) == SumFunctionOnSet(a, s)
           Good == {s \in SUBSET S : Sum(s) \in Nat}
<1>1. \A s \in SUBSET S : IsFiniteSet(s) /\ Sum(s) \in Int
  BY SumIsAnInteger
<1>2. ASSUME NEW s \in SUBSET S, \A t \in SUBSET s : t # s => t \in Good
      PROVE  s \in Good
  <2>1. CASE s = {}
    BY <2>1, SumOfNone
  <2>2. CASE s # {}
    <3>1. PICK x \in s : TRUE
      BY <2>2
    <3>2. Sum(s) = a[x] + Sum(s \ {x})
      BY <1>1, SumWithout
    <3>3. s \ {x} \in Good
      BY <1>2, <3>1
    <3>4. a[x] \in Nat /\ Sum(s \ {x}) \in Nat
      BY <3>3
    <3> HIDE DEF Sum
    <3> QED BY <3>2, <3>4
  <2> QED BY <2>1, <2>2
<1>3. \A s \in SUBSET S : s \in Good
  <2> HIDE DEF Good
  <2> QED BY <1>2, SubsetInduction
<1>4. S \ R \in SUBSET S /\ R \cap (S \ R) = {} /\ R \cup (S \ R) = S
  OBVIOUS
<1>5. Sum(S) = Sum(R) + Sum(S \ R)
  <2>1. Sum(R \cup (S \ R)) = Sum(R) + Sum(S \ R)
    BY <1>4, SumOfUnion
  <2> QED BY <1>4, <2>1, Zenon
<1>6. Sum(R) \in Nat /\ Sum(S \ R) \in Nat
  BY <1>3
<1> HIDE DEF Sum
<1>7. Sum(R) <= Sum(S)
  BY <1>5, <1>6
<1> QED BY <1>6, <1>7 DEF Sum

\* A sum over groups of elements, of the sums of the groups.
LEMMA SumOfGroupsIsSum ==
  ASSUME NEW S, IsFiniteSet(S), NEW a, \A x \in S : a[x] \in Int,
         NEW K, IsFiniteSet(K), NEW part, \A k \in K : part[k] \in SUBSET S,
         \A j, k \in K : j # k => part[j] \cap part[k] = {},
         NEW b, \A k \in K : b[k] = SumFunctionOnSet(a, part[k])
  PROVE  SumFunctionOnSet(b, K) = SumFunctionOnSet(a, UNION {part[k] : k \in K})
<1> DEFINE Sum(s) == SumFunctionOnSet(a, s)
           All(L) == UNION {part[k] : k \in L}
           Good == {L \in SUBSET K : SumFunctionOnSet(b, L) = Sum(All(L))}
<1>1. \A s \in SUBSET S : IsFiniteSet(s) /\ Sum(s) \in Int
  BY SumIsAnInteger
<1>2. \A k \in K : b[k] \in Int
  BY <1>1
<1>3. {} \in Good
  <2>1. All({}) = {}
    OBVIOUS
  <2> QED BY <2>1, SumOfNone
<1>4. ASSUME NEW L \in SUBSET K, NEW k \in K, L \in Good, k \notin L
      PROVE  L \cup {k} \in Good
  <2>1. L \cup {k} \in SUBSET K /\ IsFiniteSet(L \cup {k}) /\ (L \cup {k}) \ {k} = L
    BY <1>4, FS_Subset
  <2>2. SumFunctionOnSet(b, L \cup {k}) = b[k] + SumFunctionOnSet(b, L)
    BY <1>2, <2>1, SumWithout
  <2>3. All(L) \in SUBSET S /\ part[k] \in SUBSET S /\ All(L) \cap part[k] = {}
    BY <1>4
  <2>4. All(L \cup {k}) = All(L) \cup part[k]
    OBVIOUS
  <2>5. Sum(All(L \cup {k})) = Sum(All(L)) + Sum(part[k])
    <3>1. Sum(All(L) \cup part[k]) = Sum(All(L)) + Sum(part[k])
      <4> HIDE DEF All
      <4> QED BY <2>3, SumOfUnion
    <3> QED BY <2>4, <3>1, Zenon
  <2>6. Sum(All(L)) \in Int /\ Sum(part[k]) \in Int /\ b[k] = Sum(part[k])
    BY <1>1, <2>3
  <2>7. SumFunctionOnSet(b, L) = Sum(All(L))
    BY <1>4
  <2> HIDE DEF Sum, All
  <2>8. SumFunctionOnSet(b, L \cup {k}) = Sum(All(L \cup {k}))
    BY <2>2, <2>5, <2>6, <2>7
  <2> QED BY <2>8
<1>5. K \in Good
  <2> HIDE DEF Good
  <2> QED BY <1>3, <1>4, SetInduction
<1> QED BY <1>5

----------------------------------------------------------------------------
(* Folds along a sequence *)

LEMMA MaxOfNaturals ==
  ASSUME NEW n \in Nat, NEW s \in SUBSET (1..n), s # {}
  PROVE  Max(s) \in s /\ \A i \in s : i <= Max(s)
<1> DEFINE Good == {t \in SUBSET (1..n) : t # {} => \E x \in t : \A y \in t : x >= y}
<1>1. IsFiniteSet(s)
  <2>1. IsFiniteSet(1..n)
    BY FS_Interval
  <2> QED BY <2>1, FS_Subset
<1>2. ASSUME NEW t \in SUBSET s, NEW x \in s, t \in Good, x \notin t
      PROVE  t \cup {x} \in Good
  <2>1. CASE t = {}
    <3>1. \A y \in t \cup {x} : x >= y
      BY <2>1
    <3> QED BY <3>1
  <2>2. CASE t # {}
    <3>1. PICK z \in t : \A y \in t : z >= y
      BY <1>2, <2>2
    <3>2. CASE z >= x
      <4>1. \A y \in t \cup {x} : z >= y
        BY <3>1, <3>2
      <4> QED BY <3>1, <4>1
    <3>3. CASE x >= z
      <4>1. \A y \in t \cup {x} : x >= y
        BY <3>1, <3>3
      <4> QED BY <4>1
    <3> QED BY <3>1, <3>2, <3>3
  <2> QED BY <2>1, <2>2
<1>3. s \in Good
  <2>1. {} \in Good
    OBVIOUS
  <2> HIDE DEF Good
  <2> QED BY <1>1, <1>2, <2>1, SetInduction
<1> QED BY <1>3 DEF Max

\* f is the fold over the first positions of a sequence of length n.
LeftFolds(f, n, base, step) ==
  \A s \in SUBSET (1..n) :
    f[s] = IF s = {} THEN base ELSE step[<<Max(s), f[s \ {Max(s)}]>>]

\* The recursive definition of FoldLeft defines something.
LEMMA LeftFoldExists ==
  ASSUME NEW n \in Nat, NEW V, NEW base \in V, NEW step \in [(1..n) \X V -> V]
  PROVE  \E f \in [SUBSET (1..n) -> V] : LeftFolds(f, n, base, step)
<1> DEFINE pick == [s \in SUBSET (1..n) |-> Max(s)]
<1>1. IsFiniteSet(1..n)
  BY FS_Interval
<1>2. \A s \in SUBSET (1..n) : s # {} => pick[s] \in s
  BY MaxOfNaturals
<1>3. \E f \in [SUBSET (1..n) -> V] : Folds(f, 1..n, base, pick, step)
  <2> HIDE DEF pick
  <2> QED BY <1>1, <1>2, FoldExists
<1> QED BY <1>3 DEF Folds, LeftFolds
=============================================================================
