------------------------------ MODULE WalkProofs -----------------------------
(***************************************************************************)
(* Proof that a walk through the pages drifts by no more than the          *)
(* mutations that take effect during it, for any tables, filters and       *)
(* limits.  The argument is by ranks: the rank of a row is the number of   *)
(* matching rows that are newer, and a page is what lies between two       *)
(* ranks.  A mutation moves every other row by at most one rank, all in    *)
(* the same direction, so at most one of them crosses the cut between what *)
(* the client has asked for and what it has not.                           *)
(***************************************************************************)
EXTENDS ReportsProofs

----------------------------------------------------------------------------
(* The inductive invariant *)

Rank(table, S, id) == Cardinality(Later(table, S, id))

\* Of the rows V: those of S below rank b, and those from there on.
Below(table, S, b, V) == {id \in S \cap V : Rank(table, S, id) < b}
From(table, S, b, V)  == {id \in S \cap V : Rank(table, S, id) >= b}

\* What the client has received, the page that is still under way included.
Seen == IF "page" \in DOMAIN answers THEN shown \o answers["page"] ELSE shown

\* The rank up to which the client has asked for the rows.
Cut == IF "page" \in DOMAIN answers THEN Skip(page, asked.limit) + asked.limit
                                    ELSE Skip(page, asked.limit)

\* Rows that no mutation has touched.
Untouched == {id \in Id : \A i \in DOMAIN changes : changes[i].id # id}

Matches == Matching(rows, asked.filter)

\* Rows that have slipped past the client.
Slipped == Below(rows, Matches, Cut, Untouched \ ToSet(Seen))

\* Rows that the client has seen and is about to see again.
Returning == From(rows, Matches, Cut, ToSet(Seen))

\* By how much the table has outgrown the total that the client goes by.
Excess ==
  IF "total" \in DOMAIN answers /\ Cardinality(Matches) > answers["total"]
  THEN Cardinality(Matches) - answers["total"]
  ELSE 0

(***************************************************************************)
(* WalkDrift speaks of the end of a walk.  On the way, what has slipped    *)
(* past the client and what it will not turn to the next page for are paid *)
(* for by mutations, and so are the repetitions that have happened and     *)
(* those that are to come.                                                 *)
(***************************************************************************)
DriftInv ==
  asked.kind = "walk" /\ ~twins =>
    /\ stage = "walk" =>
         /\ Cardinality(Slipped) + Excess <= Len(changes)
         /\ Len(Seen) - Cardinality(ToSet(Seen)) + Cardinality(Returning)
              <= Cardinality(Writes)
    /\ WalkDrift

----------------------------------------------------------------------------
(* Ranks *)

LEMMA OneMore ==
  ASSUME NEW A, IsFiniteSet(A), NEW B, \A u, v \in B \ A : u = v
  PROVE  /\ IsFiniteSet(B) /\ Cardinality(A) \in Nat /\ Cardinality(B) \in Nat
         /\ Cardinality(B) <= Cardinality(A) + 1
<1>1. Cardinality(A) \in Nat
  BY FS_CardinalityType
<1>2. CASE B \subseteq A
  <2>1. IsFiniteSet(B) /\ Cardinality(B) <= Cardinality(A)
    BY <1>2, FS_Subset
  <2> QED
    BY <1>1, <2>1, FS_CardinalityType
<1>3. CASE ~(B \subseteq A)
  <2>1. PICK z \in B \ A : TRUE
    BY <1>3
  <2>2. B \subseteq A \cup {z}
    BY <2>1
  <2>3. IsFiniteSet(A \cup {z}) /\ Cardinality(A \cup {z}) = Cardinality(A) + 1
    BY <2>1, FS_AddElement
  <2>4. IsFiniteSet(B) /\ Cardinality(B) <= Cardinality(A \cup {z})
    BY <2>2, <2>3, FS_Subset
  <2> QED
    BY <1>1, <2>3, <2>4, FS_CardinalityType
<1> QED
  BY <1>2, <1>3

\* S is a set of rows of table, and no two rows share a date.
Listed(table, S) ==
  /\ IsFiniteSet(S) /\ S \subseteq DOMAIN table
  /\ \A id \in S : table[id].date \in Date
  /\ DistinctDates(table)

LEMMA RankTypes ==
  ASSUME NEW table, NEW S, Listed(table, S), NEW x \in S
  PROVE  Rank(table, S, x) \in 0..(Cardinality(S) - 1) /\ Cardinality(S) \in Nat
<1>1. IsFiniteSet(S) /\ Cardinality(S) \in Nat
  BY FS_CardinalityType DEF Listed
<1>2. Rank(table, S, x) \in Nat
  BY <1>1, RanksAreFinite DEF Rank
<1>3. Later(table, S, x) \subseteq S \ {x}
  BY DateFields DEF Later, Listed, Before
<1>4. IsFiniteSet(S \ {x}) /\ Cardinality(S \ {x}) = Cardinality(S) - 1
  BY <1>1, FS_RemoveElement
<1>5. Rank(table, S, x) <= Cardinality(S) - 1
  BY <1>3, <1>4, FS_Subset DEF Rank
<1> QED
  BY <1>1, <1>2, <1>5

\* The newer of two rows has the lower rank.
LEMMA NewerIsLower ==
  ASSUME NEW table, NEW S, Listed(table, S), NEW x \in S, NEW y \in S,
         Before(table[x].date, table[y].date)
  PROVE  Rank(table, S, y) < Rank(table, S, x)
<1>1. /\ IsFiniteSet(Later(table, S, x)) /\ Cardinality(Later(table, S, x)) \in Nat
      /\ IsFiniteSet(Later(table, S, y)) /\ Cardinality(Later(table, S, y)) \in Nat
  BY RanksAreFinite DEF Listed
<1>2. y \notin Later(table, S, y)
  BY DateFields DEF Later, Listed, Before
<1>3. \A d, e, f \in Date : Before(d, e) /\ Before(e, f) => Before(d, f)
  BY DateFields DEF Before
<1>4. Later(table, S, y) \cup {y} \subseteq Later(table, S, x)
  BY <1>3 DEF Later, Listed
<1>5. Cardinality(Later(table, S, y) \cup {y}) = Cardinality(Later(table, S, y)) + 1
  BY <1>1, <1>2, FS_AddElement
<1>6. Cardinality(Later(table, S, y) \cup {y}) <= Cardinality(Later(table, S, x))
  BY <1>1, <1>4, FS_Subset
<1> QED
  BY <1>1, <1>5, <1>6 DEF Rank

\* No two rows have the same rank.
LEMMA RanksDiffer ==
  ASSUME NEW table, NEW S, Listed(table, S), NEW x \in S, NEW y \in S,
         Rank(table, S, x) = Rank(table, S, y)
  PROVE  x = y
<1> SUFFICES ASSUME x # y PROVE FALSE
  OBVIOUS
<1>1. table[x].date \in Date /\ table[y].date \in Date /\ table[x].date # table[y].date
  BY DEF Listed, DistinctDates
<1>2. Before(table[x].date, table[y].date) \/ Before(table[y].date, table[x].date)
  BY <1>1, BeforeIsAnOrder
<1>3. Rank(table, S, x) \in Int /\ Rank(table, S, y) \in Int
  BY RankTypes
<1> QED
  BY <1>2, <1>3, NewerIsLower

\* The rows from rank b on are those that b rows leave over.
LEMMA RestOfRows ==
  ASSUME NEW table, NEW S, Listed(table, S), NEW b \in Nat, NEW V
  PROVE  /\ IsFiniteSet(From(table, S, b, V))
         /\ Cardinality(From(table, S, b, V)) \in Nat
         /\ Cardinality(S) \in Nat
         /\ Cardinality(From(table, S, b, V)) <=
              IF Cardinality(S) > b THEN Cardinality(S) - b ELSE 0
<1> DEFINE R == From(table, S, b, V)
           n == Cardinality(S)
           f == [x \in R |-> Rank(table, S, x)]
<1>1. n \in Nat /\ IsFiniteSet(R) /\ Cardinality(R) \in Nat
  <2>1. R \subseteq S /\ IsFiniteSet(S)
    BY DEF From, Listed
  <2> QED
    BY <2>1, FS_Subset, FS_CardinalityType
<1>2. f \in Injection(R, b..(n - 1))
  <2>1. \A x \in R : x \in S /\ Rank(table, S, x) \in b..(n - 1)
    <3> SUFFICES ASSUME NEW x \in R PROVE x \in S /\ Rank(table, S, x) \in b..(n - 1)
      OBVIOUS
    <3>1. x \in S /\ Rank(table, S, x) >= b
      BY DEF From
    <3> QED
      BY <1>1, <3>1, RankTypes
  <2>2. \A x, y \in R : f[x] = f[y] => x = y
    BY <2>1, RanksDiffer
  <2> QED
    BY <2>1, <2>2 DEF Injection, IsInjective
<1>3. /\ IsFiniteSet(b..(n - 1))
      /\ Cardinality(b..(n - 1)) = IF b > n - 1 THEN 0 ELSE n - 1 - b + 1
  <2> HIDE DEF n
  <2>1. b \in Int /\ n - 1 \in Int
    BY <1>1
  <2> QED
    BY <2>1, FS_Interval
<1>4. Cardinality(R) <= Cardinality(b..(n - 1))
  BY <1>2, <1>3, FS_Injection
<1> HIDE DEF R, n
<1> QED
  BY <1>1, <1>3, <1>4 DEF R, n

----------------------------------------------------------------------------
(* What a mutation of the row y moves *)

\* The table becomes next, and the matching rows S become T.
Mutated(table, S, next, T, y) ==
  /\ Listed(table, S) /\ Listed(next, T)
  /\ S \ {y} = T \ {y}
  /\ \A id \in S \ {y} : next[id].date = table[id].date

\* Without y, a row rises by one rank if y is newer.
LEMMA RankWithout ==
  ASSUME NEW table, NEW S, Listed(table, S), NEW y, NEW x \in S \ {y}
  PROVE  /\ Listed(table, S \ {y})
         /\ Rank(table, S \ {y}, x) \in Nat
         /\ Rank(table, S, x) = IF y \in S /\ Before(table[x].date, table[y].date)
                                THEN Rank(table, S \ {y}, x) + 1
                                ELSE Rank(table, S \ {y}, x)
<1>1. Listed(table, S \ {y})
  BY FS_Subset DEF Listed
<1>2. IsFiniteSet(Later(table, S, x)) /\ Cardinality(Later(table, S, x)) \in Nat
  BY RanksAreFinite DEF Listed
<1>3. Later(table, S \ {y}, x) = Later(table, S, x) \ {y}
  BY DEF Later
<1>4. /\ Cardinality(Later(table, S, x) \ {y}) \in Nat
      /\ y \in Later(table, S, x) =>
           Cardinality(Later(table, S, x) \ {y}) = Cardinality(Later(table, S, x)) - 1
  BY <1>2, FS_RemoveElement, FS_CardinalityType
<1>5. y \notin Later(table, S, x) => Later(table, S, x) \ {y} = Later(table, S, x)
  OBVIOUS
<1>6. y \in Later(table, S, x) <=> y \in S /\ Before(table[x].date, table[y].date)
  BY DEF Later
<1>7. CASE y \in Later(table, S, x)
  <2>1. Rank(table, S \ {y}, x) = Rank(table, S, x) - 1
    BY <1>3, <1>4, <1>7 DEF Rank
  <2>2. Rank(table, S, x) \in Nat
    BY <1>2 DEF Rank
  <2>3. Rank(table, S \ {y}, x) \in Nat
    BY <1>3, <1>4 DEF Rank
  <2> QED
    BY <1>1, <1>6, <1>7, <2>1, <2>2, <2>3
<1>8. CASE y \notin Later(table, S, x)
  <2>1. Rank(table, S \ {y}, x) = Rank(table, S, x)
    BY <1>3, <1>5, <1>8 DEF Rank
  <2>2. Rank(table, S \ {y}, x) \in Nat
    BY <1>3, <1>4 DEF Rank
  <2> QED
    BY <1>1, <1>6, <1>8, <2>1, <2>2
<1> QED
  BY <1>7, <1>8

LEMMA SameRanks ==
  ASSUME NEW table, NEW next, NEW S, \A id \in S : next[id].date = table[id].date, NEW x \in S
  PROVE  Rank(next, S, x) = Rank(table, S, x)
<1>1. Later(next, S, x) = Later(table, S, x)
  BY DEF Later
<1> QED
  BY <1>1 DEF Rank

\* The rank of another row before and after, against the one it has without y.
LEMMA RankMoves ==
  ASSUME NEW table, NEW S, NEW next, NEW T, NEW y, Mutated(table, S, next, T, y),
         NEW x \in S \ {y}
  PROVE  /\ Rank(table, S \ {y}, x) \in Nat
         /\ Rank(table, S, x) = IF y \in S /\ Before(table[x].date, table[y].date)
                                THEN Rank(table, S \ {y}, x) + 1
                                ELSE Rank(table, S \ {y}, x)
         /\ Rank(next, T, x) = IF y \in T /\ Before(next[x].date, next[y].date)
                               THEN Rank(table, S \ {y}, x) + 1
                               ELSE Rank(table, S \ {y}, x)
<1>1. Listed(table, S) /\ Listed(next, T) /\ x \in T \ {y} /\ T \ {y} = S \ {y}
  BY DEF Mutated
<1>2. Rank(next, T \ {y}, x) = Rank(table, S \ {y}, x)
  <2>1. \A id \in S \ {y} : next[id].date = table[id].date
    BY DEF Mutated
  <2> QED
    BY <1>1, <2>1, SameRanks
<1>3. /\ Rank(table, S \ {y}, x) \in Nat
      /\ Rank(table, S, x) = IF y \in S /\ Before(table[x].date, table[y].date)
                             THEN Rank(table, S \ {y}, x) + 1
                             ELSE Rank(table, S \ {y}, x)
  BY <1>1, RankWithout
<1>4. Rank(next, T, x) = IF y \in T /\ Before(next[x].date, next[y].date)
                        THEN Rank(next, T \ {y}, x) + 1
                        ELSE Rank(next, T \ {y}, x)
  BY <1>1, RankWithout
<1> QED
  BY <1>2, <1>3, <1>4

\* Rows of one rank without y are one row.
LEMMA RankWithoutDiffers ==
  ASSUME NEW table, NEW S, NEW y, Listed(table, S), NEW u \in S \ {y}, NEW v \in S \ {y},
         Rank(table, S \ {y}, u) = Rank(table, S \ {y}, v)
  PROVE  u = v
<1>1. Listed(table, S \ {y})
  BY RankWithout
<1> QED
  BY <1>1, RanksDiffer

(***************************************************************************)
(* A mutation of y takes at most one other row from the far side of the    *)
(* cut to the near side, and none if y newly matches.                      *)
(***************************************************************************)
LEMMA BelowMoves ==
  ASSUME NEW table, NEW S, NEW next, NEW T, NEW y, Mutated(table, S, next, T, y),
         NEW b \in Nat, NEW V, NEW W, W \subseteq V \ {y}
  PROVE  /\ \A u, v \in Below(next, T, b, W) \ Below(table, S, b, V) : u = v
         /\ y \notin S /\ y \in T => Below(next, T, b, W) \subseteq Below(table, S, b, V)
<1>1. Listed(table, S) /\ T \ {y} = S \ {y}
  BY DEF Mutated
<1>2. ASSUME NEW u \in Below(next, T, b, W) \ Below(table, S, b, V)
      PROVE  u \in S \ {y} /\ Rank(table, S \ {y}, u) = b - 1 /\ (y \in S \/ y \notin T)
  <2>1. u \in S \ {y} /\ u \in V /\ Rank(next, T, u) < b
    BY <1>1, <1>2 DEF Below
  <2>2. ~(Rank(table, S, u) < b)
    BY <1>2, <2>1 DEF Below
  <2> QED
    BY <2>1, <2>2, RankMoves
<1>3. ASSUME NEW u \in Below(next, T, b, W) \ Below(table, S, b, V),
             NEW v \in Below(next, T, b, W) \ Below(table, S, b, V)
      PROVE  u = v
  <2>1. /\ u \in S \ {y} /\ v \in S \ {y}
        /\ Rank(table, S \ {y}, u) = Rank(table, S \ {y}, v)
    BY <1>2
  <2> QED
    BY <1>1, <2>1, RankWithoutDiffers
<1> QED
  BY <1>2, <1>3

(***************************************************************************)
(* A mutation of y takes at most one row, y included, from the near side   *)
(* of the cut to the far side, and none if y no longer matches.            *)
(***************************************************************************)
LEMMA FromMoves ==
  ASSUME NEW table, NEW S, NEW next, NEW T, NEW y, Mutated(table, S, next, T, y),
         NEW b \in Nat, NEW V
  PROVE  /\ \A u, v \in From(next, T, b, V) \ From(table, S, b, V) : u = v
         /\ y \notin T => From(next, T, b, V) \subseteq From(table, S, b, V)
<1> DEFINE New == From(next, T, b, V) \ From(table, S, b, V)
<1>1. Listed(table, S) /\ Listed(next, T) /\ T \ {y} = S \ {y}
  BY DEF Mutated
<1>2. ASSUME NEW u \in New, u # y
      PROVE  /\ u \in S \ {y} /\ Rank(table, S \ {y}, u) = b - 1
             /\ y \in T /\ Before(next[u].date, next[y].date)
             /\ u \in T /\ Rank(next, T, u) = b
  <2>1. u \in S \ {y} /\ u \in V /\ u \in T /\ Rank(next, T, u) >= b
    BY <1>1, <1>2 DEF From
  <2>2. ~(Rank(table, S, u) >= b)
    BY <1>2, <2>1 DEF From
  <2> QED
    BY <2>1, <2>2, RankMoves
<1>3. ASSUME NEW u \in New, u # y PROVE y \notin New
  <2>1. Rank(next, T, y) < Rank(next, T, u) /\ Rank(next, T, y) \in Int /\ Rank(next, T, u) = b
    BY <1>1, <1>2, <1>3, NewerIsLower, RankTypes
  <2> QED
    BY <2>1 DEF From
<1>4. ASSUME NEW u \in New, NEW v \in New PROVE u = v
  <2>1. CASE u # y /\ v # y
    <3>1. /\ u \in S \ {y} /\ v \in S \ {y}
          /\ Rank(table, S \ {y}, u) = Rank(table, S \ {y}, v)
      BY <1>2, <1>4, <2>1
    <3> QED
      BY <1>1, <3>1, RankWithoutDiffers
  <2> QED
    BY <1>3, <1>4, <2>1
<1>5. y \notin T => New = {}
  <2> SUFFICES ASSUME y \notin T, NEW u \in New PROVE FALSE
    OBVIOUS
  <2>1. u # y
    BY DEF From
  <2> QED
    BY <1>2, <2>1
<1> QED
  BY <1>4, <1>5

LEMMA SizeMoves ==
  ASSUME NEW table, NEW S, NEW next, NEW T, NEW y, Mutated(table, S, next, T, y)
  PROVE  /\ Cardinality(S) \in Nat /\ Cardinality(T) \in Nat
         /\ Cardinality(T) <= Cardinality(S) + 1
         /\ y \in S \/ y \notin T => Cardinality(T) <= Cardinality(S)
<1>1. IsFiniteSet(S) /\ T \ {y} = S \ {y}
  BY DEF Mutated, Listed
<1>2. \A u, v \in T \ S : u = v
  BY <1>1
<1>3. /\ Cardinality(S) \in Nat /\ Cardinality(T) \in Nat
      /\ Cardinality(T) <= Cardinality(S) + 1
  BY <1>1, <1>2, OneMore
<1>4. ASSUME y \in S \/ y \notin T PROVE Cardinality(T) <= Cardinality(S)
  <2>1. T \subseteq S
    BY <1>1, <1>4
  <2> QED
    BY <1>1, <2>1, FS_Subset
<1> QED
  BY <1>3, <1>4

----------------------------------------------------------------------------
(* What a page shows *)

\* In an order of rows with distinct dates, ranks are positions.
LEMMA OrderIsRanked ==
  ASSUME NEW table, NEW S, Listed(table, S), NEW s \in Orders(table, S)
  PROVE  /\ \A k \in 1..Len(s) : s[k] \in S /\ Rank(table, S, s[k]) = k - 1
         /\ \A x \in S : Rank(table, S, x) + 1 \in 1..Len(s) /\ x = s[Rank(table, S, x) + 1]
<1>1. /\ s \in Seq(S) /\ Len(s) = Cardinality(S)
      /\ \A i, j \in 1..Len(s) : s[i] = s[j] => i = j
      /\ PlacedFrom(table, S, s, 0)
  BY OrderProperties, OrderPlaces DEF Listed
<1>2. ASSUME NEW k \in 1..Len(s) PROVE s[k] \in S /\ Rank(table, S, s[k]) = k - 1
  <2> DEFINE x == s[k]
  <2>1. x \in S /\ k \in Int
    BY <1>1
  <2>2. Placed(table, S, x, 0 + k) /\ 0 + k = k
    BY <1>1 DEF PlacedFrom
  <2> HIDE DEF x
  <2>3. /\ IsFiniteSet(Later(table, S, x)) /\ Cardinality(Later(table, S, x)) \in Nat
        /\ Cardinality(NotEarlier(table, S, x)) \in Nat
    BY RanksAreFinite DEF Listed
  <2>4. \A u, v \in NotEarlier(table, S, x) \ Later(table, S, x) : u = v
    BY <2>1, BeforeIsAnOrder DEF NotEarlier, Later, DistinctDates, Listed
  <2>5. Cardinality(NotEarlier(table, S, x)) <= Cardinality(Later(table, S, x)) + 1
    BY <2>3, <2>4, OneMore
  <2>6. Rank(table, S, x) = k - 1
    BY <2>1, <2>2, <2>3, <2>5 DEF Placed, Rank
  <2> QED
    BY <2>1, <2>6 DEF x
<1>3. ASSUME NEW x \in S
      PROVE  Rank(table, S, x) + 1 \in 1..Len(s) /\ x = s[Rank(table, S, x) + 1]
  <2>1. x \in Prefix(s, Len(s))
    BY <1>1, OrderIsOnto DEF Listed
  <2>2. PICK k \in 1..Len(s) : x = s[k]
    BY <2>1 DEF Prefix
  <2>3. Rank(table, S, x) = k - 1 /\ k \in Int
    BY <1>2, <2>2
  <2>4. Rank(table, S, x) + 1 = k
    BY <2>3
  <2> QED
    BY <2>2, <2>4
<1> QED
  BY <1>2, <1>3

\* A page shows, each once, the rows whose ranks it covers.
LEMMA PageIsRanked ==
  ASSUME NEW table, NEW S, Listed(table, S), NEW s \in Orders(table, S),
         NEW p \in Nat \ {0}, NEW L \in 1..100
  PROVE  LET cut == PageOfRows(s, p, L) IN
         /\ Skip(p, L) \in Nat /\ cut \in Seq(S)
         /\ IsFiniteSet(ToSet(cut)) /\ Cardinality(ToSet(cut)) = Len(cut)
         /\ \A x \in S : x \in ToSet(cut) <=>
                            Skip(p, L) <= Rank(table, S, x) /\ Rank(table, S, x) < Skip(p, L) + L
<1> DEFINE cut == PageOfRows(s, p, L)
           skip == Skip(p, L)
<1>1. s \in Seq(S) /\ \A i, j \in 1..Len(s) : s[i] = s[j] => i = j
  BY OrderProperties DEF Listed
<1>2. cut \in Seq(S) /\ skip \in Nat /\ IsPage(s, p, L, cut)
  BY <1>1, PageProperties
<1> HIDE DEF cut
<1>3. /\ skip <= Len(s) => Len(cut) = AtMost(L, Len(s) - skip)
      /\ \A i \in 1..Len(cut) : skip + i \in 1..Len(s) /\ cut[i] = s[skip + i]
  BY <1>2 DEF IsPage
<1> HIDE DEF skip
<1>4. Len(s) \in Nat /\ Len(cut) \in Nat
  BY <1>1, <1>2
<1>5. IsFiniteSet(ToSet(cut)) /\ Cardinality(ToSet(cut)) = Len(cut)
  <2>1. \A i, j \in 1..Len(cut) : cut[i] = cut[j] => i = j
    <3> SUFFICES ASSUME NEW i \in 1..Len(cut), NEW j \in 1..Len(cut), cut[i] = cut[j]
                 PROVE  i = j
      OBVIOUS
    <3>1. skip + i = skip + j
      BY <1>1, <1>3
    <3> QED
      BY <1>2, <3>1
  <2>2. ToSet(cut) = Prefix(cut, Len(cut))
    BY <1>2 DEF ToSet, Prefix
  <2>3. Len(cut) \in 0..Len(cut)
    BY <1>4
  <2> QED
    BY <1>2, <2>1, <2>2, <2>3, PrefixSize
<1>6. ASSUME NEW x \in S, x \in ToSet(cut)
      PROVE  skip <= Rank(table, S, x) /\ Rank(table, S, x) < skip + L
  <2>1. PICK i \in 1..Len(cut) : x = cut[i]
    BY <1>2, <1>6 DEF ToSet
  <2>2. PICK k \in 1..Len(s) : k = skip + i /\ x = s[k]
    BY <1>3, <2>1
  <2>3. Rank(table, S, x) = k - 1
    BY <2>2, OrderIsRanked
  <2>4. Len(cut) <= L
    <3>1. skip <= Len(s)
      BY <1>2, <1>4, <2>2
    <3> QED
      BY <1>2, <1>3, <1>4, <3>1 DEF AtMost
  <2> QED
    BY <1>2, <1>4, <2>2, <2>3, <2>4
<1>7. ASSUME NEW x \in S, skip <= Rank(table, S, x), Rank(table, S, x) < skip + L
      PROVE  x \in ToSet(cut)
  <2> DEFINE r == Rank(table, S, x)
             i == r + 1 - skip
  <2>1. r + 1 \in 1..Len(s) /\ x = s[r + 1] /\ r \in Nat
    <3>1. r \in 0..(Cardinality(S) - 1)
      BY RankTypes
    <3> QED
      BY <3>1, OrderIsRanked
  <2> HIDE DEF r
  <2>2. skip <= r /\ r < skip + L
    BY <1>7 DEF r
  <2>3. i \in 1..Len(cut)
    <3>1. skip <= Len(s)
      BY <1>2, <1>4, <2>1, <2>2
    <3>2. Len(cut) = AtMost(L, Len(s) - skip)
      BY <1>3, <3>1
    <3> QED
      BY <1>2, <1>4, <2>1, <2>2, <3>2 DEF AtMost
  <2>4. skip + i = r + 1
    BY <1>2, <2>1
  <2>5. cut[i] = x
    BY <1>3, <2>1, <2>3, <2>4
  <2> QED
    BY <1>2, <2>3, <2>5 DEF ToSet
<1> QED
  BY <1>2, <1>5, <1>6, <1>7 DEF cut, skip

LEMMA SetOfSequence ==
  ASSUME NEW A, NEW s \in Seq(A), NEW t \in Seq(A)
  PROVE  /\ IsFiniteSet(ToSet(s)) /\ Cardinality(ToSet(s)) \in Nat /\ Len(s) \in Nat
         /\ Len(s \o t) = Len(s) + Len(t)
         /\ ToSet(s \o t) = ToSet(s) \cup ToSet(t)
<1>1. Len(s) \in Nat /\ Len(t) \in Nat /\ Len(s \o t) = Len(s) + Len(t)
  OBVIOUS
<1>2. IsFiniteSet(ToSet(s))
  <2> DEFINE f == [i \in 1..Len(s) |-> s[i]]
  <2>1. DOMAIN s = 1..Len(s)
    OBVIOUS
  <2>2. f \in Surjection(1..Len(s), ToSet(s))
    BY <2>1 DEF ToSet, Surjection
  <2>3. IsFiniteSet(1..Len(s))
    BY <1>1, FS_Interval
  <2> QED
    BY <2>2, <2>3, FS_Surjection
<1>3. ToSet(s \o t) = ToSet(s) \cup ToSet(t)
  <2>1. \A i \in 1..Len(s) : i \in 1..Len(s \o t) /\ (s \o t)[i] = s[i]
    OBVIOUS
  <2>2. \A i \in 1..Len(t) : Len(s) + i \in 1..Len(s \o t) /\ (s \o t)[Len(s) + i] = t[i]
    OBVIOUS
  <2>3. \A i \in 1..Len(s \o t) :
          \/ i \in 1..Len(s) /\ (s \o t)[i] = s[i]
          \/ i - Len(s) \in 1..Len(t) /\ (s \o t)[i] = t[i - Len(s)]
    OBVIOUS
  <2>4. DOMAIN s = 1..Len(s) /\ DOMAIN t = 1..Len(t) /\ DOMAIN (s \o t) = 1..Len(s \o t)
    OBVIOUS
  <2>5. ToSet(s \o t) \subseteq ToSet(s) \cup ToSet(t)
    BY <2>3, <2>4 DEF ToSet
  <2>6. ToSet(s) \cup ToSet(t) \subseteq ToSet(s \o t)
    BY <2>1, <2>2, <2>4 DEF ToSet
  <2> QED
    BY <2>5, <2>6
<1> QED
  BY <1>1, <1>2, <1>3, FS_CardinalityType

(***************************************************************************)
(* A page fetched repeats rows that were about to return, each once, and   *)
(* leaves none of its own behind.                                          *)
(***************************************************************************)
LEMMA PageMoves ==
  ASSUME NEW table, NEW S, Listed(table, S), S \subseteq Id, NEW s \in Orders(table, S),
         NEW p \in Nat \ {0}, NEW L \in 1..100, NEW t \in Seq(Id), NEW U
  PROVE  LET both == t \o PageOfRows(s, p, L)
             skip == Skip(p, L)
         IN /\ Len(both) - Cardinality(ToSet(both))
                 + Cardinality(From(table, S, skip + L, ToSet(both)))
                 <= Len(t) - Cardinality(ToSet(t)) + Cardinality(From(table, S, skip, ToSet(t)))
            /\ Below(table, S, skip + L, U \ ToSet(both))
                 \subseteq Below(table, S, skip, U \ ToSet(t))
<1> DEFINE cut  == PageOfRows(s, p, L)
           skip == Skip(p, L)
           both == t \o cut
           P    == ToSet(cut)
           T    == ToSet(t)
           G    == From(table, S, skip, T)
           H    == From(table, S, skip + L, ToSet(both))
<1>1. /\ skip \in Nat /\ cut \in Seq(S)
      /\ IsFiniteSet(P) /\ Cardinality(P) = Len(cut)
      /\ \A x \in S : x \in P <=> skip <= Rank(table, S, x) /\ Rank(table, S, x) < skip + L
  BY PageIsRanked
<1>2. cut \in Seq(Id) /\ P \subseteq S
  BY <1>1 DEF ToSet
<1>3. \A x \in S : Rank(table, S, x) \in Nat
  BY RankTypes
<1> HIDE DEF cut, skip
<1>4. /\ IsFiniteSet(T) /\ Cardinality(T) \in Nat /\ Len(t) \in Nat /\ Len(cut) \in Nat
      /\ Len(both) = Len(t) + Len(cut) /\ ToSet(both) = T \cup P
  BY <1>2, SetOfSequence
<1> HIDE DEF both, P, T
<1>5. Cardinality(T \cup P) = Cardinality(T) + Cardinality(P) - Cardinality(T \cap P)
  BY <1>1, <1>4, FS_Union
<1>6. IsFiniteSet(G) /\ IsFiniteSet(H) /\ IsFiniteSet(T \cap P)
  <2>1. G \subseteq S /\ H \subseteq S /\ T \cap P \subseteq P /\ IsFiniteSet(S)
    BY DEF From, Listed
  <2> QED
    BY <1>1, <2>1, FS_Subset
<1>7. H \cup (T \cap P) \subseteq G /\ H \cap (T \cap P) = {}
  <2>1. \A x \in H : x \in S /\ x \in T /\ Rank(table, S, x) >= skip + L /\ x \notin P
    BY <1>1, <1>3, <1>4 DEF From
  <2>2. \A x \in H : x \in G
    BY <1>1, <1>3, <2>1 DEF From
  <2>3. \A x \in T \cap P : x \in G
    BY <1>1, <1>2, <1>3 DEF From
  <2> QED
    BY <2>1, <2>2, <2>3
<1>8. Cardinality(H) + Cardinality(T \cap P) <= Cardinality(G)
  <2>1. Cardinality(H \cup (T \cap P)) = Cardinality(H) + Cardinality(T \cap P)
    <3>1. Cardinality(H \cap (T \cap P)) = 0
      BY <1>7, FS_EmptySet
    <3>2. Cardinality(H) \in Nat /\ Cardinality(T \cap P) \in Nat
      BY <1>6, FS_CardinalityType
    <3>3. Cardinality(H \cup (T \cap P)) =
            Cardinality(H) + Cardinality(T \cap P) - Cardinality(H \cap (T \cap P))
      BY <1>6, FS_Union
    <3> QED
      BY <3>1, <3>2, <3>3
  <2>2. Cardinality(H \cup (T \cap P)) <= Cardinality(G)
    BY <1>6, <1>7, FS_Subset
  <2> QED
    BY <2>1, <2>2
<1>9. /\ Cardinality(H) \in Nat /\ Cardinality(T \cap P) \in Nat /\ Cardinality(G) \in Nat
      /\ Cardinality(P) \in Nat
  BY <1>1, <1>6, FS_CardinalityType
<1>10. Below(table, S, skip + L, U \ ToSet(both)) \subseteq Below(table, S, skip, U \ T)
  BY <1>1, <1>3, <1>4 DEF Below
<1> HIDE DEF G, H
<1>11. Len(both) - Cardinality(ToSet(both)) + Cardinality(H)
         <= Len(t) - Cardinality(T) + Cardinality(G)
  BY <1>1, <1>4, <1>5, <1>8, <1>9
<1> QED
  BY <1>10, <1>11 DEF both, cut, skip, T, G, H

----------------------------------------------------------------------------
(* The steps of a walk *)

LEMMA MatchingIsListed ==
  ASSUME NEW table, IsTable(table), DistinctDates(table), NEW filter
  PROVE  Listed(table, Matching(table, filter)) /\ Matching(table, filter) \subseteq Id
BY MatchingIsFinite DEF Listed, Matching, Live, IsTable, Row

\* What the steps are told.
LEMMA DriftFacts ==
  ASSUME IInv, TwinsInv, stage = "walk", ~twins
  PROVE  /\ IsTable(rows) /\ asked.kind = "walk"
         /\ Listed(rows, Matches) /\ Matches \subseteq Id
         /\ asked.limit \in 1..100 /\ page \in Nat \ {0} /\ Skip(page, asked.limit) \in Nat
         /\ Cut \in Nat /\ Seen \in Seq(Id) /\ shown \in Seq(Id)
         /\ Excess \in Nat
         /\ Len(changes) \in Nat
<1>1. /\ IsTable(rows) /\ asked \in [kind: {"walk"}, filter: Filter, limit: 1..100]
      /\ asked.limit \in 1..100 /\ page \in Nat \ {0} /\ Skip(page, asked.limit) \in Nat
      /\ shown \in Seq(Id)
  BY WalkTypes, WalkFacts
<1>2. Listed(rows, Matches) /\ Matches \subseteq Id
  BY <1>1, MatchingIsListed DEF Matches, TwinsInv
<1>3. Cut \in Nat
  <2>1. Skip(page, asked.limit) \in Nat /\ asked.limit \in 1..100
    BY WalkFacts
  <2>2. Skip(page, asked.limit) + asked.limit \in Nat
    BY <2>1
  <2> QED
    BY <2>1, <2>2 DEF Cut
<1>4. Seen \in Seq(Id)
  BY <1>1 DEF Seen, IInv
<1>5. Excess \in Nat
  <2>1. Cardinality(Matches) \in Nat
    BY <1>2, FS_CardinalityType DEF Listed
  <2> QED
    BY <2>1 DEF Excess, IInv
<1>6. Len(changes) \in Nat
  BY DEF IInv, TypeOK
<1> QED
  BY <1>1, <1>2, <1>3, <1>4, <1>5, <1>6

LEMMA WritesAreFinite ==
  ASSUME IInv
  PROVE  IsFiniteSet(Writes) /\ Cardinality(Writes) \in Nat
<1>1. DOMAIN changes = 1..Len(changes) /\ Len(changes) \in Nat
  BY DEF IInv, TypeOK
<1>2. IsFiniteSet(1..Len(changes)) /\ Writes \subseteq 1..Len(changes)
  BY <1>1, FS_Interval DEF Writes
<1> QED
  BY <1>2, FS_Subset, FS_CardinalityType

LEMMA DriftTypes ==
  ASSUME IInv, TwinsInv, stage = "walk", ~twins
  PROVE  /\ IsFiniteSet(Slipped) /\ Cardinality(Slipped) \in Nat
         /\ IsFiniteSet(Returning) /\ Cardinality(Returning) \in Nat
         /\ IsFiniteSet(Writes) /\ Cardinality(Writes) \in Nat
         /\ IsFiniteSet(ToSet(Seen)) /\ Cardinality(ToSet(Seen)) \in Nat /\ Len(Seen) \in Nat
<1>1. IsFiniteSet(Slipped) /\ IsFiniteSet(Returning)
  <2>1. IsFiniteSet(Matches) /\ Slipped \subseteq Matches /\ Returning \subseteq Matches
    BY DriftFacts DEF Listed, Slipped, Returning, Below, From
  <2> QED
    BY <2>1, FS_Subset
<1>2. IsFiniteSet(Writes)
  BY WritesAreFinite
<1>3. IsFiniteSet(ToSet(Seen)) /\ Cardinality(ToSet(Seen)) \in Nat /\ Len(Seen) \in Nat
  BY DriftFacts, SetOfSequence
<1> QED
  BY <1>1, <1>2, <1>3, FS_CardinalityType

LEMMA StartKeepsDrift ==
  ASSUME IInv, TwinsInv, NEW filter \in Filters, NEW query \in Limits,
         StartWalk(filter, query)
  PROVE  DriftInv'
<1> SUFFICES ASSUME ~twins' PROVE DriftInv'
  BY DEF DriftInv
<1>1. /\ stage' = "walk" /\ shown' = << >> /\ DOMAIN answers' = {} /\ page' = 1
      /\ changes' = changes /\ rows' = rows /\ twins' = twins
  BY DEF StartWalk, IInv, PageOf, OrElse, AtLeast
<1>2. asked'.limit \in Int
  BY ParametersAssumption, PaginationTypes DEF StartWalk
<1>3. Listed(rows', Matches')
  BY <1>1, MatchingIsListed DEF Matches, TwinsInv, IInv, TypeOK
<1>4. Cut' = 0 /\ Seen' = << >> /\ Excess' = 0
  BY <1>1, <1>2 DEF Cut, Seen, Excess, Skip
<1>5. Slipped' = {}
  <2>1. \A x \in Matches' : ~(Rank(rows', Matches', x) < 0)
    BY <1>3, RankTypes
  <2> QED
    BY <1>4, <2>1 DEF Slipped, Below
<1>6. ToSet(<< >>) = {} /\ Len(<< >>) = 0
  BY DEF ToSet
<1>7. Returning' = {}
  BY <1>4, <1>6 DEF Returning, From
<1>8. Writes' = Writes /\ Cardinality(Writes) \in Nat /\ Len(changes) \in Nat
  BY <1>1, WritesAreFinite DEF Writes, IInv, TypeOK
<1>9. Cardinality({}) = 0
  BY FS_EmptySet
<1>10. /\ Cardinality(Slipped') + Excess' <= Len(changes')
       /\ Len(Seen') - Cardinality(ToSet(Seen')) + Cardinality(Returning') <= Cardinality(Writes')
  BY <1>1, <1>4, <1>5, <1>6, <1>7, <1>8, <1>9
<1> QED
  BY <1>1, <1>10 DEF DriftInv, WalkDrift, WalkOver

LEMMA ReadTotalKeepsDrift ==
  ASSUME IInv, TwinsInv, DriftInv, ReadTotal
  PROVE  DriftInv'
<1> SUFFICES ASSUME asked'.kind = "walk", ~twins' PROVE DriftInv'
  BY DEF DriftInv
<1>1. stage = "walk" /\ UNCHANGED <<rows, stage, asked, page, shown, changes, twins>>
  BY DEF ReadTotal
<1>2. "total" \in DOMAIN answers' /\ answers'["total"] = Cardinality(Matches)
  BY DEF ReadTotal, Answered, Matches
<1>3. /\ "page" \in DOMAIN answers' <=> "page" \in DOMAIN answers
      /\ "page" \in DOMAIN answers => answers'["page"] = answers["page"]
  BY DEF ReadTotal, Answered
<1>4. /\ Matches' = Matches /\ Seen' = Seen /\ Cut' = Cut /\ Untouched' = Untouched
      /\ Writes' = Writes
  BY <1>1, <1>3 DEF Matches, Seen, Cut, Untouched, Writes
<1>5. Slipped' = Slipped /\ Returning' = Returning
  BY <1>1, <1>4 DEF Slipped, Returning
<1>6. Excess' = 0
  <2>1. Cardinality(Matches) \in Nat
    BY <1>1, DriftFacts, FS_CardinalityType DEF Listed
  <2>2. ~(Cardinality(Matches') > answers'["total"])
    BY <1>2, <1>4, <2>1
  <2> QED
    BY <2>2 DEF Excess
<1>7. /\ Cardinality(Slipped) + Excess <= Len(changes)
      /\ Len(Seen) - Cardinality(ToSet(Seen)) + Cardinality(Returning) <= Cardinality(Writes)
  BY <1>1 DEF DriftInv
<1>8. Cardinality(Slipped) \in Nat /\ Excess \in Nat /\ Len(changes) \in Nat
  BY <1>1, DriftFacts, DriftTypes
<1>9. Cardinality(Slipped') + Excess' <= Len(changes')
  BY <1>1, <1>5, <1>6, <1>7, <1>8
<1>10. Len(Seen') - Cardinality(ToSet(Seen')) + Cardinality(Returning') <= Cardinality(Writes')
  BY <1>4, <1>5, <1>7
<1> QED
  BY <1>1, <1>9, <1>10 DEF DriftInv, WalkDrift, WalkOver

LEMMA ReadPageKeepsDrift ==
  ASSUME IInv, TwinsInv, DriftInv, ReadPage
  PROVE  DriftInv'
<1> SUFFICES ASSUME asked'.kind = "walk", ~twins' PROVE DriftInv'
  BY DEF DriftInv
<1> DEFINE L == asked.limit
           skip == Skip(page, L)
<1>1. /\ stage = "walk" /\ UNCHANGED <<rows, stage, asked, page, shown, changes, twins>>
      /\ "page" \notin DOMAIN answers
  BY DEF ReadPage, IInv
<1>2. PICK s \in Orders(rows, Matches) : Answered("page", PageOfRows(s, page, L))
  BY DEF ReadPage, Matches
<1> DEFINE both == shown \o PageOfRows(s, page, L)
<1>3. /\ Matches' = Matches /\ Untouched' = Untouched /\ Writes' = Writes
      /\ Seen = shown /\ Seen' = both /\ Cut = skip /\ Cut' = skip + L
  BY <1>1, <1>2 DEF Matches, Untouched, Writes, Seen, Cut, Answered
<1>4. Excess' = Excess
  <2>1. /\ "total" \in DOMAIN answers' <=> "total" \in DOMAIN answers
        /\ "total" \in DOMAIN answers => answers'["total"] = answers["total"]
    BY <1>2 DEF Answered
  <2> QED
    BY <1>3, <2>1 DEF Excess
<1>5. /\ Listed(rows, Matches) /\ Matches \subseteq Id /\ L \in 1..100 /\ page \in Nat \ {0}
      /\ shown \in Seq(Id) /\ Excess \in Nat /\ Len(changes) \in Nat
  BY <1>1, DriftFacts
<1> HIDE DEF L, skip, both
<1>6. /\ Len(both) - Cardinality(ToSet(both)) + Cardinality(From(rows, Matches, skip + L, ToSet(both)))
           <= Len(shown) - Cardinality(ToSet(shown)) + Cardinality(From(rows, Matches, skip, ToSet(shown)))
      /\ Below(rows, Matches, skip + L, Untouched \ ToSet(both))
           \subseteq Below(rows, Matches, skip, Untouched \ ToSet(shown))
  BY <1>5, PageMoves DEF skip, both
<1>7. /\ Slipped = Below(rows, Matches, skip, Untouched \ ToSet(shown))
      /\ Slipped' = Below(rows, Matches, skip + L, Untouched \ ToSet(both))
      /\ Returning = From(rows, Matches, skip, ToSet(shown))
      /\ Returning' = From(rows, Matches, skip + L, ToSet(both))
  BY <1>1, <1>3 DEF Slipped, Returning
<1>8. /\ IsFiniteSet(Slipped) /\ Cardinality(Slipped) \in Nat
      /\ Cardinality(Slipped) + Excess <= Len(changes)
      /\ Len(Seen) - Cardinality(ToSet(Seen)) + Cardinality(Returning) <= Cardinality(Writes)
  BY <1>1, DriftTypes DEF DriftInv
<1>9. Cardinality(Slipped') + Excess' <= Len(changes')
  <2>1. Cardinality(Slipped') <= Cardinality(Slipped) /\ Cardinality(Slipped') \in Nat
    BY <1>6, <1>7, <1>8, FS_Subset, FS_CardinalityType
  <2> QED
    BY <1>1, <1>4, <1>5, <1>8, <2>1
<1>10. Len(Seen') - Cardinality(ToSet(Seen')) + Cardinality(Returning') <= Cardinality(Writes')
  <2>1. /\ Len(both) \in Nat /\ Cardinality(ToSet(both)) \in Nat
        /\ Cardinality(Returning') \in Nat
    <3>1. PageOfRows(s, page, L) \in Seq(Id)
      <4>1. PageOfRows(s, page, L) \in Seq(Matches)
        BY <1>5, PageIsRanked
      <4> QED
        BY <1>5, <4>1
    <3>2. both \in Seq(Id)
      BY <1>5, <3>1 DEF both
    <3>3. IsFiniteSet(Returning')
      <4>1. Returning' \subseteq Matches
        BY <1>7 DEF From
      <4> QED
        BY <1>5, <4>1, FS_Subset DEF Listed
    <3> QED
      BY <3>2, <3>3, SetOfSequence, FS_CardinalityType
  <2>2. /\ Len(shown) \in Nat /\ Cardinality(ToSet(shown)) \in Nat
        /\ Cardinality(Returning) \in Nat /\ Cardinality(Writes) \in Nat
    BY <1>1, <1>3, DriftTypes
  <2> QED
    BY <1>3, <1>6, <1>7, <1>8, <2>1, <2>2
<1> QED
  BY <1>1, <1>9, <1>10 DEF DriftInv, WalkDrift, WalkOver

LEMMA SkipPage ==
  ASSUME NEW p \in Nat \ {0}, NEW L \in 1..100
  PROVE  L \in Nat \ {0} /\ p * L \in Nat /\ Skip(p, L) + L = p * L /\ Skip(p + 1, L) = p * L
<1>1. L \in Nat \ {0} /\ p * L \in Nat
  OBVIOUS
<1>2. Skip(p, L) = p * L - L /\ Skip(p + 1, L) = p * L
  BY DEF Skip
<1> QED
  BY <1>1, <1>2

(***************************************************************************)
(* At the last page the client has asked for as many ranks as the total    *)
(* had rows: what it misses has slipped past it, or is beyond the total.   *)
(***************************************************************************)
LEMMA TurnKeepsDrift ==
  ASSUME IInv, TwinsInv, DriftInv, Turn
  PROVE  DriftInv'
<1> SUFFICES ASSUME asked'.kind = "walk", ~twins' PROVE DriftInv'
  BY DEF DriftInv
<1> DEFINE L == asked.limit
           n == Cardinality(Matches)
           Rest == From(rows, Matches, Cut, Id)
<1>1. /\ stage = "walk" /\ UNCHANGED <<rows, asked, changes, twins>>
      /\ {"page", "total"} \subseteq DOMAIN answers /\ DOMAIN answers' = {}
      /\ shown' = shown \o answers["page"] /\ answers["total"] \in Nat
  BY DEF Turn, IInv
<1>2. /\ Listed(rows, Matches) /\ Matches \subseteq Id /\ L \in 1..100 /\ page \in Nat \ {0}
      /\ Skip(page, L) \in Nat /\ Cut \in Nat /\ Excess \in Nat /\ Len(changes) \in Nat
  BY <1>1, DriftFacts
<1>3. /\ Matches' = Matches /\ Untouched' = Untouched /\ Writes' = Writes
      /\ Seen = shown' /\ Seen' = shown' /\ Cut = Skip(page, L) + L
  BY <1>1 DEF Matches, Untouched, Writes, Seen, Cut
<1>4. Excess' = 0 /\ Excess = IF n > answers["total"] THEN n - answers["total"] ELSE 0
  BY <1>1 DEF Excess
<1>5. /\ Cardinality(Slipped) + Excess <= Len(changes)
      /\ Len(Seen) - Cardinality(ToSet(Seen)) + Cardinality(Returning) <= Cardinality(Writes)
  BY <1>1 DEF DriftInv
<1>6. /\ IsFiniteSet(Slipped) /\ Cardinality(Slipped) \in Nat /\ Cardinality(Returning) \in Nat
      /\ Cardinality(Writes) \in Nat /\ Cardinality(ToSet(Seen)) \in Nat /\ Len(Seen) \in Nat
  BY <1>1, DriftTypes
<1>7. L \in Nat \ {0} /\ page * L \in Nat /\ Cut = page * L
  BY <1>2, <1>3, SkipPage
<1> HIDE DEF L, n
<1>8. CASE page' = page + 1 /\ stage' = stage
  <2>1. Cut' = Cut
    <3>1. Skip(page + 1, L) = page * L
      BY <1>2, SkipPage
    <3>2. Cut' = Skip(page', asked'.limit)
      BY <1>1 DEF Cut
    <3> QED
      BY <1>1, <1>7, <1>8, <3>1, <3>2 DEF L
  <2>2. Slipped' = Slipped /\ Returning' = Returning
    BY <1>1, <1>3, <2>1 DEF Slipped, Returning
  <2>3. Cardinality(Slipped') + Excess' <= Len(changes')
    BY <1>1, <1>2, <1>4, <1>5, <1>6, <2>2
  <2>4. Len(Seen') - Cardinality(ToSet(Seen')) + Cardinality(Returning') <= Cardinality(Writes')
    BY <1>3, <1>5, <2>2
  <2> QED
    BY <1>1, <1>8, <2>3, <2>4 DEF DriftInv, WalkDrift, WalkOver
<1>9. CASE stage' = "done" /\ page >= TotalPages(answers["total"], L)
  <2>1. n \in Nat
    BY <1>2, FS_CardinalityType DEF Listed, n
  <2>2. answers["total"] <= Cut
    <3>1. TotalPages(answers["total"], L) \in Int
      BY <1>1, <1>7 DEF TotalPages
    <3>2. page \in Nat /\ ~(page < TotalPages(answers["total"], L))
      BY <1>2, <1>9, <3>1
    <3>3. ~(page * L < answers["total"])
      BY <1>1, <1>7, <3>2, MoreThan
    <3> QED
      BY <1>1, <1>7, <3>3
  <2>3. /\ IsFiniteSet(Rest) /\ Cardinality(Rest) \in Nat
        /\ Cardinality(Rest) <= IF n > Cut THEN n - Cut ELSE 0
    BY <1>2, RestOfRows DEF n
  <2>4. Cardinality(Rest) <= Excess
    BY <1>1, <1>2, <1>4, <2>1, <2>2, <2>3
  <2>5. Missed' \subseteq Slipped \cup Rest
    <3> SUFFICES ASSUME NEW x \in Missed', x \notin Rest PROVE x \in Slipped
      OBVIOUS
    <3>1. x \in Matches /\ x \in Id /\ x \notin ToSet(Seen) /\ \A i \in DOMAIN changes : changes[i].id # x
      BY <1>1, <1>2, <1>3 DEF Missed, Matches
    <3>2. Rank(rows, Matches, x) \in Int
      BY <1>2, <3>1, RankTypes
    <3>3. Rank(rows, Matches, x) < Cut
      BY <1>2, <3>1, <3>2 DEF From
    <3> QED
      BY <3>1, <3>3 DEF Slipped, Below, Untouched
  <2>6. Cardinality(Missed') <= Cardinality(Slipped) + Cardinality(Rest)
    <3>1. /\ IsFiniteSet(Slipped \cup Rest)
          /\ Cardinality(Slipped \cup Rest) =
               Cardinality(Slipped) + Cardinality(Rest) - Cardinality(Slipped \cap Rest)
      BY <1>6, <2>3, FS_Union
    <3>2. Cardinality(Slipped \cap Rest) \in Nat
      BY <1>6, FS_Subset, FS_CardinalityType
    <3>3. /\ Cardinality(Missed') <= Cardinality(Slipped \cup Rest)
          /\ Cardinality(Missed') \in Nat
      BY <2>5, <3>1, FS_Subset, FS_CardinalityType
    <3> QED
      BY <1>6, <2>3, <3>1, <3>2, <3>3
  <2>7. Cardinality(Missed') \in Nat
    BY <1>6, <2>3, <2>5, FS_Union, FS_Subset, FS_CardinalityType
  <2>8. Cardinality(Missed') <= Len(changes')
    BY <1>1, <1>2, <1>5, <1>6, <2>3, <2>4, <2>6, <2>7
  <2>9. Repeated' <= Cardinality(Writes')
    BY <1>3, <1>5, <1>6 DEF Repeated
  <2>10. WalkDrift'
    BY <2>8, <2>9 DEF WalkDrift
  <2> QED
    BY <1>9, <2>10 DEF DriftInv
<1> QED
  BY <1>8, <1>9 DEF Turn, L

\* A mutation joins the history.
LEMMA HistoryGrows ==
  ASSUME IInv, NEW kind, NEW id, NEW table, Change(kind, id, table)
  PROVE  /\ Len(changes') = Len(changes) + 1 /\ Len(changes) \in Nat
         /\ Untouched' \subseteq Untouched \ {id}
         /\ Cardinality(Writes') =
              IF kind = "delete" THEN Cardinality(Writes) ELSE Cardinality(Writes) + 1
<1> DEFINE n == Len(changes)
           new == [kind |-> kind, id |-> id]
<1>1. /\ changes \in Seq([kind: {"insert", "delete", "update"}, id: Id])
      /\ changes' = Append(changes, new)
  BY DEF Change, IInv, TypeOK
<1>2. /\ n \in Nat /\ DOMAIN changes = 1..n /\ DOMAIN changes' = 1..(n + 1)
      /\ \A i \in 1..n : changes'[i] = changes[i]
      /\ changes'[n + 1] = new /\ Len(changes') = n + 1
  BY <1>1
<1>3. Untouched' \subseteq Untouched \ {id}
  <2> SUFFICES ASSUME NEW x \in Untouched' PROVE x \in Untouched /\ x # id
    OBVIOUS
  <2>1. x \in Id /\ \A i \in 1..(n + 1) : changes'[i].id # x
    BY <1>2 DEF Untouched
  <2>2. n + 1 \in 1..(n + 1) /\ \A i \in 1..n : i \in 1..(n + 1)
    BY <1>2
  <2> QED
    BY <1>2, <2>1, <2>2 DEF Untouched
<1>4. Writes' = IF kind = "delete" THEN Writes ELSE Writes \cup {n + 1}
  <2>1. Writes' = {i \in 1..(n + 1) : changes'[i].kind # "delete"}
    BY <1>2 DEF Writes
  <2>2. Writes = {i \in 1..n : changes[i].kind # "delete"}
    BY <1>2 DEF Writes
  <2>3. 1..(n + 1) = (1..n) \cup {n + 1} /\ n + 1 \notin 1..n
    BY <1>2
  <2> QED
    BY <1>2, <2>1, <2>2, <2>3
<1>5. n + 1 \notin Writes /\ IsFiniteSet(Writes)
  BY <1>2, WritesAreFinite DEF Writes
<1> QED
  BY <1>2, <1>3, <1>4, <1>5, FS_AddElement

LEMMA ChangeKeepsDrift ==
  ASSUME IInv, TwinsInv, DriftInv, NEW kind, NEW id \in Id, NEW table, IsTable(table),
         Change(kind, id, table),
         \A x \in (DOMAIN rows \cup DOMAIN table) \ {id} :
           x \in DOMAIN rows /\ x \in DOMAIN table /\ table[x] = rows[x],
         kind = "delete" => id \notin Live(table)
  PROVE  DriftInv'
<1> SUFFICES ASSUME asked'.kind = "walk", ~twins' PROVE DriftInv'
  BY DEF DriftInv
<1> DEFINE T == Matching(table, asked.filter)
<1>1. /\ stage = "walk" /\ UNCHANGED <<stage, asked, page, answers, shown>>
      /\ rows' = table /\ ~twins /\ DistinctDates(table)
  BY DEF Change, IInv
<1>2. /\ IsTable(rows) /\ Listed(rows, Matches) /\ Cut \in Nat /\ Excess \in Nat
      /\ Listed(table, T)
  BY <1>1, DriftFacts, MatchingIsListed
<1>3. Mutated(rows, Matches, table, T, id)
  <2>1. Matches \ {id} = T \ {id}
    BY DEF Matches, Matching, Live
  <2>2. \A x \in Matches \ {id} : table[x].date = rows[x].date
    BY DEF Matches, Matching, Live
  <2> QED
    BY <1>2, <2>1, <2>2 DEF Mutated
<1>4. kind = "delete" => id \notin T
  BY DEF Matching
<1>5. Matches' = T /\ Seen' = Seen /\ Cut' = Cut
  BY <1>1 DEF Matches, Seen, Cut
<1> HIDE DEF T
<1>6. /\ Len(changes') = Len(changes) + 1 /\ Len(changes) \in Nat
      /\ Untouched' \subseteq Untouched \ {id}
      /\ Cardinality(Writes') =
           IF kind = "delete" THEN Cardinality(Writes) ELSE Cardinality(Writes) + 1
  BY HistoryGrows
<1>7. /\ Cardinality(Slipped) + Excess <= Len(changes)
      /\ Len(Seen) - Cardinality(ToSet(Seen)) + Cardinality(Returning) <= Cardinality(Writes)
      /\ IsFiniteSet(Slipped) /\ Cardinality(Slipped) \in Nat
      /\ IsFiniteSet(Returning) /\ Cardinality(Returning) \in Nat
      /\ Cardinality(Writes) \in Nat /\ Cardinality(ToSet(Seen)) \in Nat /\ Len(Seen) \in Nat
  BY <1>1, DriftTypes DEF DriftInv
<1>8. /\ Cardinality(Slipped') \in Nat /\ Cardinality(Slipped') <= Cardinality(Slipped) + 1
      /\ id \notin Matches /\ id \in T => Cardinality(Slipped') <= Cardinality(Slipped)
  <2> DEFINE V == Untouched \ ToSet(Seen)
             W == Untouched' \ ToSet(Seen)
  <2>1. Slipped' = Below(table, T, Cut, W)
    BY <1>1, <1>5 DEF Slipped
  <2>2. Slipped = Below(rows, Matches, Cut, V)
    BY DEF Slipped
  <2>3. W \subseteq V \ {id}
    BY <1>6
  <2> HIDE DEF V, W
  <2>4. /\ \A u, v \in Slipped' \ Slipped : u = v
        /\ id \notin Matches /\ id \in T => Slipped' \subseteq Slipped
    BY <1>2, <1>3, <2>1, <2>2, <2>3, BelowMoves
  <2> QED
    BY <1>7, <2>4, OneMore, FS_Subset
<1>9. /\ Cardinality(Returning') \in Nat /\ Cardinality(Returning') <= Cardinality(Returning) + 1
      /\ kind = "delete" => Cardinality(Returning') <= Cardinality(Returning)
  <2>1. Returning' = From(table, T, Cut, ToSet(Seen))
    BY <1>1, <1>5 DEF Returning
  <2>2. Returning = From(rows, Matches, Cut, ToSet(Seen))
    BY DEF Returning
  <2>3. /\ \A u, v \in Returning' \ Returning : u = v
        /\ kind = "delete" => Returning' \subseteq Returning
    BY <1>2, <1>3, <1>4, <2>1, <2>2, FromMoves
  <2> QED
    BY <1>7, <2>3, OneMore, FS_Subset
<1>10. /\ Excess' \in Nat /\ Excess' <= Excess + 1
       /\ ~(id \notin Matches /\ id \in T) => Excess' <= Excess
  <2>1. /\ Cardinality(Matches) \in Nat /\ Cardinality(T) \in Nat
        /\ Cardinality(T) <= Cardinality(Matches) + 1
        /\ ~(id \notin Matches /\ id \in T) => Cardinality(T) <= Cardinality(Matches)
    BY <1>3, SizeMoves
  <2>2. "total" \in DOMAIN answers => answers["total"] \in Nat
    BY DEF IInv
  <2>3. Excess' = IF "total" \in DOMAIN answers /\ Cardinality(T) > answers["total"]
                  THEN Cardinality(T) - answers["total"] ELSE 0
    BY <1>1, <1>5 DEF Excess
  <2> QED
    BY <2>1, <2>2, <2>3 DEF Excess
<1>11. Cardinality(Slipped') + Excess' <= Len(changes')
  BY <1>2, <1>6, <1>7, <1>8, <1>10
<1>12. Len(Seen') - Cardinality(ToSet(Seen')) + Cardinality(Returning') <= Cardinality(Writes')
  BY <1>5, <1>6, <1>7, <1>9
<1> QED
  BY <1>1, <1>11, <1>12 DEF DriftInv, WalkDrift, WalkOver

LEMMA MutationKeepsDrift ==
  ASSUME IInv, TwinsInv, DriftInv, NEW id \in Id,
         Delete(id) \/ \E row \in NewRows : Insert(id, row) \/ Update(id, row)
  PROVE  DriftInv'
<1>1. IsTable(rows) /\ DOMAIN rows \subseteq Id /\ NewRows \subseteq Row
  BY ParametersAssumption DEF IInv, TypeOK, IsTable
<1>2. \A row \in Row, flag \in BOOLEAN : [row EXCEPT !.isDeleted = flag] \in Row
  BY DEF Row
<1>3. CASE Delete(id)
  <2> DEFINE table == [rows EXCEPT ![id].isDeleted = TRUE]
  <2>1. rows[id] \in Row /\ id \in DOMAIN rows
    BY <1>1, <1>3 DEF Delete, Live, IsTable
  <2>2. [rows[id] EXCEPT !.isDeleted = TRUE] \in Row
    BY <1>2, <2>1
  <2>3. IsTable(table)
    BY <1>1, <2>2 DEF IsTable
  <2>4. id \notin Live(table)
    BY <2>1 DEF Live, Row
  <2>5. \A x \in (DOMAIN rows \cup DOMAIN table) \ {id} :
          x \in DOMAIN rows /\ x \in DOMAIN table /\ table[x] = rows[x]
    OBVIOUS
  <2>6. Change("delete", id, table)
    BY <1>3 DEF Delete
  <2> HIDE DEF table
  <2> QED
    BY <2>3, <2>4, <2>5, <2>6, ChangeKeepsDrift
<1>4. CASE \E row \in NewRows : Insert(id, row) \/ Update(id, row)
  <2>1. PICK row \in NewRows : Insert(id, row) \/ Update(id, row)
    BY <1>4
  <2>2. [row EXCEPT !.isDeleted = FALSE] \in Row
    BY <1>1, <1>2
  <2>3. CASE Insert(id, row)
    <3> DEFINE table == [i \in DOMAIN rows \cup {id} |->
                           IF i = id THEN [row EXCEPT !.isDeleted = FALSE] ELSE rows[i]]
    <3>1. IsTable(table)
      BY <1>1, <2>2 DEF IsTable
    <3>2. \A x \in (DOMAIN rows \cup DOMAIN table) \ {id} :
            x \in DOMAIN rows /\ x \in DOMAIN table /\ table[x] = rows[x]
      OBVIOUS
    <3>3. Change("insert", id, table)
      BY <2>3 DEF Insert
    <3> HIDE DEF table
    <3> QED
      BY <3>1, <3>2, <3>3, ChangeKeepsDrift
  <2>4. CASE Update(id, row)
    <3> DEFINE table == [rows EXCEPT ![id] = [row EXCEPT !.isDeleted = FALSE]]
    <3>1. IsTable(table)
      BY <1>1, <2>2 DEF IsTable
    <3>2. \A x \in (DOMAIN rows \cup DOMAIN table) \ {id} :
            x \in DOMAIN rows /\ x \in DOMAIN table /\ table[x] = rows[x]
      OBVIOUS
    <3>3. Change("update", id, table)
      BY <2>4 DEF Update
    <3> HIDE DEF table
    <3> QED
      BY <3>1, <3>2, <3>3, ChangeKeepsDrift
  <2> QED
    BY <2>1, <2>3, <2>4
<1> QED
  BY <1>3, <1>4

LEMMA DriftInduction == IInv /\ TwinsInv /\ DriftInv /\ [Next]_vars => DriftInv'
<1> SUFFICES ASSUME IInv, TwinsInv, DriftInv, [Next]_vars PROVE DriftInv'
  OBVIOUS
<1>1. ASSUME NEW role \in Role, NEW now \in Instants, NEW query \in Months,
             OpenDashboard(role, now, query)
      PROVE  DriftInv'
  BY <1>1 DEF OpenDashboard, DriftInv
<1>2. ASSUME NEW statement, ReadDashboard(statement)
      PROVE  DriftInv'
  BY <1>2 DEF ReadDashboard, DriftInv, IInv
<1>3. CASE UNCHANGED vars
  <2>1. /\ Matches' = Matches /\ Seen' = Seen /\ Cut' = Cut /\ Untouched' = Untouched
        /\ Writes' = Writes /\ Excess' = Excess /\ WalkDrift' = WalkDrift
    BY <1>3 DEF vars, Matches, Seen, Cut, Untouched, Writes, Excess, WalkDrift, WalkOver,
                Missed, Repeated
  <2>2. Slipped' = Slipped /\ Returning' = Returning
    BY <1>3, <2>1 DEF vars, Slipped, Returning
  <2> QED
    BY <1>3, <2>1, <2>2 DEF vars, DriftInv
<1> QED
  BY <1>1, <1>2, <1>3, StartKeepsDrift, ReadPageKeepsDrift, ReadTotalKeepsDrift,
     TurnKeepsDrift, MutationKeepsDrift DEF Next, Finished

LEMMA InitDrift == Init => DriftInv
  BY DEF Init, Nothing, DriftInv

(***************************************************************************)
(* For any table, filter, limit and number of mutations, in any order with *)
(* the statements of the walk: if no two records ever share a date, a      *)
(* client that walks through the pages misses at most one row for each     *)
(* mutation besides the rows mutated, and is shown at most one row twice   *)
(* for each creation and update, and none for a deletion.                  *)
(***************************************************************************)
THEOREM DriftIsBounded == Spec => []WalkDrift
<1>1. Init => IInv /\ TwinsInv /\ DriftInv
  BY InitInv, InitWalk, InitDrift
<1>2. IInv /\ TwinsInv /\ DriftInv /\ [Next]_vars => (IInv /\ TwinsInv /\ DriftInv)'
  BY StepKeepsInv, TwinsInduction, DriftInduction
<1>3. IInv /\ TwinsInv /\ DriftInv => WalkDrift
  BY DEF DriftInv, WalkDrift, WalkOver
<1> QED
  BY <1>1, <1>2, <1>3, PTL DEF Spec
=============================================================================
