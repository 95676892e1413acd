--------------------------- MODULE DashboardProofs ---------------------------
(***************************************************************************)
(* Proofs about the aggregates of Dashboard, and about a client of Reports *)
(* that puts them side by side, for any tables, instants and parameters.   *)
(***************************************************************************)
EXTENDS ReportsProofs, FoldProofs

----------------------------------------------------------------------------
(* Sums of amounts *)

Amounts(table) == [id \in DOMAIN table |-> table[id].amount]

LEMMA TableIsFinite ==
  ASSUME NEW table, IsTable(table)
  PROVE  /\ IsFiniteSet(DOMAIN table)
         /\ \A id \in DOMAIN table : table[id] \in Row /\ Amounts(table)[id] \in Nat
<1>1. IsFiniteSet(DOMAIN table)
  BY ParametersAssumption, FS_Subset DEF IsTable
<1>2. \A id \in DOMAIN table : table[id] \in Row
  BY DEF IsTable
<1>3. \A id \in DOMAIN table : Amounts(table)[id] \in Nat
  BY <1>2 DEF Amounts, Row
<1> QED BY <1>1, <1>2, <1>3

LEMMA SumOfTypes ==
  ASSUME NEW table, IsTable(table), NEW ids \in SUBSET DOMAIN table
  PROVE  SumOf(table, ids) \in Nat /\ SumOf(table, ids) <= SumOf(table, DOMAIN table)
BY TableIsFinite, SumGrows DEF SumOf, Amounts

LEMMA SumOfNoRows ==
  ASSUME NEW table
  PROVE  SumOf(table, {}) = 0
BY SumOfNone DEF SumOf

LEMMA SumOfMoreRows ==
  ASSUME NEW table, IsTable(table), NEW ids \in SUBSET DOMAIN table, NEW id \in DOMAIN table \ ids
  PROVE  SumOf(table, ids \cup {id}) = SumOf(table, ids) + table[id].amount
<1>1. IsFiniteSet(ids \cup {id}) /\ (ids \cup {id}) \ {id} = ids
  BY TableIsFinite, FS_Subset
<1>2. \A x \in ids \cup {id} : Amounts(table)[x] \in Int
  BY TableIsFinite
<1>3. SumFunctionOnSet(Amounts(table), ids \cup {id}) =
        Amounts(table)[id] + SumFunctionOnSet(Amounts(table), (ids \cup {id}) \ {id})
  BY <1>1, <1>2, SumWithout
<1>4. SumFunctionOnSet(Amounts(table), (ids \cup {id}) \ {id}) = SumFunctionOnSet(Amounts(table), ids)
  BY <1>1, Zenon
<1>5. Amounts(table)[id] = table[id].amount /\ table[id].amount \in Nat
  BY TableIsFinite DEF Amounts, Row
<1>6. SumOf(table, ids) \in Nat
  BY SumOfTypes
<1> QED BY <1>3, <1>4, <1>5, <1>6 DEF SumOf, Amounts

----------------------------------------------------------------------------
(* The loop of getTrends *)

Entry == [month: Int \X (1..12), income: Nat, expense: Nat]

LEMMA MonthKeyTypes ==
  ASSUME NEW date \in Date
  PROVE  /\ MonthKey(date) \in Int \X (1..12)
         /\ date.month = 12 * MonthKey(date)[1] + MonthKey(date)[2] - 1
<1>1. date.month \in Int
  BY DEF Date
<1>2. /\ date.month \div 12 \in Int /\ date.month % 12 \in 0..11
      /\ date.month = 12 * (date.month \div 12) + (date.month % 12)
  BY <1>1
<1> QED BY <1>1, <1>2 DEF MonthKey, Year

LEMMA CountRowTypes ==
  ASSUME NEW entries \in Seq(Entry), NEW row \in Row
  PROVE  CountRow(entries, row) \in Seq(Entry)
<1>1. MonthKey(row.date) \in Int \X (1..12)
  BY MonthKeyTypes DEF Row
<1>2. row.amount \in Nat
  BY DEF Row
<1> DEFINE key   == MonthKey(row.date)
           added == IF \E i \in DOMAIN entries : entries[i].month = key
                    THEN entries ELSE Append(entries, NewEntry(key))
<1>3. NewEntry(key) \in Entry
  BY <1>1 DEF NewEntry, Entry
<1>4. added \in Seq(Entry)
  BY <1>3
<1>5. \A e \in Entry : WithRow(e, row) \in Entry
  BY <1>2 DEF WithRow, Entry
<1>6. CountRow(entries, row) =
        [i \in DOMAIN added |-> IF added[i].month = key THEN WithRow(added[i], row) ELSE added[i]]
  BY DEF CountRow
<1> HIDE DEF added, key
<1>7. \A i \in 1..Len(added) : added[i] \in Entry
  BY <1>4
<1> QED BY <1>4, <1>5, <1>6, <1>7

\* getTrends returns what the loop has made of the entries after its last turn.
LEMMA TrendsAreALoop ==
  ASSUME NEW table, IsTable(table), NEW ids \in Seq(DOMAIN table)
  PROVE  \E t \in [0..Len(ids) -> Seq(Entry)] :
           /\ t[0] = << >>
           /\ \A k \in 1..Len(ids) : t[k] = CountRow(t[k - 1], table[ids[k]])
           /\ getTrends(table, ids) = t[Len(ids)]
<1> DEFINE n == Len(ids)
           step == [p \in (1..n) \X Seq(Entry) |-> CountRow(p[2], table[ids[p[1]]])]
           Eqn(f) == f = [s \in SUBSET DOMAIN ids |->
                            IF s = {} THEN << >>
                            ELSE LET i == Max(s) IN CountRow(f[s \ {i}], table[ids[i]])]
           it == CHOOSE f : Eqn(f)
<1>1. n \in Nat /\ DOMAIN ids = 1..n /\ << >> \in Seq(Entry)
  OBVIOUS
<1>2. \A i \in 1..n : table[ids[i]] \in Row
  BY TableIsFinite
<1>3. \A i \in 1..n, e \in Seq(Entry) :
        CountRow(e, table[ids[i]]) \in Seq(Entry) /\ step[<<i, e>>] = CountRow(e, table[ids[i]])
  BY <1>2, CountRowTypes
<1>4. step \in [(1..n) \X Seq(Entry) -> Seq(Entry)]
  BY <1>3
<1>5. PICK f \in [SUBSET (1..n) -> Seq(Entry)] : LeftFolds(f, n, << >>, step)
  <2> DEFINE V    == Seq(Entry)
             base == << >>
  <2>1. n \in Nat /\ base \in V /\ step \in [(1..n) \X V -> V]
    BY <1>1, <1>4
  <2>2. \E f \in [SUBSET (1..n) -> V] : LeftFolds(f, n, base, step)
    <3> HIDE DEF step, n, V, base
    <3> QED BY <2>1, LeftFoldExists
  <2> QED BY <2>2
<1>6. Eqn(f)
  <2>1. \A s \in SUBSET (1..n) : s # {} =>
          step[<<Max(s), f[s \ {Max(s)}]>>] = CountRow(f[s \ {Max(s)}], table[ids[Max(s)]])
    <3> HIDE DEF step, n
    <3> QED BY <1>1, <1>3, MaxOfNaturals
  <2>2. f = [s \in SUBSET (1..n) |-> f[s]]
    OBVIOUS
  <2> HIDE DEF step
  <2> QED BY <1>1, <1>5, <2>1, <2>2 DEF LeftFolds
<1>7. Eqn(it)
  BY <1>6
<1>8. getTrends(table, ids) = it[1..n]
  BY <1>1 DEF getTrends, FoldLeft, MapThenFoldSet
<1> DEFINE t == [k \in 0..n |-> it[1..k]]
<1>9. t[0] = << >>
  <2>1. it[{}] = << >>
    BY <1>7
  <2>2. it[1..0] = it[{}]
    <3>1. 1..0 = {}
      OBVIOUS
    <3> QED BY <3>1, Zenon
  <2> HIDE DEF it
  <2> QED BY <1>1, <2>1, <2>2
<1>10. ASSUME NEW k \in 1..n
       PROVE t[k] = CountRow(t[k - 1], table[ids[k]])
  <2>1. Max(1..k) = k
    <3>1. 1..k \in SUBSET (1..n) /\ k \in 1..k
      BY <1>1
    <3>2. Max(1..k) \in 1..k /\ k <= Max(1..k)
      BY <1>1, <3>1, MaxOfNaturals
    <3> QED BY <3>2
  <2>2. (1..k) \ {k} = 1..k - 1
    BY <1>1
  <2>3. it[1..k] = CountRow(it[(1..k) \ {k}], table[ids[k]])
    <3>1. 1..k \in SUBSET DOMAIN ids /\ 1..k # {}
      <4>1. k \in 1..k /\ 1..k \in SUBSET (1..n)
        BY <1>1
      <4> QED BY <1>1, <4>1
    <3>2. it[1..k] = CountRow(it[(1..k) \ {Max(1..k)}], table[ids[Max(1..k)]])
      <4> DEFINE s == 1..k
      <4>1. \A r \in SUBSET DOMAIN ids : r # {} =>
              it[r] = CountRow(it[r \ {Max(r)}], table[ids[Max(r)]])
        BY <1>7
      <4> HIDE DEF s, it
      <4>2. it[s] = CountRow(it[s \ {Max(s)}], table[ids[Max(s)]])
        BY <3>1, <4>1 DEF s
      <4> QED BY <4>2 DEF s
    <3> QED BY <2>1, <3>2
  <2>4. it[(1..k) \ {k}] = it[1..k - 1]
    BY <2>2, Zenon
  <2> QED BY <1>1, <2>3, <2>4
<1>11. \A k \in 0..n : t[k] \in Seq(Entry)
  <2> DEFINE Good == {k \in 0..n : t[k] \in Seq(Entry)}
  <2>1. 0 \in Good
    <3>1. 0 \in 0..n /\ t[0] \in Seq(Entry)
      <4> HIDE DEF t, n
      <4> QED BY <1>1, <1>9
    <3> HIDE DEF t
    <3> QED BY <3>1
  <2>2. ASSUME NEW k \in 0..n - 1, k \in Good PROVE k + 1 \in Good
    <3>1. k + 1 \in 1..n /\ (k + 1) - 1 = k
      BY <1>1
    <3>2. t[k + 1] = CountRow(t[k], table[ids[k + 1]])
      BY <1>10, <3>1
    <3>3. t[k] \in Seq(Entry)
      BY <2>2
    <3>4. t[k + 1] \in Seq(Entry)
      <4> HIDE DEF t
      <4> QED BY <1>3, <3>1, <3>2, <3>3
    <3> QED BY <3>1, <3>4
  <2>3. \A k \in 0..n : k \in Good
    <3> HIDE DEF Good, n
    <3> QED BY <1>1, <2>1, <2>2, UpTo
  <2> QED BY <2>3
<1>12. getTrends(table, ids) = t[n]
  BY <1>1, <1>8
<1>13. t \in [0..n -> Seq(Entry)]
  BY <1>11
<1> HIDE DEF t
<1> QED BY <1>9, <1>10, <1>12, <1>13

\* The rows among S that are counted in a column of the month key.
Income(table, S, key) ==
  {id \in S : MonthKey(table[id].date) = key /\ table[id].type = "INCOME"}
Expense(table, S, key) ==
  {id \in S : MonthKey(table[id].date) = key /\ table[id].type # "INCOME"}

\* The place of a month in the order of months.
Place(key) == 12 * key[1] + key[2]

\* The entries stand for the months of the rows T, one for each, in order, and
\* their columns are sums over the rows S.
Tallied(table, T, S, entries) ==
  /\ \A id \in T : \E i \in DOMAIN entries : entries[i].month = MonthKey(table[id].date)
  /\ \A i \in DOMAIN entries :
       /\ \E id \in T : entries[i].month = MonthKey(table[id].date)
       /\ entries[i].income = SumOf(table, Income(table, S, entries[i].month))
       /\ entries[i].expense = SumOf(table, Expense(table, S, entries[i].month))
  /\ \A i, j \in DOMAIN entries : i < j => Place(entries[i].month) < Place(entries[j].month)

\* What the loop keeps, of the rows S it has read.
Monthly(table, S, entries) == Tallied(table, S, S, entries)

\* One more row adds its amount to one column of its month.
LEMMA ColumnsGrow ==
  ASSUME NEW table, IsTable(table), NEW S \in SUBSET DOMAIN table,
         NEW r \in DOMAIN table \ S, NEW key
  PROVE  /\ SumOf(table, Income(table, S \cup {r}, key)) =
              IF MonthKey(table[r].date) = key /\ table[r].type = "INCOME"
              THEN SumOf(table, Income(table, S, key)) + table[r].amount
              ELSE SumOf(table, Income(table, S, key))
         /\ SumOf(table, Expense(table, S \cup {r}, key)) =
              IF MonthKey(table[r].date) = key /\ table[r].type # "INCOME"
              THEN SumOf(table, Expense(table, S, key)) + table[r].amount
              ELSE SumOf(table, Expense(table, S, key))
<1> DEFINE I == Income(table, S, key)
           J == Income(table, S \cup {r}, key)
           E == Expense(table, S, key)
           F == Expense(table, S \cup {r}, key)
<1>1. /\ I \in SUBSET DOMAIN table /\ r \in DOMAIN table \ I
      /\ E \in SUBSET DOMAIN table /\ r \in DOMAIN table \ E
  BY DEF Income, Expense
<1>2. ASSUME MonthKey(table[r].date) = key, table[r].type = "INCOME"
      PROVE  J = I \cup {r}
  BY <1>2 DEF Income
<1>3. ASSUME ~(MonthKey(table[r].date) = key /\ table[r].type = "INCOME")
      PROVE  J = I
  BY <1>3 DEF Income
<1>4. ASSUME MonthKey(table[r].date) = key, table[r].type # "INCOME"
      PROVE  F = E \cup {r}
  BY <1>4 DEF Expense
<1>5. ASSUME ~(MonthKey(table[r].date) = key /\ table[r].type # "INCOME")
      PROVE  F = E
  BY <1>5 DEF Expense
<1> HIDE DEF I, J, E, F
<1>6. SumOf(table, I \cup {r}) = SumOf(table, I) + table[r].amount
  BY <1>1, SumOfMoreRows
<1>7. SumOf(table, E \cup {r}) = SumOf(table, E) + table[r].amount
  BY <1>1, SumOfMoreRows
<1>8. SumOf(table, J) = IF MonthKey(table[r].date) = key /\ table[r].type = "INCOME"
                        THEN SumOf(table, I) + table[r].amount ELSE SumOf(table, I)
  BY <1>2, <1>3, <1>6, Zenon
<1>9. SumOf(table, F) = IF MonthKey(table[r].date) = key /\ table[r].type # "INCOME"
                        THEN SumOf(table, E) + table[r].amount ELSE SumOf(table, E)
  BY <1>4, <1>5, <1>7, Zenon
<1> QED BY <1>8, <1>9 DEF I, J, E, F

LEMMA MonthsInOrder ==
  ASSUME NEW d \in Date, NEW e \in Date, ~Before(e, d)
  PROVE  Place(MonthKey(d)) <= Place(MonthKey(e))
<1>1. d.month \in Int /\ e.month \in Int /\ d.month <= e.month
  BY DEF Date, Before
<1>2. /\ MonthKey(d)[1] \in Int /\ MonthKey(d)[2] \in Int
      /\ d.month = 12 * MonthKey(d)[1] + MonthKey(d)[2] - 1
  BY MonthKeyTypes
<1>3. /\ MonthKey(e)[1] \in Int /\ MonthKey(e)[2] \in Int
      /\ e.month = 12 * MonthKey(e)[1] + MonthKey(e)[2] - 1
  BY MonthKeyTypes
<1> QED BY <1>1, <1>2, <1>3 DEF Place

LEMMA PlaceDetermines ==
  ASSUME NEW d \in Date, NEW e \in Date, Place(MonthKey(d)) = Place(MonthKey(e))
  PROVE  MonthKey(d) = MonthKey(e)
<1>1. /\ MonthKey(d)[1] \in Int /\ MonthKey(d)[2] \in 1..12
      /\ d.month = 12 * MonthKey(d)[1] + MonthKey(d)[2] - 1
  BY MonthKeyTypes
<1>2. /\ MonthKey(e)[1] \in Int /\ MonthKey(e)[2] \in 1..12
      /\ e.month = 12 * MonthKey(e)[1] + MonthKey(e)[2] - 1
  BY MonthKeyTypes
<1>3. d.month = e.month
  BY <1>1, <1>2 DEF Place
<1> QED BY <1>3 DEF MonthKey

LEMMA PlaceTypes ==
  ASSUME NEW d \in Date
  PROVE  Place(MonthKey(d)) \in Int
<1>1. MonthKey(d)[1] \in Int /\ MonthKey(d)[2] \in Int
  BY MonthKeyTypes
<1> QED BY <1>1 DEF Place

\* The entries before the row of a turn is counted: its month has one.
LEMMA MonthIsAdded ==
  ASSUME NEW table, IsTable(table), NEW S \in SUBSET DOMAIN table, NEW r \in DOMAIN table \ S,
         \A id \in S : ~Before(table[r].date, table[id].date),
         NEW entries \in Seq(Entry), Monthly(table, S, entries),
         NEW key, key = MonthKey(table[r].date),
         NEW added, added = IF \E i \in DOMAIN entries : entries[i].month = key
                            THEN entries ELSE Append(entries, NewEntry(key))
  PROVE  added \in Seq(Entry) /\ Tallied(table, S \cup {r}, S, added)
<1>1. \A id \in DOMAIN table : table[id].date \in Date
  BY TableIsFinite DEF Row
<1>2. CASE \E i \in DOMAIN entries : entries[i].month = key
  <2>1. added = entries
    BY <1>2
  <2> QED BY <1>2, <2>1 DEF Monthly, Tallied
<1>3. CASE ~ \E i \in DOMAIN entries : entries[i].month = key
  <2> DEFINE n == Len(entries)
             e == NewEntry(key)
  <2>1. e \in Entry /\ e.month = key /\ e.income = 0 /\ e.expense = 0
    BY <1>1, MonthKeyTypes DEF NewEntry, Entry
  <2>2. /\ added \in Seq(Entry) /\ n \in Nat /\ DOMAIN entries = 1..n
        /\ DOMAIN added = 1..n + 1 /\ added[n + 1] = e
        /\ \A i \in 1..n : added[i] = entries[i]
    <3> HIDE DEF e
    <3> QED BY <1>3, <2>1 DEF e
  <2>3. \A id \in S : MonthKey(table[id].date) # key
    BY <1>3 DEF Monthly, Tallied
  <2>4. SumOf(table, Income(table, S, key)) = 0 /\ SumOf(table, Expense(table, S, key)) = 0
    <3>1. Income(table, S, key) = {} /\ Expense(table, S, key) = {}
      BY <2>3 DEF Income, Expense
    <3> QED BY <3>1, SumOfNoRows, Zenon
  <2>5. \A i \in 1..n : Place(added[i].month) < Place(key)
    <3> SUFFICES ASSUME NEW i \in 1..n PROVE Place(entries[i].month) < Place(key)
      BY <2>2
    <3>1. PICK id \in S : entries[i].month = MonthKey(table[id].date)
      BY <2>2 DEF Monthly, Tallied
    <3>2. Place(MonthKey(table[id].date)) <= Place(key)
      BY <1>1, MonthsInOrder
    <3>3. Place(MonthKey(table[id].date)) # Place(key)
      BY <1>1, <2>3, PlaceDetermines
    <3>4. Place(MonthKey(table[id].date)) \in Int /\ Place(key) \in Int
      BY <1>1, PlaceTypes
    <3> QED BY <3>1, <3>2, <3>3, <3>4
  <2> HIDE DEF e, n
  <2>6. \A id \in S \cup {r} : \E i \in DOMAIN added : added[i].month = MonthKey(table[id].date)
    <3>1. n + 1 \in DOMAIN added /\ added[n + 1].month = MonthKey(table[r].date)
      BY <2>1, <2>2
    <3>2. \A i \in DOMAIN entries : i \in DOMAIN added /\ added[i] = entries[i]
      BY <2>2
    <3> QED BY <3>1, <3>2 DEF Monthly, Tallied
  <2>7. ASSUME NEW i \in DOMAIN added
        PROVE  /\ \E id \in S \cup {r} : added[i].month = MonthKey(table[id].date)
               /\ added[i].income = SumOf(table, Income(table, S, added[i].month))
               /\ added[i].expense = SumOf(table, Expense(table, S, added[i].month))
    <3>1. CASE i = n + 1
      BY <2>1, <2>2, <2>4, <3>1
    <3>2. CASE i \in 1..n
      BY <2>2, <3>2 DEF Monthly, Tallied
    <3> QED BY <2>2, <3>1, <3>2
  <2>8. ASSUME NEW i \in DOMAIN added, NEW j \in DOMAIN added, i < j
        PROVE  Place(added[i].month) < Place(added[j].month)
    <3>1. i \in 1..n
      BY <2>2, <2>8
    <3>2. CASE j = n + 1
      BY <2>1, <2>2, <2>5, <3>1, <3>2
    <3>3. CASE j \in 1..n
      BY <2>2, <2>8, <3>1, <3>3 DEF Monthly, Tallied
    <3> QED BY <2>2, <3>2, <3>3
  <2> QED BY <2>2, <2>6, <2>7, <2>8 DEF Tallied
<1> QED BY <1>2, <1>3

\* A turn of the loop.
LEMMA TurnKeepsMonthly ==
  ASSUME NEW table, IsTable(table), NEW S \in SUBSET DOMAIN table, NEW r \in DOMAIN table \ S,
         \A id \in S : ~Before(table[r].date, table[id].date),
         NEW entries \in Seq(Entry), Monthly(table, S, entries)
  PROVE  Monthly(table, S \cup {r}, CountRow(entries, table[r]))
<1> DEFINE row   == table[r]
           key   == MonthKey(row.date)
           added == IF \E i \in DOMAIN entries : entries[i].month = key
                    THEN entries ELSE Append(entries, NewEntry(key))
           next  == CountRow(entries, row)
<1>1. added \in Seq(Entry) /\ Tallied(table, S \cup {r}, S, added)
  BY MonthIsAdded
<1>2. next = [i \in DOMAIN added |-> IF added[i].month = key THEN WithRow(added[i], row) ELSE added[i]]
  BY DEF CountRow
<1> HIDE DEF added, next, key
<1>3. \A i \in DOMAIN added : added[i] \in Entry
  BY <1>1
<1>4. DOMAIN next = DOMAIN added
  BY <1>2
<1>5. ASSUME NEW i \in DOMAIN added
      PROVE  /\ next[i].month = added[i].month
             /\ next[i].income = IF added[i].month = key /\ row.type = "INCOME"
                                 THEN added[i].income + row.amount ELSE added[i].income
             /\ next[i].expense = IF added[i].month = key /\ row.type # "INCOME"
                                  THEN added[i].expense + row.amount ELSE added[i].expense
  <2>1. added[i] \in Entry
    BY <1>3
  <2>2. CASE added[i].month = key
    <3>1. next[i] = WithRow(added[i], row)
      BY <1>2, <2>2
    <3> QED BY <2>1, <2>2, <3>1 DEF WithRow, Entry
  <2>3. CASE added[i].month # key
    BY <1>2, <2>3
  <2> QED BY <2>2, <2>3
<1>6. ASSUME NEW i \in DOMAIN added
      PROVE  /\ next[i].income = SumOf(table, Income(table, S \cup {r}, next[i].month))
             /\ next[i].expense = SumOf(table, Expense(table, S \cup {r}, next[i].month))
  <2> DEFINE m == added[i].month
  <2>1. /\ SumOf(table, Income(table, S \cup {r}, m)) =
             IF key = m /\ row.type = "INCOME"
             THEN SumOf(table, Income(table, S, m)) + row.amount
             ELSE SumOf(table, Income(table, S, m))
        /\ SumOf(table, Expense(table, S \cup {r}, m)) =
             IF key = m /\ row.type # "INCOME"
             THEN SumOf(table, Expense(table, S, m)) + row.amount
             ELSE SumOf(table, Expense(table, S, m))
    BY ColumnsGrow DEF key
  <2>2. /\ added[i].income = SumOf(table, Income(table, S, m))
        /\ added[i].expense = SumOf(table, Expense(table, S, m))
    BY <1>1 DEF Tallied
  <2>3. next[i].month = m
    BY <1>5
  <2> HIDE DEF row
  <2> QED BY <1>5, <2>1, <2>2, <2>3
<1>7. Monthly(table, S \cup {r}, next)
  <2> DEFINE T == S \cup {r}
  <2>1. \A i \in DOMAIN next : i \in DOMAIN added /\ next[i].month = added[i].month
    BY <1>4, <1>5
  <2>2. \A id \in T : \E i \in DOMAIN next : next[i].month = MonthKey(table[id].date)
    BY <1>1, <1>4, <2>1 DEF Tallied
  <2>3. \A i \in DOMAIN next : \E id \in T : next[i].month = MonthKey(table[id].date)
    BY <1>1, <2>1 DEF Tallied
  <2>4. \A i, j \in DOMAIN next : i < j => Place(next[i].month) < Place(next[j].month)
    BY <1>1, <2>1 DEF Tallied
  <2>5. \A i \in DOMAIN next :
          /\ next[i].income = SumOf(table, Income(table, T, next[i].month))
          /\ next[i].expense = SumOf(table, Expense(table, T, next[i].month))
    BY <1>4, <1>6
  <2> HIDE DEF T
  <2>6. Tallied(table, T, T, next)
    BY <2>2, <2>3, <2>4, <2>5 DEF Tallied
  <2> QED BY <2>6 DEF Monthly, T
<1> QED BY <1>7 DEF next

LEMMA InOrderProperties ==
  ASSUME NEW table, NEW S, IsFiniteSet(S), NEW s \in InOrder(table, S)
  PROVE  /\ s \in Seq(S)
         /\ Len(s) = Cardinality(S)
         /\ \A i, j \in 1..Len(s) : s[i] = s[j] => i = j
         /\ \A i, j \in 1..Len(s) : i < j => ~Before(table[s[j]].date, table[s[i]].date)
<1>1. Cardinality(S) \in Nat
  BY FS_CardinalityType
<1>2. s \in [1..Cardinality(S) -> S] /\ \A i, j \in 1..Cardinality(S) : i # j => s[i] # s[j]
  BY DEF InOrder, SetToSeqs
<1>3. s \in Seq(S) /\ Len(s) = Cardinality(S)
  BY <1>1, <1>2
<1> QED
  BY <1>2, <1>3 DEF InOrder

(***************************************************************************)
(* The trends of the rows S, in whatever order rows of one date come.      *)
(***************************************************************************)
LEMMA TrendsAreMonthly ==
  ASSUME NEW table, IsTable(table), NEW S \in SUBSET DOMAIN table, NEW ids \in InOrder(table, S)
  PROVE  getTrends(table, ids) \in Seq(Entry) /\ Monthly(table, S, getTrends(table, ids))
<1> DEFINE n == Len(ids)
<1>1. IsFiniteSet(S)
  BY TableIsFinite, FS_Subset
<1>2. /\ ids \in Seq(S) /\ n = Cardinality(S) /\ n \in Nat
      /\ \A i, j \in 1..n : ids[i] = ids[j] => i = j
      /\ \A i, j \in 1..n : i < j => ~Before(table[ids[j]].date, table[ids[i]].date)
  BY <1>1, InOrderProperties
<1>3. \A i \in 1..n : ids[i] \in S
  BY <1>2
<1>4. ids \in Seq(DOMAIN table)
  BY <1>2, <1>3
<1>5. PICK t \in [0..n -> Seq(Entry)] :
        /\ t[0] = << >>
        /\ \A k \in 1..n : t[k] = CountRow(t[k - 1], table[ids[k]])
        /\ getTrends(table, ids) = t[n]
  BY <1>4, TrendsAreALoop
<1> HIDE DEF n
<1> DEFINE Good == {k \in 0..n : Monthly(table, Prefix(ids, k), t[k])}
<1>6. 0 \in Good
  <2>1. Prefix(ids, 0) = {} /\ 0 \in 0..n
    BY <1>2 DEF Prefix
  <2>2. DOMAIN t[0] = {}
    BY <1>5
  <2> QED BY <2>1, <2>2 DEF Monthly, Tallied
<1>7. ASSUME NEW k \in 0..n - 1, k \in Good PROVE k + 1 \in Good
  <2> DEFINE r == ids[k + 1]
             P == Prefix(ids, k)
  <2>1. k \in 0..n /\ k + 1 \in 1..n /\ (k + 1) - 1 = k /\ k + 1 \in 0..n
    BY <1>2
  <2>2. P \in SUBSET DOMAIN table /\ r \in DOMAIN table
    BY <1>2, <1>3, <2>1 DEF Prefix
  <2>3. r \notin P
    BY <1>2, <2>1 DEF Prefix
  <2>4. \A id \in P : ~Before(table[r].date, table[id].date)
    BY <1>2, <2>1 DEF Prefix
  <2>5. Prefix(ids, k + 1) = P \cup {r}
    BY <2>1 DEF Prefix
  <2>6. t[k] \in Seq(Entry) /\ t[k + 1] = CountRow(t[k], table[r])
    BY <1>5, <2>1
  <2>7. Monthly(table, P, t[k])
    BY <1>7
  <2> HIDE DEF P, r
  <2>8. Monthly(table, P \cup {r}, CountRow(t[k], table[r]))
    BY <2>2, <2>3, <2>4, <2>6, <2>7, TurnKeepsMonthly
  <2>9. Monthly(table, Prefix(ids, k + 1), t[k + 1])
    BY <2>5, <2>6, <2>8, Zenon
  <2> QED BY <2>1, <2>9
<1>8. n \in Good
  <2>1. \A k \in 0..n : k \in Good
    <3> HIDE DEF Good
    <3> QED BY <1>2, <1>6, <1>7, UpTo
  <2> QED BY <1>2, <2>1
<1>9. Prefix(ids, n) = S
  BY <1>1, <1>2, OrderIsOnto DEF n
<1>10. Monthly(table, S, t[n])
  <2>1. Monthly(table, Prefix(ids, n), t[n])
    BY <1>8
  <2> QED BY <1>9, <2>1, Zenon
<1> QED BY <1>2, <1>5, <1>10

----------------------------------------------------------------------------
(* The three aggregates agree *)

OfKind(table, S, type) == {id \in S : table[id].type = type}

\* groupBy type, with a sum of nothing for a type that does not occur.
LEMMA SummarySums ==
  ASSUME NEW table, IsTable(table)
  PROVE  /\ getSummary(table).totalIncome = SumOf(table, OfKind(table, Live(table), "INCOME"))
         /\ getSummary(table).totalExpenses = SumOf(table, OfKind(table, Live(table), "EXPENSE"))
<1> DEFINE total(type) ==
             IF type \in {table[id].type : id \in Live(table)}
             THEN SumOf(table, OfKind(table, Live(table), type)) ELSE 0
<1>1. ASSUME NEW type PROVE total(type) = SumOf(table, OfKind(table, Live(table), type))
  <2>1. CASE type \in {table[id].type : id \in Live(table)}
    BY <2>1
  <2>2. CASE type \notin {table[id].type : id \in Live(table)}
    <3>1. OfKind(table, Live(table), type) = {}
      BY <2>2 DEF OfKind
    <3>2. SumOf(table, OfKind(table, Live(table), type)) = 0
      BY <3>1, SumOfNoRows, Zenon
    <3> QED BY <2>2, <3>2
  <2> QED BY <2>1, <2>2
<1>2. /\ getSummary(table).totalIncome = total("INCOME")
      /\ getSummary(table).totalExpenses = total("EXPENSE")
  BY DEF getSummary, Grouped, OfKind
<1> QED BY <1>1, <1>2

\* The groups by category and type add up to the totals by type.
LEMMA CategoriesAddUp ==
  ASSUME NEW table, IsTable(table), NEW type
  PROVE  SumFunctionOnSet(getByCategory(table), OfType(getByCategory(table), type)) =
           SumOf(table, OfKind(table, Live(table), type))
<1> DEFINE b == getByCategory(table)
           K == OfType(b, type)
           part == [g \in K |-> {id \in Live(table) : <<table[id].category, table[id].type>> = g}]
           U == DOMAIN table
<1>1. /\ DOMAIN b = {<<table[id].category, table[id].type>> : id \in Live(table)}
      /\ \A g \in DOMAIN b :
           b[g] = SumOf(table, {id \in Live(table) : <<table[id].category, table[id].type>> = g})
  BY DEF getByCategory, Grouped
<1>2. IsFiniteSet(U) /\ (\A id \in U : Amounts(table)[id] \in Int) /\ Live(table) \subseteq U
  BY TableIsFinite DEF Live
<1>3. IsFiniteSet(K)
  <2>1. IsFiniteSet(Live(table))
    BY <1>2, FS_Subset
  <2> DEFINE f == [id \in Live(table) |-> <<table[id].category, table[id].type>>]
  <2>2. f \in Surjection(Live(table), DOMAIN b)
    BY <1>1 DEF Surjection
  <2>3. IsFiniteSet(DOMAIN b)
    <3> HIDE DEF f, b
    <3> QED BY <2>1, <2>2, FS_Surjection
  <2>4. K \in SUBSET DOMAIN b
    BY DEF OfType
  <2> HIDE DEF K, b
  <2> QED BY <2>3, <2>4, FS_Subset
<1>4. \A g \in K : part[g] \in SUBSET U /\ b[g] = SumFunctionOnSet(Amounts(table), part[g])
  BY <1>1, <1>2 DEF SumOf, Amounts, OfType
<1>5. \A g, h \in K : g # h => part[g] \cap part[h] = {}
  OBVIOUS
<1>6. UNION {part[g] : g \in K} = OfKind(table, Live(table), type)
  <2>1. ASSUME NEW id \in Live(table), table[id].type = type
        PROVE  \E g \in K : id \in part[g]
    <3> DEFINE g == <<table[id].category, table[id].type>>
    <3>1. g \in K
      BY <1>1, <2>1 DEF OfType
    <3> QED BY <3>1
  <2>2. ASSUME NEW g \in K, NEW id \in part[g]
        PROVE  id \in Live(table) /\ table[id].type = type
    BY DEF OfType
  <2> HIDE DEF part, K
  <2> QED BY <2>1, <2>2 DEF OfKind
<1> HIDE DEF part, K, b, U
<1>7. SumFunctionOnSet(b, K) = SumFunctionOnSet(Amounts(table), UNION {part[g] : g \in K})
  BY <1>2, <1>3, <1>4, <1>5, SumOfGroupsIsSum
<1>8. SumFunctionOnSet(b, K) = SumOf(table, OfKind(table, Live(table), type))
  <2>1. SumFunctionOnSet(b, K) = SumFunctionOnSet(Amounts(table), OfKind(table, Live(table), type))
    BY <1>6, <1>7, Zenon
  <2> QED BY <2>1 DEF SumOf, Amounts
<1> QED BY <1>8 DEF b, K

LEMMA ExpensesAreTheRest ==
  ASSUME NEW table, IsTable(table), NEW S \in SUBSET DOMAIN table
  PROVE  \A id \in S : table[id].type # "INCOME" <=> table[id].type = "EXPENSE"
BY TableIsFinite DEF Row, RecordType

\* The parts of one column add up to what the column is about.
LEMMA ColumnAddsUp ==
  ASSUME NEW table, IsTable(table), NEW n \in Nat, NEW part, NEW column, NEW T,
         \A i \in 1..n : /\ part[i] \in SUBSET DOMAIN table
                         /\ column[i] = SumOf(table, part[i]),
         \A i, j \in 1..n : i < j => part[i] \cap part[j] = {},
         DOMAIN column = 1..n,
         UNION {part[i] : i \in 1..n} = T
  PROVE  SumFunction(column) = SumOf(table, T)
<1> DEFINE U == DOMAIN table
           K == 1..n
<1>1. IsFiniteSet(U) /\ \A id \in U : Amounts(table)[id] \in Int
  BY TableIsFinite
<1>2. IsFiniteSet(K)
  BY FS_Interval
<1>3. \A i \in K : part[i] \in SUBSET U /\ column[i] = SumFunctionOnSet(Amounts(table), part[i])
  BY DEF SumOf, Amounts
<1>4. \A i, j \in K : i # j => part[i] \cap part[j] = {}
  <2> SUFFICES ASSUME NEW i \in K, NEW j \in K, i # j PROVE part[i] \cap part[j] = {}
    OBVIOUS
  <2>1. i < j \/ j < i
    OBVIOUS
  <2> QED BY <2>1
<1>5. SumFunction(column) = SumFunctionOnSet(column, K)
  BY Zenon DEF SumFunction
<1> HIDE DEF K, U
<1>6. SumFunctionOnSet(column, K) = SumFunctionOnSet(Amounts(table), UNION {part[i] : i \in K})
  BY <1>1, <1>2, <1>3, <1>4, SumOfGroupsIsSum
<1>7. SumFunctionOnSet(column, K) = SumFunctionOnSet(Amounts(table), T)
  BY <1>6, Zenon DEF K
<1> QED BY <1>5, <1>7 DEF SumOf, Amounts

LEMMA MonthsAddUp ==
  ASSUME NEW table, IsTable(table), NEW S \in SUBSET DOMAIN table,
         NEW entries \in Seq(Entry), Monthly(table, S, entries)
  PROVE  /\ SumFunction([i \in DOMAIN entries |-> entries[i].income]) =
              SumOf(table, OfKind(table, S, "INCOME"))
         /\ SumFunction([i \in DOMAIN entries |-> entries[i].expense]) =
              SumOf(table, OfKind(table, S, "EXPENSE"))
<1> DEFINE n == Len(entries)
           I == [i \in 1..n |-> Income(table, S, entries[i].month)]
           E == [i \in 1..n |-> Expense(table, S, entries[i].month)]
           income == [i \in DOMAIN entries |-> entries[i].income]
           expense == [i \in DOMAIN entries |-> entries[i].expense]
<1>1. n \in Nat /\ DOMAIN entries = 1..n /\ DOMAIN income = 1..n /\ DOMAIN expense = 1..n
  OBVIOUS
<1>2. \A i \in 1..n : /\ I[i] \in SUBSET DOMAIN table /\ income[i] = SumOf(table, I[i])
                      /\ E[i] \in SUBSET DOMAIN table /\ expense[i] = SumOf(table, E[i])
  <2>1. \A i \in 1..n : I[i] \in SUBSET DOMAIN table /\ E[i] \in SUBSET DOMAIN table
    BY DEF Income, Expense
  <2>2. \A i \in 1..n : income[i] = SumOf(table, I[i]) /\ expense[i] = SumOf(table, E[i])
    BY <1>1 DEF Monthly, Tallied
  <2> QED BY <2>1, <2>2
<1>3. ASSUME NEW i \in 1..n, NEW j \in 1..n, i < j
      PROVE  I[i] \cap I[j] = {} /\ E[i] \cap E[j] = {}
  <2>1. entries[i].month # entries[j].month
    <3>1. Place(entries[i].month) < Place(entries[j].month)
      BY <1>1, <1>3 DEF Monthly, Tallied
    <3>2. PICK id \in S : entries[i].month = MonthKey(table[id].date)
      BY <1>1 DEF Monthly, Tallied
    <3>3. table[id].date \in Date
      BY TableIsFinite DEF Row
    <3>4. Place(entries[i].month) \in Int
      BY <3>2, <3>3, PlaceTypes
    <3> QED BY <3>1, <3>4
  <2> QED BY <2>1 DEF Income, Expense
<1>4. \A id \in S : \E i \in 1..n : entries[i].month = MonthKey(table[id].date)
  BY <1>1 DEF Monthly, Tallied
<1>5. UNION {I[i] : i \in 1..n} = OfKind(table, S, "INCOME")
  <2>1. ASSUME NEW id \in OfKind(table, S, "INCOME") PROVE \E i \in 1..n : id \in I[i]
    BY <1>4 DEF OfKind, Income
  <2>2. ASSUME NEW i \in 1..n, NEW id \in I[i] PROVE id \in OfKind(table, S, "INCOME")
    BY DEF OfKind, Income
  <2> HIDE DEF I
  <2> QED BY <2>1, <2>2
<1>6. UNION {E[i] : i \in 1..n} = OfKind(table, S, "EXPENSE")
  <2>1. ASSUME NEW id \in OfKind(table, S, "EXPENSE") PROVE \E i \in 1..n : id \in E[i]
    BY <1>4 DEF OfKind, Expense
  <2>2. ASSUME NEW i \in 1..n, NEW id \in E[i] PROVE id \in OfKind(table, S, "EXPENSE")
    BY ExpensesAreTheRest DEF OfKind, Expense
  <2> HIDE DEF E
  <2> QED BY <2>1, <2>2
<1> HIDE DEF I, E, n, income, expense
<1>7. SumFunction(income) = SumOf(table, OfKind(table, S, "INCOME"))
  <2>1. /\ \A i \in 1..n : I[i] \in SUBSET DOMAIN table /\ income[i] = SumOf(table, I[i])
        /\ \A i, j \in 1..n : i < j => I[i] \cap I[j] = {}
    BY <1>2, <1>3
  <2> QED BY <1>1, <1>5, <2>1, ColumnAddsUp
<1>8. SumFunction(expense) = SumOf(table, OfKind(table, S, "EXPENSE"))
  <2>1. /\ \A i \in 1..n : E[i] \in SUBSET DOMAIN table /\ expense[i] = SumOf(table, E[i])
        /\ \A i, j \in 1..n : i < j => E[i] \cap E[j] = {}
    BY <1>2, <1>3
  <2> QED BY <1>1, <1>6, <2>1, ColumnAddsUp
<1> QED BY <1>7, <1>8 DEF income, expense

\* The window leaves some rows out, or none.
LEMMA WindowSums ==
  ASSUME NEW table, IsTable(table), NEW since, NEW type
  PROVE  /\ Window(table, since) \in SUBSET DOMAIN table
         /\ SumOf(table, OfKind(table, Window(table, since), type)) <=
              SumOf(table, OfKind(table, Live(table), type))
         /\ (\A id \in Live(table) : ~Before(table[id].date, since)) =>
              SumOf(table, OfKind(table, Window(table, since), type)) =
                SumOf(table, OfKind(table, Live(table), type))
<1> DEFINE W == OfKind(table, Window(table, since), type)
           L == OfKind(table, Live(table), type)
<1>1. W \in SUBSET L /\ L \in SUBSET DOMAIN table /\ Window(table, since) \in SUBSET DOMAIN table
  BY DEF OfKind, Window, Live
<1>2. IsFiniteSet(L) /\ \A id \in L : Amounts(table)[id] \in Nat
  BY <1>1, TableIsFinite, FS_Subset
<1>3. (\A id \in Live(table) : ~Before(table[id].date, since)) => W = L
  BY DEF OfKind, Window
<1> HIDE DEF W, L
<1>4. SumOf(table, W) <= SumOf(table, L)
  BY <1>1, <1>2, SumGrows DEF SumOf, Amounts
<1>5. (\A id \in Live(table) : ~Before(table[id].date, since)) => SumOf(table, W) = SumOf(table, L)
  BY <1>3, Zenon
<1> QED BY <1>1, <1>4, <1>5 DEF W, L

----------------------------------------------------------------------------
(* The client *)

(***************************************************************************)
(* What a client holds of the three aggregates: as long as nobody changes  *)
(* the table, each is the one of the table as it is.  A role that may ask  *)
(* for the trends asks for all three, and the board is done when all are   *)
(* answered.                                                               *)
(***************************************************************************)
BoardInv ==
  /\ asked.kind = "board" \/ {"summary", "byCategory", "trends"} \cap (pending \cup DOMAIN answers) = {}
  /\ asked.kind = "board" => \E role \in Role : pending \cup DOMAIN answers = Allowed(role)
  /\ asked.kind = "board" /\ stage = "done" => pending = {}
  /\ Undisturbed =>
       /\ "summary" \in DOMAIN answers => answers["summary"] = getSummary(rows)
       /\ "byCategory" \in DOMAIN answers => answers["byCategory"] = getByCategory(rows)
       /\ "trends" \in DOMAIN answers =>
            \E ids \in InOrder(rows, Window(rows, asked.since)) :
              answers["trends"] = getTrends(rows, ids)

LEMMA InitBoard == Init => BoardInv
BY DEF Init, BoardInv, Nothing

LEMMA OpenKeepsBoard ==
  ASSUME IInv, BoardInv, NEW role \in Role, NEW now, NEW query, OpenDashboard(role, now, query)
  PROVE  BoardInv'
<1>1. DOMAIN answers = {} /\ UNCHANGED <<rows, answers, changes>> /\ stage' = "board"
  BY DEF OpenDashboard, IInv
<1>2. asked'.kind = "board" /\ pending' = Allowed(role)
  BY DEF OpenDashboard
<1>3. DOMAIN answers' = {}
  BY <1>1
<1> QED BY <1>2, <1>1, <1>3 DEF BoardInv

LEMMA ReadKeepsBoard ==
  ASSUME IInv, BoardInv, NEW statement \in {"summary", "byCategory", "trends"},
         ReadDashboard(statement)
  PROVE  BoardInv'
<1>1. /\ UNCHANGED <<rows, asked, changes>> /\ stage = "board" /\ statement \in pending
      /\ asked.kind = "board"
      /\ stage' = IF pending = {statement} THEN "done" ELSE "board"
  BY DEF ReadDashboard, IInv
<1>2. /\ pending' = pending \ {statement}
      /\ DOMAIN answers' = DOMAIN answers \cup {statement}
      /\ \A q \in DOMAIN answers : q # statement => answers'[q] = answers[q]
  BY DEF ReadDashboard, Answered
<1>3. pending' \cup DOMAIN answers' = pending \cup DOMAIN answers
  BY <1>1, <1>2
<1>4. \E role \in Role : pending' \cup DOMAIN answers' = Allowed(role)
  BY <1>1, <1>3 DEF BoardInv
<1>5. stage' = "done" => pending' = {}
  BY <1>1, <1>2
<1>6. /\ statement = "summary" => answers'[statement] = getSummary(rows)
      /\ statement = "byCategory" => answers'[statement] = getByCategory(rows)
      /\ statement = "trends" =>
           \E ids \in InOrder(rows, Window(rows, asked.since)) :
             answers'[statement] = getTrends(rows, ids)
  BY DEF ReadDashboard, Answered
<1>7. ASSUME Undisturbed
      PROVE  /\ "summary" \in DOMAIN answers' => answers'["summary"] = getSummary(rows)
             /\ "byCategory" \in DOMAIN answers' => answers'["byCategory"] = getByCategory(rows)
             /\ "trends" \in DOMAIN answers' =>
                  \E ids \in InOrder(rows, Window(rows, asked.since)) :
                    answers'["trends"] = getTrends(rows, ids)
  BY <1>2, <1>6, <1>7 DEF BoardInv
<1> QED BY <1>1, <1>4, <1>5, <1>7 DEF BoardInv, Undisturbed

\* The steps of a walk have no part in the board.
LEMMA WalkKeepsBoard ==
  ASSUME IInv, BoardInv,
         ReadPage \/ ReadTotal \/ Turn \/ \E filter, query : StartWalk(filter, query)
  PROVE  BoardInv'
<1> DEFINE B == {"summary", "byCategory", "trends"}
<1>1. UNCHANGED rows /\ UNCHANGED changes /\ asked'.kind = "walk"
  BY DEF ReadPage, ReadTotal, Turn, StartWalk, IInv
<1>2. pending' \cap B = {} /\ DOMAIN answers' \cap B = {}
  <2>1. CASE ReadPage \/ ReadTotal
    <3>1. asked.kind = "walk"
      BY <2>1 DEF ReadPage, ReadTotal, IInv
    <3>2. /\ pending' \subseteq pending
          /\ DOMAIN answers' \subseteq DOMAIN answers \cup {"page", "total"}
      BY <2>1 DEF ReadPage, ReadTotal, Answered
    <3> QED BY <3>1, <3>2 DEF BoardInv
  <2>2. CASE Turn
    BY <2>2 DEF Turn
  <2>3. CASE \E filter, query : StartWalk(filter, query)
    BY <2>3 DEF StartWalk, IInv
  <2> QED BY <2>1, <2>2, <2>3
<1> QED BY <1>1, <1>2 DEF BoardInv

LEMMA ChangeKeepsBoard ==
  ASSUME IInv, BoardInv, NEW kind, NEW id, NEW table, Change(kind, id, table)
  PROVE  BoardInv'
<1>1. changes' # << >>
  BY DEF Change, IInv, TypeOK
<1>2. UNCHANGED <<stage, asked, pending, answers>>
  BY DEF Change
<1> QED BY <1>1, <1>2 DEF BoardInv, Undisturbed

LEMMA BoardInduction == IInv /\ BoardInv /\ [Next]_vars => BoardInv'
<1> SUFFICES ASSUME IInv, BoardInv, [Next]_vars PROVE BoardInv'
  OBVIOUS
<1>1. CASE UNCHANGED vars \/ Finished
  BY <1>1 DEF vars, Finished, BoardInv, Undisturbed
<1>2. CASE \E role \in Role, now \in Instants, query \in Months : OpenDashboard(role, now, query)
  BY <1>2, OpenKeepsBoard
<1>3. CASE \E statement \in {"summary", "byCategory", "trends"} : ReadDashboard(statement)
  BY <1>3, ReadKeepsBoard
<1>4. CASE ReadPage \/ ReadTotal \/ Turn \/ \E filter, query : StartWalk(filter, query)
  BY <1>4, WalkKeepsBoard
<1>5. CASE \E kind, id, table : Change(kind, id, table)
  BY <1>5, ChangeKeepsBoard
<1>6. (\E id \in Id : Delete(id) \/ \E row \in NewRows : Insert(id, row) \/ Update(id, row))
        => \E kind, id, table : Change(kind, id, table)
  BY DEF Insert, Delete, Update
<1> QED BY <1>1, <1>2, <1>3, <1>4, <1>5, <1>6 DEF Next

LEMMA BoardInvariant == Spec => [](IInv /\ BoardInv)
<1>1. Init => IInv /\ BoardInv
  BY InitInv, InitBoard
<1>2. IInv /\ BoardInv /\ [Next]_vars => (IInv /\ BoardInv)'
  BY StepKeepsInv, BoardInduction
<1> QED BY <1>1, <1>2, PTL DEF Spec

\* On a table that nobody has changed, the client holds the trends of its window.
LEMMA HeldTrends ==
  ASSUME IInv, BoardInv, Undisturbed, "trends" \in DOMAIN answers
  PROVE  /\ IsTable(rows)
         /\ Window(rows, asked.since) \in SUBSET DOMAIN rows
         /\ answers["trends"] \in Seq(Entry)
         /\ Monthly(rows, Window(rows, asked.since), answers["trends"])
<1>1. IsTable(rows)
  BY DEF IInv, TypeOK
<1>2. Window(rows, asked.since) \in SUBSET DOMAIN rows
  BY DEF Window, Live
<1>3. PICK ids \in InOrder(rows, Window(rows, asked.since)) :
        answers["trends"] = getTrends(rows, ids)
  BY DEF BoardInv
<1> QED BY <1>1, <1>2, <1>3, TrendsAreMonthly

(***************************************************************************)
(* dashboard.service.ts:64.  The trends show every month that has a record *)
(* in the window and no other, each once, in ascending order across years, *)
(* with the income and the expenses of exactly its records in the window,  *)
(* in whatever order the database returns records of one date.             *)
(***************************************************************************)
THEOREM TrendsAreByMonth == Spec => []TrendsByMonth
<1>1. IInv /\ BoardInv => TrendsByMonth
  <2> SUFFICES ASSUME IInv, BoardInv, Undisturbed, "trends" \in DOMAIN answers
               PROVE  TrendsByMonth
    BY DEF TrendsByMonth
  <2> DEFINE trends == answers["trends"]
             W == Window(rows, asked.since)
  <2>1. /\ IsTable(rows) /\ W \in SUBSET DOMAIN rows /\ trends \in Seq(Entry)
        /\ Monthly(rows, W, trends)
    BY HeldTrends
  <2>2. ASSUME NEW i \in DOMAIN trends, NEW j \in DOMAIN trends, i < j
        PROVE  12 * trends[i].month[1] + trends[i].month[2] <
                 12 * trends[j].month[1] + trends[j].month[2]
    BY <2>1, <2>2 DEF Monthly, Tallied, Place
  <2>3. ASSUME NEW id \in W
        PROVE  \E i \in DOMAIN trends : MonthIs(trends[i], rows[id].date)
    <3>1. rows[id].date \in Date
      BY <2>1, TableIsFinite DEF Row
    <3>2. PICK i \in DOMAIN trends : trends[i].month = MonthKey(rows[id].date)
      BY <2>1 DEF Monthly, Tallied
    <3> QED BY <3>1, <3>2, MonthKeyTypes DEF MonthIs
  <2>4. ASSUME NEW i \in DOMAIN trends
        PROVE  /\ \E id \in W : MonthIs(trends[i], rows[id].date)
               /\ trends[i].income = SumOf(rows, RowsOf(trends[i], "INCOME"))
               /\ trends[i].expense = SumOf(rows, RowsOf(trends[i], "EXPENSE"))
    <3> DEFINE m == trends[i].month
    <3>1. \A id \in W : rows[id].date \in Date
      BY <2>1, TableIsFinite DEF Row
    <3>2. PICK r \in W : m = MonthKey(rows[r].date)
      BY <2>1 DEF Monthly, Tallied
    <3>3. rows[r].date.month = 12 * m[1] + m[2] - 1
      BY <3>1, <3>2, MonthKeyTypes
    <3>4. \A id \in W : MonthKey(rows[id].date) = m <=> rows[id].date.month = 12 * m[1] + m[2] - 1
      <4> TAKE id \in W
      <4>1. rows[id].date.month = 12 * MonthKey(rows[id].date)[1] + MonthKey(rows[id].date)[2] - 1
        BY <3>1, MonthKeyTypes
      <4>2. rows[id].date.month = rows[r].date.month => MonthKey(rows[id].date) = MonthKey(rows[r].date)
        BY DEF MonthKey
      <4> HIDE DEF m
      <4> QED BY <3>2, <3>3, <4>1, <4>2
    <3>5. \A id \in W : rows[id].type # "INCOME" <=> rows[id].type = "EXPENSE"
      BY <2>1, ExpensesAreTheRest
    <3>6. RowsOf(trends[i], "INCOME") = Income(rows, W, m)
      BY <3>4 DEF RowsOf, Income, MonthIs
    <3>7. RowsOf(trends[i], "EXPENSE") = Expense(rows, W, m)
      BY <3>4, <3>5 DEF RowsOf, Expense, MonthIs
    <3>8. /\ trends[i].income = SumOf(rows, Income(rows, W, m))
          /\ trends[i].expense = SumOf(rows, Expense(rows, W, m))
      BY <2>1 DEF Monthly, Tallied
    <3>9. \E id \in W : MonthIs(trends[i], rows[id].date)
      BY <3>3 DEF MonthIs
    <3> HIDE DEF m, W, trends
    <3> QED BY <3>6, <3>7, <3>8, <3>9, Zenon
  <2> QED BY <2>2, <2>3, <2>4 DEF TrendsByMonth
<1> QED BY <1>1, BoardInvariant, PTL

(***************************************************************************)
(* dashboard.service.ts:13, 40 and 53.  The three aggregates agree on a    *)
(* table that nobody changed while they were read: the categories add up   *)
(* to the totals, the months to no more than the totals, and to the totals *)
(* when the window reaches back to the first record.                       *)
(***************************************************************************)
THEOREM AggregatesAgree == Spec => []EndpointsAgree
<1>1. IInv /\ BoardInv => EndpointsAgree
  <2> SUFFICES ASSUME IInv, BoardInv, stage = "done", Undisturbed, "trends" \in DOMAIN answers
               PROVE  EndpointsAgree
    BY DEF EndpointsAgree
  <2> DEFINE summary == answers["summary"]
             trends  == answers["trends"]
             groups  == answers["byCategory"]
             W       == Window(rows, asked.since)
             whole   == \A id \in Live(rows) : ~Before(rows[id].date, asked.since)
             Total(type) == SumOf(rows, OfKind(rows, Live(rows), type))
  <2>1. "summary" \in DOMAIN answers /\ "byCategory" \in DOMAIN answers
    <3>1. asked.kind = "board"
      BY DEF BoardInv
    <3>2. PICK role \in Role : DOMAIN answers = Allowed(role)
      BY <3>1 DEF BoardInv
    <3> QED BY <3>2 DEF Allowed, analystOrAdmin, anyRole
  <2>2. /\ IsTable(rows) /\ W \in SUBSET DOMAIN rows /\ trends \in Seq(Entry)
        /\ Monthly(rows, W, trends)
    BY HeldTrends
  <2>3. summary = getSummary(rows) /\ groups = getByCategory(rows)
    BY <2>1 DEF BoardInv
  <2>4. summary.totalIncome = Total("INCOME") /\ summary.totalExpenses = Total("EXPENSE")
    BY <2>2, <2>3, SummarySums
  <2>5. \A type : SumFunctionOnSet(groups, OfType(groups, type)) = Total(type)
    BY <2>2, <2>3, CategoriesAddUp
  <2>6. /\ SumFunction([i \in DOMAIN trends |-> trends[i].income]) = SumOf(rows, OfKind(rows, W, "INCOME"))
        /\ SumFunction([i \in DOMAIN trends |-> trends[i].expense]) = SumOf(rows, OfKind(rows, W, "EXPENSE"))
    BY <2>2, MonthsAddUp
  <2>7. \A type : /\ SumOf(rows, OfKind(rows, W, type)) <= Total(type)
                  /\ whole => SumOf(rows, OfKind(rows, W, type)) = Total(type)
    BY <2>2, WindowSums
  <2> HIDE DEF W, Total
  <2> QED BY <2>4, <2>5, <2>6, <2>7 DEF EndpointsAgree
<1> QED BY <1>1, BoardInvariant, PTL
=============================================================================
