---------------------------- MODULE ReportsProofs ---------------------------
(* Proofs about Reports, for any tables, filters, instants and parameters. *)
EXTENDS Reports, FiniteSetTheorems, SequenceTheorems, TLAPS

----------------------------------------------------------------------------
(* The calendar *)

LEMMA DaysInMonth ==
  ASSUME NEW month \in Int
  PROVE  DaysIn(month) \in 28..31
BY DEF DaysIn

\* setMonth always makes a real date.
LEMMA SetMonthIsDate ==
  ASSUME NEW d \in Date, NEW month \in Int
  PROVE  SetMonth(d, month) \in Date
<1>1. DaysIn(month) \in 28..31 /\ DaysIn(month + 1) \in 28..31
  BY DaysInMonth
<1>2. d \in [month: Int, day: 1..31, time: Nat]
  BY DEF Date
<1>3. CASE d.day <= DaysIn(month)
  BY <1>1, <1>2, <1>3 DEF SetMonth, Date
<1>4. CASE ~(d.day <= DaysIn(month))
  <2> DEFINE e == [d EXCEPT !.month = month + 1, !.day = d.day - DaysIn(month)]
  <2>1. e \in [month: Int, day: 1..31, time: Nat]
    <3>1. d.day - DaysIn(month) \in 1..31 /\ month + 1 \in Int
      BY <1>1, <1>2, <1>4
    <3> QED
      BY <1>2, <3>1
  <2>2. e.month = month + 1 /\ e.day = d.day - DaysIn(month)
    BY <1>2
  <2>3. e.day <= DaysIn(month + 1)
    BY <1>1, <1>2, <1>4, <2>2
  <2> QED
    BY <1>4, <2>1, <2>2, <2>3 DEF SetMonth, Date
<1> QED
  BY <1>3, <1>4

----------------------------------------------------------------------------
(* Pagination *)

LEMMA MoreThan ==
  ASSUME NEW total \in Nat, NEW limit \in Nat \ {0}, NEW p \in Nat
  PROVE  p < TotalPages(total, limit) <=> p * limit < total
<1> DEFINE q == (total + limit - 1) \div limit
           r == (total + limit - 1) % limit
<1>1. q \in Int /\ r \in 0..(limit - 1) /\ total + limit - 1 = limit * q + r
  OBVIOUS
<1> HIDE DEF q, r
<1>2. CASE p < q
  <2>1. p + 1 <= q
    BY <1>1, <1>2
  <2>2. limit * (p + 1) <= limit * q
    BY <1>1, <2>1
  <2> QED
    BY <1>1, <1>2, <2>2 DEF TotalPages, q
<1>3. CASE q <= p
  <2>1. limit * q <= limit * p
    BY <1>1, <1>3
  <2> QED
    BY <1>1, <1>3, <2>1 DEF TotalPages, q
<1> QED
  BY <1>1, <1>2, <1>3

LEMMA PaginationTypes ==
  ASSUME NEW query \in Int
  PROVE  PageOf(query) \in Nat \ {0} /\ LimitOf(query) \in 1..100 /\ MonthsOf(query) \in 1..24
BY DEF PageOf, LimitOf, MonthsOf, OrElse, AtLeast, AtMost

(***************************************************************************)
(* The pages of getPagination and buildPaginationMeta are a partition:     *)
(* each position of a list of any length is on exactly one of the pages    *)
(* 1..totalPages, whatever the limit.                                      *)
(***************************************************************************)
THEOREM PagesPartition ==
  ASSUME NEW total \in Nat, NEW limit \in Nat \ {0}, NEW i \in 1..total
  PROVE  \E p \in 1..TotalPages(total, limit) :
           /\ i \in Skip(p, limit) + 1 .. Skip(p, limit) + limit
           /\ \A other \in Nat \ {0} :
                i \in Skip(other, limit) + 1 .. Skip(other, limit) + limit => other = p
<1> DEFINE q == (i - 1) \div limit
           r == (i - 1) % limit
<1>1. q \in Int /\ r \in 0..(limit - 1) /\ i - 1 = limit * q + r
  OBVIOUS
<1> HIDE DEF q, r
<1>2. q \in Nat
  <2>1. CASE q <= -1
    <3>1. limit * q <= limit * (-1)
      BY <1>1, <2>1
    <3> QED
      BY <1>1, <3>1
  <2> QED
    BY <1>1, <2>1
<1>3. Skip(q + 1, limit) = limit * q
  BY <1>2 DEF Skip
<1>4. q * limit < total
  BY <1>1, <1>2
<1>5. q < TotalPages(total, limit)
  BY <1>2, <1>4, MoreThan
<1>6. TotalPages(total, limit) \in Int
  BY DEF TotalPages
<1>7. q + 1 \in 1..TotalPages(total, limit)
  BY <1>2, <1>5, <1>6
<1>8. i \in Skip(q + 1, limit) + 1 .. Skip(q + 1, limit) + limit
  BY <1>1, <1>2, <1>3
<1>9. ASSUME NEW other \in Nat \ {0},
             i \in Skip(other, limit) + 1 .. Skip(other, limit) + limit
      PROVE  other = q + 1
  <2>1. i >= (other - 1) * limit + 1 /\ i <= (other - 1) * limit + limit
    BY <1>9 DEF Skip
  <2>2. CASE other - 1 >= q + 1
    <3>1. (other - 1) * limit >= (q + 1) * limit
      BY <1>1, <2>2
    <3> QED
      BY <1>1, <1>2, <2>1, <3>1
  <2>3. CASE other <= q
    <3>1. other * limit <= q * limit
      BY <1>1, <2>3
    <3> QED
      BY <1>1, <1>2, <2>1, <3>1
  <2> QED
    BY <1>2, <2>2, <2>3
<1> QED
  BY <1>7, <1>8, <1>9
----------------------------------------------------------------------------
(* Tables, orders and pages *)

LEMMA MatchingIsFinite ==
  ASSUME NEW table, IsTable(table), NEW filter
  PROVE  /\ Matching(table, filter) \subseteq Id
         /\ IsFiniteSet(Matching(table, filter))
         /\ Cardinality(Matching(table, filter)) \in Nat
<1>1. Matching(table, filter) \subseteq Id
  BY DEF Matching, Live, IsTable
<1>2. IsFiniteSet(Id)
  BY ParametersAssumption
<1>3. IsFiniteSet(Matching(table, filter))
  BY <1>1, <1>2, FS_Subset
<1> QED
  BY <1>1, <1>3, FS_CardinalityType

\* An order lists the rows, each once.
LEMMA OrderProperties ==
  ASSUME NEW table, NEW S, IsFiniteSet(S), NEW s \in Orders(table, S)
  PROVE  /\ s \in Seq(S)
         /\ Len(s) = Cardinality(S)
         /\ \A i, j \in 1..Len(s) : s[i] = s[j] => i = j
         /\ \A i, j \in 1..Len(s) : i < j => ~Before(table[s[i]].date, table[s[j]].date)
<1>1. Cardinality(S) \in Nat
  BY FS_CardinalityType
<1>2. s \in [1..Cardinality(S) -> S] /\ \A i, j \in 1..Cardinality(S) : i # j => s[i] # s[j]
  BY DEF Orders, SetToSeqs
<1>3. s \in Seq(S) /\ Len(s) = Cardinality(S)
  BY <1>1, <1>2
<1> QED
  BY <1>2, <1>3 DEF Orders

\* cut is page p of s: what is left of it, up to limit rows.
IsPage(s, p, limit, cut) ==
  /\ Skip(p, limit) <= Len(s) => Len(cut) = AtMost(limit, Len(s) - Skip(p, limit))
  /\ \A i \in 1..Len(cut) : /\ Skip(p, limit) + i \in 1..Len(s)
                            /\ cut[i] = s[Skip(p, limit) + i]

LEMMA PageProperties ==
  ASSUME NEW S, NEW s \in Seq(S), NEW p \in Nat \ {0}, NEW limit \in 1..100
  PROVE  /\ PageOfRows(s, p, limit) \in Seq(S)
         /\ Skip(p, limit) \in Nat
         /\ IsPage(s, p, limit, PageOfRows(s, p, limit))
<1> DEFINE skip == Skip(p, limit)
           last == AtMost(Len(s), skip + limit)
<1>1. skip \in Nat
  <2>1. p - 1 \in Nat /\ limit \in Nat
    OBVIOUS
  <2> QED
    BY <2>1 DEF Skip
<1> HIDE DEF skip
<1>2. Len(s) \in Nat
  OBVIOUS
<1>3. last \in Int /\ last <= Len(s) /\ last <= skip + limit /\ (last = Len(s) \/ last = skip + limit)
  BY <1>1, <1>2 DEF AtMost
<1> HIDE DEF last
<1>4. \A i \in skip + 1 .. last : s[i] \in S
  BY <1>1, <1>2, <1>3
<1>5. /\ SubSeq(s, skip + 1, last) \in Seq(S)
      /\ Len(SubSeq(s, skip + 1, last)) = IF skip + 1 <= last THEN last - (skip + 1) + 1 ELSE 0
      /\ \A i \in 1 .. last - (skip + 1) + 1 : SubSeq(s, skip + 1, last)[i] = s[skip + 1 + i - 1]
  <2> skip + 1 \in Int /\ last \in Int
    BY <1>1, <1>3
  <2> QED
    BY <1>4, SubSeqProperties
<1>6. PageOfRows(s, p, limit) = SubSeq(s, skip + 1, last)
  BY DEF PageOfRows, skip, last
<1>7. skip <= Len(s) => Len(SubSeq(s, skip + 1, last)) = AtMost(limit, Len(s) - skip)
  <2> SUFFICES ASSUME skip <= Len(s)
               PROVE  Len(SubSeq(s, skip + 1, last)) = AtMost(limit, Len(s) - skip)
    OBVIOUS
  <2>1. CASE Len(s) - skip > limit
    <3>1. last = skip + limit
      BY <1>1, <1>2, <2>1 DEF last, AtMost
    <3>2. AtMost(limit, Len(s) - skip) = limit
      BY <2>1 DEF AtMost
    <3> QED
      BY <1>1, <1>5, <3>1, <3>2
  <2>2. CASE ~(Len(s) - skip > limit)
    <3>1. last = Len(s)
      BY <1>1, <1>2, <2>2 DEF last, AtMost
    <3>2. AtMost(limit, Len(s) - skip) = Len(s) - skip
      BY <1>1, <1>2, <2>2 DEF AtMost
    <3> QED
      BY <1>1, <1>2, <1>5, <3>1, <3>2
  <2> QED
    BY <2>1, <2>2
<1>8. \A i \in 1..Len(SubSeq(s, skip + 1, last)) :
        skip + i \in 1..Len(s) /\ SubSeq(s, skip + 1, last)[i] = s[skip + i]
  <2> SUFFICES ASSUME NEW i \in 1..Len(SubSeq(s, skip + 1, last))
               PROVE  skip + i \in 1..Len(s) /\ SubSeq(s, skip + 1, last)[i] = s[skip + i]
    OBVIOUS
  <2>1. i \in 1 .. last - (skip + 1) + 1 /\ skip + 1 + i - 1 = skip + i
    BY <1>1, <1>3, <1>5
  <2> QED
    BY <1>1, <1>2, <1>3, <1>5, <2>1
<1> QED
  BY <1>1, <1>5, <1>6, <1>7, <1>8 DEF skip, IsPage

----------------------------------------------------------------------------
(* The invariant *)

LEMMA InitInv == Init => IInv
BY ParametersAssumption DEF Init, IInv, TypeOK, Nothing

LEMMA OpenKeepsInv ==
  ASSUME IInv, NEW role \in Role, NEW now \in Instants, NEW query \in Months,
         OpenDashboard(role, now, query)
  PROVE  IInv'
<1>1. now \in Date /\ query \in Int
  BY ParametersAssumption
<1>2. MonthsOf(query) \in 1..24
  BY <1>1, PaginationTypes
<1>3. Since(now, MonthsOf(query)) \in Date
  <2>1. now.month - MonthsOf(query) \in Int
    BY <1>1, <1>2 DEF Date
  <2> QED
    BY <1>1, <2>1, SetMonthIsDate DEF Since
<1>4. asked' \in [kind: {"board"}, now: Date, months: 1..24, since: Date]
  BY <1>1, <1>2, <1>3 DEF OpenDashboard
<1>5. Allowed(role) \subseteq {"summary", "byCategory", "trends"}
  BY DEF Allowed
<1>6. TypeOK'
  BY <1>4, <1>5 DEF OpenDashboard, IInv, TypeOK
<1> QED
  BY <1>4, <1>6 DEF OpenDashboard, IInv

LEMMA StartKeepsInv ==
  ASSUME IInv, NEW filter \in Filters, NEW query \in Limits, StartWalk(filter, query)
  PROVE  IInv'
<1>1. filter \in Filter /\ query \in Int
  BY ParametersAssumption
<1>2. LimitOf(query) \in 1..100 /\ PageOf(1) \in Nat \ {0}
  BY <1>1, PaginationTypes
<1>3. asked' \in [kind: {"walk"}, filter: Filter, limit: 1..100]
  BY <1>1, <1>2 DEF StartWalk
<1>4. TypeOK'
  BY <1>2, <1>3 DEF StartWalk, IInv, TypeOK
<1> QED
  BY <1>3, <1>4 DEF StartWalk, IInv

LEMMA ReadDashboardKeepsInv ==
  ASSUME IInv, NEW statement \in {"summary", "byCategory", "trends"}, ReadDashboard(statement)
  PROVE  IInv'
<1>1. TypeOK'
  BY DEF ReadDashboard, Answered, IInv, TypeOK
<1>2. /\ "page" \in DOMAIN answers' => "page" \in DOMAIN answers /\ answers'["page"] = answers["page"]
      /\ "total" \in DOMAIN answers' => "total" \in DOMAIN answers /\ answers'["total"] = answers["total"]
  BY DEF ReadDashboard, Answered
<1> QED
  BY <1>1, <1>2 DEF ReadDashboard, IInv

LEMMA WalkTypes ==
  ASSUME IInv, stage = "walk"
  PROVE  /\ asked \in [kind: {"walk"}, filter: Filter, limit: 1..100]
         /\ page \in Nat \ {0}
         /\ IsTable(rows)
BY DEF IInv, TypeOK, Nothing

LEMMA ReadPageKeepsInv ==
  ASSUME IInv, ReadPage
  PROVE  IInv'
<1>1. stage = "walk"
  BY DEF ReadPage
<1>2. PICK s \in Orders(rows, Matching(rows, asked.filter)) :
        Answered("page", PageOfRows(s, page, asked.limit))
  BY DEF ReadPage
<1>3. s \in Seq(Matching(rows, asked.filter)) /\ Matching(rows, asked.filter) \subseteq Id
  BY <1>1, <1>2, WalkTypes, MatchingIsFinite, OrderProperties
<1>4. s \in Seq(Id)
  BY <1>3
<1>5. PageOfRows(s, page, asked.limit) \in Seq(Id)
  BY <1>1, <1>4, WalkTypes, PageProperties
<1>6. answers'["page"] \in Seq(Id)
  BY <1>2, <1>5 DEF Answered
<1>7. "total" \in DOMAIN answers' => "total" \in DOMAIN answers /\ answers'["total"] = answers["total"]
  BY <1>2 DEF Answered
<1>8. TypeOK'
  BY DEF ReadPage, Answered, IInv, TypeOK
<1>9. pending' = {"page", "total"} \ DOMAIN answers'
  BY <1>1, <1>2 DEF Answered, IInv
<1> QED
  BY <1>1, <1>6, <1>7, <1>8, <1>9 DEF ReadPage, IInv

LEMMA ReadTotalKeepsInv ==
  ASSUME IInv, ReadTotal
  PROVE  IInv'
<1>1. stage = "walk"
  BY DEF ReadTotal
<1>2. Answered("total", Cardinality(Matching(rows, asked.filter)))
  BY DEF ReadTotal
<1>3. Cardinality(Matching(rows, asked.filter)) \in Nat
  BY <1>1, WalkTypes, MatchingIsFinite
<1>4. answers'["total"] \in Nat
  BY <1>2, <1>3 DEF Answered
<1>5. "page" \in DOMAIN answers' => "page" \in DOMAIN answers /\ answers'["page"] = answers["page"]
  BY <1>2 DEF Answered
<1>6. TypeOK'
  BY DEF ReadTotal, Answered, IInv, TypeOK
<1>7. pending' = {"page", "total"} \ DOMAIN answers'
  BY <1>1, <1>2 DEF Answered, IInv
<1> QED
  BY <1>1, <1>4, <1>5, <1>6, <1>7 DEF ReadTotal, IInv

LEMMA TurnKeepsInv ==
  ASSUME IInv, Turn
  PROVE  IInv'
<1>1. answers["page"] \in Seq(Id)
  BY DEF Turn, IInv
<1>2. shown \in Seq(Id)
  BY DEF IInv, TypeOK
<1>3. shown' \in Seq(Id)
  BY <1>1, <1>2 DEF Turn
<1>4. DOMAIN answers' = {}
  BY DEF Turn
<1>5. TypeOK'
  BY <1>3, <1>4 DEF Turn, IInv, TypeOK
<1> QED
  BY <1>4, <1>5 DEF Turn, IInv

LEMMA ChangeKeepsInv ==
  ASSUME IInv, NEW kind \in {"insert", "delete", "update"}, NEW id \in Id, NEW table,
         IsTable(table), Change(kind, id, table)
  PROVE  IInv'
<1>1. changes \in Seq([kind: {"insert", "delete", "update"}, id: Id]) /\ MaxChanges \in Nat
  BY ParametersAssumption DEF IInv, TypeOK
<1>2. [kind |-> kind, id |-> id] \in [kind: {"insert", "delete", "update"}, id: Id]
  OBVIOUS
<1>3. /\ changes' \in Seq([kind: {"insert", "delete", "update"}, id: Id])
      /\ Len(changes') <= MaxChanges
  BY <1>1, <1>2 DEF Change
<1>4. twins' \in BOOLEAN
  BY DEF Change
<1>5. TypeOK'
  BY <1>3, <1>4 DEF Change, IInv, TypeOK
<1> QED
  BY <1>5 DEF Change, IInv

LEMMA MutationKeepsInv ==
  ASSUME IInv, NEW id \in Id,
         Delete(id) \/ \E row \in NewRows : Insert(id, row) \/ Update(id, row)
  PROVE  IInv'
<1>1. IsTable(rows) /\ NewRows \subseteq Row
  BY ParametersAssumption DEF IInv, TypeOK
<1>2. \A row \in Row, b \in BOOLEAN : [row EXCEPT !.isDeleted = b] \in Row
  BY DEF Row
<1>3. CASE Delete(id)
  <2>1. rows[id] \in Row
    BY <1>1, <1>3 DEF Delete, Live, IsTable
  <2>2. [rows[id] EXCEPT !.isDeleted = TRUE] \in Row
    BY <1>2, <2>1
  <2>3. IsTable([rows EXCEPT ![id].isDeleted = TRUE])
    BY <1>1, <2>2 DEF IsTable
  <2> QED
    BY <1>3, <2>3, ChangeKeepsInv DEF Delete
<1>4. CASE \E row \in NewRows : Insert(id, row) \/ Update(id, row)
  <2>1. PICK row \in NewRows : Insert(id, row) \/ Update(id, row)
    BY <1>4
  <2>2. [row EXCEPT !.isDeleted = FALSE] \in Row
    BY <1>1, <1>2
  <2>3. IsTable([i \in DOMAIN rows \cup {id} |->
                   IF i = id THEN [row EXCEPT !.isDeleted = FALSE] ELSE rows[i]])
    BY <1>1, <2>2 DEF IsTable
  <2>4. IsTable([rows EXCEPT ![id] = [row EXCEPT !.isDeleted = FALSE]])
    BY <1>1, <2>2 DEF IsTable
  <2> QED
    BY <2>1, <2>3, <2>4, ChangeKeepsInv DEF Insert, Update
<1> QED
  BY <1>3, <1>4

LEMMA StepKeepsInv == IInv /\ [Next]_vars => IInv'
<1> SUFFICES ASSUME IInv, [Next]_vars PROVE IInv'
  OBVIOUS
<1>1. CASE Next
  <2>1. CASE Finished
    BY <2>1 DEF Finished, vars, IInv, TypeOK
  <2> QED
    BY <1>1, <2>1, OpenKeepsInv, StartKeepsInv, ReadDashboardKeepsInv, ReadPageKeepsInv,
       ReadTotalKeepsInv, TurnKeepsInv, MutationKeepsInv DEF Next
<1>2. CASE UNCHANGED vars
  BY <1>2 DEF vars, IInv, TypeOK
<1> QED
  BY <1>1, <1>2

(***************************************************************************)
(* The inductive invariant: among other things, the window of the trends   *)
(* begins on a real date and pages are within their bounds.                *)
(***************************************************************************)
THEOREM InvariantHolds == Spec => []IInv
  BY InitInv, StepKeepsInv, PTL DEF Spec
----------------------------------------------------------------------------
(* The window of the trends *)

LEMMA DateFields ==
  ASSUME NEW d \in Date
  PROVE  d.month \in Int /\ d.day \in 1..31 /\ d.time \in Nat /\ d.day <= DaysIn(d.month)
BY DEF Date

\* Where setMonth begins, against the day a calendar shows.
LEMMA WindowOf ==
  ASSUME NEW now \in Date, NEW n \in Int, NEW date \in Date
  PROVE  LET since   == Since(now, n)
             from    == MonthsBack(now, n)
         IN /\ ~Before(date, since) => ~Before(date, from)
            /\ Before(date, since) /\ ~Before(date, from) =>
                 /\ now.day > 28
                 /\ \/ date.month = from.month /\ date.day = DaysIn(from.month)
                    \/ date.month = from.month + 1 /\ date.day <= 3
<1> DEFINE m    == now.month - n
           days == DaysIn(m)
<1>1. m \in Int /\ now.day \in 1..31 /\ now.time \in Nat
  BY DateFields
<1>2. days \in 28..31
  BY <1>1, DaysInMonth
<1>3. date.month \in Int /\ date.day \in 1..31 /\ date.time \in Nat
      /\ date.day <= DaysIn(date.month)
  BY DateFields
<1>4. now \in [month: Int, day: 1..31, time: Nat]
  BY DEF Date
<1> HIDE DEF m, days
<1>5. CASE now.day <= days
  <2>1. Since(now, n) = [now EXCEPT !.month = m]
    BY <1>5 DEF Since, SetMonth, m, days
  <2>2. MonthsBack(now, n) = [now EXCEPT !.month = m, !.day = AtMost(days, now.day)]
    BY DEF MonthsBack, m, days
  <2>3. AtMost(days, now.day) = now.day
    BY <1>1, <1>2, <1>5 DEF AtMost
  <2>4. MonthsBack(now, n) = Since(now, n)
    BY <1>4, <2>1, <2>2, <2>3
  <2> QED
    BY <2>4
<1>6. CASE now.day > days
  <2>1. /\ Since(now, n).month = m + 1
        /\ Since(now, n).day = now.day - days
        /\ Since(now, n).time = now.time
    BY <1>1, <1>2, <1>4, <1>6 DEF Since, SetMonth, m, days
  <2>2. AtMost(days, now.day) = days
    BY <1>1, <1>2, <1>6 DEF AtMost
  <2>3. /\ MonthsBack(now, n).month = m
        /\ MonthsBack(now, n).day = days
        /\ MonthsBack(now, n).time = now.time
    BY <1>4, <2>2 DEF MonthsBack, m, days
  <2>4. date.month = m => date.day <= days
    BY <1>3 DEF days
  <2>5. Before(date, Since(now, n)) <=>
          \/ date.month < m + 1
          \/ date.month = m + 1 /\ date.day < now.day - days
          \/ date.month = m + 1 /\ date.day = now.day - days /\ date.time < now.time
    BY <2>1 DEF Before
  <2>6. Before(date, MonthsBack(now, n)) <=>
          \/ date.month < m
          \/ date.month = m /\ date.day < days
          \/ date.month = m /\ date.day = days /\ date.time < now.time
    BY <2>3 DEF Before
  <2>7. ~Before(date, Since(now, n)) => ~Before(date, MonthsBack(now, n))
    BY <1>1, <1>2, <1>3, <2>5, <2>6
  <2>8. Before(date, Since(now, n)) /\ ~Before(date, MonthsBack(now, n)) =>
          /\ now.day > 28
          /\ \/ date.month = m /\ date.day = days
             \/ date.month = m + 1 /\ date.day <= 3
    BY <1>1, <1>2, <1>3, <1>6, <2>4, <2>5, <2>6
  <2> QED
    BY <2>3, <2>7, <2>8 DEF m, days
<1> QED
  BY <1>1, <1>2, <1>5, <1>6

(***************************************************************************)
(* For every date, clock and parameter: getTrends asks for nothing older   *)
(* than the months asked, and loses at most four days of them.             *)
(***************************************************************************)
THEOREM WindowHolds == Spec => []TrendsWindow
<1>1. IInv => TrendsWindow
  <2> SUFFICES ASSUME IInv, asked.kind = "board", NEW id \in Live(rows)
               PROVE  LET from    == MonthsBack(asked.now, asked.months)
                          date    == rows[id].date
                          counted == id \in Window(rows, asked.since)
                      IN /\ counted => ~Before(date, from)
                         /\ ~counted /\ ~Before(date, from) =>
                              /\ asked.now.day > 28
                              /\ \/ date.month = from.month /\ date.day = DaysIn(from.month)
                                 \/ date.month = from.month + 1 /\ date.day <= 3
    BY DEF TrendsWindow
  <2>1. asked.now \in Date /\ asked.months \in Int /\ asked.since = Since(asked.now, asked.months)
    BY DEF IInv, TypeOK, Nothing
  <2>2. rows[id] \in Row
    BY DEF IInv, TypeOK, IsTable, Live
  <2>3. rows[id].date \in Date
    BY <2>2 DEF Row
  <2>4. id \in Window(rows, asked.since) <=> ~Before(rows[id].date, asked.since)
    BY DEF Window
  <2> QED
    BY <2>1, <2>3, <2>4, WindowOf
<1> QED
  BY <1>1, InvariantHolds, PTL
----------------------------------------------------------------------------
(* The walk through the pages *)

Later(table, S, id)      == {y \in S : Before(table[id].date, table[y].date)}
NotEarlier(table, S, id) == {y \in S : ~Before(table[y].date, table[id].date)}

\* id can stand at position k of an order of S: fewer than k rows come before it,
\* and k rows are there to fill the positions up to it.
Placed(table, S, id, k) ==
  /\ id \in S
  /\ Cardinality(Later(table, S, id)) < k
  /\ k <= Cardinality(NotEarlier(table, S, id))

PlacedFrom(table, S, s, skip) == \A k \in 1..Len(s) : Placed(table, S, s[k], skip + k)

LEMMA RanksAreFinite ==
  ASSUME NEW table, NEW S, IsFiniteSet(S), NEW id
  PROVE  /\ IsFiniteSet(Later(table, S, id)) /\ Cardinality(Later(table, S, id)) \in Nat
         /\ IsFiniteSet(NotEarlier(table, S, id)) /\ Cardinality(NotEarlier(table, S, id)) \in Nat
<1>1. Later(table, S, id) \subseteq S /\ NotEarlier(table, S, id) \subseteq S
  BY DEF Later, NotEarlier
<1>2. IsFiniteSet(Later(table, S, id)) /\ IsFiniteSet(NotEarlier(table, S, id))
  BY <1>1, FS_Subset
<1> QED
  BY <1>2, FS_CardinalityType

\* The first n elements of a sequence, as a set.
Prefix(s, n) == {s[i] : i \in 1..n}

LEMMA PrefixSize ==
  ASSUME NEW S, NEW s \in Seq(S), \A i, j \in 1..Len(s) : s[i] = s[j] => i = j,
         NEW n \in 0..Len(s)
  PROVE  IsFiniteSet(Prefix(s, n)) /\ Cardinality(Prefix(s, n)) = n
<1> DEFINE f == [i \in 1..n |-> s[i]]
<1>1. f \in Surjection(1..n, Prefix(s, n)) /\ f \in Injection(1..n, Prefix(s, n))
  BY DEF Prefix, Surjection, Injection, IsInjective
<1>2. IsFiniteSet(1..n) /\ Cardinality(1..n) = n
  BY FS_Interval
<1> QED
  BY <1>1, <1>2, FS_Surjection

\* An order of finitely many rows lists all of them.
LEMMA OrderIsOnto ==
  ASSUME NEW S, IsFiniteSet(S), NEW s \in Seq(S), Len(s) = Cardinality(S),
         \A i, j \in 1..Len(s) : s[i] = s[j] => i = j
  PROVE  Prefix(s, Len(s)) = S
<1>1. Cardinality(Prefix(s, Len(s))) = Cardinality(S)
  <2>1. Len(s) \in 0..Len(s)
    OBVIOUS
  <2> QED
    BY <2>1, PrefixSize
<1>2. Prefix(s, Len(s)) \subseteq S
  BY DEF Prefix
<1> QED
  BY <1>1, <1>2, FS_Subset

LEMMA OrderPlaces ==
  ASSUME NEW table, NEW S, IsFiniteSet(S), S \subseteq DOMAIN table,
         \A id \in S : table[id].date \in Date,
         NEW s \in Orders(table, S)
  PROVE  PlacedFrom(table, S, s, 0)
<1>1. /\ s \in Seq(S) /\ Len(s) = Cardinality(S)
      /\ \A i, j \in 1..Len(s) : s[i] = s[j] => i = j
      /\ \A i, j \in 1..Len(s) : i < j => ~Before(table[s[i]].date, table[s[j]].date)
  BY OrderProperties
<1>2. Prefix(s, Len(s)) = S
  BY <1>1, OrderIsOnto
<1>3. \A d \in Date : ~Before(d, d)
  BY DateFields DEF Before
<1> SUFFICES ASSUME NEW k \in 1..Len(s) PROVE Placed(table, S, s[k], k)
  BY <1>1 DEF PlacedFrom
<1>4. s[k] \in S /\ k \in Nat /\ k - 1 \in 0..Len(s) /\ k \in 0..Len(s)
  BY <1>1
<1>5. Later(table, S, s[k]) \subseteq Prefix(s, k - 1)
  <2> SUFFICES ASSUME NEW y \in S, Before(table[s[k]].date, table[y].date)
               PROVE  y \in Prefix(s, k - 1)
    BY DEF Later
  <2>1. PICK i \in 1..Len(s) : y = s[i]
    BY <1>2 DEF Prefix
  <2>2. i # k
    BY <1>3, <2>1
  <2>3. ~(k < i)
    BY <1>1, <2>1
  <2> QED
    BY <1>4, <2>1, <2>2, <2>3 DEF Prefix
<1>6. Prefix(s, k) \subseteq NotEarlier(table, S, s[k])
  <2> SUFFICES ASSUME NEW i \in 1..k
               PROVE  s[i] \in S /\ ~Before(table[s[i]].date, table[s[k]].date)
    BY DEF NotEarlier, Prefix
  <2>1. i \in 1..Len(s) /\ s[i] \in S
    BY <1>1, <1>4
  <2> QED
    BY <1>1, <1>3, <1>4, <2>1
<1>7. Cardinality(Later(table, S, s[k])) <= k - 1
  <2>1. IsFiniteSet(Prefix(s, k - 1)) /\ Cardinality(Prefix(s, k - 1)) = k - 1
    BY <1>1, <1>4, PrefixSize
  <2> QED
    BY <1>5, <2>1, FS_Subset
<1>8. k <= Cardinality(NotEarlier(table, S, s[k]))
  <2>1. Cardinality(Prefix(s, k)) = k
    BY <1>1, <1>4, PrefixSize
  <2> QED
    BY <1>6, <2>1, FS_Subset, RanksAreFinite
<1>9. Cardinality(Later(table, S, s[k])) \in Nat
  BY RanksAreFinite
<1> QED
  BY <1>4, <1>7, <1>8, <1>9 DEF Placed
\* What a walk has been shown, and holds in its answers, while nothing changes.
WInv ==
  changes = << >> /\ asked.kind = "walk" =>
    /\ PlacedFrom(rows, Matching(rows, asked.filter), shown, 0)
    /\ stage = "walk" =>
         /\ Len(shown) = Skip(page, asked.limit)
         /\ Len(shown) <= Cardinality(Matching(rows, asked.filter))
    /\ stage = "done" => Len(shown) = Cardinality(Matching(rows, asked.filter))
    /\ "total" \in DOMAIN answers =>
         answers["total"] = Cardinality(Matching(rows, asked.filter))
    /\ "page" \in DOMAIN answers =>
         /\ PlacedFrom(rows, Matching(rows, asked.filter), answers["page"], Skip(page, asked.limit))
         /\ Len(answers["page"]) =
              AtMost(asked.limit, Cardinality(Matching(rows, asked.filter)) - Skip(page, asked.limit))

TwinsInv == ~twins => DistinctDates(rows)

LEMMA TwinsInduction == TwinsInv /\ [Next]_vars => TwinsInv'
<1> SUFFICES ASSUME TwinsInv, [Next]_vars PROVE TwinsInv'
  OBVIOUS
<1>1. \/ UNCHANGED <<rows, twins>>
      \/ \E kind, id, table : Change(kind, id, table)
  BY DEF Next, vars, OpenDashboard, StartWalk, ReadDashboard, ReadPage, ReadTotal, Turn,
         Insert, Delete, Update, Finished
<1> QED
  BY <1>1 DEF TwinsInv, Change, DistinctDates

LEMMA StartWalks ==
  ASSUME IInv, NEW filter \in Filters, NEW query \in Limits, StartWalk(filter, query)
  PROVE  WInv'
<1>1. shown' = << >> /\ DOMAIN answers' = {} /\ page' = 1 /\ stage' = "walk" /\ IsTable(rows')
  BY DEF StartWalk, IInv, TypeOK, PageOf, OrElse, AtLeast
<1>2. Cardinality(Matching(rows', asked'.filter)) \in Nat
  BY <1>1, MatchingIsFinite
<1>3. asked'.limit \in Int
  BY ParametersAssumption, PaginationTypes DEF StartWalk
<1>4. Skip(page', asked'.limit) = 0
  BY <1>1, <1>3 DEF Skip
<1> QED
  BY <1>1, <1>2, <1>4 DEF WInv, PlacedFrom

\* What the steps of a walk are told about the table.
LEMMA WalkFacts ==
  ASSUME IInv, stage = "walk"
  PROVE  /\ asked.limit \in 1..100 /\ page \in Nat \ {0}
         /\ Skip(page, asked.limit) \in Nat
         /\ IsFiniteSet(Matching(rows, asked.filter))
         /\ Cardinality(Matching(rows, asked.filter)) \in Nat
         /\ Matching(rows, asked.filter) \subseteq DOMAIN rows
         /\ \A id \in DOMAIN rows : rows[id].date \in Date
         /\ shown \in Seq(Id)
<1>1. asked.limit \in 1..100 /\ page \in Nat \ {0} /\ IsTable(rows)
  BY WalkTypes
<1>2. page - 1 \in Nat /\ asked.limit \in Nat
  BY <1>1
<1>3. Skip(page, asked.limit) \in Nat
  BY <1>2 DEF Skip
<1>4. \A id \in DOMAIN rows : rows[id].date \in Date
  BY <1>1 DEF IsTable, Row
<1>5. Matching(rows, asked.filter) \subseteq DOMAIN rows
  BY DEF Matching, Live
<1> QED
  BY <1>1, <1>3, <1>4, <1>5, MatchingIsFinite DEF IInv, TypeOK

LEMMA ReadPageKeepsWalk ==
  ASSUME IInv, WInv, ReadPage
  PROVE  WInv'
<1> DEFINE S == Matching(rows, asked.filter)
           skip == Skip(page, asked.limit)
<1>1. /\ stage = "walk" /\ stage' = "walk"
      /\ UNCHANGED <<rows, asked, page, shown, changes>>
  BY DEF ReadPage
<1>2. PICK s \in Orders(rows, S) : Answered("page", PageOfRows(s, page, asked.limit))
  BY DEF ReadPage
<1>3. s \in Seq(S) /\ Len(s) = Cardinality(S) /\ PlacedFrom(rows, S, s, 0)
  BY <1>1, <1>2, WalkFacts, OrderProperties, OrderPlaces
<1>4. asked.limit \in 1..100 /\ page \in Nat \ {0} /\ skip \in Nat /\ Cardinality(S) \in Nat
  BY <1>1, WalkFacts
<1> DEFINE cut == PageOfRows(s, page, asked.limit)
<1> HIDE DEF S
<1>5. IsPage(s, page, asked.limit, cut)
  BY <1>3, <1>4, PageProperties
<1>6. answers'["page"] = cut /\ DOMAIN answers' = DOMAIN answers \cup {"page"}
  BY <1>2 DEF Answered
<1>7. "total" \in DOMAIN answers' => "total" \in DOMAIN answers /\ answers'["total"] = answers["total"]
  BY <1>2 DEF Answered
<1>8. PlacedFrom(rows, S, cut, skip)
  <2> SUFFICES ASSUME NEW i \in 1..Len(cut) PROVE Placed(rows, S, cut[i], skip + i)
    BY DEF PlacedFrom
  <2>1. skip + i \in 1..Len(s) /\ cut[i] = s[skip + i]
    BY <1>5 DEF IsPage
  <2>2. Placed(rows, S, s[skip + i], 0 + (skip + i))
    BY <1>3, <2>1 DEF PlacedFrom
  <2>3. 0 + (skip + i) = skip + i
    BY <1>4
  <2> QED
    BY <2>1, <2>2, <2>3
<1> HIDE DEF cut, skip
<1>9. skip <= Cardinality(S) => Len(cut) = AtMost(asked.limit, Cardinality(S) - skip)
  BY <1>3, <1>5 DEF IsPage, skip
<1> SUFFICES ASSUME changes = << >>, asked.kind = "walk" PROVE WInv'
  BY <1>1 DEF WInv
<1>10. /\ PlacedFrom(rows, S, shown, 0)
       /\ Len(shown) = skip /\ Len(shown) <= Cardinality(S)
       /\ "total" \in DOMAIN answers => answers["total"] = Cardinality(S)
  BY <1>1 DEF WInv, S, skip
<1>11. S' = S /\ skip' = skip
  BY <1>1 DEF S, skip
<1> QED
  BY <1>1, <1>6, <1>7, <1>8, <1>9, <1>10, <1>11 DEF WInv, S, skip
LEMMA ReadTotalKeepsWalk ==
  ASSUME IInv, WInv, ReadTotal
  PROVE  WInv'
<1>1. UNCHANGED <<rows, stage, asked, page, shown, changes>>
  BY DEF ReadTotal
<1>2. answers'["total"] = Cardinality(Matching(rows, asked.filter))
  BY DEF ReadTotal, Answered
<1>3. "page" \in DOMAIN answers' => "page" \in DOMAIN answers /\ answers'["page"] = answers["page"]
  BY DEF ReadTotal, Answered
<1> QED
  BY <1>1, <1>2, <1>3 DEF WInv

\* Putting a page behind what has been shown.
LEMMA PlacedAppend ==
  ASSUME NEW table, NEW S, NEW s \in Seq(Id), NEW t \in Seq(Id),
         PlacedFrom(table, S, s, 0), PlacedFrom(table, S, t, Len(s))
  PROVE  PlacedFrom(table, S, s \o t, 0)
<1> SUFFICES ASSUME NEW k \in 1..Len(s \o t) PROVE Placed(table, S, (s \o t)[k], 0 + k)
  BY DEF PlacedFrom
<1>1. Len(s) \in Nat /\ Len(t) \in Nat /\ Len(s \o t) = Len(s) + Len(t)
  OBVIOUS
<1>2. CASE k \in 1..Len(s)
  BY <1>2 DEF PlacedFrom
<1>3. CASE k \notin 1..Len(s)
  <2>1. k - Len(s) \in 1..Len(t) /\ (s \o t)[k] = t[k - Len(s)] /\ Len(s) + (k - Len(s)) = 0 + k
    BY <1>1, <1>3
  <2>2. Placed(table, S, t[k - Len(s)], Len(s) + (k - Len(s)))
    BY <2>1 DEF PlacedFrom
  <2> QED
    BY <2>1, <2>2
<1> QED
  BY <1>2, <1>3

\* What a full page and the last page come to.
LEMMA TurnAdds ==
  ASSUME NEW L \in 1..100, NEW p \in Nat \ {0}, NEW n \in Nat, Skip(p, L) <= n
  PROVE  /\ TotalPages(n, L) \in Int
         /\ p < TotalPages(n, L) => /\ Skip(p, L) + AtMost(L, n - Skip(p, L)) = Skip(p + 1, L)
                                    /\ Skip(p + 1, L) <= n
         /\ ~(p < TotalPages(n, L)) => Skip(p, L) + AtMost(L, n - Skip(p, L)) = n
<1>1. L \in Nat \ {0} /\ p * L \in Nat
  OBVIOUS
<1>2. Skip(p, L) = p * L - L /\ Skip(p + 1, L) = p * L
  BY DEF Skip
<1>3. (p < TotalPages(n, L) <=> p * L < n) /\ TotalPages(n, L) \in Int
  BY <1>1, MoreThan DEF TotalPages
<1>4. CASE p * L < n
  <2>1. AtMost(L, n - Skip(p, L)) = L
    BY <1>1, <1>2, <1>4 DEF AtMost
  <2> QED
    BY <1>1, <1>2, <1>3, <1>4, <2>1
<1>5. CASE ~(p * L < n)
  <2>1. AtMost(L, n - Skip(p, L)) = n - Skip(p, L)
    BY <1>1, <1>2, <1>5 DEF AtMost
  <2> QED
    BY <1>1, <1>2, <1>3, <1>5, <2>1
<1> QED
  BY <1>4, <1>5

LEMMA TurnKeepsWalk ==
  ASSUME IInv, WInv, Turn
  PROVE  WInv'
<1> DEFINE S == Matching(rows, asked.filter)
           n == Cardinality(S)
           L == asked.limit
           skip == Skip(page, L)
<1>1. stage = "walk" /\ UNCHANGED <<rows, asked, changes>> /\ DOMAIN answers' = {}
      /\ shown' = shown \o answers["page"]
  BY DEF Turn
<1>2. {"page", "total"} \subseteq DOMAIN answers /\ answers["page"] \in Seq(Id)
  BY DEF Turn, IInv
<1>3. L \in 1..100 /\ page \in Nat \ {0} /\ skip \in Nat /\ n \in Nat /\ shown \in Seq(Id)
  BY <1>1, WalkFacts
<1> SUFFICES ASSUME changes = << >>, asked.kind = "walk" PROVE WInv'
  BY <1>1 DEF WInv
<1>4. /\ PlacedFrom(rows, S, shown, 0)
      /\ Len(shown) = skip /\ Len(shown) <= n
      /\ answers["total"] = n
      /\ PlacedFrom(rows, S, answers["page"], skip)
      /\ Len(answers["page"]) = AtMost(L, n - skip)
  BY <1>1, <1>2 DEF WInv
<1>5. S' = S /\ n' = n /\ L' = L
  BY <1>1
<1>6. /\ page < TotalPages(n, L) => skip + AtMost(L, n - skip) = Skip(page + 1, L)
                                    /\ Skip(page + 1, L) <= n
      /\ ~(page < TotalPages(n, L)) => skip + AtMost(L, n - skip) = n
  BY <1>3, <1>4, TurnAdds
<1>7. \/ page' = page + 1 /\ stage' = "walk" /\ page < TotalPages(n, L)
      \/ stage' = "done" /\ page >= TotalPages(n, L)
  BY <1>1, <1>4 DEF Turn
<1>8. TotalPages(n, L) \in Int
  <2>1. skip <= n
    BY <1>4
  <2> HIDE DEF n
  <2> QED
    BY <1>3, <2>1, TurnAdds
<1> HIDE DEF S, n, L, skip
<1>9. PlacedFrom(rows, S, shown', 0)
  BY <1>1, <1>2, <1>3, <1>4, PlacedAppend
<1>10. Len(shown') = skip + AtMost(L, n - skip)
  <2>1. Len(shown') = Len(shown) + Len(answers["page"])
    BY <1>1, <1>2, <1>3
  <2> QED
    BY <1>4, <2>1
<1>11. CASE page' = page + 1 /\ stage' = "walk" /\ page < TotalPages(n, L)
  <2>1. Len(shown') = Skip(page', L') /\ Len(shown') <= n'
    BY <1>5, <1>6, <1>10, <1>11
  <2> QED
    BY <1>1, <1>5, <1>9, <1>11, <2>1 DEF WInv, S, n, L
<1>12. CASE stage' = "done" /\ page >= TotalPages(n, L)
  <2>1. ~(page < TotalPages(n, L))
    BY <1>3, <1>8, <1>12
  <2>2. Len(shown') = n'
    BY <1>5, <1>6, <1>10, <2>1
  <2> QED
    BY <1>1, <1>5, <1>9, <1>12, <2>2 DEF WInv, S, n
<1> QED
  BY <1>7, <1>11, <1>12

LEMMA WalkInduction == IInv /\ WInv /\ [Next]_vars => WInv'
<1> SUFFICES ASSUME IInv, WInv, [Next]_vars PROVE WInv'
  OBVIOUS
<1>1. ASSUME NEW role \in Role, NEW now \in Instants, NEW query \in Months,
             OpenDashboard(role, now, query)
      PROVE  WInv'
  BY <1>1 DEF OpenDashboard, WInv
<1>2. ASSUME NEW statement, ReadDashboard(statement)
      PROVE  WInv'
  BY <1>2 DEF ReadDashboard, WInv, IInv
<1>3. ASSUME NEW kind, NEW id, NEW table, Change(kind, id, table)
      PROVE  WInv'
  <2>1. changes \in Seq([kind: {"insert", "delete", "update"}, id: Id])
    BY DEF IInv, TypeOK
  <2>2. changes' # << >>
    BY <1>3, <2>1 DEF Change
  <2> QED
    BY <2>2 DEF WInv
<1>4. CASE UNCHANGED vars
  BY <1>4 DEF vars, WInv
<1> QED
  BY <1>1, <1>2, <1>3, <1>4, StartWalks, ReadPageKeepsWalk, ReadTotalKeepsWalk, TurnKeepsWalk
     DEF Next, Insert, Delete, Update, Finished
LEMMA InitWalk == Init => WInv /\ TwinsInv
<1> SUFFICES ASSUME Init PROVE WInv /\ TwinsInv
  OBVIOUS
<1>1. asked.kind # "walk"
  BY DEF Init, Nothing
<1>2. ~twins => DistinctDates(rows)
  BY Zenon DEF Init
<1> QED
  BY <1>1, <1>2 DEF WInv, TwinsInv

LEMMA WalkInvariant == Spec => [](IInv /\ WInv /\ TwinsInv)
<1>1. Init => IInv /\ WInv /\ TwinsInv
  BY InitInv, InitWalk
<1>2. IInv /\ WInv /\ TwinsInv /\ [Next]_vars => (IInv /\ WInv /\ TwinsInv)'
  BY StepKeepsInv, WalkInduction, TwinsInduction
<1> QED
  BY <1>1, <1>2, PTL DEF Spec

LEMMA BeforeIsAnOrder ==
  ASSUME NEW d \in Date, NEW e \in Date, NEW f \in Date
  PROVE  /\ Before(d, e) /\ ~Before(f, e) => Before(d, f)
         /\ ~Before(d, e) /\ ~Before(e, d) => d = e
<1>1. /\ d \in [month: Int, day: 1..31, time: Nat]
      /\ e \in [month: Int, day: 1..31, time: Nat]
      /\ f \in [month: Int, day: 1..31, time: Nat]
  BY DEF Date
<1>2. Before(d, e) /\ ~Before(f, e) => Before(d, f)
  BY <1>1 DEF Before
<1>3. ASSUME ~Before(d, e), ~Before(e, d) PROVE d = e
  <2>1. d.month = e.month /\ d.day = e.day /\ d.time = e.time
    BY <1>1, <1>3 DEF Before
  <2> QED
    BY <1>1, <2>1
<1> QED
  BY <1>2, <1>3

\* Rows in places before each other are in descending order of date.
LEMMA PlacesDescend ==
  ASSUME NEW table, NEW S, IsFiniteSet(S), \A id \in S : table[id].date \in Date,
         NEW x, NEW y, NEW i \in Nat, NEW j \in Nat, i < j,
         Placed(table, S, x, i), Placed(table, S, y, j)
  PROVE  ~Before(table[x].date, table[y].date)
<1> SUFFICES ASSUME Before(table[x].date, table[y].date) PROVE FALSE
  OBVIOUS
<1>1. x \in S /\ y \in S
  BY DEF Placed
<1>2. NotEarlier(table, S, y) \subseteq Later(table, S, x)
  BY <1>1, BeforeIsAnOrder DEF NotEarlier, Later
<1>3. Cardinality(NotEarlier(table, S, y)) <= Cardinality(Later(table, S, x))
  BY <1>2, RanksAreFinite, FS_Subset
<1> QED
  BY <1>3, RanksAreFinite DEF Placed

\* A row whose date no other has can stand at one place only.
LEMMA OnePlace ==
  ASSUME NEW table, NEW S, IsFiniteSet(S), S \subseteq DOMAIN table,
         \A id \in S : table[id].date \in Date, DistinctDates(table),
         NEW x, NEW i \in Nat, NEW j \in Nat,
         Placed(table, S, x, i), Placed(table, S, x, j)
  PROVE  i = j
<1>1. x \in S
  BY DEF Placed
<1>2. NotEarlier(table, S, x) \subseteq Later(table, S, x) \cup {x}
  BY <1>1, BeforeIsAnOrder DEF NotEarlier, Later, DistinctDates
<1>3. /\ IsFiniteSet(Later(table, S, x) \cup {x})
      /\ Cardinality(Later(table, S, x) \cup {x}) <= Cardinality(Later(table, S, x)) + 1
  <2>1. IsFiniteSet(Later(table, S, x)) /\ Cardinality(Later(table, S, x)) \in Nat
    BY RanksAreFinite
  <2>2. /\ IsFiniteSet(Later(table, S, x) \cup {x})
        /\ Cardinality(Later(table, S, x) \cup {x}) =
             IF x \in Later(table, S, x) THEN Cardinality(Later(table, S, x))
                                        ELSE Cardinality(Later(table, S, x)) + 1
    BY <2>1, FS_AddElement
  <2> QED
    BY <2>1, <2>2
<1>4. Cardinality(NotEarlier(table, S, x)) <= Cardinality(Later(table, S, x) \cup {x})
  BY <1>2, <1>3, FS_Subset
<1>5. Cardinality(Later(table, S, x) \cup {x}) \in Nat
  BY <1>3, FS_CardinalityType
<1> QED
  BY <1>3, <1>4, <1>5, RanksAreFinite DEF Placed

(***************************************************************************)
(* For any table, filter and limit: a walk through the pages of a table    *)
(* that nobody changes shows as many rows as match, in descending order of *)
(* date, and each matching row once if no two records share a date.        *)
(***************************************************************************)
THEOREM WalksAreComplete == Spec => []WalkComplete
<1>1. IInv /\ WInv /\ TwinsInv => WalkComplete
  <2> SUFFICES ASSUME IInv, WInv, TwinsInv, WalkOver, Undisturbed PROVE WalkComplete
    BY DEF WalkComplete
  <2> DEFINE S == Matching(rows, asked.filter)
  <2>1. IsTable(rows) /\ shown \in Seq(Id)
    BY DEF IInv, TypeOK
  <2>2. IsFiniteSet(S) /\ Cardinality(S) \in Nat
    BY <2>1, MatchingIsFinite
  <2>3. S \subseteq DOMAIN rows /\ \A id \in S : rows[id].date \in Date
    BY <2>1 DEF Matching, Live, IsTable, Row
  <2>4. Len(shown) = Cardinality(S) /\ PlacedFrom(rows, S, shown, 0)
    BY DEF WInv, WalkOver, Undisturbed
  <2> HIDE DEF S
  <2>5. \A k \in 1..Len(shown) : Placed(rows, S, shown[k], k)
    <3> SUFFICES ASSUME NEW k \in 1..Len(shown) PROVE Placed(rows, S, shown[k], k)
      OBVIOUS
    <3>1. 0 + k = k
      OBVIOUS
    <3> QED
      BY <2>4, <3>1 DEF PlacedFrom
  <2>6. ASSUME NEW i \in 1..Len(shown), NEW j \in 1..Len(shown), i < j
        PROVE  ~Before(rows[shown[i]].date, rows[shown[j]].date)
    <3>1. i \in Nat /\ j \in Nat /\ Placed(rows, S, shown[i], i) /\ Placed(rows, S, shown[j], j)
      BY <2>5, <2>6
    <3> QED
      BY <2>2, <2>3, <2>6, <3>1, PlacesDescend
  <2>7. ASSUME ~twins PROVE ToSet(shown) = S
    <3>1. DistinctDates(rows)
      BY <2>7 DEF TwinsInv
    <3>2. \A i, j \in 1..Len(shown) : shown[i] = shown[j] => i = j
      <4> SUFFICES ASSUME NEW i \in 1..Len(shown), NEW j \in 1..Len(shown), shown[i] = shown[j]
                   PROVE  i = j
        OBVIOUS
      <4> QED
        BY <2>2, <2>3, <2>5, <3>1, OnePlace
    <3>3. \A k \in 1..Len(shown) : shown[k] \in S
      BY <2>5 DEF Placed
    <3>4. shown \in Seq(S)
      BY <2>1, <3>3
    <3>5. Prefix(shown, Len(shown)) = S
      BY <2>2, <2>4, <3>2, <3>4, OrderIsOnto
    <3> QED
      BY <2>1, <3>5 DEF ToSet, Prefix
  <2> QED
    BY <2>1, <2>4, <2>6, <2>7 DEF WalkComplete, S
<1> QED
  BY <1>1, WalkInvariant, PTL
=============================================================================
