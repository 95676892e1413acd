------------------------------- MODULE Reports ------------------------------
(***************************************************************************)
(* What a reader of the financial records sees while administrators change *)
(* them.  One client either opens the dashboard (summary, by-category and  *)
(* trends, one request each) or walks through the pages of the list, from  *)
(* page 1 to the last one that the answers announce.                       *)
(*                                                                         *)
(* Every aggregate is one statement; a page of the list is two, sent       *)
(* together and run in any order.  Mutations take effect between any two   *)
(* statements; how they get there is the matter of Records.                *)
(***************************************************************************)
EXTENDS Dashboard

CONSTANTS Id,           \* ids of records
          Category,
          Tables,       \* the tables a client may find when it begins
          NewRows,      \* what mutations write, a subset of Row
          Filters,      \* where clauses of a list, a subset of Filter
          Limits,       \* query parameters limit and months, as parseInt reads them
          Months,
          Instants,     \* when a client may open the dashboard
          MaxChanges,   \* bound on the mutations while it reads
          NoFilter      \* no filter of this kind

Row == [date: Date, type: RecordType, category: Category, amount: Nat \ {0},
        isDeleted: BOOLEAN]

IsTable(t) == DOMAIN t \subseteq Id /\ t \in [DOMAIN t -> Row]

Filter == [type: RecordType \cup {NoFilter}, category: Category \cup {NoFilter},
           start: Date \cup {NoFilter}, end: Date \cup {NoFilter}]

ASSUME ParametersAssumption ==
  /\ IsFiniteSet(Id)
  /\ (\A t \in Tables : IsTable(t)) /\ NewRows \subseteq Row /\ Filters \subseteq Filter
  /\ Limits \subseteq Int /\ Months \subseteq Int /\ Instants \subseteq Date
  /\ MaxChanges \in Nat
  /\ NoFilter \notin Category /\ NoFilter \notin Date /\ NoFilter \notin RecordType

VARIABLES rows,     \* the financial_records table
          stage,    \* of the client: "idle", "board", "walk" or "done"
          asked,    \* what it asked: the window of the trends, or the list
          page,     \* the page it is on
          pending,  \* the statements still to be answered
          answers,  \* what the others have returned
          shown,    \* the ids it has been shown, page after page
          changes,  \* history: the mutations since it began
          twins     \* history: whether two records have had one date

vars == <<rows, stage, asked, page, pending, answers, shown, changes, twins>>

DistinctDates(table) ==
  \A i, j \in DOMAIN table : table[i].date = table[j].date => i = j

\* What a client has asked before it has asked anything.
Nothing == [kind |-> "nothing"]

Init ==
  /\ rows \in Tables
  /\ stage = "idle"
  /\ asked = Nothing
  /\ page = 1
  /\ pending = {}
  /\ answers = << >>
  /\ shown = << >>
  /\ changes = << >>
  /\ twins = ~DistinctDates(rows)

----------------------------------------------------------------------------
(* The dashboard *)

\* The three requests pass their guards; getTrends reads the clock.
OpenDashboard(role, now, query) ==
  /\ stage = "idle"
  /\ stage' = "board"
  /\ asked' = [kind |-> "board", now |-> now, months |-> MonthsOf(query),
               since |-> Since(now, MonthsOf(query))]
  /\ pending' = Allowed(role)
  /\ UNCHANGED <<rows, page, answers, shown, changes, twins>>

Answered(statement, result) ==
  /\ pending' = pending \ {statement}
  /\ answers' = [q \in DOMAIN answers \cup {statement} |->
                   IF q = statement THEN result ELSE answers[q]]

ReadDashboard(statement) ==
  /\ stage = "board" /\ statement \in pending
  /\ \/ statement = "summary" /\ Answered(statement, getSummary(rows))
     \/ statement = "byCategory" /\ Answered(statement, getByCategory(rows))
     \/ /\ statement = "trends"
        /\ \E ids \in InOrder(rows, Window(rows, asked.since)) :
             Answered(statement, getTrends(rows, ids))
  /\ stage' = IF pending = {statement} THEN "done" ELSE stage
  /\ UNCHANGED <<rows, asked, page, shown, changes, twins>>

----------------------------------------------------------------------------
(* The list *)

StartWalk(filter, query) ==
  /\ stage = "idle"
  /\ stage' = "walk"
  /\ asked' = [kind |-> "walk", filter |-> filter, limit |-> LimitOf(query)]
  /\ page' = PageOf(1)
  /\ pending' = {"page", "total"}
  /\ UNCHANGED <<rows, answers, shown, changes, twins>>

\* The rows that satisfy the where clause of the list.
Matching(table, filter) ==
  {id \in Live(table) :
     LET row == table[id] IN
     /\ filter.type \in {NoFilter, row.type}
     /\ filter.category \in {NoFilter, row.category}
     /\ filter.start # NoFilter => ~Before(row.date, filter.start)
     /\ filter.end # NoFilter => ~Before(filter.end, row.date)}

\* Mutant of Orders: the statement forgets its orderBy.
OrdersAny(table, ids) == SetToSeqs(ids)

\* orderBy: { date: 'desc' }.  Rows of one date come in any order, and not
\* necessarily in the same one the next time.
Orders(table, ids) ==
  {s \in SetToSeqs(ids) :
     \A i, j \in DOMAIN s : i < j => ~Before(table[s[i]].date, table[s[j]].date)}

ReadPage ==
  /\ stage = "walk" /\ "page" \in pending
  /\ \E s \in Orders(rows, Matching(rows, asked.filter)) :
       Answered("page", PageOfRows(s, page, asked.limit))
  /\ UNCHANGED <<rows, stage, asked, page, shown, changes, twins>>

ReadTotal ==
  /\ stage = "walk" /\ "total" \in pending
  /\ Answered("total", Cardinality(Matching(rows, asked.filter)))
  /\ UNCHANGED <<rows, stage, asked, page, shown, changes, twins>>

\* The answer arrives; the client asks for the next page, if there is one.
Turn ==
  /\ stage = "walk" /\ pending = {}
  /\ shown' = shown \o answers["page"]
  /\ answers' = << >>
  /\ \/ /\ page < TotalPages(answers["total"], asked.limit)
        /\ page' = page + 1
        /\ pending' = {"page", "total"}
        /\ UNCHANGED stage
     \/ /\ page >= TotalPages(answers["total"], asked.limit)
        /\ stage' = "done"
        /\ UNCHANGED <<page, pending>>
  /\ UNCHANGED <<rows, asked, changes, twins>>

----------------------------------------------------------------------------
(* Mutations *)

Change(kind, id, table) ==
  /\ stage \in {"board", "walk"}
  /\ Len(changes) < MaxChanges
  /\ rows' = table
  /\ changes' = Append(changes, [kind |-> kind, id |-> id])
  /\ twins' = (twins \/ ~DistinctDates(table))
  /\ UNCHANGED <<stage, asked, page, pending, answers, shown>>

Insert(id, row) ==
  /\ id \notin DOMAIN rows
  /\ Change("insert", id, [i \in DOMAIN rows \cup {id} |->
                             IF i = id THEN [row EXCEPT !.isDeleted = FALSE] ELSE rows[i]])

Delete(id) ==
  /\ id \in Live(rows)
  /\ Change("delete", id, [rows EXCEPT ![id].isDeleted = TRUE])

Update(id, row) ==
  /\ id \in Live(rows)
  /\ Change("update", id, [rows EXCEPT ![id] = [row EXCEPT !.isDeleted = FALSE]])

Finished == stage = "done" /\ UNCHANGED vars

Next ==
  \/ \E role \in Role, now \in Instants, query \in Months : OpenDashboard(role, now, query)
  \/ \E filter \in Filters, query \in Limits : StartWalk(filter, query)
  \/ \E statement \in {"summary", "byCategory", "trends"} : ReadDashboard(statement)
  \/ ReadPage
  \/ ReadTotal
  \/ Turn
  \/ \E id \in Id : Delete(id) \/ \E row \in NewRows : Insert(id, row) \/ Update(id, row)
  \/ Finished

Spec == Init /\ [][Next]_vars

----------------------------------------------------------------------------

Undisturbed == changes = << >>

\* The day a calendar shows n months before: the day of the month of now, or the
\* last one of a month that is shorter.
MonthsBack(now, n) ==
  [now EXCEPT !.month = now.month - n, !.day = AtMost(DaysIn(now.month - n), now.day)]

TypeOK ==
  /\ IsTable(rows)
  /\ stage \in {"idle", "board", "walk", "done"}
  /\ \/ asked = Nothing
     \/ asked \in [kind: {"board"}, now: Date, months: 1..24, since: Date]
     \/ asked \in [kind: {"walk"}, filter: Filter, limit: 1..100]
  /\ page \in Nat \ {0}
  /\ pending \subseteq {"summary", "byCategory", "trends", "page", "total"}
  /\ DOMAIN answers \cap pending = {}
  /\ shown \in Seq(Id)
  /\ changes \in Seq([kind: {"insert", "delete", "update"}, id: Id])
  /\ Len(changes) <= MaxChanges
  /\ twins \in BOOLEAN

(***************************************************************************)
(* The inductive invariant: types, among them that the window of the       *)
(* trends begins on a real date and the limit is within its bounds, what   *)
(* the client has asked at each stage, and what its answers are.           *)
(***************************************************************************)
IInv ==
  /\ TypeOK
  /\ stage = "idle" => asked = Nothing /\ page = 1 /\ shown = << >> /\ DOMAIN answers = {}
  /\ stage = "board" => asked.kind = "board"
  /\ stage = "walk" => /\ asked.kind = "walk"
                       /\ pending = {"page", "total"} \ DOMAIN answers
  /\ asked.kind = "board" => asked.since = Since(asked.now, asked.months)
  /\ "page" \in DOMAIN answers => answers["page"] \in Seq(Id)
  /\ "total" \in DOMAIN answers => answers["total"] \in Nat

(***************************************************************************)
(* dashboard.service.ts:56.  setMonth runs over when the month it goes     *)
(* back to is too short.  Still, whatever the day and the number of        *)
(* months: what getTrends asks for lies within the months asked, and of    *)
(* those it loses at most the last day of one month and the first three of *)
(* the next, and only late in a month.                                     *)
(***************************************************************************)
TrendsWindow ==
  asked.kind = "board" =>
    \A id \in Live(rows) :
      LET from    == MonthsBack(asked.now, asked.months)
          date    == rows[id].date
          counted == id \in Window(rows, asked.since)
      IN /\ counted => ~Before(date, from)
         /\ ~counted /\ ~Before(date, from) =>
              /\ asked.now.day > 28
              /\ \/ date.month = from.month /\ date.day = DaysIn(from.month)
                 \/ date.month = from.month + 1 /\ date.day <= 3

\* The groups of one type.
OfType(groups, type) == {g \in DOMAIN groups : g[2] = type}

(***************************************************************************)
(* The three aggregates of the dashboard are computed along three ways     *)
(* (two groupBy, one loop), and a client puts them side by side: on a      *)
(* table that nobody changed in between they agree.  The categories add up *)
(* to the totals of the summary, and so do the months as soon as the       *)
(* window reaches back to the first record.                                *)
(***************************************************************************)
EndpointsAgree ==
  stage = "done" /\ Undisturbed /\ "trends" \in DOMAIN answers =>
    LET summary == answers["summary"]
        trends  == answers["trends"]
        groups  == answers["byCategory"]
        whole   == \A id \in Live(rows) : ~Before(rows[id].date, asked.since)
        Agree(total, type, monthly) ==
          /\ SumFunctionOnSet(groups, OfType(groups, type)) = total
          /\ SumFunction(monthly) <= total
          /\ whole => SumFunction(monthly) = total
    IN /\ Agree(summary.totalIncome, "INCOME", [i \in DOMAIN trends |-> trends[i].income])
       /\ Agree(summary.totalExpenses, "EXPENSE", [i \in DOMAIN trends |-> trends[i].expense])

\* Whether entry stands for the month of date.
MonthIs(entry, date) == date.month = 12 * entry.month[1] + entry.month[2] - 1

\* The rows counted in the month that entry stands for.
RowsOf(entry, type) ==
  {id \in Window(rows, asked.since) : rows[id].type = type /\ MonthIs(entry, rows[id].date)}

(***************************************************************************)
(* The trends show every month that has a record in the window and no      *)
(* other, each once, in ascending order across years, with the income and  *)
(* the expenses of exactly its records in the window.                      *)
(***************************************************************************)
TrendsByMonth ==
  Undisturbed /\ "trends" \in DOMAIN answers =>
    LET trends   == answers["trends"]
        Index(i) == 12 * trends[i].month[1] + trends[i].month[2]
    IN /\ \A id \in Window(rows, asked.since) :
            \E i \in DOMAIN trends : MonthIs(trends[i], rows[id].date)
       /\ \A i, j \in DOMAIN trends : i < j => Index(i) < Index(j)
       /\ \A i \in DOMAIN trends :
            /\ \E id \in Window(rows, asked.since) : MonthIs(trends[i], rows[id].date)
            /\ trends[i].income = SumOf(rows, RowsOf(trends[i], "INCOME"))
            /\ trends[i].expense = SumOf(rows, RowsOf(trends[i], "EXPENSE"))

WalkOver == stage = "done" /\ asked.kind = "walk"

(***************************************************************************)
(* A walk through all pages of a table that nobody changes shows as many   *)
(* rows as match, in descending order of date across the pages; if no two  *)
(* records have one date, it shows each matching row exactly once.         *)
(***************************************************************************)
WalkComplete ==
  WalkOver /\ Undisturbed =>
    LET expected == Matching(rows, asked.filter) IN
    /\ Len(shown) = Cardinality(expected)
    /\ \A i, j \in DOMAIN shown :
         i < j => ~Before(rows[shown[i]].date, rows[shown[j]].date)
    /\ ~twins => ToSet(shown) = expected

\* Matching rows that no mutation has touched and the client has not been shown.
Missed ==
  {id \in Matching(rows, asked.filter) :
     id \notin ToSet(shown) /\ \A i \in DOMAIN changes : changes[i].id # id}

Repeated == Len(shown) - Cardinality(ToSet(shown))

\* The creations and updates among the mutations.
Writes == {i \in DOMAIN changes : changes[i].kind # "delete"}

(***************************************************************************)
(* records.service.ts:30.  Pages are cut by offset, anew in each request,  *)
(* so mutations between two pages move the rows.  A client that walks on   *)
(* is off by no more than they were: it misses at most one other row for   *)
(* each mutation, is shown at most one twice for each creation and update, *)
(* and none because of deletions.                                          *)
(***************************************************************************)
WalkDrift ==
  WalkOver /\ ~twins =>
    /\ Cardinality(Missed) <= Len(changes)
    /\ Repeated <= Cardinality(Writes)

----------------------------------------------------------------------------
(* What the documents say and the code does not do *)

(***************************************************************************)
(* docs/dashboard.md:58: "Returns aggregated monthly income and expense    *)
(* data for the last `N` months."  A record of the last N months has its   *)
(* share in the entry of its month.                                        *)
(***************************************************************************)
TrendsCoverMonths ==
  Undisturbed /\ "trends" \in DOMAIN answers =>
    \A id \in Live(rows) :
      LET row      == rows[id]
          from     == MonthsBack(asked.now, asked.months)
          month    == <<Year(row.date.month), (row.date.month % 12) + 1>>
          inMonths == ~Before(row.date, from) /\ ~Before(asked.now, row.date)
      IN inMonths =>
           \E i \in DOMAIN answers["trends"] :
             LET entry == answers["trends"][i] IN
             /\ entry.month = month
             /\ row.amount <= IF row.type = "INCOME" THEN entry.income ELSE entry.expense

(***************************************************************************)
(* docs/records.md:22: "Returns a list of all active (non-deleted)         *)
(* financial records in the system."  A walk through all pages of a table  *)
(* that nobody changes shows every matching record.                        *)
(***************************************************************************)
WalkShowsAll ==
  WalkOver /\ Undisturbed => ToSet(shown) = Matching(rows, asked.filter)
=============================================================================
