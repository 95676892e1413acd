------------------------------ MODULE Dashboard -----------------------------
(***************************************************************************)
(* The aggregates of dashboard.service.ts, as operators on a table of      *)
(* financial records (a function from ids to rows).  Each is one statement *)
(* of the database and what the service makes of its result.  Amounts are  *)
(* whole numbers: the rounding of the column's Float is left out, and so   *)
(* is the order of the groups of getByCategory.                            *)
(***************************************************************************)
EXTENDS Calendar, Pagination, Roles, SequencesExt

RecordType == {"INCOME", "EXPENSE"}

\* where: { isDeleted: false }
Live(table) == {id \in DOMAIN table : ~table[id].isDeleted}

SumOf(table, ids) == SumFunctionOnSet([id \in DOMAIN table |-> table[id].amount], ids)

\* groupBy with _sum: one group for each key that occurs.
Grouped(table, Key(_)) ==
  [k \in {Key(table[id]) : id \in Live(table)} |->
     SumOf(table, {id \in Live(table) : Key(table[id]) = k})]

\* Mutant of getSummary: everything that was ever recorded is summed.
SummaryOfAll(table) ==
  LET total == [t \in RecordType |->
                  SumOf(table, {id \in DOMAIN table : table[id].type = t})]
  IN  [totalIncome   |-> total["INCOME"],
       totalExpenses |-> total["EXPENSE"],
       netBalance    |-> total["INCOME"] - total["EXPENSE"]]

getSummary(table) ==
  LET grouped  == Grouped(table, LAMBDA row : row.type)
      total(t) == IF t \in DOMAIN grouped THEN grouped[t] ELSE 0
  IN  [totalIncome   |-> total("INCOME"),
       totalExpenses |-> total("EXPENSE"),
       netBalance    |-> total("INCOME") - total("EXPENSE")]

getByCategory(table) == Grouped(table, LAMBDA row : <<row.category, row.type>>)

----------------------------------------------------------------------------
(* getTrends *)

\* The parameter months of the request.
MonthsOf(query) == AtMost(24, AtLeast(1, OrElse(query, 6)))

Since(now, months) == SetMonth(now, now.month - months)

Window(table, since) == {id \in Live(table) : ~Before(table[id].date, since)}

\* orderBy: { date: 'asc' }.  Rows of one date come in any order.
InOrder(table, ids) ==
  {s \in SetToSeqs(ids) :
     \A i, j \in DOMAIN s : i < j => ~Before(table[s[j]].date, table[s[i]].date)}

NewEntry(key) == [month |-> key, income |-> 0, expense |-> 0]

WithRow(entry, row) ==
  IF row.type = "INCOME" THEN [entry EXCEPT !.income = @ + row.amount]
                         ELSE [entry EXCEPT !.expense = @ + row.amount]

\* One turn of the loop over the rows; the entries keep the order of insertion.
CountRow(entries, row) ==
  LET key   == MonthKey(row.date)
      added == IF \E i \in DOMAIN entries : entries[i].month = key
               THEN entries
               ELSE Append(entries, NewEntry(key))
  IN  [i \in DOMAIN added |->
         IF added[i].month = key THEN WithRow(added[i], row) ELSE added[i]]

\* The loop, over the ids of the rows in the order in which they were read.
getTrends(table, ids) ==
  FoldLeft(LAMBDA entries, id : CountRow(entries, table[id]), <<>>, ids)

----------------------------------------------------------------------------

\* The guards of dashboard.router.ts: what a role may ask of these three.
Allowed(role) ==
  {q \in {"summary", "byCategory", "trends"} :
     role \in IF q = "summary" THEN anyRole ELSE analystOrAdmin}
=============================================================================
