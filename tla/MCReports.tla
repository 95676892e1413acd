------------------------------ MODULE MCReports -----------------------------
(* Instances of Reports for TLC. *)
EXTENDS Reports

CONSTANTS a, b, c, d   \* records

Day(year, month, day) == [month |-> 12 * year + month - 1, day |-> day, time |-> 0]

In(category, amount, date) ==
  [date |-> date, type |-> "INCOME", category |-> category, amount |-> amount,
   isDeleted |-> FALSE]
Out(category, amount, date) == [In(category, amount, date) EXCEPT !.type = "EXPENSE"]
Deleted(row) == [row EXCEPT !.isDeleted = TRUE]

\* One January of two years, the days around the end of a February, one of the
\* future, and records of all types and categories, deleted ones included.
WinterTable ==
  a :> Out("rent", 2, Day(2023, 1, 31))
    @@ b :> In("pay", 5, Day(2023, 2, 28))
    @@ c :> Out("pay", 3, Day(2024, 1, 1))
SpringTable ==
  a :> In("pay", 5, Day(2023, 2, 28))
    @@ b :> Deleted(In("rent", 7, Day(2023, 3, 1)))
    @@ c :> Out("rent", 2, Day(2023, 3, 2))
    @@ d :> In("pay", 4, Day(2023, 12, 31))
\* Two records of one day.
TwinTable ==
  a :> In("pay", 5, Day(2023, 3, 1))
    @@ b :> In("pay", 4, Day(2023, 3, 1))
    @@ c :> Out("rent", 2, Day(2023, 2, 1))
MCTables == {WinterTable, SpringTable, TwinTable, << >>}

MCNewRows == {In("pay", 1, Day(2023, 3, 3)), Out("rent", 6, Day(2024, 2, 29))}

All == [type |-> NoFilter, category |-> NoFilter, start |-> NoFilter, end |-> NoFilter]
MCFilters ==
  {All, [All EXCEPT !.type = "INCOME"],
   [All EXCEPT !.category = "rent", !.end = Day(2023, 12, 31)],
   [All EXCEPT !.start = Day(2023, 2, 28)]}

\* The last days of months before shorter ones, in common and in leap years, a
\* day in the middle of a month and the turn of a year.
MCInstants ==
  {Day(2023, 3, 29), Day(2023, 3, 30), Day(2023, 3, 31), Day(2024, 3, 31),
   Day(2024, 2, 15), Day(2023, 12, 31), [Day(2024, 1, 1) EXCEPT !.time = 12]}

\* Absent, out of bounds on either side, and short and long windows.
MCMonths == {0, -3, 1, 13, 99}
=============================================================================
