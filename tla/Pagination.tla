----------------------------- MODULE Pagination -----------------------------
(***************************************************************************)
(* utils/pagination.ts, which records.list and users.list share, and the   *)
(* query parameter of the trends.  The module has no state.                *)
(*                                                                         *)
(* A query parameter is what parseInt makes of it, with 0 for one that is  *)
(* absent or no number: the code replaces both by the default (||).        *)
(***************************************************************************)
EXTENDS Integers, Sequences

OrElse(query, default) == IF query = 0 THEN default ELSE query

AtLeast(low, x) == IF x < low THEN low ELSE x
AtMost(high, x) == IF x > high THEN high ELSE x

PageOf(query)  == AtLeast(1, OrElse(query, 1))
LimitOf(query) == AtMost(100, AtLeast(1, OrElse(query, 20)))

Skip(page, limit) == (page - 1) * limit

\* Mutant of TotalPages: rounded down.
TotalPagesFloor(total, limit) == total \div limit

\* Math.ceil(total / limit)
TotalPages(total, limit) == (total + limit - 1) \div limit

\* findMany's skip and take on the rows in their order.
PageOfRows(ordered, page, limit) ==
  SubSeq(ordered, Skip(page, limit) + 1, AtMost(Len(ordered), Skip(page, limit) + limit))
=============================================================================
