------------------------------ MODULE Calendar ------------------------------
(***************************************************************************)
(* The calendar that getTrends of dashboard.service.ts computes with: the  *)
(* methods getMonth, setMonth and getFullYear of a JavaScript Date, and    *)
(* the order of instants.  The module has no state.                        *)
(*                                                                         *)
(* A month is counted from January of the year 0, which is what setMonth   *)
(* makes of a year and a month outside 0..11.  The clock of the server     *)
(* runs on UTC: time zones and the hours a summer time skips are left out. *)
(***************************************************************************)
EXTENDS Integers

Year(month) == month \div 12

Leap(year) == year % 4 = 0 /\ (year % 100 # 0 \/ year % 400 = 0)

February == 1
ShortMonths == {3, 5, 8, 10}

DaysIn(month) ==
  IF month % 12 = February
  THEN IF Leap(Year(month)) THEN 29 ELSE 28
  ELSE IF month % 12 \in ShortMonths THEN 30 ELSE 31

\* An instant; time is what has passed of the day.
Date == {d \in [month: Int, day: 1..31, time: Nat] : d.day <= DaysIn(d.month)}

Before(d, e) ==
  \/ d.month < e.month
  \/ d.month = e.month /\ d.day < e.day
  \/ d.month = e.month /\ d.day = e.day /\ d.time < e.time

\* Mutant of SetMonth: the day of the month is kept, whether it exists or not.
SetMonthOnly(d, month) == [d EXCEPT !.month = month]

\* Mutant of SetMonth: months counted from 1.
SetMonthFromOne(d, month) == [d EXCEPT !.month = month + 1]

\* setMonth keeps the day; days that the month lacks run into the next one.
SetMonth(d, month) ==
  IF d.day <= DaysIn(month)
  THEN [d EXCEPT !.month = month]
  ELSE [d EXCEPT !.month = month + 1, !.day = d.day - DaysIn(month)]

\* Mutant of MonthKey: the year is forgotten.
MonthKeyNoYear(d) == <<0, (d.month % 12) + 1>>

\* The key YYYY-MM of the trends.
MonthKey(d) == <<Year(d.month), (d.month % 12) + 1>>
=============================================================================
