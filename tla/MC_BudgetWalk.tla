---------------------------- MODULE MC_BudgetWalk ----------------------------
(* December 2026 to April 2028: every pair of adjacent month lengths.     *)
EXTENDS BudgetWalk, Sequences

Year == <<31, 28, 31, 30, 31, 30, 31, 31, 30, 31, 30, 31>>
Lengths == <<31>> \o Year \o <<31, 29, 31, 30>>
CalendarLength == Len(Lengths)
CalendarFirstDay ==
  LET first[m \in 0..CalendarLength] == IF m = 0 THEN 1 ELSE first[m - 1] + Lengths[m]
  IN [m \in 0..CalendarLength |-> first[m]]
=============================================================================
