----------------------------- MODULE BudgetWalk -----------------------------
(***************************************************************************)
(* A walk over the calendar, a day at a time, under one setting of the     *)
(* budget cycle: what BudgetPeriod says by months is compared with what    *)
(* happens from each day to the next.                                      *)
(***************************************************************************)
EXTENDS BudgetPeriod

VARIABLES
  date,
  cutoffDay    \* budgetCutoffDay, 1 to 31, or 0 in calendar mode

walk == <<date, cutoffDay>>

WalkCycle == IF cutoffDay = 0 THEN CalendarMonth ELSE MonthlyCutoff(cutoffDay)

WalkInit == date = FirstDay[1] /\ date \in Days /\ cutoffDay \in 0..31
WalkNext == date + 1 \in Days /\ date' = date + 1 /\ UNCHANGED cutoffDay
WalkSpec == WalkInit /\ [][WalkNext]_walk

-----------------------------------------------------------------------------
(* Properties.                                                             *)

\* The inductive invariant.
WalkInv == date \in Days /\ cutoffDay \in 0..31

\* caracas-date.ts:84-87: the cutoff day closes the period, the day after opens the next.
PeriodsAreBetweenCutoffs == cutoffDay > 0 => PeriodIsBetweenCutoffs(date, cutoffDay)

\* Periods follow one another without gap or overlap.
PeriodsTile == cutoffDay > 0 => PeriodsFollow(date, cutoffDay)

\* active-budget-context.util.ts:32: one source of truth to list and to create.
RegisteredIsListed == AnchorIsListed(WalkCycle, date)
=============================================================================
