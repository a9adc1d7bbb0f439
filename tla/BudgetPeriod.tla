---------------------------- MODULE BudgetPeriod ----------------------------
(***************************************************************************)
(* The budget periods of caracas-date.ts and active-budget-context.util.ts *)
(* as operators on day numbers: which period a day belongs to, how         *)
(* movements of that period are anchored (referenceMonth), and which       *)
(* anchors the board lists.                                                *)
(*                                                                         *)
(* A day is its number in the calendar of Caracas; a YYYY-MM-DD string is  *)
(* nothing more here.  Its month is the one whose days include it, so the  *)
(* roll over into the next month or year of Date.UTC is plain addition.    *)
(***************************************************************************)
EXTENDS Integers

CONSTANTS
  NumMonths,   \* months of the calendar
  FirstDay     \* [0..NumMonths -> Int], the day each month begins on

ASSUME CalendarAssumption ==
  /\ NumMonths \in Nat
  /\ FirstDay \in [0..NumMonths -> Int]
  /\ \A m, n \in 0..NumMonths : m < n => FirstDay[m] < FirstDay[n]

Months == 0..(NumMonths - 1)
DaysOf(m) == FirstDay[m]..(FirstDay[m + 1] - 1)
MonthLength(m) == FirstDay[m + 1] - FirstDay[m]
MonthOf(t) == CHOOSE m \in Months : t \in DaysOf(m)

\* bound: the days whose previous and next months are in the calendar.
InnerMonths == {m \in Months : m - 1 \in Months /\ m + 1 \in Months}
Days == UNION {DaysOf(m) : m \in InnerMonths}

CutoffDays == Nat \ {0}

\* Mutant: Date.UTC rolls a day that does not exist into the next month.
OverflowingCutoffDate(m, d) == FirstDay[m] + d - 1

\* getEffectiveCutoffDate: the cutoff day, or the last day of a shorter month.
EffectiveCutoffDate(m, d) ==
  IF d <= MonthLength(m) THEN FirstDay[m] + d - 1 ELSE FirstDay[m + 1] - 1

PeriodBetween(cutoffBefore, cutoff) ==
  [periodStart |-> cutoffBefore + 1, cutoffDate |-> cutoff, nextPeriodStart |-> cutoff + 1]

\* Mutant: the cutoff day itself opens the next period.
PeriodFromCutoffDay(t, d) ==
  LET m == MonthOf(t) IN
  IF t >= EffectiveCutoffDate(m, d)
  THEN PeriodBetween(EffectiveCutoffDate(m, d), EffectiveCutoffDate(m + 1, d))
  ELSE PeriodBetween(EffectiveCutoffDate(m - 1, d), EffectiveCutoffDate(m, d))

\* getBudgetPeriodForCutoffDay: the cutoff day closes a period, the day after opens the next.
PeriodForCutoffDay(t, d) ==
  LET m == MonthOf(t) IN
  IF t > EffectiveCutoffDate(m, d)
  THEN PeriodBetween(EffectiveCutoffDate(m, d), EffectiveCutoffDate(m + 1, d))
  ELSE PeriodBetween(EffectiveCutoffDate(m - 1, d), EffectiveCutoffDate(m, d))

\* isCutoffDay.
IsCutoffDay(t, d) == t = EffectiveCutoffDate(MonthOf(t), d)

-----------------------------------------------------------------------------
(* A cycle is the pair budgetCycleMode, budgetCutoffDay of a preference.   *)

CalendarMonth == [mode |-> "calendar_month", cutoffDay |-> 1]
MonthlyCutoff(d) == [mode |-> "monthly_cutoff", cutoffDay |-> d]
Cycles == {CalendarMonth} \cup {MonthlyCutoff(d) : d \in CutoffDays}

IsCalendar(cycle) == cycle.mode = "calendar_month"

\* budgetPeriodForMode: calendar mode too gets a period, the one of cutoff day 1.
ActivePeriod(cycle, t) == PeriodForCutoffDay(t, IF IsCalendar(cycle) THEN 1 ELSE cycle.cutoffDay)

\* activeReferenceMonth: the anchor of a movement registered on day t, and the
\* incomeReferenceMonth of a preference renewed on day t.
ActiveReference(cycle, t) ==
  IF IsCalendar(cycle) THEN FirstDay[MonthOf(t)] ELSE ActivePeriod(cycle, t).periodStart

\* Mutants: the previous cutoff date opens the list and the current one is left out; calendar
\* mode lists the period of cutoff day 1.
BoardFromCutoffDay(cycle, t) ==
  IF IsCalendar(cycle) THEN DaysOf(MonthOf(t))
  ELSE (ActivePeriod(cycle, t).periodStart - 1)..(ActivePeriod(cycle, t).cutoffDate - 1)
BoardOfPeriod(cycle, t) == ActivePeriod(cycle, t).periodStart..ActivePeriod(cycle, t).cutoffDate

\* buildExpenseReferenceMonthFilter: the anchors listed on day t.
Board(cycle, t) ==
  IF IsCalendar(cycle) THEN DaysOf(MonthOf(t))
  ELSE ActivePeriod(cycle, t).periodStart..ActivePeriod(cycle, t).cutoffDate

\* buildMonthRenewalContext: the day before the active period, whose date is looked up
\* as the anchor of the period that closes.
ClosingDate(cycle, t) == ActivePeriod(cycle, t).periodStart - 1

-----------------------------------------------------------------------------
(* Properties of a day t and of the day after it.                          *)

\* The period of a day is the one between two consecutive cutoff days, the closing one
\* included, and it is made of whole days with no gap to the next: the definition
\* by months agrees with a walk over the days (caracas-date.ts:84-87).
PeriodIsBetweenCutoffs(t, d) ==
  LET p == PeriodForCutoffDay(t, d) IN
  /\ t \in p.periodStart..p.cutoffDate
  /\ IsCutoffDay(p.periodStart - 1, d)
  /\ IsCutoffDay(p.cutoffDate, d)
  /\ \A u \in p.periodStart..(p.cutoffDate - 1) : ~IsCutoffDay(u, d)

\* The next day is in the same period, or opens the next one after a cutoff day:
\* no day is skipped or counted twice when the period turns.
PeriodsFollow(t, d) ==
  LET p == PeriodForCutoffDay(t, d)
      q == PeriodForCutoffDay(t + 1, d) IN
  IF IsCutoffDay(t, d) THEN q.periodStart = p.nextPeriodStart ELSE q = p

\* What is registered on a day is listed that day, and as long as its reference month is
\* the active one (active-budget-context.util.ts:32): filter and anchor agree.
AnchorIsListed(cycle, t) ==
  /\ ActiveReference(cycle, t) \in Board(cycle, t)
  /\ ActiveReference(cycle, t + 1) # ActiveReference(cycle, t)
     => ActiveReference(cycle, t) \notin Board(cycle, t + 1)
=============================================================================
