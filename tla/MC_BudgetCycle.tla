--------------------------- MODULE MC_BudgetCycle ---------------------------
(* Five months of three or four days.                                      *)
EXTENDS BudgetCycle, TLC

CONSTANTS ana, ben

ShortMonths == 5
ShortFirstDay == 0 :> 1 @@ 1 :> 4 @@ 2 :> 8 @@ 3 :> 11 @@ 4 :> 15 @@ 5 :> 18
DaysOfCalendar == 1..17
Calendar == {CalendarMonth}
CalendarOrCutoff == {CalendarMonth, MonthlyCutoff(2)}

\* The anchors of the run are days, whole periods of them listed; TLC keeps the functions it compares.
ASSUME AnchorsAreDays ==
  /\ \A c \in CyclesInUse : Reference[c] \in [StartDay..LastDay -> DaysOfCalendar]
  /\ \A c \in CyclesInUse : Listing[c] \in [StartDay..LastDay -> SUBSET DaysOfCalendar]

\* Ana alone; Ben sees the profile of Ana too.
Alone == ana :> {ana}
Shared == ana :> {ana} @@ ben :> {ana, ben}

Symmetry == Permutations(Expenses) \cup Permutations(Incomes) \cup Permutations(Requests)
=============================================================================
