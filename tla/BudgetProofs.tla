---------------------------- MODULE BudgetProofs ----------------------------
(***************************************************************************)
(* Proofs about the budget: its periods on any calendar (months of any     *)
(* positive lengths, any cutoff day), then the inductive invariant of      *)
(* BudgetCycle, for any users, movements, handlers in flight and cycles.   *)
(***************************************************************************)
EXTENDS BudgetCycle, BudgetWalk, FiniteSetTheorems, WellFoundedInduction, TLAPS

-----------------------------------------------------------------------------
(* Months, cutoff days and periods.                                        *)

\* Months and their bounds.
LEMMA MonthBounds ==
  ASSUME NEW m \in Months
  PROVE  /\ m \in Int /\ m + 1 \in Int
         /\ FirstDay[m] \in Int /\ FirstDay[m + 1] \in Int
         /\ FirstDay[m] < FirstDay[m + 1]
  BY CalendarAssumption DEF Months

\* A day is in one month only.
LEMMA MonthOfDay ==
  ASSUME NEW m \in Months, NEW t \in DaysOf(m)
  PROVE  t \in Int /\ MonthOf(t) = m
<1>1. t \in Int /\ FirstDay[m] <= t /\ t < FirstDay[m + 1]
  BY MonthBounds DEF DaysOf
<1>2. ASSUME NEW n \in Months, t \in DaysOf(n) PROVE n = m
  <2>1. FirstDay[n] <= t /\ t < FirstDay[n + 1]
    BY <1>2, MonthBounds DEF DaysOf
  <2>2. m \in 0..NumMonths /\ n \in 0..NumMonths /\ m + 1 \in 0..NumMonths /\ n + 1 \in 0..NumMonths
    BY CalendarAssumption DEF Months
  <2>3. \A a, b \in 0..NumMonths : FirstDay[a] \in Int /\ (a < b => FirstDay[a] < FirstDay[b])
    BY CalendarAssumption
  <2>4. ~ (n < m)
    <3>1. n < m => n + 1 = m \/ n + 1 < m
      BY <2>2
    <3>2. n + 1 < m => FirstDay[n + 1] < FirstDay[m]
      BY <2>2, <2>3
    <3>3. QED BY <1>1, <2>1, <2>2, <2>3, <3>1, <3>2
  <2>5. ~ (m < n)
    <3>1. m < n => m + 1 = n \/ m + 1 < n
      BY <2>2
    <3>2. m + 1 < n => FirstDay[m + 1] < FirstDay[n]
      BY <2>2, <2>3
    <3>3. QED BY <1>1, <2>1, <2>2, <2>3, <3>1, <3>2
  <2>6. QED BY <2>2, <2>4, <2>5
<1>3. QED BY <1>1, <1>2 DEF MonthOf

\* getEffectiveCutoffDate never leaves its month, whatever the cutoff day.
LEMMA CutoffInMonth ==
  ASSUME NEW m \in Months, NEW d \in CutoffDays
  PROVE  EffectiveCutoffDate(m, d) \in DaysOf(m)
  BY MonthBounds DEF EffectiveCutoffDate, DaysOf, MonthLength, CutoffDays

\* Each month has exactly one cutoff day, and there is none between two consecutive ones.
LEMMA CutoffsOfMonths ==
  ASSUME NEW m \in Months, m + 1 \in Months, NEW d \in CutoffDays
  PROVE  /\ EffectiveCutoffDate(m, d) \in Int
         /\ EffectiveCutoffDate(m + 1, d) \in Int
         /\ EffectiveCutoffDate(m, d) < EffectiveCutoffDate(m + 1, d)
         /\ IsCutoffDay(EffectiveCutoffDate(m, d), d)
         /\ IsCutoffDay(EffectiveCutoffDate(m + 1, d), d)
         /\ \A u \in (EffectiveCutoffDate(m, d) + 1)..(EffectiveCutoffDate(m + 1, d) - 1) :
              ~IsCutoffDay(u, d)
<1> DEFINE c == EffectiveCutoffDate(m, d)
           e == EffectiveCutoffDate(m + 1, d)
<1>1. c \in DaysOf(m) /\ e \in DaysOf(m + 1)
  BY CutoffInMonth
<1>2. MonthOf(c) = m /\ MonthOf(e) = m + 1 /\ c \in Int /\ e \in Int
  BY <1>1, MonthOfDay
<1>3. /\ FirstDay[m] <= c /\ c < FirstDay[m + 1] /\ FirstDay[m + 1] <= e /\ e < FirstDay[m + 2]
      /\ FirstDay[m] \in Int /\ FirstDay[m + 1] \in Int /\ FirstDay[m + 2] \in Int
  <2>1. m + 1 + 1 = m + 2
    BY MonthBounds
  <2>2. FirstDay[m] \in Int /\ FirstDay[m + 1] \in Int /\ FirstDay[m + 2] \in Int
    BY <2>1, MonthBounds
  <2>3. QED BY <1>1, <1>2, <2>1, <2>2 DEF DaysOf
<1>4. ASSUME NEW u \in (c + 1)..(e - 1) PROVE ~IsCutoffDay(u, d)
  <2> HIDE DEF c, e
  <2>1. u \in Int /\ u # c /\ u # e
    BY <1>2
  <2>2. u \in DaysOf(m) \/ u \in DaysOf(m + 1)
    <3>1. m + 1 + 1 = m + 2
      BY MonthBounds
    <3>2. QED BY <1>2, <1>3, <2>1, <3>1 DEF DaysOf
  <2>3. MonthOf(u) = m \/ MonthOf(u) = m + 1
    BY <2>2, MonthOfDay
  <2>4. QED BY <2>1, <2>3 DEF IsCutoffDay, c, e
<1>5. IsCutoffDay(c, d) /\ IsCutoffDay(e, d)
  BY <1>2 DEF IsCutoffDay
<1>6. c < e
  <2> HIDE DEF c, e
  <2>1. QED BY <1>2, <1>3
<1>7. QED BY <1>2, <1>4, <1>5, <1>6

\* The day after t: in the month of t, or the first of the next one.
LEMMA NextDay ==
  ASSUME NEW m \in InnerMonths, NEW t \in DaysOf(m), NEW d \in CutoffDays
  PROVE  \/ MonthOf(t + 1) = m
         \/ /\ MonthOf(t + 1) = m + 1
            /\ t + 1 = FirstDay[m + 1]
            /\ t >= EffectiveCutoffDate(m, d)
            /\ t + 1 <= EffectiveCutoffDate(m + 1, d)
<1>1. m \in Months /\ m + 1 \in Months
  BY DEF InnerMonths
<1>2. /\ t \in Int /\ FirstDay[m] <= t /\ t < FirstDay[m + 1]
      /\ FirstDay[m] \in Int /\ FirstDay[m + 1] \in Int
  BY <1>1, MonthBounds DEF DaysOf
<1>3. CASE t + 1 < FirstDay[m + 1]
  <2>1. t + 1 \in DaysOf(m)
    BY <1>2, <1>3 DEF DaysOf
  <2>2. QED BY <1>1, <2>1, MonthOfDay
<1>4. CASE t + 1 = FirstDay[m + 1]
  <2>1. FirstDay[m + 1] < FirstDay[m + 1 + 1] /\ FirstDay[m + 1 + 1] \in Int
    BY <1>1, MonthBounds
  <2>2. t + 1 \in DaysOf(m + 1)
    BY <1>2, <1>4, <2>1 DEF DaysOf
  <2>3. EffectiveCutoffDate(m, d) \in DaysOf(m) /\ EffectiveCutoffDate(m + 1, d) \in DaysOf(m + 1)
    BY <1>1, CutoffInMonth
  <2>4. EffectiveCutoffDate(m, d) <= t /\ t + 1 <= EffectiveCutoffDate(m + 1, d)
    BY <1>2, <1>4, <2>1, <2>3 DEF DaysOf
  <2>5. EffectiveCutoffDate(m, d) \in Int
    BY <2>3, <1>2 DEF DaysOf
  <2>6. QED BY <1>1, <1>2, <1>4, <2>2, <2>4, <2>5, MonthOfDay
<1>5. QED BY <1>2, <1>3, <1>4

-----------------------------------------------------------------------------
\* caracas-date.ts:84-87, for every calendar and cutoff day: the period of a day runs from
\* the day after the last cutoff day before it to the first one on or after it.
THEOREM PeriodBetweenCutoffsHolds ==
  ASSUME NEW t \in Days, NEW d \in CutoffDays
  PROVE  PeriodIsBetweenCutoffs(t, d)
<1>1. PICK m \in InnerMonths : t \in DaysOf(m)
  BY DEF Days
<1>2. /\ m \in Months /\ m - 1 \in Months /\ m + 1 \in Months
      /\ (m - 1) + 1 = m /\ m \in Int
  BY CalendarAssumption DEF InnerMonths, Months
<1>3. t \in Int /\ MonthOf(t) = m
  BY <1>1, <1>2, MonthOfDay
<1> DEFINE b == EffectiveCutoffDate(m - 1, d)
           c == EffectiveCutoffDate(m, d)
           e == EffectiveCutoffDate(m + 1, d)
<1>4. /\ b \in Int /\ c \in Int /\ e \in Int /\ b < c /\ c < e
      /\ IsCutoffDay(b, d) /\ IsCutoffDay(c, d) /\ IsCutoffDay(e, d)
      /\ \A u \in (b + 1)..(c - 1) : ~IsCutoffDay(u, d)
      /\ \A u \in (c + 1)..(e - 1) : ~IsCutoffDay(u, d)
  <2>1. m - 1 + 1 \in Months
    BY <1>2
  <2>2. QED BY <1>2, <2>1, CutoffsOfMonths
<1>5. b < t /\ t < e
  <2>1. /\ FirstDay[m] <= t /\ t < FirstDay[m + 1]
        /\ FirstDay[m] \in Int /\ FirstDay[m + 1] \in Int
    BY <1>1, <1>2, MonthBounds DEF DaysOf
  <2>2. b \in DaysOf(m - 1) /\ e \in DaysOf(m + 1)
    BY <1>2, CutoffInMonth
  <2>3. b < FirstDay[m] /\ FirstDay[m + 1] <= e
    <3>1. FirstDay[m + 1 + 1] \in Int
      BY <1>2, MonthBounds
    <3>2. QED BY <1>2, <1>4, <2>1, <2>2, <3>1 DEF DaysOf
  <2> HIDE DEF b, e
  <2>4. QED BY <1>3, <1>4, <2>1, <2>3
<1>6. PeriodForCutoffDay(t, d) = IF t > c THEN PeriodBetween(c, e) ELSE PeriodBetween(b, c)
  BY <1>3 DEF PeriodForCutoffDay
<1> HIDE DEF b, c, e
<1>7. CASE t > c
  <2>1. /\ PeriodForCutoffDay(t, d).periodStart = c + 1
        /\ PeriodForCutoffDay(t, d).cutoffDate = e
    BY <1>6, <1>7 DEF PeriodBetween
  <2>2. c + 1 - 1 = c
    BY <1>4
  <2>3. QED BY <1>3, <1>4, <1>5, <1>7, <2>1, <2>2 DEF PeriodIsBetweenCutoffs
<1>8. CASE ~ (t > c)
  <2>1. /\ PeriodForCutoffDay(t, d).periodStart = b + 1
        /\ PeriodForCutoffDay(t, d).cutoffDate = c
    BY <1>6, <1>8 DEF PeriodBetween
  <2>2. b + 1 - 1 = b
    BY <1>4
  <2>3. QED BY <1>3, <1>4, <1>5, <1>8, <2>1, <2>2 DEF PeriodIsBetweenCutoffs
<1>9. QED BY <1>7, <1>8

\* The day after is in the same period, or opens the next one right after a cutoff day:
\* no day falls between two periods or into both.
THEOREM PeriodsFollowHolds ==
  ASSUME NEW t \in Days, NEW d \in CutoffDays
  PROVE  PeriodsFollow(t, d)
<1>1. PICK m \in InnerMonths : t \in DaysOf(m)
  BY DEF Days
<1>2. /\ m \in Months /\ m - 1 \in Months /\ m + 1 \in Months
      /\ m \in Int /\ m + 1 - 1 = m
  BY CalendarAssumption DEF InnerMonths, Months
<1>3. t \in Int /\ MonthOf(t) = m
  BY <1>1, <1>2, MonthOfDay
<1> DEFINE b == EffectiveCutoffDate(m - 1, d)
           c == EffectiveCutoffDate(m, d)
           e == EffectiveCutoffDate(m + 1, d)
           p == PeriodForCutoffDay(t, d)
           q == PeriodForCutoffDay(t + 1, d)
<1>4. c \in Int /\ e \in Int
  BY <1>2, CutoffsOfMonths
<1>5. p = IF t > c THEN PeriodBetween(c, e) ELSE PeriodBetween(b, c)
  BY <1>3 DEF PeriodForCutoffDay
<1>6. IsCutoffDay(t, d) <=> t = c
  BY <1>3 DEF IsCutoffDay
<1>7. \/ q = IF t + 1 > c THEN PeriodBetween(c, e) ELSE PeriodBetween(b, c)
      \/ t >= c /\ q = PeriodBetween(c, e)
  <2>1. CASE MonthOf(t + 1) = m
    BY <2>1 DEF PeriodForCutoffDay
  <2>2. CASE MonthOf(t + 1) = m + 1 /\ t >= c /\ t + 1 <= e
    <3>1. ~ (t + 1 > e)
      BY <1>3, <1>4, <2>2
    <3>2. PICK u \in Int, n \in Int : u = t + 1 /\ n = m + 1
      BY <1>2, <1>3
    <3>3. MonthOf(u) = n
      BY <2>2, <3>2
    <3>4. PeriodForCutoffDay(u, d) =
            IF u > EffectiveCutoffDate(n, d)
            THEN PeriodBetween(EffectiveCutoffDate(n, d), EffectiveCutoffDate(n + 1, d))
            ELSE PeriodBetween(EffectiveCutoffDate(n - 1, d), EffectiveCutoffDate(n, d))
      BY <3>3 DEF PeriodForCutoffDay
    <3>5. /\ ~ (u > EffectiveCutoffDate(n, d)) /\ n - 1 = m
          /\ EffectiveCutoffDate(n, d) = e
      BY <1>2, <3>1, <3>2
    <3>6. q = PeriodBetween(c, e)
      BY <3>2, <3>4, <3>5
    <3>7. QED BY <2>2, <3>6
  <2>3. QED BY <1>1, <2>1, <2>2, NextDay
<1> HIDE DEF b, c, e, p, q
<1>8. CASE t = c
  <2>1. p = PeriodBetween(b, c) /\ q = PeriodBetween(c, e)
    BY <1>3, <1>4, <1>5, <1>7, <1>8
  <2>2. q.periodStart = p.nextPeriodStart
    BY <2>1 DEF PeriodBetween
  <2>3. QED BY <1>6, <1>8, <2>2 DEF PeriodsFollow, p, q
<1>9. CASE t # c
  <2>1. q = p
    BY <1>3, <1>4, <1>5, <1>7, <1>9
  <2>2. QED BY <1>6, <1>9, <2>1 DEF PeriodsFollow, p, q
<1>10. QED BY <1>8, <1>9

LEMMA PeriodIsOfDays ==
  ASSUME NEW t \in Days, NEW d \in CutoffDays
  PROVE  LET p == PeriodForCutoffDay(t, d) IN
         p.periodStart \in Int /\ p.cutoffDate \in Int /\ p.nextPeriodStart = p.cutoffDate + 1
<1>1. PICK m \in InnerMonths : t \in DaysOf(m)
  BY DEF Days
<1>2. m - 1 \in Months /\ m \in Months /\ m + 1 \in Months
  BY DEF InnerMonths
<1>3. MonthOf(t) = m
  BY <1>1, <1>2, MonthOfDay
<1>4. /\ EffectiveCutoffDate(m - 1, d) \in Int /\ EffectiveCutoffDate(m, d) \in Int
      /\ EffectiveCutoffDate(m + 1, d) \in Int
  BY <1>2, CutoffInMonth, MonthOfDay
<1>5. \/ PeriodForCutoffDay(t, d) = PeriodBetween(EffectiveCutoffDate(m, d), EffectiveCutoffDate(m + 1, d))
      \/ PeriodForCutoffDay(t, d) = PeriodBetween(EffectiveCutoffDate(m - 1, d), EffectiveCutoffDate(m, d))
  BY <1>3 DEF PeriodForCutoffDay
<1> QED
  BY <1>4, <1>5 DEF PeriodBetween

\* active-budget-context.util.ts:32, "una sola fuente de verdad para listar/crear": what is
\* registered on a day is on the board of that day, and off it once the period turns.
THEOREM AnchorIsListedHolds ==
  ASSUME NEW t \in Days, NEW cycle \in Cycles
  PROVE  AnchorIsListed(cycle, t)
<1>1. PICK m \in InnerMonths : t \in DaysOf(m)
  BY DEF Days
<1>2. m \in Months /\ m + 1 \in Months
  BY DEF InnerMonths
<1>3. t \in Int /\ MonthOf(t) = m
  BY <1>1, <1>2, MonthOfDay
<1>4. CASE cycle = CalendarMonth
  <2>1. IsCalendar(cycle)
    BY <1>4 DEF IsCalendar, CalendarMonth
  <2>2. \A u : ActiveReference(cycle, u) = FirstDay[MonthOf(u)] /\ Board(cycle, u) = DaysOf(MonthOf(u))
    BY <2>1 DEF ActiveReference, Board
  <2>3. FirstDay[m] \in DaysOf(m)
    BY <1>2, MonthBounds DEF DaysOf
  <2>4. MonthOf(t + 1) = m \/ MonthOf(t + 1) = m + 1
    BY <1>1, NextDay DEF CutoffDays
  <2>5. FirstDay[m] \notin DaysOf(m + 1)
    BY <1>2, MonthBounds DEF DaysOf
  <2>6. QED BY <1>3, <2>2, <2>3, <2>4, <2>5 DEF AnchorIsListed
<1>5. ASSUME NEW d \in CutoffDays, cycle = MonthlyCutoff(d) PROVE AnchorIsListed(cycle, t)
  <2> DEFINE p == PeriodForCutoffDay(t, d)
             q == PeriodForCutoffDay(t + 1, d)
  <2>1. ~IsCalendar(cycle) /\ cycle.cutoffDay = d
    BY <1>5 DEF IsCalendar, MonthlyCutoff
  <2>2. \A u : /\ ActiveReference(cycle, u) = PeriodForCutoffDay(u, d).periodStart
               /\ Board(cycle, u) = PeriodForCutoffDay(u, d).periodStart..PeriodForCutoffDay(u, d).cutoffDate
    BY <2>1 DEF ActiveReference, Board, ActivePeriod
  <2>3. t \in p.periodStart..p.cutoffDate
    BY PeriodBetweenCutoffsHolds DEF PeriodIsBetweenCutoffs
  <2>4. p.periodStart \in Int /\ p.cutoffDate \in Int /\ p.nextPeriodStart = p.cutoffDate + 1
    BY PeriodIsOfDays
  <2>5. q.periodStart = p.nextPeriodStart \/ q = p
    BY PeriodsFollowHolds DEF PeriodsFollow
  <2>6. ActiveReference(cycle, t) = p.periodStart /\ ActiveReference(cycle, t + 1) = q.periodStart
        /\ Board(cycle, t) = p.periodStart..p.cutoffDate
        /\ Board(cycle, t + 1) = q.periodStart..q.cutoffDate
    BY <2>2
  <2> HIDE DEF p, q
  <2>7. p.periodStart \in p.periodStart..p.cutoffDate
    BY <1>3, <2>3, <2>4
  <2>8. q.periodStart # p.periodStart => p.periodStart \notin q.periodStart..q.cutoffDate
    BY <1>3, <2>3, <2>4, <2>5
  <2>9. QED BY <2>6, <2>7, <2>8 DEF AnchorIsListed
<1>6. QED BY <1>4, <1>5 DEF Cycles

-----------------------------------------------------------------------------
(* The walk over the calendar.                                             *)

\* Every day of the walk is one of the calendar, under a setting a preference may hold.
LEMMA WalkInvariant == WalkSpec => []WalkInv
<1>1. WalkInit => WalkInv
  BY DEF WalkInit, WalkInv
<1>2. WalkInv /\ [WalkNext]_walk => WalkInv'
  BY DEF WalkInv, WalkNext, walk
<1> QED
  BY <1>1, <1>2, PTL DEF WalkSpec

\* On every calendar, whatever the cutoff day, the period of a day lies between two consecutive
\* cutoff days, the closing one included (caracas-date.ts:84-87).
THEOREM PeriodsAreBetweenCutoffsHolds == WalkSpec => []PeriodsAreBetweenCutoffs
<1>1. WalkInv => PeriodsAreBetweenCutoffs
  BY PeriodBetweenCutoffsHolds DEF WalkInv, PeriodsAreBetweenCutoffs, CutoffDays
<1> QED
  BY <1>1, WalkInvariant, PTL

\* From each day to the next the period stays, or the next one starts where it ended.
THEOREM PeriodsTileHolds == WalkSpec => []PeriodsTile
<1>1. WalkInv => PeriodsTile
  BY PeriodsFollowHolds DEF WalkInv, PeriodsTile, CutoffDays
<1> QED
  BY <1>1, WalkInvariant, PTL

\* In calendar mode and with every cutoff day, the anchor given on a day is listed that day and
\* no longer once the period turns (active-budget-context.util.ts:32).
THEOREM RegisteredIsListedHolds == WalkSpec => []RegisteredIsListed
<1>1. WalkInv => RegisteredIsListed
  <2> SUFFICES ASSUME WalkInv PROVE AnchorIsListed(WalkCycle, date)
    BY DEF RegisteredIsListed
  <2>1. WalkCycle \in Cycles
    BY DEF WalkInv, WalkCycle, Cycles, CutoffDays
  <2> QED
    BY <2>1, AnchorIsListedHolds DEF WalkInv
<1> QED
  BY <1>1, WalkInvariant, PTL

-----------------------------------------------------------------------------
(* The days and the cycles of a run.                                       *)

LEMMA LeastNatural ==
  ASSUME NEW T \in SUBSET Nat, T # {}
  PROVE  \E x \in T : \A y \in T : x <= y
<1>1. PICK x \in T : \A y \in T : ~ (<<y, x>> \in OpToRel(<, Nat))
  BY NatLessThanWellFounded, WFMin
<1>2. ASSUME NEW y \in T PROVE x <= y
  <2>1. x \in Nat /\ y \in Nat /\ ~ (y < x)
    BY <1>1 DEF OpToRel
  <2> QED
    BY <2>1
<1> QED
  BY <1>2

\* Months leave no gap between two days of the calendar.
LEMMA DaysHaveNoGap ==
  ASSUME NEW a \in Days, NEW b \in Days, NEW t \in a..b
  PROVE  t \in Days
<1>1. PICK m \in InnerMonths : a \in DaysOf(m)
  BY DEF Days
<1>2. PICK n \in InnerMonths : b \in DaysOf(n)
  BY DEF Days
<1>3. /\ m \in Months /\ n \in Months /\ Months \subseteq Nat
      /\ m - 1 \in Months /\ n + 1 \in Months
  BY CalendarAssumption DEF InnerMonths, Months
<1>4. /\ FirstDay[m] \in Int /\ FirstDay[m] <= a /\ a \in Int
      /\ FirstDay[n + 1] \in Int /\ b < FirstDay[n + 1] /\ b \in Int
  BY <1>1, <1>2, <1>3, MonthBounds DEF DaysOf
<1>5. t \in Int /\ FirstDay[m] <= t /\ t < FirstDay[n + 1]
  <2>1. t \in Int /\ a <= t /\ t <= b
    BY <1>4
  <2> QED
    BY <1>4, <2>1
<1> DEFINE After == {k \in Months : t < FirstDay[k + 1]}
<1>6. PICK k \in After : \A j \in After : k <= j
  <2>1. n \in After /\ After \in SUBSET Nat
    BY <1>3, <1>5
  <2> QED
    BY <2>1, LeastNatural
<1>7. k \in Months /\ FirstDay[k] \in Int /\ FirstDay[k + 1] \in Int /\ t < FirstDay[k + 1] /\ k <= n
  BY <1>3, <1>5, <1>6, MonthBounds
<1>8. m <= k
  <2>1. \A i, j \in 0..NumMonths : i < j => FirstDay[i] < FirstDay[j]
    BY CalendarAssumption
  <2>2. k + 1 \in 0..NumMonths /\ m \in 0..NumMonths /\ k + 1 <= m => FirstDay[k + 1] <= FirstDay[m]
    BY <1>4, <1>7, <2>1
  <2>3. k + 1 \in 0..NumMonths /\ m \in 0..NumMonths /\ k \in Nat /\ m \in Nat
    BY <1>3, <1>7, CalendarAssumption DEF Months
  <2> QED
    BY <1>4, <1>5, <1>7, <2>2, <2>3
<1>9. FirstDay[k] <= t
  <2>1. CASE k = m
    BY <1>5, <2>1
  <2>2. CASE k > m
    <3>1. k - 1 \in Months /\ k - 1 + 1 = k /\ k - 1 < k
      BY <1>3, <1>7, <2>2, CalendarAssumption DEF Months
    <3>2. k - 1 \notin After
      BY <1>3, <1>6, <3>1
    <3> QED
      BY <1>5, <1>7, <3>1, <3>2
  <2>3. k \in Nat /\ m \in Nat
    BY <1>3, <1>7
  <2> QED
    BY <1>8, <2>1, <2>2, <2>3
<1>10. k \in InnerMonths
  <2>1. m - 1 \in Nat /\ n + 1 \in Months /\ k \in Nat
    BY <1>3, <1>7
  <2> QED
    BY <1>3, <1>7, <1>8, <2>1, CalendarAssumption DEF InnerMonths, Months
<1>11. t \in DaysOf(k)
  BY <1>5, <1>7, <1>9 DEF DaysOf
<1> QED
  BY <1>10, <1>11 DEF Days

Span == StartDay..LastDay

LEMMA SpanDays ==
  ASSUME NEW t \in Span
  PROVE  t \in Days /\ t \in Int
<1>1. \A d \in Days : d \in Int
  BY MonthBounds DEF Days, DaysOf, InnerMonths
<1> QED
  BY <1>1, CycleAssumption, DaysHaveNoGap DEF Span

LEMMA CyclesKnown ==
  /\ CyclesInUse \subseteq Cycles
  /\ CalendarMonth \in CyclesInUse
  /\ Keep \notin CyclesInUse
BY CycleAssumption DEF Keep, CyclesInUse, Cycles, CalendarMonth, MonthlyCutoff

LEMMA TableAt ==
  ASSUME NEW c \in CyclesInUse, NEW t \in Span
  PROVE  Reference[c][t] = ActiveReference(c, t) /\ Listing[c][t] = Board(c, t)
BY DEF Reference, Listing, Span

\* What is registered on a day is listed that day.
LEMMA ReferenceListed ==
  ASSUME NEW c \in CyclesInUse, NEW t \in Span
  PROVE  Reference[c][t] \in Int /\ Reference[c][t] \in Listing[c][t]
<1>1. c \in Cycles /\ t \in Days
  BY CyclesKnown, SpanDays
<1>2. Reference[c][t] = ActiveReference(c, t) /\ Listing[c][t] = Board(c, t)
  BY TableAt
<1>3. ActiveReference(c, t) \in Board(c, t)
  BY <1>1, AnchorIsListedHolds DEF AnchorIsListed
<1>4. Board(c, t) \subseteq Int
  BY DEF Board, DaysOf
<1> QED
  BY <1>2, <1>3, <1>4

\* The board of a cycle stays the same as long as its reference month does.
LEMMA BoardStays ==
  ASSUME NEW c \in CyclesInUse, NEW t \in Span, t + 1 \in Span, Reference[c][t + 1] = Reference[c][t]
  PROVE  Listing[c][t + 1] = Listing[c][t]
<1>1. c \in Cycles /\ t \in Days /\ t + 1 \in Days
  BY CyclesKnown, SpanDays
<1>2. /\ ActiveReference(c, t + 1) = ActiveReference(c, t)
      /\ Listing[c][t] = Board(c, t) /\ Listing[c][t + 1] = Board(c, t + 1)
  <2>1. Reference[c][t] = ActiveReference(c, t) /\ Listing[c][t] = Board(c, t)
    BY TableAt
  <2>2. Reference[c][t + 1] = ActiveReference(c, t + 1) /\ Listing[c][t + 1] = Board(c, t + 1)
    BY TableAt
  <2> QED
    BY <2>1, <2>2
<1>3. ASSUME IsCalendar(c) PROVE Board(c, t + 1) = Board(c, t)
  <2>1. PICK m \in InnerMonths : t \in DaysOf(m)
    BY <1>1 DEF Days
  <2>2. PICK n \in InnerMonths : t + 1 \in DaysOf(n)
    BY <1>1 DEF Days
  <2>3. m \in Months /\ n \in Months
    BY DEF InnerMonths
  <2>4. MonthOf(t) = m /\ MonthOf(t + 1) = n
    BY <2>1, <2>2, <2>3, MonthOfDay
  <2>5. FirstDay[m] = FirstDay[n]
    BY <1>2, <1>3, <2>4 DEF ActiveReference
  <2>6. m \in 0..NumMonths /\ n \in 0..NumMonths /\ m \in Int /\ n \in Int
    BY <2>3, CalendarAssumption DEF Months
  <2>7. ~(m < n) /\ ~(n < m)
    <3>1. FirstDay[m] \in Int /\ FirstDay[n] \in Int
      BY <2>3, MonthBounds
    <3>2. /\ m < n => FirstDay[m] < FirstDay[n]
          /\ n < m => FirstDay[n] < FirstDay[m]
      BY <2>6, CalendarAssumption
    <3> QED
      BY <2>5, <3>1, <3>2
  <2>8. m = n
    BY <2>6, <2>7
  <2> QED
    BY <1>3, <2>4, <2>8 DEF Board
<1>4. ASSUME ~IsCalendar(c) PROVE Board(c, t + 1) = Board(c, t)
  <2> DEFINE p == PeriodForCutoffDay(t, c.cutoffDay)
             q == PeriodForCutoffDay(t + 1, c.cutoffDay)
  <2>1. c.cutoffDay \in CutoffDays
    <3>1. PICK d \in CutoffDays : c = MonthlyCutoff(d)
      BY <1>1, <1>4 DEF Cycles, CalendarMonth, IsCalendar
    <3> QED
      BY <3>1 DEF MonthlyCutoff
  <2>2. q.periodStart = p.periodStart
    BY <1>2, <1>4 DEF ActiveReference, ActivePeriod
  <2>3. q = p
    <3>1. CASE IsCutoffDay(t, c.cutoffDay)
      <4>1. q.periodStart = p.nextPeriodStart
        BY <1>1, <2>1, <3>1, PeriodsFollowHolds DEF PeriodsFollow
      <4>2. t \in p.periodStart..p.cutoffDate
        BY <1>1, <2>1, PeriodBetweenCutoffsHolds DEF PeriodIsBetweenCutoffs
      <4>3. p.periodStart \in Int /\ p.cutoffDate \in Int /\ p.nextPeriodStart = p.cutoffDate + 1
        BY <1>1, <2>1, PeriodIsOfDays
      <4>4. p.periodStart <= t /\ t <= p.cutoffDate /\ t \in Int
        BY <4>2, <4>3, SpanDays
      <4>5. p.periodStart = p.cutoffDate + 1
        BY <2>2, <4>1, <4>3
      <4> HIDE DEF p, q
      <4> QED
        BY <4>3, <4>4, <4>5
    <3>2. CASE ~IsCutoffDay(t, c.cutoffDay)
      BY <1>1, <2>1, <3>2, PeriodsFollowHolds DEF PeriodsFollow
    <3> QED
      BY <3>1, <3>2
  <2> QED
    BY <1>4, <2>3 DEF Board, ActivePeriod
<1> QED
  <2>1. Board(c, t + 1) = Board(c, t)
    BY <1>3, <1>4
  <2> QED
    BY <1>2, <2>1
-----------------------------------------------------------------------------
(* The rows of the state.                                                  *)

\* The phase of a handler says which row it is.
LEMMA HandlerRow ==
  ASSUME NEW q \in Handlers
  PROVE  /\ q.phase \in {"idle", "registering", "aggregating", "reanchoring", "saving"}
         /\ q.phase = "idle" <=> q = Idle
         /\ q.phase = "registering" => q \in RegisteringRows
         /\ q.phase \in {"aggregating", "reanchoring"} => q \in ReadingRows
         /\ q.phase = "saving" => q \in SavingRows
BY DEF Handlers, RegisteringRows, ReadingRows, SavingRows, Idle

LEMMA RegisteringRow ==
  ASSUME NEW q \in Handlers, q.phase = "registering"
  PROVE  /\ q.user \in Users /\ q.item \in Expenses \cup Incomes /\ q.anchor \in Int
         /\ q.overtaken \in Overtaken
BY HandlerRow DEF RegisteringRows

LEMMA ReadingRow ==
  ASSUME NEW q \in Handlers, q.phase \in {"aggregating", "reanchoring"}
  PROVE  /\ q.user \in Users /\ q.before \in CyclesInUse /\ q.cycle \in CyclesInUse \cup {Keep}
         /\ q.carryover \in Nat /\ q.day \in Span /\ q.overtaken \in Overtaken
BY HandlerRow DEF ReadingRows, Span

LEMMA SavingRow ==
  ASSUME NEW q \in Handlers, q.phase = "saving"
  PROVE  /\ q.user \in Users /\ q.cycle \in CyclesInUse \cup {Keep} /\ q.incomeRef \in Int
         /\ q.carryover \in Nat /\ q.moved \in SUBSET Expenses /\ q.overtaken \in Overtaken
BY HandlerRow DEF SavingRows

\* A handler that is overtaken keeps the rest of its row.
LEMMA OvertakenRow ==
  ASSUME NEW q \in Handlers, q.phase # "idle", NEW x \in Overtaken
  PROVE  LET n == [q EXCEPT !.overtaken = x] IN
         /\ n \in Handlers /\ n.phase = q.phase /\ n.user = q.user /\ n.overtaken = x
         /\ q.phase = "registering" => n.item = q.item
         /\ q.phase \in {"aggregating", "reanchoring"} =>
              n.before = q.before /\ n.cycle = q.cycle /\ n.carryover = q.carryover /\ n.day = q.day
         /\ q.phase = "saving" =>
              /\ n.cycle = q.cycle /\ n.incomeRef = q.incomeRef
              /\ n.carryover = q.carryover /\ n.moved = q.moved
<1>1. CASE q.phase = "registering"
  BY <1>1, HandlerRow DEF RegisteringRows, Handlers
<1>2. CASE q.phase \in {"aggregating", "reanchoring"}
  BY <1>2, HandlerRow DEF ReadingRows, Handlers
<1>3. CASE q.phase = "saving"
  BY <1>3, HandlerRow DEF SavingRows, Handlers
<1> QED
  BY <1>1, <1>2, <1>3, HandlerRow

LEMMA MovementRows ==
  /\ NoMovement \notin ExpenseRows /\ NoMovement \notin IncomeRows
  /\ NoPreference \notin Preferences
BY DEF NoMovement, ExpenseRows, IncomeRows, NoPreference, Preferences

LEMMA PreferenceRow ==
  ASSUME NEW cycle \in CyclesInUse, NEW incomeRef \in Int, NEW carryover \in Nat
  PROVE  /\ Preference(cycle, incomeRef, carryover) \in Preferences
         /\ CycleOf(Preference(cycle, incomeRef, carryover)) = cycle
BY MovementRows DEF Preference, Preferences, CycleOf

\* A user without a preference is in the cycle of the calendar.
LEMMA CycleOfKnown ==
  ASSUME TypeOK, NEW u \in Users
  PROVE  /\ CycleOf(preference[u]) \in CyclesInUse
         /\ preference[u] # NoPreference => /\ preference[u] \in Preferences
                                            /\ CycleOf(preference[u]) = preference[u].cycle
                                            /\ preference[u].cycle \in CyclesInUse
                                            /\ preference[u].incomeRef \in Int
                                            /\ preference[u].carryover \in Nat
BY CyclesKnown DEF TypeOK, CycleOf, Preferences

LEMMA NextCycleKnown ==
  ASSUME NEW stored \in CyclesInUse, NEW cycle \in CyclesInUse \cup {Keep}
  PROVE  /\ NextCycle(stored, cycle) \in CyclesInUse
         /\ cycle # Keep => NextCycle(stored, cycle) = cycle
         /\ cycle = Keep => NextCycle(stored, cycle) = stored
BY DEF NextCycle

LEMMA SavingIsHandler ==
  ASSUME NEW u \in Users, NEW cycle \in CyclesInUse \cup {Keep}, NEW incomeRef \in Int,
         NEW carryover \in Nat, NEW moved \in SUBSET Expenses, NEW overtaken \in Overtaken
  PROVE  Saving(u, cycle, incomeRef, carryover, moved, overtaken) \in Handlers
BY DEF Saving, SavingRows, Handlers

LEMMA ReadingIsHandler ==
  ASSUME TypeOK, NEW phase \in {"aggregating", "reanchoring"}, NEW u \in Users, preference[u] # NoPreference,
         NEW cycle \in CyclesInUse \cup {Keep}
  PROVE  Reading(phase, u, preference[u], cycle) \in Handlers
<1>1. today \in StartDay..LastDay /\ "no" \in Overtaken
  BY DEF TypeOK, Overtaken
<1> QED
  BY <1>1, CycleOfKnown DEF Reading, ReadingRows, Handlers

LEMMA ProductGrows ==
  ASSUME NEW m \in Nat, NEW n \in Nat, NEW k \in Nat, m <= n
  PROVE  m * k \in Nat /\ n * k \in Nat /\ m * k <= n * k
OBVIOUS

\* A surplus is at most what it adds to the carryover of the closing period.
LEMMA SurplusBound ==
  ASSUME TypeOK, NEW q, q.carryover \in Nat
  PROVE  /\ ClosingSurplus(q) \in Nat
         /\ ClosingSurplus(q) <= q.carryover + MostPerClose
         /\ MostPerClose \in Nat
<1> DEFINE closing == ClosingDate(q.before, q.day)
           logged == {i \in Live(income) : income[i].user = q.user /\ income[i].anchor = closing}
           paid == {e \in Live(expense) : /\ expense[e].profile = q.user /\ expense[e].paid
                                          /\ expense[e].anchor = closing}
           surplus == MonthlyIncome + q.carryover + Cardinality(logged) - Cardinality(paid)
<1>1. logged \subseteq Incomes /\ paid \subseteq Expenses
  BY DEF TypeOK, Live
<1>2. IsFiniteSet(Incomes) /\ IsFiniteSet(Expenses) /\ MonthlyIncome \in Nat
  BY CycleAssumption
<1>3. Cardinality(logged) \in Nat /\ Cardinality(logged) <= Cardinality(Incomes) /\ Cardinality(Incomes) \in Nat
  BY <1>1, <1>2, FS_Subset, FS_CardinalityType
<1>4. Cardinality(paid) \in Nat
  BY <1>1, <1>2, FS_Subset, FS_CardinalityType
<1>5. ClosingSurplus(q) = IF surplus > 0 THEN surplus ELSE 0
  BY DEF ClosingSurplus
<1> HIDE DEF logged, paid
<1>6. MostPerClose = MonthlyIncome + Cardinality(Incomes)
  BY DEF MostPerClose
<1> QED
  BY <1>2, <1>3, <1>4, <1>5, <1>6

-----------------------------------------------------------------------------
(* Types.                                                                  *)

LEMMA TypesInitially == Init => TypeOK
<1> SUFFICES ASSUME Init PROVE TypeOK
  OBVIOUS
<1>1. Idle \in Handlers
  BY DEF Handlers
<1>2. StartDay \in StartDay..LastDay
  BY CycleAssumption, SpanDays, MonthBounds DEF Days, DaysOf, InnerMonths
<1> QED
  BY <1>1, <1>2 DEF Init, TypeOK

-----------------------------------------------------------------------------
(* Steps after which one handler holds another row and nothing else that   *)
(* the invariant reads of it has changed.                                  *)

Quiet(n) ==
  /\ n \in Handlers
  /\ HoldsCycle(n) /\ HandlerCovered(n)
  /\ n.phase = "saving" => n.moved = {}

LEMMA OneHandlerTypes ==
  ASSUME IInv, NEW r \in Requests, NEW n, Quiet(n), request' = [request EXCEPT ![r] = n],
         UNCHANGED <<today, preference, expense, closes, crossed>>, due' \subseteq due,
         income' \in [Incomes -> IncomeRows \cup {NoMovement}]
  PROVE  TypeOK'
BY DEF IInv, TypeOK, Quiet, Live

LEMMA OneHandlerBoard ==
  ASSUME IInv, NEW r \in Requests, NEW n, Quiet(n), request' = [request EXCEPT ![r] = n],
         UNCHANGED <<today, preference, expense>>, due' \subseteq due,
         n.phase = "registering" => n.item \notin ItemsInUse,
         request[r].phase = "saving" => request[r].moved \cap due' = {}
  PROVE  BoardInv'
<1>1. request \in [Requests -> Handlers] /\ n \in Handlers
  BY DEF IInv, TypeOK, Quiet
<1>2. /\ request'[r] = n
      /\ \A p \in Requests \ {r} : request'[p] = request[p]
  BY <1>1
<1>3. ItemsApart'
  <2>1. ASSUME NEW p \in Requests, request'[p].phase = "registering", NEW s \in Requests
        PROVE  /\ request'[p].item \notin Live(expense)
               /\ s # p /\ request'[s].phase = "registering" => request'[s].item # request'[p].item
               /\ request'[s].phase = "saving" => request'[p].item \notin request'[s].moved
    <3>1. ItemsApart
      BY DEF IInv, BoardInv
    <3>2. CASE p # r
      BY <1>1, <1>2, <2>1, <3>1, <3>2 DEF ItemsApart, ItemsInUse, InFlight, Quiet
    <3>3. CASE p = r
      BY <1>1, <1>2, <2>1, <3>1, <3>3 DEF ItemsApart, ItemsInUse, InFlight, Quiet
    <3> QED
      BY <3>2, <3>3
  <2> QED
    BY <2>1 DEF ItemsApart, InFlight, Live
<1>4. ASSUME NEW p \in Requests PROVE HoldsCycle(request[p])'
  <2>1. HoldsCycle(request[p])
    BY DEF IInv, BoardInv
  <2>2. CASE p # r
    BY <1>2, <2>1, <2>2 DEF HoldsCycle, CycleOf
  <2>3. CASE p = r
    BY <1>2, <2>3 DEF HoldsCycle, CycleOf, Quiet
  <2> QED
    BY <2>2, <2>3
<1>5. ASSUME NEW p \in Requests PROVE MovedAreAnchored(p)'
  <2>1. MovedAreAnchored(p)
    BY DEF IInv, BoardInv
  <2>2. CASE p # r
    BY <1>2, <2>1, <2>2 DEF MovedAreAnchored, MovedBy, InFlight
  <2>3. CASE p = r
    BY <1>2, <2>3 DEF MovedAreAnchored, Quiet
  <2> QED
    BY <2>2, <2>3
<1>6. OpenExpensesListed'
  BY <1>2 DEF IInv, BoardInv, OpenExpensesListed, Listed, MovedBy, CycleOf, InFlight
<1> QED
  BY <1>3, <1>4, <1>5, <1>6 DEF BoardInv

LEMMA OneHandlerCarryover ==
  ASSUME IInv, NEW r \in Requests, NEW n, Quiet(n), request' = [request EXCEPT ![r] = n],
         UNCHANGED <<today, preference, closes, crossed>>
  PROVE  CarryoverInv'
<1>1. request \in [Requests -> Handlers]
  BY DEF IInv, TypeOK
<1>2. /\ request'[r] = n
      /\ \A p \in Requests \ {r} : request'[p] = request[p]
  BY <1>1
<1>3. ASSUME NEW u \in Users PROVE PreferenceCovered(u)'
  BY DEF IInv, CarryoverInv, PreferenceCovered, NeedsRefresh, Covered
<1>4. ASSUME NEW p \in Requests PROVE HandlerCovered(request[p])'
  <2>1. CASE p # r
    BY <1>2, <2>1 DEF IInv, CarryoverInv, HandlerCovered, Covered, CycleOf
  <2>2. CASE p = r
    BY <1>2, <2>2 DEF Quiet, HandlerCovered, Covered, CycleOf
  <2> QED
    BY <2>1, <2>2
<1> QED
  BY <1>3, <1>4 DEF CarryoverInv

LEMMA OneHandlerMoves ==
  ASSUME IInv, NEW r \in Requests, NEW n, Quiet(n), request' = [request EXCEPT ![r] = n],
         UNCHANGED <<today, preference, expense, closes, crossed>>, due' \subseteq due,
         income' \in [Incomes -> IncomeRows \cup {NoMovement}],
         n.phase = "registering" => n.item \notin ItemsInUse,
         request[r].phase = "saving" => request[r].moved \cap due' = {}
  PROVE  IInv'
BY OneHandlerTypes, OneHandlerBoard, OneHandlerCarryover DEF IInv
-----------------------------------------------------------------------------
(* What a handler that is quiet holds.                                     *)

LEMMA IdleIsQuiet == Quiet(Idle)
BY DEF Quiet, Handlers, Idle, HoldsCycle, HandlerCovered, PreferencePhases

LEMMA CoveredBy ==
  ASSUME TypeOK, NEW a \in Nat, NEW u \in Users, NEW m \in Nat, NEW n \in Nat,
         Covered(a, u, m), n <= m
  PROVE  Covered(a, u, n)
<1>1. closes[u] \in Nat /\ MostPerClose \in Nat
  BY CycleAssumption, FS_CardinalityType DEF TypeOK, MostPerClose
<1>2. closes[u] - m \in Nat /\ closes[u] - n \in Nat /\ closes[u] - m <= closes[u] - n
  BY <1>1 DEF Covered
<1>3. (closes[u] - m) * MostPerClose <= (closes[u] - n) * MostPerClose
  BY <1>1, <1>2, ProductGrows
<1> QED
  BY <1>1, <1>2, <1>3 DEF Covered

\* A carryover and one surplus more stay covered, with one period less to close.
LEMMA CoveredWithSurplus ==
  ASSUME TypeOK, NEW a \in Nat, NEW b \in Nat, NEW u \in Users, NEW n \in Nat,
         Covered(a, u, 1 + n), b <= a + MostPerClose
  PROVE  Covered(b, u, n)
<1>1. closes[u] \in Nat /\ MostPerClose \in Nat
  BY CycleAssumption, FS_CardinalityType DEF TypeOK, MostPerClose
<1>2. closes[u] - (1 + n) \in Nat /\ a <= (closes[u] - (1 + n)) * MostPerClose
  BY <1>1 DEF Covered
<1> DEFINE k == closes[u] - (1 + n)
<1>3. closes[u] - n = k + 1 /\ k \in Nat
  BY <1>1, <1>2
<1> HIDE DEF k
<1>4. (k + 1) * MostPerClose = k * MostPerClose + MostPerClose /\ k * MostPerClose \in Nat
  BY <1>1, <1>3
<1>5. a <= k * MostPerClose
  BY <1>2 DEF k
<1>6. b <= (closes[u] - n) * MostPerClose
  BY <1>1, <1>3, <1>4, <1>5
<1> QED
  BY <1>1, <1>2, <1>6 DEF Covered

LEMMA NothingCovered ==
  ASSUME TypeOK, NEW u \in Users
  PROVE  Covered(0, u, 0)
<1>1. closes[u] \in Nat /\ MostPerClose \in Nat
  BY CycleAssumption, FS_CardinalityType DEF TypeOK, MostPerClose
<1>2. closes[u] * MostPerClose \in Nat /\ closes[u] - 0 = closes[u]
  BY <1>1, ProductGrows
<1> QED
  BY <1>1, <1>2 DEF Covered

\* A save of the reference month of today.
LEMMA SavingTodayIsQuiet ==
  ASSUME IInv, NEW u \in Users, NEW cycle \in CyclesInUse \cup {Keep}, NEW carryover \in Nat,
         u \notin crossed => Covered(carryover, u, 0)
  PROVE  Quiet(Saving(u, cycle, Reference[NextCycle(CycleOf(preference[u]), cycle)][today], carryover, {}, "no"))
<1> DEFINE next == NextCycle(CycleOf(preference[u]), cycle)
           n == Saving(u, cycle, Reference[next][today], carryover, {}, "no")
<1>1. TypeOK /\ today \in Span
  BY DEF IInv, TypeOK, Span
<1>2. Reference[next][today] \in Int
  BY <1>1, CycleOfKnown, NextCycleKnown, ReferenceListed
<1>3. n \in Handlers
  BY <1>2, SavingIsHandler DEF Overtaken
<1>4. /\ n.phase = "saving" /\ n.user = u /\ n.cycle = cycle /\ n.incomeRef = Reference[next][today]
      /\ n.carryover = carryover /\ n.moved = {}
  BY DEF Saving
<1> HIDE DEF n
<1>5. HoldsCycle(n)
  BY <1>4 DEF HoldsCycle
<1>6. HandlerCovered(n)
  BY <1>4 DEF HandlerCovered, OneIf
<1> QED
  BY <1>3, <1>4, <1>5, <1>6 DEF Quiet, n

\* A handler that has read the preference of today.
LEMMA ReadingIsQuiet ==
  ASSUME IInv, NEW u \in Users, NEW cycle \in CyclesInUse \cup {Keep}, preference[u] # NoPreference,
         NEW phase \in {"aggregating", "reanchoring"},
         phase = "aggregating" => NeedsRefresh(preference[u]),
         phase = "reanchoring" =>
           ~NeedsRefresh(preference[u]) /\ NextCycle(CycleOf(preference[u]), cycle) # preference[u].cycle
  PROVE  Quiet(Reading(phase, u, preference[u], cycle))
<1> DEFINE n == Reading(phase, u, preference[u], cycle)
<1>1. TypeOK /\ today \in Span
  BY DEF IInv, TypeOK, Span
<1>2. n \in Handlers
  BY <1>1, ReadingIsHandler
<1>3. /\ n.phase = phase /\ n.user = u /\ n.cycle = cycle /\ n.before = preference[u].cycle
      /\ n.carryover = preference[u].carryover /\ n.day = today /\ n.overtaken = "no"
  BY DEF Reading
<1> HIDE DEF n
<1>4. CycleOf(preference[u]) = preference[u].cycle /\ preference[u].cycle \in CyclesInUse
  BY <1>1, CycleOfKnown
<1>5. HoldsCycle(n)
  BY <1>3, <1>4, NextCycleKnown DEF HoldsCycle
<1>6. HandlerCovered(n)
  <2>1. PreferenceCovered(u)
    BY DEF IInv, CarryoverInv
  <2> QED
    BY <1>3, <2>1 DEF HandlerCovered, PreferenceCovered, OneIf
<1> QED
  BY <1>2, <1>3, <1>5, <1>6 DEF Quiet, n

LEMMA AggregatedIsQuiet ==
  ASSUME IInv, NEW r \in Requests, NEW a \in {"unset", "yes", "no"}, NEW rollover \in BOOLEAN,
         Aggregate(r, a, rollover)
  PROVE  \E n : Quiet(n) /\ n.phase # "registering" /\ request' = [request EXCEPT ![r] = n]
<1> DEFINE q == request[r]
           next == NextCycle(q.before, q.cycle)
           day == IF rollover \/ IsCalendar(next) THEN today ELSE q.day
           surplus == ClosingSurplus(q)
           kept == IF surplus > 0 /\ a = "yes" THEN surplus ELSE 0
           n == Saving(q.user, q.cycle, Reference[next][day], kept, {}, q.overtaken)
<1>1. TypeOK /\ q \in Handlers /\ q.phase = "aggregating" /\ today \in Span
  BY DEF IInv, TypeOK, Aggregate, Span
<1>2. /\ q.user \in Users /\ q.before \in CyclesInUse /\ q.cycle \in CyclesInUse \cup {Keep}
      /\ q.carryover \in Nat /\ q.day \in Span /\ q.overtaken \in Overtaken
  BY <1>1, ReadingRow
<1>3. next \in CyclesInUse /\ day \in Span
  BY <1>1, <1>2, NextCycleKnown
<1>4. surplus \in Nat /\ surplus <= q.carryover + MostPerClose /\ MostPerClose \in Nat
  BY <1>1, <1>2, SurplusBound
<1>5. kept \in Nat /\ kept <= q.carryover + MostPerClose
  BY <1>2, <1>4
<1>6. request' = [request EXCEPT ![r] = Idle] \/ request' = [request EXCEPT ![r] = n]
  BY DEF Aggregate, RenewedMonth
<1>7. n \in Handlers
  BY <1>2, <1>3, <1>5, ReferenceListed, SavingIsHandler
<1>8. /\ n.phase = "saving" /\ n.user = q.user /\ n.cycle = q.cycle /\ n.incomeRef = Reference[next][day]
      /\ n.carryover = kept /\ n.moved = {} /\ n.overtaken = q.overtaken
  BY DEF Saving
<1> HIDE DEF n, kept, surplus
<1>9. HoldsCycle(n)
  BY <1>8 DEF HoldsCycle
<1>10. HandlerCovered(n)
  <2> DEFINE stale == OneIf(Reference[next][q.day] # Reference[next][today])
             pending == OneIf(Reference[next][day] # Reference[next][today])
  <2>1. SUFFICES ASSUME q.user \notin crossed, q.overtaken # "cycle"
                 PROVE  Covered(kept, q.user, OneIf(n.incomeRef # Reference[NextCycle(CycleOf(preference[q.user]), q.cycle)][today]))
    BY <1>8 DEF HandlerCovered
  <2>2. q.before = CycleOf(preference[q.user])
    BY <1>1, <2>1 DEF IInv, BoardInv, HoldsCycle
  <2>3. Covered(q.carryover, q.user, 1 + stale)
    BY <1>1, <2>1 DEF IInv, CarryoverInv, HandlerCovered, PreferencePhases
  <2>4. stale \in Nat /\ pending \in Nat /\ pending <= stale
    BY DEF OneIf
  <2>5. Covered(kept, q.user, stale)
    BY <1>1, <1>2, <1>5, <2>3, <2>4, CoveredWithSurplus
  <2>6. Covered(kept, q.user, pending)
    BY <1>1, <1>2, <1>5, <2>4, <2>5, CoveredBy
  <2> QED
    BY <1>8, <2>2, <2>6
<1>11. Quiet(n) /\ n.phase # "registering"
  BY <1>7, <1>8, <1>9, <1>10 DEF Quiet
<1>12. Quiet(Idle) /\ Idle.phase # "registering"
  BY IdleIsQuiet DEF Idle
<1> QED
  BY <1>6, <1>11, <1>12
-----------------------------------------------------------------------------
(* Steps of the movements.                                                 *)

\* ResolveAnchor: the item is new, the anchor is the one of the cycle and of the day.
LEMMA AnchorKeepsInv ==
  ASSUME IInv, NEW r \in Requests, NEW u \in Users, NEW item \in Expenses \cup Incomes,
         ResolveAnchor(r, u, item)
  PROVE  IInv'
<1> DEFINE n == [phase |-> "registering", user |-> u, item |-> item, overtaken |-> "no",
                 anchor |-> Reference[CycleOf(preference[u])][today]]
<1>1. TypeOK /\ today \in Span
  BY DEF IInv, TypeOK, Span
<1>2. Reference[CycleOf(preference[u])][today] \in Int
  BY <1>1, CycleOfKnown, ReferenceListed
<1>3. n \in Handlers
  BY <1>2 DEF Handlers, RegisteringRows, Overtaken
<1>4. Quiet(n)
  BY <1>3 DEF Quiet, HoldsCycle, HandlerCovered, PreferencePhases
<1>5. /\ request' = [request EXCEPT ![r] = n] /\ item \notin ItemsInUse /\ request[r].phase = "idle"
      /\ UNCHANGED <<today, preference, expense, income, due, closes, crossed>>
  BY DEF ResolveAnchor, Idle, rows, history
<1> HIDE DEF n
<1>6. n.item = item
  BY DEF n
<1> QED
  BY <1>1, <1>4, <1>5, <1>6, OneHandlerMoves DEF TypeOK

LEMMA IncomeKeepsInv ==
  ASSUME IInv, NEW r \in Requests, WriteIncome(r) \/ RegistrationFails(r)
  PROVE  IInv'
<1>1. TypeOK /\ request[r] \in Handlers /\ request[r].phase = "registering"
  BY DEF IInv, TypeOK, WriteIncome, RegistrationFails
<1>2. request[r].user \in Users /\ request[r].anchor \in Int
  BY <1>1, RegisteringRow
<1>3. income' \in [Incomes -> IncomeRows \cup {NoMovement}]
  BY <1>1, <1>2 DEF TypeOK, WriteIncome, RegistrationFails, IncomeRows, rows
<1>4. /\ request' = [request EXCEPT ![r] = Idle]
      /\ UNCHANGED <<today, preference, expense, due, closes, crossed>>
  BY DEF WriteIncome, RegistrationFails, rows, history
<1>5. Idle.phase = "idle"
  BY DEF Idle
<1> QED
  BY <1>1, <1>3, <1>4, <1>5, IdleIsQuiet, OneHandlerMoves

\* What is written was on no other handler; unless its handler was overtaken, it is listed.
LEMMA ExpenseKeepsInv ==
  ASSUME IInv, NEW r \in Requests, WriteExpense(r)
  PROVE  IInv'
<1> DEFINE q == request[r]
           row == [profile |-> q.user, anchor |-> q.anchor, paid |-> FALSE]
<1>1. TypeOK /\ q \in Handlers /\ q.phase = "registering" /\ q.item \in Expenses /\ today \in Span
  BY DEF IInv, TypeOK, WriteExpense, Span
<1>2. q.user \in Users /\ q.anchor \in Int
  BY <1>1, RegisteringRow
<1>3. row \in ExpenseRows
  BY <1>2 DEF ExpenseRows
<1>4. /\ expense' = [expense EXCEPT ![q.item] = row]
      /\ request' = [request EXCEPT ![r] = Idle]
      /\ due' = IF q.overtaken = "no" THEN due \cup {q.item} ELSE due
      /\ UNCHANGED <<today, preference, income, closes, crossed>>
  BY DEF WriteExpense
<1>5. /\ request'[r] = Idle /\ Idle.phase = "idle"
      /\ \A p \in Requests \ {r} : request'[p] = request[p]
  BY <1>1, <1>4 DEF TypeOK, Idle
<1>6. /\ expense'[q.item] = row
      /\ \A e \in Expenses \ {q.item} : expense'[e] = expense[e]
      /\ Live(expense') = Live(expense) \cup {q.item}
  BY <1>1, <1>3, <1>4, MovementRows DEF TypeOK, Live
<1>7. /\ q.item \notin Live(expense)
      /\ \A p \in Requests : request[p].phase = "saving" => q.item \notin request[p].moved
      /\ \A p \in Requests \ {r} : request[p].phase = "registering" => request[p].item # q.item
  BY <1>1 DEF IInv, BoardInv, ItemsApart, InFlight
<1>8. due \subseteq Live(expense) /\ due \subseteq Expenses /\ q.item \notin due
  BY <1>1, <1>7 DEF TypeOK, Live
<1>9. TypeOK'
  <2>1. Idle \in Handlers
    BY DEF Handlers
  <2>2. expense' \in [Expenses -> ExpenseRows \cup {NoMovement}]
    BY <1>1, <1>3, <1>4 DEF TypeOK
  <2>3. due' \subseteq Live(expense')
    BY <1>4, <1>6, <1>8
  <2> QED
    BY <1>1, <1>4, <2>1, <2>2, <2>3 DEF TypeOK, Live
<1>10. BoardInv'
  <2>1. ItemsApart'
    <3>1. ASSUME NEW p \in Requests, request'[p].phase = "registering", NEW s \in Requests
          PROVE  /\ request'[p].item \notin Live(expense')
                 /\ s # p /\ request'[s].phase = "registering" => request'[s].item # request'[p].item
                 /\ request'[s].phase = "saving" => request'[p].item \notin request'[s].moved
      BY <1>5, <1>6, <1>7, <3>1 DEF IInv, BoardInv, ItemsApart, InFlight
    <3> QED
      BY <3>1 DEF ItemsApart, InFlight, Live
  <2>2. ASSUME NEW p \in Requests PROVE HoldsCycle(request[p])'
    <3>1. HoldsCycle(request[p])
      BY DEF IInv, BoardInv
    <3> QED
      BY <1>4, <1>5, <3>1 DEF HoldsCycle, CycleOf
  <2>3. ASSUME NEW p \in Requests PROVE MovedAreAnchored(p)'
    <3>1. MovedAreAnchored(p)
      BY DEF IInv, BoardInv
    <3>2. CASE p = r
      BY <1>5, <3>2 DEF MovedAreAnchored
    <3>3. CASE p # r
      <4>1. ASSUME request[p].phase = "saving"
            PROVE  \A e \in request[p].moved \cap due' : e \in due /\ expense'[e] = expense[e]
        BY <1>4, <1>6, <1>7, <1>8, <4>1
      <4> QED
        BY <1>1, <1>4, <1>5, <3>1, <3>3, <4>1 DEF MovedAreAnchored, MovedBy, InFlight
    <3> QED
      BY <3>2, <3>3
  <2>4. OpenExpensesListed'
    <3> SUFFICES ASSUME NEW e \in due'
                 PROVE  (Listed(expense[e].profile, e) \/ MovedBy(expense[e].profile, e) # {})'
      BY DEF OpenExpensesListed
    <3>1. CASE e # q.item
      <4>1. e \in due /\ expense'[e] = expense[e]
        BY <1>4, <1>6, <1>8, <3>1
      <4>2. Listed(expense[e].profile, e) \/ MovedBy(expense[e].profile, e) # {}
        BY <4>1 DEF IInv, BoardInv, OpenExpensesListed
      <4>3. CASE Listed(expense[e].profile, e)
        BY <1>4, <4>1, <4>3 DEF Listed, CycleOf
      <4>4. CASE MovedBy(expense[e].profile, e) # {}
        BY <1>1, <1>5, <4>1, <4>4 DEF MovedBy, InFlight
      <4> QED
        BY <4>2, <4>3, <4>4
    <3>2. CASE e = q.item
      <4>1. q.overtaken = "no"
        BY <1>4, <1>8, <3>2
      <4>2. q.anchor = Reference[CycleOf(preference[q.user])][today]
        BY <1>1, <4>1 DEF IInv, BoardInv, HoldsCycle
      <4>3. q.anchor \in Listing[CycleOf(preference[q.user])][today]
        BY <1>1, <1>2, <4>2, CycleOfKnown, ReferenceListed
      <4> QED
        BY <1>4, <1>6, <3>2, <4>3 DEF Listed, CycleOf
    <3> QED
      BY <3>1, <3>2
  <2> QED
    BY <2>1, <2>2, <2>3, <2>4 DEF BoardInv
<1>11. CarryoverInv'
  BY <1>4, IdleIsQuiet, OneHandlerCarryover
<1> QED
  BY <1>9, <1>10, <1>11 DEF IInv

\* Rows of expenses that stay keep their profile and their anchor.
LEMMA ExpensesKeepInv ==
  ASSUME IInv, UNCHANGED <<today, preference, request, closes, crossed>>,
         income' \in [Incomes -> IncomeRows \cup {NoMovement}],
         expense' \in [Expenses -> ExpenseRows \cup {NoMovement}],
         Live(expense') \subseteq Live(expense), due' \subseteq due \cap Live(expense'),
         \A e \in due' : expense'[e].profile = expense[e].profile /\ expense'[e].anchor = expense[e].anchor
  PROVE  IInv'
<1>1. TypeOK'
  BY DEF IInv, TypeOK, Live
<1>2. BoardInv'
  <2>1. ItemsApart'
    BY DEF IInv, BoardInv, ItemsApart, InFlight, Live
  <2>2. ASSUME NEW p \in Requests PROVE HoldsCycle(request[p])'
    <3>1. HoldsCycle(request[p])
      BY DEF IInv, BoardInv
    <3> QED
      BY <3>1 DEF HoldsCycle, CycleOf
  <2>3. ASSUME NEW p \in Requests PROVE MovedAreAnchored(p)'
    <3>1. MovedAreAnchored(p)
      BY DEF IInv, BoardInv
    <3> QED
      BY <3>1 DEF MovedAreAnchored, MovedBy, InFlight
  <2>4. OpenExpensesListed'
    BY DEF IInv, BoardInv, OpenExpensesListed, Listed, MovedBy, CycleOf, InFlight
  <2> QED
    BY <2>1, <2>2, <2>3, <2>4 DEF BoardInv
<1>3. CarryoverInv'
  <2>1. ASSUME NEW u \in Users PROVE PreferenceCovered(u)'
    BY DEF IInv, CarryoverInv, PreferenceCovered, NeedsRefresh, Covered
  <2>2. ASSUME NEW p \in Requests PROVE HandlerCovered(request[p])'
    BY DEF IInv, CarryoverInv, HandlerCovered, Covered, CycleOf
  <2> QED
    BY <2>1, <2>2 DEF CarryoverInv
<1> QED
  BY <1>1, <1>2, <1>3 DEF IInv

LEMMA PatchKeepsInv ==
  ASSUME IInv, NEW u \in Users, NEW e \in Expenses, NEW paid \in BOOLEAN, PatchExpense(u, e, paid)
  PROVE  IInv'
<1>1. /\ TypeOK /\ expense[e] \in ExpenseRows
      /\ expense' = [expense EXCEPT ![e].paid = paid]
      /\ UNCHANGED <<today, preference, income, request, due, closes, crossed>>
  BY DEF IInv, TypeOK, PatchExpense, Live, history
<1>2. /\ expense' \in [Expenses -> ExpenseRows \cup {NoMovement}]
      /\ expense'[e] \in ExpenseRows
      /\ expense'[e].profile = expense[e].profile /\ expense'[e].anchor = expense[e].anchor
      /\ \A x \in Expenses \ {e} : expense'[x] = expense[x]
  BY <1>1 DEF TypeOK, ExpenseRows
<1>3. Live(expense') = Live(expense) /\ due \subseteq Live(expense) /\ due \subseteq Expenses
  BY <1>1, <1>2, MovementRows DEF Live, TypeOK
<1> QED
  BY <1>1, <1>2, <1>3, ExpensesKeepInv DEF TypeOK

LEMMA DeletionKeepsInv ==
  ASSUME IInv,
         \/ \E u \in Users, e \in Expenses : DeleteExpense(u, e)
         \/ \E u \in Users, i \in Incomes : DeleteIncome(u, i)
  PROVE  IInv'
<1>1. TypeOK /\ due \subseteq Live(expense) /\ due \subseteq Expenses
  BY DEF IInv, TypeOK, Live
<1>2. CASE \E u \in Users, i \in Incomes : DeleteIncome(u, i)
  <2>1. /\ income' \in [Incomes -> IncomeRows \cup {NoMovement}]
        /\ UNCHANGED <<today, preference, expense, request, due, closes, crossed>>
    BY <1>1, <1>2 DEF DeleteIncome, history, TypeOK
  <2> QED
    BY <1>1, <2>1, ExpensesKeepInv DEF TypeOK
<1>3. ASSUME NEW u \in Users, NEW e \in Expenses, DeleteExpense(u, e) PROVE IInv'
  <2>1. /\ expense' = [expense EXCEPT ![e] = NoMovement] /\ due' = due \ {e}
        /\ UNCHANGED <<today, preference, income, request, closes, crossed>>
    BY <1>3 DEF DeleteExpense
  <2>2. /\ expense' \in [Expenses -> ExpenseRows \cup {NoMovement}]
        /\ \A x \in Expenses \ {e} : expense'[x] = expense[x]
        /\ Live(expense') = Live(expense) \ {e}
    BY <1>1, <2>1 DEF Live, TypeOK
  <2> QED
    BY <1>1, <2>1, <2>2, ExpensesKeepInv DEF TypeOK
<1> QED
  BY <1>2, <1>3

-----------------------------------------------------------------------------
(* Steps of the preferences.                                               *)

LEMMA ReadKeepsInv ==
  ASSUME IInv, NEW r \in Requests, NEW u \in Users,
         ReadForRollover(r, u) \/ \E cycle \in CycleChoices \cup {Keep} : ReadForUpdate(r, u, cycle)
  PROVE  IInv'
<1>1. TypeOK /\ request[r] = Idle /\ Idle.phase = "idle"
  BY DEF IInv, TypeOK, ReadForRollover, ReadForUpdate, Idle
<1>2. \E n : Quiet(n) /\ n.phase # "registering" /\ request' = [request EXCEPT ![r] = n]
  <2>1. CASE ReadForRollover(r, u)
    <3>1. /\ preference[u] # NoPreference /\ NeedsRefresh(preference[u])
          /\ request' = [request EXCEPT ![r] = Reading("aggregating", u, preference[u], Keep)]
      BY <2>1 DEF ReadForRollover
    <3>2. Quiet(Reading("aggregating", u, preference[u], Keep))
      BY <3>1, ReadingIsQuiet
    <3>3. Reading("aggregating", u, preference[u], Keep).phase = "aggregating"
      BY DEF Reading
    <3> QED
      BY <3>1, <3>2, <3>3
  <2>2. ASSUME NEW cycle \in CycleChoices \cup {Keep}, ReadForUpdate(r, u, cycle)
        PROVE  \E n : Quiet(n) /\ n.phase # "registering" /\ request' = [request EXCEPT ![r] = n]
    <3> DEFINE pref == preference[u]
               next == NextCycle(CycleOf(pref), cycle)
               save(carryover) == Saving(u, cycle, Reference[next][today], carryover, {}, "no")
    <3>1. cycle \in CyclesInUse \cup {Keep}
      BY DEF CyclesInUse
    <3>2. CASE pref = NoPreference
      <4>1. request' = [request EXCEPT ![r] = save(0)]
        BY <2>2, <3>2 DEF ReadForUpdate
      <4>2. Quiet(save(0)) /\ save(0).phase = "saving"
        BY <1>1, <3>1, NothingCovered, SavingTodayIsQuiet DEF Saving
      <4> QED
        BY <4>1, <4>2
    <3>3. CASE pref # NoPreference /\ NeedsRefresh(pref)
      <4>1. request' = [request EXCEPT ![r] = Reading("aggregating", u, pref, cycle)]
        BY <2>2, <3>3 DEF ReadForUpdate
      <4>2. Quiet(Reading("aggregating", u, pref, cycle)) /\ Reading("aggregating", u, pref, cycle).phase = "aggregating"
        BY <3>1, <3>3, ReadingIsQuiet DEF Reading
      <4> QED
        BY <4>1, <4>2
    <3>4. CASE pref # NoPreference /\ ~NeedsRefresh(pref) /\ next # pref.cycle
      <4>1. request' = [request EXCEPT ![r] = Reading("reanchoring", u, pref, cycle)]
        BY <2>2, <3>4 DEF ReadForUpdate
      <4>2. Quiet(Reading("reanchoring", u, pref, cycle)) /\ Reading("reanchoring", u, pref, cycle).phase = "reanchoring"
        BY <3>1, <3>4, ReadingIsQuiet DEF Reading
      <4> QED
        BY <4>1, <4>2
    <3>5. CASE pref # NoPreference /\ ~NeedsRefresh(pref) /\ next = pref.cycle
      <4>1. request' = [request EXCEPT ![r] = save(pref.carryover)]
        BY <2>2, <3>5 DEF ReadForUpdate
      <4>2. u \notin crossed => Covered(pref.carryover, u, 0)
        BY <3>5 DEF IInv, CarryoverInv, PreferenceCovered, OneIf
      <4>3. Quiet(save(pref.carryover)) /\ save(pref.carryover).phase = "saving"
        BY <1>1, <3>1, <3>5, <4>2, CycleOfKnown, SavingTodayIsQuiet DEF Saving
      <4> QED
        BY <4>1, <4>3
    <3> QED
      BY <3>2, <3>3, <3>4, <3>5
  <2> QED
    BY <2>1, <2>2
<1>3. UNCHANGED <<today, preference, expense, income, due, closes, crossed>>
  BY DEF ReadForRollover, ReadForUpdate, rows, history
<1> QED
  BY <1>1, <1>2, <1>3, OneHandlerMoves DEF TypeOK

LEMMA AggregateKeepsInv ==
  ASSUME IInv, NEW r \in Requests, NEW a \in {"unset", "yes", "no"}, NEW rollover \in BOOLEAN,
         Aggregate(r, a, rollover)
  PROVE  IInv'
<1>1. \E n : Quiet(n) /\ n.phase # "registering" /\ request' = [request EXCEPT ![r] = n]
  BY AggregatedIsQuiet
<1>2. request[r].phase = "aggregating" /\ UNCHANGED <<today, preference, expense, income, due, closes, crossed>>
  BY DEF Aggregate, rows, history
<1>3. TypeOK
  BY DEF IInv
<1> QED
  BY <1>1, <1>2, <1>3, OneHandlerMoves DEF TypeOK

\* What a refused save had re-anchored is no longer due.
LEMMA RefusalKeepsInv ==
  ASSUME IInv, NEW r \in Requests, RefuseSave(r)
  PROVE  IInv'
<1>1. /\ request' = [request EXCEPT ![r] = Idle] /\ due' = due \ request[r].moved
      /\ UNCHANGED <<today, preference, expense, income, closes, crossed>>
  BY DEF RefuseSave, rows
<1>2. TypeOK /\ Idle.phase # "registering"
  BY DEF IInv, Idle
<1> QED
  BY <1>1, <1>2, IdleIsQuiet, OneHandlerMoves DEF TypeOK

\* A save that has moved expenses has anchored all of them where its cycle lists them.
LEMMA ReanchorKeepsInv ==
  ASSUME IInv, NEW r \in Requests, Reanchor(r)
  PROVE  IInv'
<1> DEFINE q == request[r]
           shown == {e \in Live(expense) : /\ expense[e].profile \in Access[q.user]
                                           /\ expense[e].anchor \in Listing[q.before][q.day]}
           anchor == Reference[q.cycle][q.day]
           n == Saving(q.user, q.cycle, anchor, q.carryover, shown, q.overtaken)
<1>1. TypeOK /\ q \in Handlers /\ q.phase = "reanchoring"
  BY DEF IInv, TypeOK, Reanchor
<1>2. /\ q.user \in Users /\ q.before \in CyclesInUse /\ q.cycle \in CyclesInUse \cup {Keep}
      /\ q.carryover \in Nat /\ q.day \in Span /\ q.overtaken \in Overtaken
  BY <1>1, ReadingRow
<1>3. HoldsCycle(q) /\ q.cycle # Keep /\ q.cycle # q.before /\ q.cycle \in CyclesInUse
  BY <1>1, <1>2 DEF IInv, BoardInv, HoldsCycle
<1>4. anchor \in Int
  BY <1>2, <1>3, ReferenceListed
<1>5. /\ expense' = [e \in Expenses |-> IF e \in shown THEN [expense[e] EXCEPT !.anchor = anchor] ELSE expense[e]]
      /\ due' = {e \in due : e \in shown => expense[e].profile = q.user}
      /\ request' = [request EXCEPT ![r] = n]
      /\ UNCHANGED <<today, preference, income, closes, crossed>>
  BY DEF Reanchor
<1>6. shown \subseteq Live(expense) /\ shown \subseteq Expenses
  BY <1>1 DEF Live, TypeOK
<1>7. n \in Handlers
  BY <1>2, <1>4, <1>6, SavingIsHandler
<1>8. /\ n.phase = "saving" /\ n.user = q.user /\ n.cycle = q.cycle /\ n.incomeRef = anchor
      /\ n.carryover = q.carryover /\ n.moved = shown /\ n.overtaken = q.overtaken
  BY DEF Saving
<1> HIDE DEF n, anchor, shown
<1>9. request'[r] = n /\ \A p \in Requests \ {r} : request'[p] = request[p]
  BY <1>1, <1>5 DEF TypeOK
<1>10. /\ expense' \in [Expenses -> ExpenseRows \cup {NoMovement}]
       /\ \A e \in Expenses \ shown : expense'[e] = expense[e]
       /\ \A e \in shown : /\ expense[e] \in ExpenseRows /\ expense'[e] \in ExpenseRows
                           /\ expense'[e].profile = expense[e].profile
                           /\ expense'[e].anchor = anchor
  <2>1. \A e \in shown : expense[e] \in ExpenseRows
    BY <1>1, <1>6 DEF TypeOK, Live
  <2>2. \A e \in shown : expense'[e] = [expense[e] EXCEPT !.anchor = anchor]
    BY <1>5, <1>6
  <2>3. \A e \in Expenses \ shown : expense'[e] = expense[e]
    BY <1>5
  <2>4. \A e \in shown : /\ expense'[e] \in ExpenseRows
                         /\ expense'[e].profile = expense[e].profile
                         /\ expense'[e].anchor = anchor
    BY <1>4, <2>1, <2>2 DEF ExpenseRows
  <2>5. expense' \in [Expenses -> ExpenseRows \cup {NoMovement}]
    BY <1>1, <1>5, <1>6, <2>3, <2>4 DEF TypeOK
  <2> QED
    BY <2>1, <2>3, <2>4, <2>5
<1>11. Live(expense') = Live(expense) /\ due \subseteq Live(expense) /\ due \subseteq Expenses
  BY <1>1, <1>6, <1>10, MovementRows DEF TypeOK, Live
<1>12. TypeOK'
  BY <1>1, <1>5, <1>7, <1>10, <1>11 DEF TypeOK, Live
<1>13. BoardInv'
  <2>1. ItemsApart'
    <3>1. ASSUME NEW p \in Requests, request'[p].phase = "registering", NEW s \in Requests
          PROVE  /\ request'[p].item \notin Live(expense')
                 /\ s # p /\ request'[s].phase = "registering" => request'[s].item # request'[p].item
                 /\ request'[s].phase = "saving" => request'[p].item \notin request'[s].moved
      <4>1. /\ p # r /\ request'[p] = request[p] /\ request[p].item \notin Live(expense)
            /\ s # p /\ request[s].phase = "registering" => request[s].item # request[p].item
            /\ request[s].phase = "saving" => request[p].item \notin request[s].moved
        BY <1>8, <1>9, <3>1 DEF IInv, BoardInv, ItemsApart, InFlight
      <4>2. CASE s = r
        BY <1>6, <1>8, <1>9, <1>11, <4>1, <4>2
      <4>3. CASE s # r
        BY <1>9, <1>11, <4>1, <4>3
      <4> QED
        BY <4>2, <4>3
    <3> QED
      BY <3>1 DEF ItemsApart, InFlight, Live
  <2>2. ASSUME NEW p \in Requests PROVE HoldsCycle(request[p])'
    <3>1. HoldsCycle(request[p])
      BY DEF IInv, BoardInv
    <3>2. CASE p # r
      BY <1>5, <1>9, <3>1, <3>2 DEF HoldsCycle, CycleOf
    <3>3. CASE p = r
      BY <1>1, <1>3, <1>5, <1>8, <1>9, <3>3 DEF HoldsCycle, CycleOf
    <3> QED
      BY <3>2, <3>3
  <2>3. ASSUME NEW p \in Requests PROVE MovedAreAnchored(p)'
    <3>1. MovedAreAnchored(p)
      BY DEF IInv, BoardInv
    <3>2. CASE p = r
      <4>1. q.overtaken = "no" => q.day = today
        BY <1>1, <1>3 DEF HoldsCycle
      <4>2. request'[r].overtaken = "no" => anchor = Reference[request'[r].cycle][today']
        BY <1>5, <1>8, <1>9, <4>1 DEF anchor
      <4>3. \A e \in request'[r].moved : expense'[e].anchor = anchor
        BY <1>8, <1>9, <1>10
      <4> QED
        BY <3>2, <4>2, <4>3 DEF MovedAreAnchored
    <3>3. CASE p # r
      <4> SUFFICES ASSUME request[p].phase = "saving", request[p].overtaken = "no",
                          NEW e \in request[p].moved \cap due', expense'[e].profile = request[p].user
                   PROVE  \/ expense'[e].anchor = Reference[request[p].cycle][today]
                          \/ MovedBy(request[p].user, e)' \ {p} # {}
        BY <1>5, <1>9, <3>3 DEF MovedAreAnchored, MovedBy, InFlight
      <4>1. e \in due /\ e \in Expenses /\ expense'[e].profile = expense[e].profile
        BY <1>5, <1>10, <1>11
      <4>2. CASE e \in shown
        <5>1. expense[e].profile = q.user /\ request[p].user = q.user
          BY <1>5, <4>1, <4>2
        <5>2. r \in MovedBy(request[p].user, e)'
          BY <1>8, <1>9, <3>3, <4>2, <5>1 DEF MovedBy, InFlight
        <5> QED
          BY <3>3, <5>2
      <4>3. CASE e \notin shown
        <5>1. expense'[e] = expense[e]
          BY <1>10, <4>1, <4>3
        <5>2. \/ expense[e].anchor = Reference[request[p].cycle][today]
              \/ MovedBy(request[p].user, e) \ {p} # {}
          BY <3>1, <4>1 DEF MovedAreAnchored
        <5> QED
          BY <1>1, <1>9, <3>3, <5>1, <5>2 DEF MovedBy, InFlight
      <4> QED
        BY <4>2, <4>3
    <3> QED
      BY <3>2, <3>3
  <2>4. OpenExpensesListed'
    <3> SUFFICES ASSUME NEW e \in due'
                 PROVE  (Listed(expense[e].profile, e) \/ MovedBy(expense[e].profile, e) # {})'
      BY DEF OpenExpensesListed
    <3>1. e \in due /\ e \in Expenses /\ expense'[e].profile = expense[e].profile
      BY <1>5, <1>10, <1>11
    <3>2. CASE e \in shown
      BY <1>5, <1>8, <1>9, <3>1, <3>2 DEF MovedBy, InFlight
    <3>3. CASE e \notin shown
      <4>1. expense'[e] = expense[e]
        BY <1>10, <3>1, <3>3
      <4>2. Listed(expense[e].profile, e) \/ MovedBy(expense[e].profile, e) # {}
        BY <3>1 DEF IInv, BoardInv, OpenExpensesListed
      <4>3. CASE Listed(expense[e].profile, e)
        BY <1>5, <4>1, <4>3 DEF Listed, CycleOf
      <4>4. CASE MovedBy(expense[e].profile, e) # {}
        BY <1>1, <1>9, <4>1, <4>4 DEF MovedBy, InFlight
      <4> QED
        BY <4>2, <4>3, <4>4
    <3> QED
      BY <3>2, <3>3
  <2> QED
    BY <2>1, <2>2, <2>3, <2>4 DEF BoardInv
<1>14. CarryoverInv'
  <2>1. HandlerCovered(q)
    BY DEF IInv, CarryoverInv
  <2>2. NextCycle(q.before, q.cycle) = q.cycle /\ NextCycle(CycleOf(preference[q.user]), q.cycle) = q.cycle
    BY <1>3 DEF NextCycle
  <2>3. HandlerCovered(n)
    BY <1>1, <1>8, <2>1, <2>2 DEF HandlerCovered, PreferencePhases, anchor
  <2>4. ASSUME NEW u \in Users PROVE PreferenceCovered(u)'
    BY <1>5 DEF IInv, CarryoverInv, PreferenceCovered, NeedsRefresh, Covered
  <2>5. ASSUME NEW p \in Requests PROVE HandlerCovered(request[p])'
    <3>1. CASE p # r
      BY <1>5, <1>9, <3>1 DEF IInv, CarryoverInv, HandlerCovered, Covered, CycleOf
    <3>2. CASE p = r
      BY <1>5, <1>9, <2>3, <3>2 DEF HandlerCovered, Covered, CycleOf
    <3> QED
      BY <3>1, <3>2
  <2> QED
    BY <2>4, <2>5 DEF CarryoverInv
<1> QED
  BY <1>12, <1>13, <1>14 DEF IInv

\* A save that changes the cycle overtakes every other handler of its user; what its cycle
\* does not list is no longer due.
LEMMA SaveKeepsInv ==
  ASSUME IInv, NEW r \in Requests, Save(r)
  PROVE  IInv'
<1> DEFINE q == request[r]
           u == q.user
           old == CycleOf(preference[u])
           new == NextCycle(old, q.cycle)
           saved == Preference(new, q.incomeRef, q.carryover)
           mine == {e \in due : expense[e].profile = u}
<1>1. TypeOK /\ q \in Handlers /\ q.phase = "saving" /\ today \in Span
  BY DEF IInv, TypeOK, Save, Span
<1>2. /\ u \in Users /\ q.cycle \in CyclesInUse \cup {Keep} /\ q.incomeRef \in Int
      /\ q.carryover \in Nat /\ q.moved \in SUBSET Expenses /\ q.overtaken \in Overtaken
  BY <1>1, SavingRow
<1>3. old \in CyclesInUse /\ new \in CyclesInUse /\ (q.cycle # Keep => new = q.cycle)
  BY <1>1, <1>2, CycleOfKnown, NextCycleKnown
<1>4. /\ preference' = [preference EXCEPT ![u] = saved]
      /\ due' = IF new = old /\ q.moved = {} THEN due
                ELSE IF q.overtaken = "no" THEN due \ (mine \ q.moved) ELSE due \ mine
      /\ crossed' = IF q.overtaken = "cycle" THEN crossed \cup {u} ELSE crossed
      /\ UNCHANGED <<today, expense, income, closes>>
  BY DEF Save
<1>5. /\ request'[r] = Idle /\ Idle.phase = "idle"
      /\ \A p \in Requests \ {r} :
           request'[p] = IF request[p].phase # "idle" /\ request[p].user = u /\ new # old
                         THEN [request[p] EXCEPT !.overtaken = "cycle"] ELSE request[p]
  <2>1. \A p \in Requests : request[p].phase \in {"idle", "registering", "aggregating", "reanchoring", "saving"}
    BY <1>1, HandlerRow DEF TypeOK
  <2> QED
    BY <2>1 DEF Save, InFlight, PreferencePhases, Idle
<1>6. CycleOf(preference'[u]) = new /\ preference'[u] = saved /\ saved \in Preferences
      /\ \A v \in Users \ {u} : preference'[v] = preference[v]
  BY <1>1, <1>2, <1>3, <1>4, PreferenceRow DEF TypeOK
<1> HIDE DEF u, old, new, saved
\* Another handler is as it was, and in the same cycle, or it is overtaken.
<1>7. ASSUME NEW p \in Requests \ {r}
      PROVE  \/ /\ request'[p] = request[p]
                /\ request[p].phase # "idle" =>
                     request[p].user \in Users /\ CycleOf(preference'[request[p].user]) = CycleOf(preference[request[p].user])
                /\ request[p].phase # "idle" /\ request[p].user = u => new = old
             \/ /\ request[p].phase # "idle"
                /\ request'[p] = [request[p] EXCEPT !.overtaken = "cycle"]
  <2>1. request[p].phase # "idle" => request[p].user \in Users
    BY <1>1, HandlerRow, RegisteringRow, ReadingRow, SavingRow DEF TypeOK
  <2> QED
    BY <1>5, <1>6, <2>1 DEF old
<1>8. ASSUME NEW p \in Requests \ {r}
      PROVE  /\ request'[p].phase = request[p].phase /\ request'[p] \in Handlers
             /\ request[p].phase = "registering" => request'[p].item = request[p].item
             /\ request[p].phase = "saving" =>
                  /\ request'[p].user = request[p].user /\ request'[p].cycle = request[p].cycle
                  /\ request'[p].moved = request[p].moved
             /\ \/ /\ request'[p] = request[p]
                   /\ request[p].phase # "idle" =>
                        CycleOf(preference'[request[p].user]) = CycleOf(preference[request[p].user])
                   /\ request[p].phase # "idle" /\ request[p].user = u => new = old
                \/ request'[p].overtaken = "cycle"
             /\ request[p].phase \in {"aggregating", "reanchoring"} =>
                  request'[p].cycle = request[p].cycle /\ request'[p].before = request[p].before
  <2>1. request[p] \in Handlers
    BY <1>1 DEF TypeOK
  <2>2. CASE request[p].phase # "idle" /\ request'[p] = [request[p] EXCEPT !.overtaken = "cycle"]
    <3> DEFINE n == [request[p] EXCEPT !.overtaken = "cycle"]
    <3>1. "cycle" \in Overtaken
      BY DEF Overtaken
    <3>2. /\ n \in Handlers /\ n.phase = request[p].phase /\ n.user = request[p].user /\ n.overtaken = "cycle"
          /\ request[p].phase = "registering" => n.item = request[p].item
          /\ request[p].phase \in {"aggregating", "reanchoring"} =>
               n.before = request[p].before /\ n.cycle = request[p].cycle
          /\ request[p].phase = "saving" => n.cycle = request[p].cycle /\ n.moved = request[p].moved
      BY <2>1, <2>2, <3>1, OvertakenRow
    <3> HIDE DEF n
    <3>3. request'[p] = n
      BY <2>2 DEF n
    <3> QED
      BY <3>2, <3>3
  <2>3. CASE request'[p] = request[p]
    BY <1>7, <2>1, <2>2, <2>3
  <2> QED
    BY <1>7, <2>2, <2>3
<1>9. due' \subseteq due /\ due \subseteq Expenses
  BY <1>1, <1>4 DEF TypeOK, Live
<1>10. TypeOK'
  <2>1. Idle \in Handlers /\ DOMAIN request' = Requests
    BY DEF Handlers, Save
  <2>2. request' \in [Requests -> Handlers]
    <3>1. \A p \in Requests : request'[p] \in Handlers
      BY <1>5, <1>8, <2>1
    <3>2. request' = [p \in Requests |-> request'[p]]
      BY DEF Save
    <3> QED
      BY <3>1, <3>2
  <2> QED
    BY <1>1, <1>2, <1>4, <1>6, <1>9, <2>2 DEF TypeOK, Live
<1>11. BoardInv'
  <2>1. ItemsApart'
    <3>1. ASSUME NEW p \in Requests, request'[p].phase = "registering", NEW s \in Requests
          PROVE  /\ request'[p].item \notin Live(expense)
                 /\ s # p /\ request'[s].phase = "registering" => request'[s].item # request'[p].item
                 /\ request'[s].phase = "saving" => request'[p].item \notin request'[s].moved
      <4>1. p # r /\ (request'[s].phase \in {"registering", "saving"} => s # r)
        BY <1>5, <3>1
      <4>2. request[p].phase = "registering" /\ request'[p].item = request[p].item
        BY <1>8, <3>1, <4>1
      <4>3. /\ request[p].item \notin Live(expense)
            /\ s # p /\ request[s].phase = "registering" => request[s].item # request[p].item
            /\ request[s].phase = "saving" => request[p].item \notin request[s].moved
        BY <4>2 DEF IInv, BoardInv, ItemsApart, InFlight
      <4> QED
        BY <1>8, <4>1, <4>2, <4>3
    <3> QED
      BY <1>4, <3>1 DEF ItemsApart, InFlight, Live
  <2>2. ASSUME NEW p \in Requests PROVE HoldsCycle(request[p])'
    <3>1. HoldsCycle(request[p])
      BY DEF IInv, BoardInv
    <3>2. CASE p = r
      BY <1>5, <3>2 DEF HoldsCycle
    <3>3. CASE /\ p # r /\ request'[p] = request[p]
               /\ request[p].phase # "idle" =>
                    CycleOf(preference'[request[p].user]) = CycleOf(preference[request[p].user])
      BY <1>4, <3>1, <3>3 DEF HoldsCycle
    <3>4. CASE p # r /\ request'[p].overtaken = "cycle"
      BY <1>8, <3>1, <3>4 DEF HoldsCycle
    <3> QED
      BY <1>8, <3>2, <3>3, <3>4
  \* Moved expenses of this save: its cycle is new, unless another change overtook it.
  <2>3. q.moved # {} => /\ q.cycle # Keep /\ new = q.cycle
                        /\ q.overtaken = "no" => new # old
    <3>1. HoldsCycle(q)
      BY DEF IInv, BoardInv
    <3> QED
      BY <1>1, <1>3, <3>1 DEF HoldsCycle, old, u
  <2>4. ASSUME NEW p \in Requests PROVE MovedAreAnchored(p)'
    <3>1. MovedAreAnchored(p)
      BY DEF IInv, BoardInv
    <3>2. SUFFICES ASSUME p # r, request'[p] = request[p], request[p].phase = "saving", request[p].overtaken = "no",
                          NEW e \in request[p].moved \cap due', expense[e].profile = request[p].user
                   PROVE  \/ expense[e].anchor = Reference[request[p].cycle][today]
                          \/ MovedBy(request[p].user, e)' \ {p} # {}
      BY <1>4, <1>5, <1>8 DEF MovedAreAnchored
    <3>3. \/ expense[e].anchor = Reference[request[p].cycle][today]
          \/ MovedBy(request[p].user, e) \ {p} # {}
      BY <1>9, <3>1, <3>2 DEF MovedAreAnchored
    <3>4. ASSUME NEW s \in MovedBy(request[p].user, e), s # p
          PROVE  MovedBy(request[p].user, e)' \ {p} # {}
      <4>1. s # r
        <5>1. SUFFICES ASSUME s = r PROVE FALSE
          OBVIOUS
        <5>2. request[p].user = u /\ e \in q.moved /\ e \in mine
          BY <1>9, <3>2, <3>4, <5>1 DEF MovedBy, u
        <5>3. new = old
          BY <1>5, <1>8, <3>2, <5>2
        <5>4. q.overtaken # "no"
          BY <2>3, <5>2, <5>3
        <5> QED
          BY <1>4, <3>2, <5>2, <5>4
      <4>2. s \in Requests /\ request[s].phase = "saving" /\ request[s].user = request[p].user /\ e \in request[s].moved
        BY <3>4 DEF MovedBy, InFlight
      <4>3. s \in MovedBy(request[p].user, e)'
        BY <1>8, <3>2, <4>1, <4>2 DEF MovedBy, InFlight
      <4> QED
        BY <3>2, <3>4, <4>3
    <3> QED
      BY <3>3, <3>4
  <2>5. OpenExpensesListed'
    <3> SUFFICES ASSUME NEW e \in due'
                 PROVE  (Listed(expense[e].profile, e) \/ MovedBy(expense[e].profile, e) # {})'
      BY DEF OpenExpensesListed
    <3>1. e \in due /\ e \in Expenses /\ expense'[e] = expense[e] /\ expense[e].profile \in Users
      BY <1>1, <1>4, <1>9 DEF TypeOK, Live, ExpenseRows
    <3>2. Listed(expense[e].profile, e) \/ MovedBy(expense[e].profile, e) # {}
      BY <3>1 DEF IInv, BoardInv, OpenExpensesListed
    <3>3. ASSUME NEW s \in MovedBy(expense[e].profile, e), s # r
          PROVE  MovedBy(expense[e].profile, e)' # {}
      <4>1. s \in Requests /\ request[s].phase = "saving" /\ request[s].user = expense[e].profile /\ e \in request[s].moved
        BY <3>3 DEF MovedBy, InFlight
      <4> QED
        BY <1>8, <3>1, <3>3, <4>1 DEF MovedBy, InFlight
    <3>4. CASE expense[e].profile # u \/ (new = old /\ q.moved = {})
      <4>1. CycleOf(preference'[expense[e].profile]) = CycleOf(preference[expense[e].profile])
        BY <1>6, <3>1, <3>4 DEF old
      <4>2. r \notin MovedBy(expense[e].profile, e)
        BY <3>4 DEF MovedBy, u
      <4>3. CASE Listed(expense[e].profile, e)
        BY <1>4, <3>1, <4>1, <4>3 DEF Listed
      <4> QED
        BY <3>2, <3>3, <4>2, <4>3
    <3>5. CASE expense[e].profile = u /\ ~(new = old /\ q.moved = {})
      <4>1. q.overtaken = "no" /\ e \in q.moved
        BY <1>4, <3>1, <3>5
      <4>2. new = q.cycle
        BY <2>3, <4>1
      <4>3. \/ expense[e].anchor = Reference[q.cycle][today]
            \/ MovedBy(q.user, e) \ {r} # {}
        BY <1>1, <3>1, <3>5, <4>1 DEF IInv, BoardInv, MovedAreAnchored, u
      <4>4. CASE expense[e].anchor = Reference[q.cycle][today]
        BY <1>1, <1>3, <1>4, <1>6, <3>1, <3>5, <4>2, <4>4, ReferenceListed DEF Listed
      <4>5. CASE MovedBy(q.user, e) \ {r} # {}
        BY <3>1, <3>3, <3>5, <4>5 DEF u
      <4> QED
        BY <4>3, <4>4, <4>5
    <3> QED
      BY <3>4, <3>5
  <2> QED
    BY <2>1, <2>2, <2>4, <2>5 DEF BoardInv
<1>12. CarryoverInv'
  <2>1. ASSUME NEW v \in Users PROVE PreferenceCovered(v)'
    <3>1. CASE v # u
      BY <1>2, <1>4, <1>6, <3>1 DEF IInv, CarryoverInv, PreferenceCovered, NeedsRefresh, Covered
    <3>2. CASE v = u
      <4>1. SUFFICES ASSUME u \notin crossed, q.overtaken # "cycle" PROVE PreferenceCovered(v)'
        BY <1>4, <3>2 DEF PreferenceCovered
      <4>2. Covered(q.carryover, u, OneIf(q.incomeRef # Reference[new][today]))
        BY <1>1, <4>1 DEF IInv, CarryoverInv, HandlerCovered, PreferencePhases, new, old, u
      <4>3. /\ saved.cycle = new /\ saved.incomeRef = q.incomeRef /\ saved.carryover = q.carryover
            /\ saved # NoPreference
        BY <1>6, MovementRows DEF saved, Preference
      <4> QED
        BY <1>4, <1>6, <3>2, <4>2, <4>3 DEF PreferenceCovered, NeedsRefresh, Covered
    <3> QED
      BY <3>1, <3>2
  <2>2. ASSUME NEW p \in Requests PROVE HandlerCovered(request[p])'
    <3>1. CASE p = r
      BY <1>5, <3>1 DEF HandlerCovered, PreferencePhases
    <3>2. CASE /\ p # r /\ request'[p] = request[p]
               /\ request[p].phase # "idle" =>
                    CycleOf(preference'[request[p].user]) = CycleOf(preference[request[p].user])
      <4>1. HandlerCovered(request[p])
        BY DEF IInv, CarryoverInv
      <4>2. request[p].phase \in PreferencePhases =>
              CycleOf(preference'[request[p].user]) = CycleOf(preference[request[p].user])
        BY <3>2 DEF PreferencePhases
      <4> QED
        BY <1>4, <3>2, <4>1, <4>2 DEF HandlerCovered, Covered
    <3>3. CASE p # r /\ request'[p].overtaken = "cycle"
      BY <3>3 DEF HandlerCovered
    <3> QED
      BY <1>8, <3>1, <3>2, <3>3
  <2> QED
    BY <2>1, <2>2 DEF CarryoverInv
<1> QED
  BY <1>10, <1>11, <1>12 DEF IInv
-----------------------------------------------------------------------------
(* Midnight.                                                               *)

\* A close covers what the reference month has fallen behind by one day more.
LEMMA CoveredAtMidnight ==
  ASSUME TypeOK, NEW a \in Nat, NEW u \in Users, NEW m \in Nat, NEW n \in Nat,
         Covered(a, u, m), closes'[u] \in Nat,
         \/ closes'[u] = closes[u] /\ n <= m
         \/ closes'[u] = closes[u] + 1 /\ n <= m + 1
  PROVE  closes'[u] >= n /\ a <= (closes'[u] - n) * MostPerClose
<1>1. closes[u] \in Nat /\ MostPerClose \in Nat
  BY CycleAssumption, FS_CardinalityType DEF TypeOK, MostPerClose
<1>2. closes[u] - m \in Nat /\ closes'[u] - n \in Nat /\ closes[u] - m <= closes'[u] - n
  BY <1>1 DEF Covered
<1>3. /\ (closes[u] - m) * MostPerClose <= (closes'[u] - n) * MostPerClose
      /\ (closes[u] - m) * MostPerClose \in Nat /\ (closes'[u] - n) * MostPerClose \in Nat
  BY <1>1, <1>2, ProductGrows
<1> QED
  BY <1>1, <1>2, <1>3 DEF Covered

LEMMA TickKeepsInv ==
  ASSUME IInv, Tick
  PROVE  IInv'
<1>1. TypeOK /\ today \in Span /\ today + 1 \in Span
  <2>1. TypeOK /\ today \in Span /\ today < LastDay
    BY DEF IInv, TypeOK, Tick, Span
  <2>2. StartDay \in Int /\ LastDay \in Int
    BY CycleAssumption, MonthBounds DEF Days, DaysOf, InnerMonths
  <2> QED
    BY <2>1, <2>2 DEF Span
<1>2. /\ today' = today + 1
      /\ closes' = [u \in Users |-> IF \E c \in CyclesOf(u) : Turns(c) THEN closes[u] + 1 ELSE closes[u]]
      /\ due' = {e \in due : ~Turns(CycleOf(preference[expense[e].profile]))}
      /\ UNCHANGED <<preference, expense, income, crossed>>
      /\ \A p \in Requests :
           request'[p] = IF request[p] # Idle /\ request[p].overtaken = "no"
                         THEN [request[p] EXCEPT !.overtaken = "midnight"] ELSE request[p]
  BY DEF Tick, rows
<1>3. ASSUME NEW p \in Requests
      PROVE  /\ request'[p].phase = request[p].phase /\ request'[p] \in Handlers
             /\ request[p].phase # "idle" =>
                  /\ request'[p].user = request[p].user
                  /\ request'[p].overtaken # "no"
                  /\ request'[p].overtaken = "cycle" <=> request[p].overtaken = "cycle"
             /\ request[p].phase = "registering" => request'[p].item = request[p].item
             /\ request[p].phase \in {"aggregating", "reanchoring"} =>
                  /\ request'[p].cycle = request[p].cycle /\ request'[p].before = request[p].before
                  /\ request'[p].carryover = request[p].carryover /\ request'[p].day = request[p].day
             /\ request[p].phase = "saving" =>
                  /\ request'[p].cycle = request[p].cycle /\ request'[p].incomeRef = request[p].incomeRef
                  /\ request'[p].carryover = request[p].carryover /\ request'[p].moved = request[p].moved
  <2> DEFINE q == request[p]
             n == [request[p] EXCEPT !.overtaken = "midnight"]
  <2>1. q \in Handlers /\ "midnight" \in Overtaken /\ (q.phase = "idle" <=> q = Idle)
    BY <1>1, HandlerRow DEF TypeOK, Overtaken
  <2>2. CASE q # Idle /\ q.overtaken = "no"
    <3>1. /\ n \in Handlers /\ n.phase = q.phase /\ n.user = q.user /\ n.overtaken = "midnight"
          /\ q.phase = "registering" => n.item = q.item
          /\ q.phase \in {"aggregating", "reanchoring"} =>
               n.before = q.before /\ n.cycle = q.cycle /\ n.carryover = q.carryover /\ n.day = q.day
          /\ q.phase = "saving" =>
               n.cycle = q.cycle /\ n.incomeRef = q.incomeRef /\ n.carryover = q.carryover /\ n.moved = q.moved
      BY <2>1, <2>2, OvertakenRow
    <3>2. request'[p] = n
      BY <1>2, <2>2
    <3> HIDE DEF n
    <3> QED
      BY <2>2, <3>1, <3>2
  <2>3. CASE ~(q # Idle /\ q.overtaken = "no")
    <3>1. request'[p] = q
      BY <1>2, <2>3
    <3> QED
      BY <2>1, <2>3, <3>1
  <2> QED
    BY <2>2, <2>3
<1>4. TypeOK'
  <2>1. request' \in [Requests -> Handlers]
    <3>1. request' = [p \in Requests |-> request'[p]]
      BY DEF Tick
    <3> QED
      BY <1>3, <3>1
  <2>2. closes' \in [Users -> Nat]
    BY <1>1, <1>2 DEF TypeOK
  <2> QED
    BY <1>1, <1>2, <2>1, <2>2 DEF TypeOK, Live, Span
<1>5. BoardInv'
  <2>1. ItemsApart'
    BY <1>2, <1>3 DEF IInv, BoardInv, ItemsApart, InFlight, Live
  <2>2. ASSUME NEW p \in Requests PROVE HoldsCycle(request[p])'
    <3>1. HoldsCycle(request[p])
      BY DEF IInv, BoardInv
    <3> QED
      BY <1>2, <1>3, <3>1 DEF HoldsCycle, CycleOf
  <2>3. ASSUME NEW p \in Requests PROVE MovedAreAnchored(p)'
    BY <1>3 DEF MovedAreAnchored
  <2>4. OpenExpensesListed'
    <3> SUFFICES ASSUME NEW e \in due'
                 PROVE  (Listed(expense[e].profile, e) \/ MovedBy(expense[e].profile, e) # {})'
      BY DEF OpenExpensesListed
    <3> DEFINE v == expense[e].profile
               c == CycleOf(preference[v])
    <3>1. e \in due /\ ~Turns(c) /\ expense'[e] = expense[e] /\ v \in Users
      BY <1>1, <1>2 DEF TypeOK, Live, ExpenseRows
    <3>2. Listed(v, e) \/ MovedBy(v, e) # {}
      BY <3>1 DEF IInv, BoardInv, OpenExpensesListed
    <3>3. CASE Listed(v, e)
      <4>1. Listing[c][today + 1] = Listing[c][today]
        BY <1>1, <3>1, BoardStays, CycleOfKnown DEF Turns
      <4> QED
        BY <1>2, <3>1, <3>3, <4>1 DEF Listed, CycleOf
    <3>4. CASE MovedBy(v, e) # {}
      BY <1>3, <3>1, <3>4 DEF MovedBy, InFlight
    <3> QED
      BY <3>2, <3>3, <3>4
  <2> QED
    BY <2>1, <2>2, <2>3, <2>4 DEF BoardInv
<1>6. ASSUME NEW u \in Users, NEW c \in CyclesOf(u), Turns(c)
      PROVE  closes'[u] = closes[u] + 1
  BY <1>2, <1>6
<1>7. ASSUME NEW u \in Users
      PROVE  closes'[u] \in Nat /\ closes[u] \in Nat /\ (closes'[u] = closes[u] \/ closes'[u] = closes[u] + 1)
  BY <1>1, <1>2 DEF TypeOK
<1>8. CarryoverInv'
  <2>1. ASSUME NEW u \in Users PROVE PreferenceCovered(u)'
    <3> DEFINE pref == preference[u]
               m == OneIf(pref.incomeRef # Reference[pref.cycle][today])
               n == OneIf(pref.incomeRef # Reference[pref.cycle][today + 1])
    <3>1. SUFFICES ASSUME pref # NoPreference, u \notin crossed
                   PROVE  closes'[u] >= n /\ pref.carryover <= (closes'[u] - n) * MostPerClose
      BY <1>2 DEF PreferenceCovered, NeedsRefresh, Covered
    <3>2. Covered(pref.carryover, u, m)
      BY <3>1 DEF IInv, CarryoverInv, PreferenceCovered, NeedsRefresh
    <3>3. pref.cycle \in CyclesOf(u) /\ pref.carryover \in Nat
      BY <1>1, <3>1, CycleOfKnown DEF CyclesOf
    <3>4. n <= m \/ (Turns(pref.cycle) /\ n <= m + 1)
      BY DEF OneIf, Turns
    <3>5. m \in Nat /\ n \in Nat
      BY DEF OneIf
    <3> HIDE DEF m, n
    <3>6. \/ closes'[u] = closes[u] /\ n <= m
          \/ closes'[u] = closes[u] + 1 /\ n <= m + 1
      BY <1>6, <1>7, <3>3, <3>4, <3>5
    <3> QED
      BY <1>1, <1>7, <3>2, <3>3, <3>5, <3>6, CoveredAtMidnight
  <2>2. ASSUME NEW p \in Requests PROVE HandlerCovered(request[p])'
    <3> DEFINE q == request[p]
               u == q.user
               c == NextCycle(CycleOf(preference[u]), q.cycle)
               anchor == IF q.phase = "saving" THEN q.incomeRef ELSE Reference[c][q.day]
               base == IF q.phase = "aggregating" THEN 1 ELSE 0
               m == base + OneIf(anchor # Reference[c][today])
               n == base + OneIf(anchor # Reference[c][today + 1])
    <3>1. SUFFICES ASSUME q.phase \in PreferencePhases, u \notin crossed, q.overtaken # "cycle"
                   PROVE  HandlerCovered(request[p])'
      BY <1>2, <1>3, HandlerRow DEF HandlerCovered, PreferencePhases
    <3>2. q \in Handlers /\ q.phase \in {"aggregating", "reanchoring", "saving"}
      BY <1>1, <3>1 DEF TypeOK, PreferencePhases
    <3>3. u \in Users /\ q.cycle \in CyclesInUse \cup {Keep} /\ q.carryover \in Nat
      BY <3>2, ReadingRow, SavingRow
    <3>4. q.phase # "saving" => q.before = CycleOf(preference[u])
      BY <3>1, <3>2 DEF IInv, BoardInv, HoldsCycle
    <3>5. c \in CyclesOf(u)
      BY <3>1 DEF CyclesOf, NextCycle, InFlight
    <3>6. Covered(q.carryover, u, m)
      <4>1. HandlerCovered(q)
        BY DEF IInv, CarryoverInv
      <4>2. CASE q.phase = "aggregating"
        BY <3>1, <3>4, <4>1, <4>2 DEF HandlerCovered
      <4>3. CASE q.phase = "reanchoring"
        <5>1. Covered(q.carryover, u, OneIf(anchor # Reference[c][today]))
          BY <3>1, <3>4, <4>1, <4>3 DEF HandlerCovered
        <5>2. m = OneIf(anchor # Reference[c][today])
          BY <4>3 DEF OneIf
        <5> QED
          BY <5>1, <5>2
      <4>4. CASE q.phase = "saving"
        <5>1. Covered(q.carryover, u, OneIf(anchor # Reference[c][today]))
          BY <3>1, <4>1, <4>4 DEF HandlerCovered
        <5>2. m = OneIf(anchor # Reference[c][today])
          BY <4>4 DEF OneIf
        <5> QED
          BY <5>1, <5>2
      <4> QED
        BY <3>2, <4>2, <4>3, <4>4
    <3>7. m \in Nat /\ n \in Nat /\ (n <= m \/ (Turns(c) /\ n <= m + 1))
      BY DEF OneIf, Turns
    <3> HIDE DEF m
    <3>8. \/ closes'[u] = closes[u] /\ n <= m
          \/ closes'[u] = closes[u] + 1 /\ n <= m + 1
      BY <1>6, <1>7, <3>3, <3>5, <3>7
    <3>9. closes'[u] >= n /\ q.carryover <= (closes'[u] - n) * MostPerClose
      BY <1>1, <1>7, <3>3, <3>6, <3>7, <3>8, CoveredAtMidnight
    <3>10. CycleOf(preference'[u]) = CycleOf(preference[u]) /\ today' = today + 1
      BY <1>2
    <3>11. CASE q.phase = "aggregating"
      BY <1>3, <3>4, <3>9, <3>10, <3>11 DEF HandlerCovered, Covered
    <3>12. CASE q.phase = "reanchoring"
      BY <1>3, <3>4, <3>9, <3>10, <3>12 DEF HandlerCovered, Covered, OneIf
    <3>13. CASE q.phase = "saving"
      BY <1>3, <3>9, <3>10, <3>13 DEF HandlerCovered, Covered, OneIf
    <3> QED
      BY <3>2, <3>11, <3>12, <3>13
  <2> QED
    BY <2>1, <2>2 DEF CarryoverInv
<1> QED
  BY <1>4, <1>5, <1>8 DEF IInv
-----------------------------------------------------------------------------
(* Theorems.                                                               *)

LEMMA InvInitially == Init => IInv
<1> SUFFICES ASSUME Init PROVE IInv
  OBVIOUS
<1>1. TypeOK
  BY TypesInitially
<1>2. \A r \in Requests : request[r] = Idle /\ request[r].phase = "idle"
  BY DEF Init, Idle
<1>3. BoardInv
  BY <1>2 DEF Init, BoardInv, ItemsApart, HoldsCycle, MovedAreAnchored, OpenExpensesListed, InFlight
<1>4. CarryoverInv
  BY <1>2 DEF Init, CarryoverInv, PreferenceCovered, HandlerCovered, PreferencePhases
<1> QED
  BY <1>1, <1>3, <1>4 DEF IInv

\* Every step of the model keeps the invariant.
LEMMA InvKept == IInv /\ [Next]_vars => IInv'
<1> SUFFICES ASSUME IInv, [Next]_vars PROVE IInv'
  OBVIOUS
<1>1. CASE Tick
  BY <1>1, TickKeepsInv
<1>2. CASE Movement
  <2>1. CASE \E r \in Requests, u \in Users, item \in Expenses \cup Incomes : ResolveAnchor(r, u, item)
    BY <2>1, AnchorKeepsInv
  <2>2. CASE \E r \in Requests : WriteExpense(r) \/ WriteIncome(r) \/ RegistrationFails(r)
    BY <2>2, ExpenseKeepsInv, IncomeKeepsInv
  <2>3. CASE \E u \in Users, e \in Expenses : DeleteExpense(u, e) \/ \E paid \in BOOLEAN : PatchExpense(u, e, paid)
    BY <2>3, DeletionKeepsInv, PatchKeepsInv
  <2>4. CASE \E u \in Users, i \in Incomes : DeleteIncome(u, i)
    BY <2>4, DeletionKeepsInv
  <2> QED
    BY <1>2, <2>1, <2>2, <2>3, <2>4 DEF Movement
<1>3. CASE Renewal
  <2>1. CASE \E r \in Requests, u \in Users :
               ReadForRollover(r, u) \/ \E cycle \in CycleChoices \cup {Keep} : ReadForUpdate(r, u, cycle)
    BY <2>1, ReadKeepsInv
  <2>2. CASE \E r \in Requests, a \in {"unset", "yes", "no"}, rollover \in BOOLEAN : Aggregate(r, a, rollover)
    BY <2>2, AggregateKeepsInv
  <2>3. CASE \E r \in Requests : Reanchor(r) \/ RefuseSave(r) \/ Save(r)
    BY <2>3, ReanchorKeepsInv, RefusalKeepsInv, SaveKeepsInv
  <2> QED
    BY <1>3, <2>1, <2>2, <2>3 DEF Renewal
<1>4. CASE UNCHANGED vars
  <2>1. /\ UNCHANGED <<today, preference, expense, income, request, due, closes, crossed>> /\ TypeOK
    BY <1>4 DEF vars, IInv
  <2> QED
    BY <2>1, ExpensesKeepInv DEF TypeOK
<1> QED
  BY <1>1, <1>2, <1>3, <1>4 DEF Next

\* The budget cycle keeps its types, its board and its carryovers, whatever calendar, cycles and
\* days, however many users share profiles, and however many handlers are between two awaits.
THEOREM CycleInvariant == Spec => []IInv
<1>1. Init => IInv
  BY InvInitially
<1>2. IInv /\ [Next]_vars => IInv'
  BY InvKept
<1> QED
  BY <1>1, <1>2, PTL DEF Spec

\* me.service.ts:474-475, "para que sigan en el tablero activo": what a user registers stays on
\* the board until its period closes, unless one of the races named at OpenExpensesListed
\* takes it off.
THEOREM OpenExpensesListedHolds == Spec => []OpenExpensesListed
<1>1. IInv => OpenExpensesListed
  BY DEF IInv, BoardInv
<1> QED
  BY <1>1, CycleInvariant, PTL

\* A surplus is carried over at most once for each period that closes: the carryover of a user
\* whose handlers no change of cycle overtook is at most one surplus a close.
THEOREM SurplusOncePerCloseHolds == Spec => []SurplusOncePerClose
<1>1. IInv => SurplusOncePerClose
  <2> SUFFICES ASSUME IInv, NEW u \in Users, preference[u] # NoPreference, u \notin crossed
               PROVE  preference[u].carryover <= closes[u] * MostPerClose
    BY DEF SurplusOncePerClose
  <2>1. TypeOK /\ PreferenceCovered(u)
    BY DEF IInv, CarryoverInv
  <2>2. preference[u].carryover \in Nat /\ closes[u] \in Nat
    BY <2>1, CycleOfKnown DEF TypeOK
  <2>3. Covered(preference[u].carryover, u, OneIf(NeedsRefresh(preference[u])))
    BY <2>1 DEF PreferenceCovered
  <2>4. OneIf(NeedsRefresh(preference[u])) \in Nat /\ 0 <= OneIf(NeedsRefresh(preference[u]))
    BY DEF OneIf
  <2>5. Covered(preference[u].carryover, u, 0)
    BY <2>1, <2>2, <2>3, <2>4, CoveredBy
  <2>6. closes[u] - 0 = closes[u]
    BY <2>2
  <2> QED
    BY <2>5, <2>6 DEF Covered
<1> QED
  BY <1>1, CycleInvariant, PTL
=============================================================================
