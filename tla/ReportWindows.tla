--------------------------- MODULE ReportWindows ---------------------------
(***************************************************************************)
(* The daily, weekly, monthly and yearly reports and totals                *)
(* (models/expense_model.py) behind their validators: each is a window of  *)
(* time around a date, worked out with Python's datetime.  A calendar      *)
(* ticks from day to day while expenses are entered; the windows are       *)
(* compared with what the calendar showed at that moment.                  *)
(* A datetime is a number: two per day, midnight and some time after it.   *)
(* Amounts are whole cents (the column is NUMERIC).                        *)
(***************************************************************************)
EXTENDS Integers, FiniteSets, FiniteSetsExt

CONSTANTS Owners,
          Starts,       \* <<year, month, day, weekday>> the calendar may start at (bound)
          MaxTicks,     \* half days it runs (bound)
          MaxExpenses,  \* (bound)
          Amounts

VARIABLES today,     \* what the calendar shows
          ledger,    \* the expenses
          ticks      \* half days since the start

vars == <<today, ledger, ticks>>

Grains == {"daily", "weekly", "monthly", "yearly"}

\* The calendar: weekday 0 is Monday, `half` 0 is midnight.
MAXYEAR == 9999
Date == [year: 1..MAXYEAR, month: 1..12, day: 1..31, weekday: 0..6, half: {0, 1}]

-----------------------------------------------------------------------------
\* Python's datetime.
Leap(y) == y % 4 = 0 /\ (y % 100 # 0 \/ y % 400 = 0)
DaysIn(y, m) == IF m = 2 THEN (IF Leap(y) THEN 29 ELSE 28)
                ELSE IF m \in {4, 6, 9, 11} THEN 30 ELSE 31

IsDate(y, m, d) == y \in 1..MAXYEAR /\ m \in 1..12 /\ d \in 1..DaysIn(y, m)

DaysBeforeMonth == <<0, 31, 59, 90, 120, 151, 181, 212, 243, 273, 304, 334>>
Ordinal(y, m, d) ==
  (y - 1) * 365 + (y - 1) \div 4 - (y - 1) \div 100 + (y - 1) \div 400
    + DaysBeforeMonth[m] + (IF m > 2 /\ Leap(y) THEN 1 ELSE 0) + d
LastOrdinal == Ordinal(MAXYEAR, 12, 31)

\* datetime(y, m, d), a date plus a timedelta, weekday(): an impossible date raises.
Raises == -1
Datetime(y, m, d) == IF IsDate(y, m, d) THEN 2 * Ordinal(y, m, d) ELSE Raises
PlusDays(t, n) == IF t = Raises \/ t + 2 * n > 2 * LastOrdinal + 1 THEN Raises ELSE t + 2 * n
Weekday(t) == (t \div 2 + 6) % 7

-----------------------------------------------------------------------------
\* validators/expense_validators.py.
MIN_YEAR == 1900
MAX_YEAR == 9999

Validated(grain, y, m, d) ==
  /\ y \in MIN_YEAR..MAX_YEAR
  /\ grain # "yearly" => m \in 1..12
  /\ grain \in {"daily", "weekly"} => IsDate(y, m, d)

\* A window: from `from`, up to but not including `until`.
FirstOfNext_SameYear(y, m) == Datetime(y, (m % 12) + 1, 1)  \* mutant
FirstOfNext(y, m) == IF m = 12 THEN Datetime(y + 1, 1, 1) ELSE Datetime(y, m + 1, 1)
Monday(t) == PlusDays(t, -Weekday(t))

MonthOf(y, m) == [from |-> Datetime(y, m, 1), until |-> FirstOfNext(y, m)]
YearOf(y) == [from |-> Datetime(y, 1, 1), until |-> Datetime(y + 1, 1, 1)]
DayOf(y, m, d) == LET t == Datetime(y, m, d) IN [from |-> t, until |-> PlusDays(t, 1)]
\* time <= current_date: the week ends with the first instant of the day asked for.
WeekTo(y, m, d) == LET t == Datetime(y, m, d) IN [from |-> Monday(t), until |-> t + 1]

Window(grain, y, m, d) ==
  CASE grain = "monthly" -> MonthOf(y, m)
    [] grain = "yearly"  -> YearOf(y)
    [] grain = "daily"   -> DayOf(y, m, d)
    [] grain = "weekly"  -> WeekTo(y, m, d)

\* The totals work out their windows again, in code of their own.
AmountEndOfMonth_December(y, m) ==  \* mutant
  IF m = 12 THEN Datetime(y, 12, 31) ELSE Datetime(y, m + 1, 1)
AmountEndOfMonth(y, m) == IF m = 12 THEN Datetime(y + 1, 1, 1) ELSE Datetime(y, m + 1, 1)

AmountWindow(grain, y, m, d) ==
  LET t == Datetime(y, m, d) IN
  CASE grain = "monthly" -> [from |-> Datetime(y, m, 1), until |-> AmountEndOfMonth(y, m)]
    [] grain = "yearly"  -> [from |-> Datetime(y, 1, 1), until |-> Datetime(y + 1, 1, 1)]
    [] grain = "daily"   -> [from |-> t, until |-> PlusDays(t, 1)]
    [] grain = "weekly"  -> [from |-> Monday(t), until |-> t + 1]

Found(owner, w) == {e \in ledger : e.owner = owner /\ w.from <= e.time /\ e.time < w.until}

\* What an endpoint answers: 400 from a validator, 500 when a date raises.
Status(grain, y, m, d, w) ==
  IF ~Validated(grain, y, m, d) THEN 400
  ELSE IF Raises \in {w.from, w.until} THEN 500 ELSE 200

Report(grain, owner, y, m, d) ==
  LET w == Window(grain, y, m, d)
      s == Status(grain, y, m, d, w) IN
  [status |-> s, expenses |-> IF s = 200 THEN Found(owner, w) ELSE {}]

SumOf(es) == MapThenSumSet(LAMBDA e : e.amount, es)

Total(grain, owner, y, m, d) ==
  LET w == AmountWindow(grain, y, m, d)
      s == Status(grain, y, m, d, w) IN
  [status |-> s, amount |-> IF s = 200 THEN SumOf(Found(owner, w)) ELSE 0]

-----------------------------------------------------------------------------
\* What a run is given: days of the calendar with their weekdays, within the years the
\* validators accept, and bounds.
ASSUME StartsOK ==
  /\ MaxTicks \in Nat
  /\ \A s \in Starts : /\ s[1] \in MIN_YEAR..MAX_YEAR /\ IsDate(s[1], s[2], s[3])
                       /\ s[4] = Weekday(Datetime(s[1], s[2], s[3]))

Init ==
  /\ today \in {[year |-> s[1], month |-> s[2], day |-> s[3], weekday |-> s[4], half |-> 0] :
                s \in Starts}
  /\ ledger = {} /\ ticks = 0

\* The calendar: the day wears on; then it is the next one.
Tomorrow(t) ==
  LET last == t.day = DaysIn(t.year, t.month)
      newYear == last /\ t.month = 12 IN
  [year |-> IF newYear THEN t.year + 1 ELSE t.year,
   month |-> IF newYear THEN 1 ELSE IF last THEN t.month + 1 ELSE t.month,
   day |-> IF last THEN 1 ELSE t.day + 1,
   weekday |-> (t.weekday + 1) % 7, half |-> 0]

Tick ==
  /\ ticks < MaxTicks
  /\ IF today.half = 0 THEN today' = [today EXCEPT !.half = 1]
     ELSE /\ today.year < MAXYEAR \/ today.month < 12 \/ today.day < 31
          /\ today' = Tomorrow(today)
  /\ ticks' = ticks + 1
  /\ UNCHANGED ledger

\* create_expense: the time is the one given, or now.  What the calendar shows is kept.
TimeOf_Unset == Raises  \* mutant
TimeOf == Datetime(today.year, today.month, today.day) + today.half

Enter(owner, amount) ==
  /\ Cardinality(ledger) < MaxExpenses
  /\ ledger' = ledger \cup
       {[id |-> Cardinality(ledger) + 1, owner |-> owner, amount |-> amount,
         date |-> today, tick |-> ticks,
         time |-> TimeOf]}
  /\ UNCHANGED <<today, ticks>>

Next == Tick \/ \E owner \in Owners, amount \in Amounts : Enter(owner, amount)

Spec == Init /\ [][Next]_vars

-----------------------------------------------------------------------------
\* Types: the calendar shows dates, and every expense has the time of one.
TypeOK ==
  /\ today \in Date /\ IsDate(today.year, today.month, today.day)
  /\ ticks \in 0..MaxTicks
  /\ \A e \in ledger :
       /\ e.owner \in Owners /\ e.amount \in Amounts /\ e.date \in Date
       /\ e.time \in 0..(2 * LastOrdinal + 1)

\* The dates asked about: today's, and that of every expense.
Asked == {[date |-> today, tick |-> ticks]} \cup {[date |-> e.date, tick |-> e.tick] : e \in ledger}

\* Whether the calendar showed, when the expense was entered, a date of the period that the
\* date asked about is in.  A week runs from its Monday to the first instant of that date.
DayCount(x) == x.tick \div 2
Covered(grain, e, q) ==
  CASE grain = "yearly"  -> e.date.year = q.date.year
    [] grain = "monthly" -> e.date.year = q.date.year /\ e.date.month = q.date.month
    [] grain = "daily"   -> DayCount(e) = DayCount(q)
    [] grain = "weekly"  -> /\ DayCount(q) - q.date.weekday <= DayCount(e)
                            /\ e.tick <= 2 * DayCount(q)

\* The window would end on the first of January 10000.
PastTheEnd(grain, q) ==
  /\ q.date.year = MAXYEAR
  /\ grain # "weekly"
  /\ grain \in {"daily", "monthly"} => q.date.month = 12
  /\ grain = "daily" => q.date.day = 31

\* A report has the caller's expenses of that day, month or year of the calendar, or of the
\* week up to the day asked for, the rest of that day excluded; over months and years of
\* any length.  Only a period that ends with the year 9999 fails, though its date is valid
\* (models/expense_model.py:124-202, validators/expense_validators.py:31-37).
ReportsFollowCalendar ==
  \A grain \in Grains, owner \in Owners, q \in Asked :
    Report(grain, owner, q.date.year, q.date.month, q.date.day) =
      IF PastTheEnd(grain, q) THEN [status |-> 500, expenses |-> {}]
      ELSE [status |-> 200,
            expenses |-> {e \in ledger : e.owner = owner /\ Covered(grain, e, q)}]

\* The total of a period is the sum of its report, and fails when it does: the two compute
\* the window apart from each other (models/expense_model.py:204-284).
TotalsMatchReports ==
  \A grain \in Grains, owner \in Owners, q \in Asked :
    LET r == Report(grain, owner, q.date.year, q.date.month, q.date.day)
        t == Total(grain, owner, q.date.year, q.date.month, q.date.day) IN
    t.status = r.status /\ t.amount = SumOf(r.expenses)
=============================================================================
