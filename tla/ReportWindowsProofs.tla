------------------------ MODULE ReportWindowsProofs ------------------------
(***************************************************************************)
(* ReportWindows is proved for every calendar, every owner and any number  *)
(* of expenses.  A date has an ordinal, the number of days up to it; the   *)
(* windows compare ordinals.  First the arithmetic: ordinals follow the    *)
(* order of dates, and the next day of the calendar has the next ordinal.  *)
(* Then the invariant: the ordinal of what the calendar shows runs with    *)
(* the ticks, so that two dates are as many days apart as their ticks say, *)
(* the weekday is that of the ordinal, and an expense has the time of the  *)
(* date it was entered on.  Last the windows, each against the calendar.   *)
(***************************************************************************)
EXTENDS ReportWindows, TLAPS

\* The first and the last year, as numbers.
LEMMA Years == MIN_YEAR = 1900 /\ MAX_YEAR = 9999 /\ MAXYEAR = 9999
BY DEF MIN_YEAR, MAX_YEAR, MAXYEAR

\* The days before a year, and those of a year before a month.
YearDays(y) == (y - 1) * 365 + (y - 1) \div 4 - (y - 1) \div 100 + (y - 1) \div 400

MonthDays(y, m) == DaysBeforeMonth[m] + (IF m > 2 /\ Leap(y) THEN 1 ELSE 0)

\* A year has 365 days, or 366 when Leap says so.
LEMMA YearStep ==
  ASSUME NEW y \in Nat, y >= 1
  PROVE  /\ YearDays(y) \in Int
         /\ YearDays(y + 1) = YearDays(y) + 365 + (IF Leap(y) THEN 1 ELSE 0)
<1>1. y \div 4 = (y - 1) \div 4 + (IF y % 4 = 0 THEN 1 ELSE 0)
  BY SMT
<1>2. y \div 100 = (y - 1) \div 100 + (IF y % 100 = 0 THEN 1 ELSE 0)
  BY SMT
<1>3. y \div 400 = (y - 1) \div 400 + (IF y % 400 = 0 THEN 1 ELSE 0)
  BY SMT
<1>4. (y % 100 = 0 => y % 4 = 0) /\ (y % 400 = 0 => y % 100 = 0)
  BY SMT
<1>5. (y + 1) - 1 = y
  BY SMT
<1> QED BY <1>1, <1>2, <1>3, <1>4, <1>5, SMT DEF YearDays, Leap

\* A later year begins no sooner than the end of an earlier one.
LEMMA YearsGrow ==
  ASSUME NEW y \in Nat, NEW z \in Nat, y >= 1, y < z
  PROVE  YearDays(y + 1) <= YearDays(z)
<1> DEFINE k == z - (y + 1)
<1>1. k \in Nat /\ z - 1 = y + k
  BY SMT
<1>2. (y + k) \div 4 >= y \div 4
  BY <1>1, SMT
<1>3. (y + k) \div 400 >= y \div 400
  BY <1>1, SMT
<1>4. (y + k) \div 100 <= y \div 100 + k
  BY <1>1, SMT
<1>5. (y + 1) - 1 = y /\ (y + k) * 365 = y * 365 + k * 365
  BY <1>1, SMT
<1> QED BY <1>1, <1>2, <1>3, <1>4, <1>5, SMT DEF YearDays

\* The entries of the table.
LEMMA MonthTable ==
  /\ DaysBeforeMonth[1] = 0 /\ DaysBeforeMonth[2] = 31 /\ DaysBeforeMonth[3] = 59
  /\ DaysBeforeMonth[4] = 90 /\ DaysBeforeMonth[5] = 120 /\ DaysBeforeMonth[6] = 151
  /\ DaysBeforeMonth[7] = 181 /\ DaysBeforeMonth[8] = 212 /\ DaysBeforeMonth[9] = 243
  /\ DaysBeforeMonth[10] = 273 /\ DaysBeforeMonth[11] = 304 /\ DaysBeforeMonth[12] = 334
BY DEF DaysBeforeMonth

\* The table and DaysIn agree, month by month and over the whole year.
LEMMA MonthStep ==
  ASSUME NEW y \in Nat, NEW m \in 1..12
  PROVE  /\ MonthDays(y, m) \in Nat /\ DaysIn(y, m) \in 28..31
         /\ m < 12 => MonthDays(y, m + 1) = MonthDays(y, m) + DaysIn(y, m)
         /\ m = 12 => MonthDays(y, m) + DaysIn(y, m) = 365 + (IF Leap(y) THEN 1 ELSE 0)
         /\ MonthDays(y, 1) = 0
BY MonthTable DEF MonthDays, DaysIn

\* A later month begins no sooner than the end of an earlier one.
LEMMA MonthsGrow ==
  ASSUME NEW y \in Nat, NEW m \in 1..12, NEW n \in 1..12, m < n
  PROVE  MonthDays(y, m) + DaysIn(y, m) <= MonthDays(y, n)
BY MonthTable DEF MonthDays, DaysIn

\* The ranges of a date's parts.
LEMMA DateRanges ==
  ASSUME NEW y, NEW m, NEW d, IsDate(y, m, d)
  PROVE  /\ y \in Nat /\ y >= 1 /\ y <= MAXYEAR /\ m \in 1..12
         /\ DaysIn(y, m) \in 28..31 /\ d \in 1..DaysIn(y, m)
<1>1. y \in Nat /\ y >= 1 /\ y <= MAXYEAR /\ m \in 1..12 /\ d \in 1..DaysIn(y, m)
  BY DEF IsDate, MAXYEAR
<1> QED BY <1>1, MonthStep

\* An ordinal is the days before the year, before the month, and of the month.
LEMMA OrdinalParts ==
  ASSUME NEW y, NEW m, NEW d, IsDate(y, m, d)
  PROVE  /\ YearDays(y) \in Int /\ MonthDays(y, m) \in Nat /\ d \in Nat
         /\ Ordinal(y, m, d) = YearDays(y) + MonthDays(y, m) + d
         /\ Ordinal(y, m, d) \in Int
<1>1. /\ y \in Nat /\ y >= 1 /\ m \in 1..12
      /\ DaysIn(y, m) \in 28..31 /\ d \in 1..DaysIn(y, m)
  BY DateRanges
<1>2. YearDays(y) \in Int /\ MonthDays(y, m) \in Nat /\ d \in Nat
  <2>1. YearDays(y) \in Int
    BY <1>1, YearStep
  <2>2. MonthDays(y, m) \in Nat
    BY <1>1, MonthStep
  <2> QED BY <1>1, <2>1, <2>2, SMT
<1>3. Ordinal(y, m, d) = YearDays(y) + DaysBeforeMonth[m] + (IF m > 2 /\ Leap(y) THEN 1 ELSE 0) + d
  BY DEF Ordinal, YearDays
<1>4. DaysBeforeMonth[m] \in Nat
  BY <1>1, MonthTable
<1> QED BY <1>1, <1>2, <1>3, <1>4, SMT DEF MonthDays

\* A date is within its year, and only the last day of December ends it.
LEMMA InItsYear ==
  ASSUME NEW y, NEW m, NEW d, IsDate(y, m, d)
  PROVE  /\ YearDays(y) + 1 <= Ordinal(y, m, d) /\ Ordinal(y, m, d) <= YearDays(y + 1)
         /\ YearDays(y) \in Int /\ YearDays(y + 1) \in Int
         /\ Ordinal(y, m, d) = YearDays(y + 1) => m = 12 /\ d = 31
<1>1. /\ y \in Nat /\ y >= 1 /\ m \in 1..12
      /\ DaysIn(y, m) \in 28..31 /\ d \in 1..DaysIn(y, m)
  BY DateRanges
<1>2. YearDays(y) \in Int /\ YearDays(y + 1) = YearDays(y) + 365 + (IF Leap(y) THEN 1 ELSE 0)
  BY <1>1, YearStep
<1>3. Ordinal(y, m, d) = YearDays(y) + MonthDays(y, m) + d /\ MonthDays(y, m) \in Nat
  BY OrdinalParts
<1>4. MonthDays(y, m) + DaysIn(y, m) <= 365 + (IF Leap(y) THEN 1 ELSE 0)
  <2>1. CASE m = 12
    <3>1. MonthDays(y, m) + DaysIn(y, m) = 365 + (IF Leap(y) THEN 1 ELSE 0)
      BY <1>1, <2>1, MonthStep
    <3> QED BY <3>1, SMT
  <2>2. CASE m < 12
    <3>1. MonthDays(y, m) + DaysIn(y, m) <= MonthDays(y, 12)
      BY <1>1, <2>2, MonthsGrow
    <3>2. /\ MonthDays(y, 12) + DaysIn(y, 12) = 365 + (IF Leap(y) THEN 1 ELSE 0)
          /\ MonthDays(y, 12) \in Nat /\ DaysIn(y, 12) \in 28..31
      BY <1>1, MonthStep
    <3> QED BY <1>1, <1>3, <3>1, <3>2, SMT
  <2> QED BY <1>1, <2>1, <2>2, SMT
<1>5. ASSUME Ordinal(y, m, d) = YearDays(y + 1)
      PROVE  m = 12 /\ d = 31
  <2>1. CASE m < 12
    <3>1. MonthDays(y, m) + DaysIn(y, m) <= MonthDays(y, 12)
      BY <1>1, <2>1, MonthsGrow
    <3>2. /\ MonthDays(y, 12) + DaysIn(y, 12) = 365 + (IF Leap(y) THEN 1 ELSE 0)
          /\ MonthDays(y, 12) \in Nat /\ DaysIn(y, 12) \in 28..31
      BY <1>1, MonthStep
    <3> QED BY <1>1, <1>2, <1>3, <1>5, <3>1, <3>2, SMT
  <2>2. CASE m = 12
    <3>1. /\ MonthDays(y, 12) + DaysIn(y, 12) = 365 + (IF Leap(y) THEN 1 ELSE 0)
          /\ DaysIn(y, 12) = 31
      BY <1>1, MonthStep DEF DaysIn
    <3> QED BY <1>1, <1>2, <1>3, <1>5, <2>2, <3>1, SMT
  <2> QED BY <1>1, <2>1, <2>2, SMT
<1> QED BY <1>1, <1>2, <1>3, <1>4, <1>5, SMT

\* A date of an earlier year is before the first day of a later one.
LEMMA EarlierYear ==
  ASSUME NEW y, NEW m, NEW d, NEW z, NEW n, NEW c,
         IsDate(y, m, d), IsDate(z, n, c), y < z
  PROVE  Ordinal(y, m, d) <= YearDays(z) /\ YearDays(z) < Ordinal(z, n, c)
<1>1. y \in Nat /\ z \in Nat /\ y >= 1
  BY DateRanges
<1>2. YearDays(y + 1) <= YearDays(z)
  BY <1>1, YearsGrow
<1>3. Ordinal(y, m, d) <= YearDays(y + 1) /\ YearDays(y + 1) \in Int /\ Ordinal(y, m, d) \in Int
  BY InItsYear, OrdinalParts
<1>4. YearDays(z) + 1 <= Ordinal(z, n, c) /\ YearDays(z) \in Int /\ Ordinal(z, n, c) \in Int
  BY InItsYear, OrdinalParts
<1> QED BY <1>2, <1>3, <1>4, SMT

\* A date of an earlier month is before the first day of a later one of that year.
LEMMA EarlierMonth ==
  ASSUME NEW y, NEW m, NEW d, NEW n, NEW c,
         IsDate(y, m, d), IsDate(y, n, c), m < n
  PROVE  /\ Ordinal(y, m, d) <= YearDays(y) + MonthDays(y, n)
         /\ YearDays(y) + MonthDays(y, n) < Ordinal(y, n, c)
<1>1. /\ y \in Nat /\ m \in 1..12 /\ n \in 1..12 /\ c \in 1..DaysIn(y, n)
      /\ DaysIn(y, m) \in 28..31 /\ d \in 1..DaysIn(y, m) /\ DaysIn(y, n) \in 28..31
  BY DateRanges
<1>2. MonthDays(y, m) + DaysIn(y, m) <= MonthDays(y, n)
  BY <1>1, MonthsGrow
<1>3. Ordinal(y, m, d) = YearDays(y) + MonthDays(y, m) + d /\ MonthDays(y, m) \in Nat
  BY OrdinalParts
<1>4. Ordinal(y, n, c) = YearDays(y) + MonthDays(y, n) + c /\ MonthDays(y, n) \in Nat
  BY OrdinalParts
<1>5. YearDays(y) \in Int
  BY OrdinalParts
<1> QED BY <1>1, <1>2, <1>3, <1>4, <1>5, SMT

\* No date is after the last of 9999, and no other date has its ordinal.
LEMMA LastDay ==
  ASSUME NEW y, NEW m, NEW d, IsDate(y, m, d)
  PROVE  /\ LastOrdinal \in Int /\ LastOrdinal = YearDays(10000)
         /\ Ordinal(y, m, d) \in 1..LastOrdinal
         /\ Ordinal(y, m, d) = LastOrdinal <=> y = 9999 /\ m = 12 /\ d = 31
<1>1. IsDate(9999, 12, 31)
  BY DEF IsDate, DaysIn, MAXYEAR
<1>2. LastOrdinal = Ordinal(9999, 12, 31)
  BY DEF LastOrdinal, MAXYEAR
<1>3. YearDays(10000) = YearDays(9999) + 365 + (IF Leap(9999) THEN 1 ELSE 0) /\ YearDays(9999) \in Int
  <2>1. 9999 \in Nat /\ 9999 >= 1 /\ 9999 + 1 = 10000
    BY SMT
  <2> QED BY <2>1, YearStep
<1>4. Ordinal(9999, 12, 31) = YearDays(9999) + MonthDays(9999, 12) + 31
  BY <1>1, OrdinalParts
<1>5. MonthDays(9999, 12) + 31 = 365 + (IF Leap(9999) THEN 1 ELSE 0) /\ MonthDays(9999, 12) \in Nat
  BY MonthStep DEF DaysIn
<1>6. LastOrdinal = YearDays(10000) /\ LastOrdinal \in Int
  BY <1>2, <1>3, <1>4, <1>5, SMT
<1>7. y \in Nat /\ y >= 1 /\ y <= 9999 /\ Ordinal(y, m, d) \in Int
  BY DateRanges, OrdinalParts DEF MAXYEAR
<1>8. Ordinal(y, m, d) >= 1
  <2>1. YearDays(1) = 0
    BY SMT DEF YearDays
  <2>2. CASE y = 1
    BY <2>1, <2>2, <1>7, InItsYear
  <2>3. CASE y > 1
    <3>1. IsDate(1, 1, 1)
      BY DEF IsDate, DaysIn, MAXYEAR
    <3>2. Ordinal(1, 1, 1) <= YearDays(y) /\ YearDays(y) < Ordinal(y, m, d)
      BY <1>7, <2>3, <3>1, EarlierYear
    <3>3. YearDays(1) + 1 <= Ordinal(1, 1, 1) /\ Ordinal(1, 1, 1) \in Int /\ YearDays(y) \in Int
      BY <3>1, InItsYear, OrdinalParts
    <3> QED BY <1>7, <2>1, <3>2, <3>3, SMT
  <2> QED BY <1>7, <2>2, <2>3, SMT
<1>9. CASE y = 9999
  <2>1. /\ Ordinal(y, m, d) <= YearDays(y + 1) /\ y + 1 = 10000
        /\ Ordinal(y, m, d) = YearDays(y + 1) => m = 12 /\ d = 31
    BY <1>9, InItsYear
  <2> QED BY <1>2, <1>6, <1>7, <1>8, <1>9, <2>1, SMT
<1>10. CASE y < 9999
  <2>1. Ordinal(y, m, d) <= YearDays(9999) /\ YearDays(9999) < Ordinal(9999, 12, 31)
    BY <1>1, <1>7, <1>10, EarlierYear
  <2> QED BY <1>2, <1>3, <1>6, <1>7, <1>8, <1>10, <2>1, SMT
<1> QED BY <1>7, <1>9, <1>10, SMT

-----------------------------------------------------------------------------
\* The ordinal of what the calendar shows.
OrdinalOf(x) == Ordinal(x.year, x.month, x.day)

\* A day the validators accept, with its weekday.
IsDay(x) ==
  /\ x \in Date /\ IsDate(x.year, x.month, x.day) /\ x.year >= MIN_YEAR
  /\ x.weekday = (OrdinalOf(x) + 6) % 7

\* The calendar may show x after t half days: the halves agree.
Reached(x, t) == IsDay(x) /\ t \in Nat /\ t % 2 = x.half

\* The half days up to x, less the t that have passed: what a tick does not change.
Clock(x, t) == 2 * OrdinalOf(x) + x.half - t

\* An expense as it was entered: with the time of a day that the calendar showed.
Kept(e) ==
  /\ e.owner \in Owners /\ e.amount \in Amounts
  /\ IsDay(e.date)
  /\ e.tick \in Nat /\ e.tick % 2 = e.date.half
  /\ e.time = 2 * OrdinalOf(e.date) + e.date.half

\* The invariant: every expense was entered on the one calendar that goes on ticking.
WindowsInv ==
  /\ IsDay(today)
  /\ ticks \in 0..MaxTicks /\ ticks % 2 = today.half
  /\ \A e \in ledger : Kept(e) /\ Clock(e.date, e.tick) = Clock(today, ticks)

\* A date is made of its parts.
LEMMA DateMade ==
  ASSUME NEW x, NEW y \in 1..MAXYEAR, NEW m \in 1..12, NEW d \in 1..31, NEW w \in 0..6, NEW h \in {0, 1},
         x = [year |-> y, month |-> m, day |-> d, weekday |-> w, half |-> h]
  PROVE  x \in Date
<1>1. ASSUME NEW Y, NEW M, NEW D, NEW W, NEW H, y \in Y, m \in M, d \in D, w \in W, h \in H
      PROVE  [year |-> y, month |-> m, day |-> d, weekday |-> w, half |-> h]
               \in [year: Y, month: M, day: D, weekday: W, half: H]
  BY <1>1
<1> QED BY <1>1, Zenon DEF Date

\* The parts of a date.
LEMMA DateParts ==
  ASSUME NEW x, x \in Date
  PROVE  /\ x.year \in 1..MAXYEAR /\ x.month \in 1..12 /\ x.day \in 1..31
         /\ x.weekday \in 0..6 /\ x.half \in {0, 1}
         /\ x = [year |-> x.year, month |-> x.month, day |-> x.day,
                 weekday |-> x.weekday, half |-> x.half]
<1>1. ASSUME NEW Y, NEW M, NEW D, NEW W, NEW H,
             x \in [year: Y, month: M, day: D, weekday: W, half: H]
      PROVE  /\ x.year \in Y /\ x.month \in M /\ x.day \in D /\ x.weekday \in W /\ x.half \in H
             /\ x = [year |-> x.year, month |-> x.month, day |-> x.day,
                     weekday |-> x.weekday, half |-> x.half]
  BY ONLY <1>1
<1> QED BY <1>1, Zenon DEF Date

\* The day wears on, and stays the same day.
LEMMA Afternoon ==
  ASSUME NEW x, NEW u, x \in Date, u = [x EXCEPT !.half = 1]
  PROVE  /\ u \in Date /\ u.half = 1
         /\ u.year = x.year /\ u.month = x.month /\ u.day = x.day /\ u.weekday = x.weekday
<1>1. ASSUME NEW Y, NEW M, NEW D, NEW W, NEW H, NEW a \in H,
             x \in [year: Y, month: M, day: D, weekday: W, half: H]
      PROVE  LET v == [x EXCEPT !.half = a] IN
             /\ v \in [year: Y, month: M, day: D, weekday: W, half: H]
             /\ v.half = a
             /\ v.year = x.year /\ v.month = x.month /\ v.day = x.day /\ v.weekday = x.weekday
  BY ONLY <1>1
<1>2. 1 \in {0, 1}
  OBVIOUS
<1> QED BY <1>1, <1>2, Zenon DEF Date

\* The ranges of a day's ordinal, half and weekday.
LEMMA DayOrdinal ==
  ASSUME NEW x, IsDay(x)
  PROVE  /\ OrdinalOf(x) \in 1..LastOrdinal /\ LastOrdinal \in Nat
         /\ OrdinalOf(x) \in Nat /\ x.half \in {0, 1} /\ x.weekday \in 0..6
<1>1. OrdinalOf(x) \in 1..LastOrdinal /\ LastOrdinal \in Int
  BY LastDay DEF IsDay, OrdinalOf
<1>2. x.half \in {0, 1} /\ x.weekday \in 0..6
  BY DateParts DEF IsDay
<1> QED BY <1>1, <1>2, SMT

\* The day after, within the month, on its last day and on the last of the year, has the next ordinal.
LEMMA NextDay ==
  ASSUME NEW y, NEW m, NEW d, IsDate(y, m, d), y < 9999 \/ m < 12 \/ d < 31,
         NEW z, NEW n, NEW c,
         d # DaysIn(y, m) => z = y /\ n = m /\ c = d + 1,
         d = DaysIn(y, m) /\ m # 12 => z = y /\ n = m + 1 /\ c = 1,
         d = DaysIn(y, m) /\ m = 12 => z = y + 1 /\ n = 1 /\ c = 1
  PROVE  /\ IsDate(z, n, c) /\ z >= y
         /\ Ordinal(z, n, c) = Ordinal(y, m, d) + 1
<1>2. /\ y \in Nat /\ y >= 1 /\ y <= 9999 /\ m \in 1..12
      /\ DaysIn(y, m) \in 28..31 /\ d \in 1..DaysIn(y, m)
  BY DateRanges DEF MAXYEAR
<1>3. /\ Ordinal(y, m, d) = YearDays(y) + MonthDays(y, m) + d
      /\ YearDays(y) \in Int /\ MonthDays(y, m) \in Nat
  BY OrdinalParts
<1>4. CASE d # DaysIn(y, m)
  <3>2. IsDate(y, m, d + 1)
    <4> DEFINE last == DaysIn(y, m)
    <4>1. last \in 28..31 /\ d \in 1..last /\ d # last
      BY <1>2, <1>4
    <4> HIDE DEF last
    <4>2. d + 1 \in 1..last
      BY ONLY <4>1, SMT
    <4> QED BY <4>2 DEF IsDate, last
  <3>3. Ordinal(y, m, d + 1) = YearDays(y) + MonthDays(y, m) + (d + 1)
    BY <3>2, OrdinalParts
  <3>4. Ordinal(y, m, d + 1) = Ordinal(y, m, d) + 1
    BY <1>2, <1>3, <3>3, SMT
  <3> QED BY <1>2, <1>4, <3>2, <3>4, SMT
<1>5. CASE d = DaysIn(y, m) /\ m # 12
  <3>1. m + 1 \in 1..12 /\ m < 12
    BY <1>2, <1>5, SMT
  <3>2. IsDate(y, m + 1, 1)
    <4> DEFINE k == m + 1
    <4>1. k \in 1..12 /\ y \in Nat
      BY <1>2, <3>1
    <4> HIDE DEF k
    <4>2. DaysIn(y, k) \in 28..31
      BY ONLY <4>1, MonthStep
    <4>3. 1 \in 1..DaysIn(y, k)
      BY ONLY <4>2, SMT
    <4> QED BY <4>1, <4>3 DEF IsDate, k
  <3>3. Ordinal(y, m + 1, 1) = YearDays(y) + MonthDays(y, m + 1) + 1
    BY <3>2, OrdinalParts
  <3>4. MonthDays(y, m + 1) = MonthDays(y, m) + DaysIn(y, m)
    <4>1. y \in Nat /\ m \in 1..12 /\ m < 12
      BY <1>2, <3>1
    <4> QED BY ONLY <4>1, MonthStep
  <3>5. Ordinal(y, m + 1, 1) = Ordinal(y, m, d) + 1
    BY <1>2, <1>3, <1>5, <3>3, <3>4, SMT
  <3> QED BY <1>2, <1>5, <3>2, <3>5, SMT
<1>6. CASE d = DaysIn(y, m) /\ m = 12
  <3>2. y < 9999
    <4>1. DaysIn(y, m) = 31
      BY <1>6 DEF DaysIn
    <4> QED BY <1>2, <1>6, <4>1, SMT
  <3>3. IsDate(y + 1, 1, 1)
    <4>1. DaysIn(y + 1, 1) = 31
      BY DEF DaysIn
    <4> QED BY <1>2, <3>2, <4>1, SMT DEF IsDate, MAXYEAR
  <3>4. Ordinal(y + 1, 1, 1) = YearDays(y + 1) + MonthDays(y + 1, 1) + 1
    BY <3>3, OrdinalParts
  <3>5. MonthDays(y + 1, 1) = 0
    <4>1. y + 1 \in Nat
      BY <1>2, SMT
    <4> QED BY <4>1, MonthStep
  <3>6. YearDays(y + 1) = YearDays(y) + 365 + (IF Leap(y) THEN 1 ELSE 0)
    BY <1>2, YearStep
  <3>7. MonthDays(y, m) + DaysIn(y, m) = 365 + (IF Leap(y) THEN 1 ELSE 0)
    BY <1>2, <1>6, MonthStep
  <3>8. Ordinal(y + 1, 1, 1) = Ordinal(y, m, d) + 1
    BY <1>2, <1>3, <1>6, <3>4, <3>5, <3>6, <3>7, SMT
  <3> QED BY <1>2, <1>6, <3>3, <3>8, SMT
<1> QED BY <1>4, <1>5, <1>6

\* Tomorrow is a day, with its weekday and with the next ordinal.
LEMMA TomorrowIsNext ==
  ASSUME NEW t, IsDay(t), t.year < MAXYEAR \/ t.month < 12 \/ t.day < 31,
         NEW u, u = Tomorrow(t)
  PROVE  /\ IsDay(u) /\ u.half = 0
         /\ OrdinalOf(u) = OrdinalOf(t) + 1
<1>1. /\ IsDate(t.year, t.month, t.day) /\ t.year >= 1900 /\ t.weekday = (OrdinalOf(t) + 6) % 7
      /\ t.weekday \in 0..6 /\ t \in Date /\ OrdinalOf(t) \in Nat
      /\ t.year < 9999 \/ t.month < 12 \/ t.day < 31
  BY DayOrdinal, Years DEF IsDay
<1>2. t.year \in Nat
  BY <1>1, DateRanges
<1>3. /\ t.day # DaysIn(t.year, t.month) =>
           u.year = t.year /\ u.month = t.month /\ u.day = t.day + 1
      /\ t.day = DaysIn(t.year, t.month) /\ t.month # 12 =>
           u.year = t.year /\ u.month = t.month + 1 /\ u.day = 1
      /\ t.day = DaysIn(t.year, t.month) /\ t.month = 12 =>
           u.year = t.year + 1 /\ u.month = 1 /\ u.day = 1
      /\ u.weekday = (t.weekday + 1) % 7 /\ u.half = 0
      /\ u = [year |-> u.year, month |-> u.month, day |-> u.day,
              weekday |-> u.weekday, half |-> u.half]
  BY DEF Tomorrow
<1>4. /\ IsDate(u.year, u.month, u.day) /\ u.year >= t.year
      /\ OrdinalOf(u) = OrdinalOf(t) + 1
  BY <1>1, <1>3, NextDay DEF OrdinalOf
<1>5. u.weekday = (OrdinalOf(u) + 6) % 7 /\ u.weekday \in 0..6
  <2> DEFINE o == OrdinalOf(t)
  <2>1. (((o + 6) % 7) + 1) % 7 = (o + 1 + 6) % 7 /\ (o + 1 + 6) % 7 \in 0..6
    <3>1. o \in Nat
      BY <1>1
    <3> HIDE DEF o
    <3> QED BY <3>1, SMT
  <2> QED BY <1>1, <1>3, <1>4, <2>1
<1>6. /\ u.year \in 1..MAXYEAR /\ u.month \in 1..12 /\ u.day \in 1..31
  <2>1. u.year \in 1..MAXYEAR
    BY <1>4 DEF IsDate
  <2>2. u.month \in 1..12 /\ DaysIn(u.year, u.month) \in 28..31 /\ u.day \in 1..DaysIn(u.year, u.month)
    BY ONLY <1>4, DateRanges
  <2>3. u.day \in 1..31
    BY ONLY <2>2, SMT
  <2> QED BY <2>1, <2>2, <2>3
<1>7. u.year >= MIN_YEAR
  <2> DEFINE y == t.year
             z == u.year
  <2>1. y \in Nat /\ z \in Nat /\ z >= y /\ y >= MIN_YEAR /\ MIN_YEAR \in Nat
    BY <1>1, <1>2, <1>4, DateRanges, Years DEF IsDay
  <2> HIDE DEF y, z
  <2>2. z >= MIN_YEAR
    BY ONLY <2>1, SMT
  <2> QED BY ONLY <2>2 DEF z
<1>8. u \in Date
  <2>1. u.half \in {0, 1}
    BY <1>3
  <2>2. u = [year |-> u.year, month |-> u.month, day |-> u.day,
             weekday |-> u.weekday, half |-> u.half]
    BY <1>3
  <2> QED BY ONLY <1>5, <1>6, <2>1, <2>2, DateMade, Zenon
<1> QED BY ONLY <1>3, <1>4, <1>5, <1>7, <1>8 DEF IsDay

\* The calendar starts on a day.
LEMMA StartDay ==
  ASSUME NEW s \in Starts
  PROVE  /\ s[1] \in 1..MAXYEAR /\ s[1] >= MIN_YEAR /\ IsDate(s[1], s[2], s[3])
         /\ s[2] \in 1..12 /\ s[3] \in 1..31
         /\ s[4] = (Ordinal(s[1], s[2], s[3]) + 6) % 7 /\ s[4] \in 0..6
<1> DEFINE y == s[1]
           m == s[2]
           d == s[3]
           w == s[4]
<1>1. y \in MIN_YEAR..MAX_YEAR
  BY StartsOK
<1>2. IsDate(y, m, d)
  BY StartsOK
<1>3. w = Weekday(Datetime(y, m, d))
  BY StartsOK
<1> HIDE DEF y, m, d, w
<1>4. y >= MIN_YEAR
  BY ONLY <1>1, Years
<1>5. m \in 1..12 /\ DaysIn(y, m) \in 28..31 /\ d \in 1..DaysIn(y, m)
  BY ONLY <1>2, DateRanges
<1>6. d \in 1..31
  BY ONLY <1>5, SMT
<1>7. PICK o \in Int : o = Ordinal(y, m, d)
  BY ONLY <1>2, OrdinalParts
<1>8. Datetime(y, m, d) = 2 * o
  BY ONLY <1>2, <1>7 DEF Datetime
<1>9. w = ((2 * o) \div 2 + 6) % 7
  BY ONLY <1>3, <1>8 DEF Weekday
<1>10. w = (o + 6) % 7 /\ w \in 0..6
  BY ONLY <1>7, <1>9, SMT
<1>11. y \in 1..MAXYEAR
  BY ONLY <1>2 DEF IsDate
<1>12. w = (Ordinal(y, m, d) + 6) % 7
  BY ONLY <1>7, <1>10
<1> QED BY <1>2, <1>4, <1>5, <1>6, <1>10, <1>11, <1>12 DEF y, m, d, w

\* The initial states.
LEMMA StartsInv == Init => WindowsInv
<1> SUFFICES ASSUME Init PROVE WindowsInv
  OBVIOUS
<1>1. PICK s \in Starts :
        today = [year |-> s[1], month |-> s[2], day |-> s[3], weekday |-> s[4], half |-> 0]
  BY DEF Init
<1>2. /\ today.year = s[1] /\ today.month = s[2] /\ today.day = s[3]
      /\ today.weekday = s[4] /\ today.half = 0
  BY <1>1
<1>3. /\ s[1] \in 1..MAXYEAR /\ s[1] >= MIN_YEAR /\ IsDate(s[1], s[2], s[3])
      /\ s[2] \in 1..12 /\ s[3] \in 1..31
      /\ s[4] = (Ordinal(s[1], s[2], s[3]) + 6) % 7 /\ s[4] \in 0..6
  BY StartDay
<1>4. 0 \in {0, 1}
  OBVIOUS
<1>5. today \in Date
  BY <1>1, <1>3, <1>4, DateMade, Zenon
<1>6. IsDay(today)
  BY ONLY <1>2, <1>3, <1>5, Zenon DEF IsDay, OrdinalOf
<1>7. ticks = 0 /\ ledger = {} /\ MaxTicks \in Nat
  BY StartsOK DEF Init
<1>8. ticks \in 0..MaxTicks /\ ticks % 2 = today.half
  BY ONLY <1>2, <1>7, SMT
<1> QED BY ONLY <1>6, <1>7, <1>8 DEF WindowsInv

\* Ordinal and ticks advance together, so expenses entered before stay on the same calendar.
LEMMA TickKeepsInv ==
  ASSUME WindowsInv, Tick
  PROVE  WindowsInv'
<1>1. /\ IsDay(today) /\ ticks \in 0..MaxTicks /\ ticks % 2 = today.half /\ MaxTicks \in Nat
      /\ ticks < MaxTicks /\ ticks' = ticks + 1 /\ ledger' = ledger
  BY StartsOK DEF WindowsInv, Tick
<1>2. OrdinalOf(today) \in Nat /\ today.half \in {0, 1}
  BY <1>1, DayOrdinal
<1>3. /\ IsDay(today') /\ today'.half = 1 - today.half
      /\ OrdinalOf(today') = OrdinalOf(today) + today.half
  <2>1. CASE today.half = 0
    <3>1. today' = [today EXCEPT !.half = 1] /\ today \in Date
      BY <1>1, <2>1 DEF Tick, IsDay
    <3>2. /\ today'.year = today.year /\ today'.month = today.month /\ today'.day = today.day
          /\ today'.weekday = today.weekday /\ today'.half = 1 /\ today' \in Date
      BY ONLY <3>1, Afternoon
    <3>3. OrdinalOf(today') = OrdinalOf(today)
      BY <3>2 DEF OrdinalOf
    <3>4. IsDay(today')
      BY <1>1, <3>2, <3>3 DEF IsDay
    <3> QED BY <1>2, <2>1, <3>2, <3>3, <3>4
  <2>2. CASE today.half = 1
    <3>1. /\ today.year < MAXYEAR \/ today.month < 12 \/ today.day < 31
          /\ today' = Tomorrow(today)
      BY <2>2 DEF Tick
    <3> QED BY <1>1, <1>2, <2>2, <3>1, TomorrowIsNext
  <2> QED BY <1>2, <2>1, <2>2
<1>4. (ticks + 1) % 2 = 1 - today.half
  BY <1>1, <1>2, SMT
<1>5. Clock(today', ticks') = Clock(today, ticks)
  BY <1>1, <1>2, <1>3, SMT DEF Clock
<1> QED BY <1>1, <1>3, <1>4, <1>5, SMT DEF WindowsInv

\* A new expense has the time of today.
LEMMA EnterKeepsInv ==
  ASSUME WindowsInv, NEW owner \in Owners, NEW amount \in Amounts, Enter(owner, amount)
  PROVE  WindowsInv'
<1> DEFINE new == [id |-> Cardinality(ledger) + 1, owner |-> owner, amount |-> amount,
                   date |-> today, tick |-> ticks, time |-> TimeOf]
<1>1. ledger' = ledger \cup {new} /\ today' = today /\ ticks' = ticks
  BY DEF Enter
<1>2. IsDay(today) /\ ticks \in 0..MaxTicks /\ ticks % 2 = today.half /\ MaxTicks \in Nat
  BY StartsOK DEF WindowsInv
<1>3. TimeOf = 2 * OrdinalOf(today) + today.half
  BY <1>2 DEF TimeOf, Datetime, OrdinalOf, IsDay
<1>4. /\ new.owner = owner /\ new.amount = amount /\ new.date = today /\ new.tick = ticks
      /\ new.time = TimeOf
  OBVIOUS
<1> HIDE DEF new
<1>5. Kept(new)
  BY <1>2, <1>3, <1>4, SMT DEF Kept
<1>6. Clock(new.date, new.tick) = Clock(today, ticks)
  BY <1>4
<1> QED BY <1>1, <1>5, <1>6 DEF WindowsInv

\* The invariant holds in every state.
THEOREM WindowsInvariant == Spec => []WindowsInv
<1>1. Init => WindowsInv
  BY StartsInv
<1>2. WindowsInv /\ [Next]_vars => WindowsInv'
  <2> SUFFICES ASSUME WindowsInv, [Next]_vars PROVE WindowsInv'
    OBVIOUS
  <2>1. CASE Tick
    BY <2>1, TickKeepsInv
  <2>2. CASE \E owner \in Owners, amount \in Amounts : Enter(owner, amount)
    BY <2>2, EnterKeepsInv
  <2>3. CASE UNCHANGED vars
    BY <2>3 DEF vars, WindowsInv
  <2> QED BY <2>1, <2>2, <2>3 DEF Next
<1> QED BY <1>1, <1>2, PTL DEF Spec

\* The calendar shows dates, and every expense has the time of one (models/expense_model.py:61).
THEOREM TypesHold == Spec => []TypeOK
<1>1. WindowsInv => TypeOK
  <2> SUFFICES ASSUME WindowsInv PROVE TypeOK
    OBVIOUS
  <2>1. /\ today \in Date /\ IsDate(today.year, today.month, today.day)
        /\ ticks \in 0..MaxTicks
    BY DEF WindowsInv, IsDay
  <2>2. ASSUME NEW e \in ledger
        PROVE  /\ e.owner \in Owners /\ e.amount \in Amounts /\ e.date \in Date
               /\ e.time \in 0..(2 * LastOrdinal + 1)
    <3>1. Kept(e)
      BY <2>2 DEF WindowsInv
    <3>2. IsDay(e.date) /\ e.time = 2 * OrdinalOf(e.date) + e.date.half
      BY <3>1 DEF Kept
    <3>3. /\ OrdinalOf(e.date) \in 1..LastOrdinal /\ LastOrdinal \in Nat
          /\ OrdinalOf(e.date) \in Nat /\ e.date.half \in {0, 1}
      BY <3>2, DayOrdinal
    <3>4. e.time \in 0..(2 * LastOrdinal + 1)
      BY <3>2, <3>3, SMT
    <3> QED BY <3>1, <3>2, <3>4 DEF Kept, IsDay
  <2> QED BY <2>1, <2>2 DEF TypeOK
<1> QED BY <1>1, WindowsInvariant, PTL

-----------------------------------------------------------------------------
\* Ordinals follow the order of dates.
LEMMA DateOrder ==
  ASSUME NEW y, NEW m, NEW d, NEW z, NEW n, NEW c,
         IsDate(y, m, d), IsDate(z, n, c),
         y < z \/ (y = z /\ m < n) \/ (y = z /\ m = n /\ d < c)
  PROVE  Ordinal(y, m, d) < Ordinal(z, n, c)
<1>1. /\ Ordinal(y, m, d) = YearDays(y) + MonthDays(y, m) + d /\ d \in Nat
      /\ Ordinal(y, m, d) \in Int /\ YearDays(y) \in Int /\ MonthDays(y, m) \in Nat
  BY OrdinalParts
<1>2. /\ Ordinal(z, n, c) = YearDays(z) + MonthDays(z, n) + c /\ c \in Nat
      /\ Ordinal(z, n, c) \in Int /\ YearDays(z) \in Int /\ MonthDays(z, n) \in Nat
  BY OrdinalParts
<1>3. CASE y < z
  <2>1. Ordinal(y, m, d) <= YearDays(z) /\ YearDays(z) < Ordinal(z, n, c)
    BY <1>3, EarlierYear
  <2> QED BY ONLY <1>1, <1>2, <2>1, SMT
<1>4. CASE y = z /\ m < n
  <2>1. /\ Ordinal(y, m, d) <= YearDays(y) + MonthDays(y, n)
        /\ YearDays(y) + MonthDays(y, n) < Ordinal(y, n, c)
    BY <1>4, EarlierMonth
  <2> QED BY ONLY <1>1, <1>2, <1>4, <2>1, SMT
<1>5. CASE y = z /\ m = n /\ d < c
  BY ONLY <1>1, <1>2, <1>5, SMT
<1> QED BY <1>3, <1>4, <1>5

\* The first days of the month, the year and of those that follow are dates, but for 10000.
LEMMA FirstDays ==
  ASSUME NEW y, NEW m, NEW d, IsDate(y, m, d)
  PROVE  /\ IsDate(y, m, 1) /\ IsDate(y, 1, 1)
         /\ m < 12 => IsDate(y, m + 1, 1) /\ m + 1 # 12 + 1
         /\ y < MAXYEAR => IsDate(y + 1, 1, 1)
         /\ ~ (y < MAXYEAR) => y = MAXYEAR /\ ~ IsDate(y + 1, 1, 1)
<1>1. /\ y \in Nat /\ y >= 1 /\ y <= MAXYEAR /\ m \in 1..12
      /\ y \in 1..MAXYEAR /\ MAXYEAR \in Nat
  <2>1. y \in 1..MAXYEAR
    BY DEF IsDate
  <2>2. MAXYEAR \in Nat
    BY DEF MAXYEAR
  <2> QED BY <2>1, <2>2, DateRanges
<1>2. ASSUME NEW z \in Nat, NEW k \in 1..12
      PROVE  1 \in 1..DaysIn(z, k)
  <2>1. DaysIn(z, k) \in 28..31
    BY MonthStep
  <2> QED BY ONLY <2>1, SMT
<1>3. 1 \in 1..12 /\ y + 1 \in Nat
  BY ONLY <1>1, SMT
<1>4. IsDate(y, m, 1) /\ IsDate(y, 1, 1)
  BY <1>1, <1>2, <1>3 DEF IsDate
<1>5. ASSUME m < 12
      PROVE  IsDate(y, m + 1, 1) /\ m + 1 # 12 + 1
  <2> DEFINE k == m + 1
  <2>1. k \in 1..12 /\ k # 12 + 1
    BY ONLY <1>1, <1>5, SMT
  <2> HIDE DEF k
  <2>2. IsDate(y, k, 1)
    BY <1>1, <1>2, <2>1 DEF IsDate
  <2> QED BY <2>1, <2>2 DEF k
<1>6. ASSUME y < MAXYEAR
      PROVE  IsDate(y + 1, 1, 1)
  <2> DEFINE z == y + 1
  <2>1. z \in Nat /\ z \in 1..MAXYEAR
    BY ONLY <1>1, <1>6, SMT
  <2> HIDE DEF z
  <2>2. IsDate(z, 1, 1)
    BY <1>2, <1>3, <2>1 DEF IsDate
  <2> QED BY <2>2 DEF z
<1>7. ASSUME ~ (y < MAXYEAR)
      PROVE  y = MAXYEAR /\ ~ IsDate(y + 1, 1, 1)
  <2>1. y = MAXYEAR /\ ~ (y + 1 <= MAXYEAR)
    BY ONLY <1>1, <1>7, SMT
  <2> QED BY <2>1, DateRanges
<1> QED BY <1>4, <1>5, <1>6, <1>7

\* The dates from the first of January to the next are those of the year.
LEMMA YearSpan ==
  ASSUME NEW y, NEW m, NEW d, NEW z, NEW n, NEW c,
         IsDate(y, m, d), IsDate(z, n, c), y < MAXYEAR
  PROVE  /\ Ordinal(y, 1, 1) <= Ordinal(z, n, c) /\ Ordinal(z, n, c) < Ordinal(y + 1, 1, 1)
              <=> z = y
<1>1. IsDate(y, 1, 1) /\ IsDate(y + 1, 1, 1)
  BY FirstDays
<1>2. /\ y \in Nat /\ z \in Nat /\ n \in 1..12 /\ c \in Nat /\ c >= 1
  <2>1. /\ y \in Nat /\ z \in Nat /\ n \in 1..12
        /\ DaysIn(z, n) \in 28..31 /\ c \in 1..DaysIn(z, n)
    BY DateRanges
  <2> QED BY ONLY <2>1, SMT
<1>3. /\ Ordinal(y, 1, 1) \in Int /\ Ordinal(z, n, c) \in Int /\ Ordinal(y + 1, 1, 1) \in Int
  BY ONLY <1>1, IsDate(z, n, c), OrdinalParts
<1>4. CASE z < y
  <2>1. Ordinal(z, n, c) < Ordinal(y, 1, 1)
    BY <1>1, <1>4, DateOrder
  <2> QED BY ONLY <1>2, <1>3, <1>4, <2>1, SMT
<1>5. CASE z = y
  <2>1. Ordinal(y, 1, 1) <= Ordinal(z, n, c)
    <3>1. CASE n = 1 /\ c = 1
      BY ONLY <1>3, <1>5, <3>1, SMT
    <3>2. CASE ~ (n = 1 /\ c = 1)
      <4>1. 1 < n \/ (1 = n /\ 1 < c)
        BY ONLY <1>2, <3>2, SMT
      <4>2. Ordinal(y, 1, 1) < Ordinal(z, n, c)
        BY <1>1, <1>5, <4>1, DateOrder
      <4> QED BY ONLY <1>3, <4>2, SMT
    <3> QED BY <3>1, <3>2
  <2>2. z < y + 1
    BY ONLY <1>2, <1>5, SMT
  <2>3. Ordinal(z, n, c) < Ordinal(y + 1, 1, 1)
    BY <1>1, <2>2, DateOrder
  <2> QED BY <1>5, <2>1, <2>3
<1>6. CASE z > y
  <2>1. Ordinal(y + 1, 1, 1) <= Ordinal(z, n, c)
    <3>1. CASE z = y + 1 /\ n = 1 /\ c = 1
      BY ONLY <1>3, <3>1, SMT
    <3>2. CASE ~ (z = y + 1 /\ n = 1 /\ c = 1)
      <4>1. y + 1 < z \/ (y + 1 = z /\ 1 < n) \/ (y + 1 = z /\ 1 = n /\ 1 < c)
        BY ONLY <1>2, <1>6, <3>2, SMT
      <4> DEFINE k == y + 1
      <4> HIDE DEF k
      <4>2. Ordinal(k, 1, 1) < Ordinal(z, n, c)
        <5>1. IsDate(k, 1, 1) /\ (k < z \/ (k = z /\ 1 < n) \/ (k = z /\ 1 = n /\ 1 < c))
          BY <1>1, <4>1 DEF k
        <5> QED BY <5>1, DateOrder
      <4>3. Ordinal(k, 1, 1) \in Int
        BY <1>3 DEF k
      <4>4. Ordinal(k, 1, 1) <= Ordinal(z, n, c)
        BY ONLY <1>3, <4>2, <4>3, SMT
      <4> QED BY <4>4 DEF k
    <3> QED BY <3>1, <3>2
  <2> QED BY ONLY <1>2, <1>3, <1>6, <2>1, SMT
<1> QED BY ONLY <1>2, <1>4, <1>5, <1>6, SMT

\* The month after.
NextMonth(y, m, yy, mm) ==
  (m = 12 => yy = y + 1 /\ mm = 1) /\ (m # 12 => yy = y /\ mm = m + 1)

\* The dates from the first of a month to the next are those of the month.
LEMMA MonthSpan ==
  ASSUME NEW y, NEW m, NEW d, NEW z, NEW n, NEW c, NEW yy, NEW mm,
         IsDate(y, m, d), IsDate(z, n, c), IsDate(yy, mm, 1),
         NextMonth(y, m, yy, mm)
  PROVE  /\ Ordinal(y, m, 1) <= Ordinal(z, n, c) /\ Ordinal(z, n, c) < Ordinal(yy, mm, 1)
              <=> z = y /\ n = m
<1>1. IsDate(y, m, 1)
  BY FirstDays
<1>2. /\ y \in Nat /\ z \in Nat /\ yy \in Nat /\ n \in 1..12 /\ m \in 1..12 /\ mm \in 1..12
      /\ c \in Nat /\ c >= 1
  <2>1. /\ y \in Nat /\ z \in Nat /\ yy \in Nat /\ n \in 1..12 /\ m \in 1..12 /\ mm \in 1..12
        /\ DaysIn(z, n) \in 28..31 /\ c \in 1..DaysIn(z, n)
    BY DateRanges
  <2> QED BY ONLY <2>1, SMT
<1>3. /\ Ordinal(y, m, 1) \in Int /\ Ordinal(z, n, c) \in Int /\ Ordinal(yy, mm, 1) \in Int
  BY ONLY <1>1, IsDate(z, n, c), IsDate(yy, mm, 1), OrdinalParts
<1>4. CASE z < y \/ (z = y /\ n < m)
  <2>1. Ordinal(z, n, c) < Ordinal(y, m, 1)
    BY <1>1, <1>4, DateOrder
  <2> QED BY ONLY <1>2, <1>3, <1>4, <2>1, SMT
<1>5. CASE z = y /\ n = m
  <2>1. Ordinal(y, m, 1) <= Ordinal(z, n, c)
    <3>1. CASE c = 1
      BY ONLY <1>3, <1>5, <3>1, SMT
    <3>2. CASE c # 1
      <4>1. 1 < c
        BY ONLY <1>2, <3>2, SMT
      <4>2. Ordinal(y, m, 1) < Ordinal(z, n, c)
        BY <1>1, <1>5, <4>1, DateOrder
      <4> QED BY ONLY <1>3, <4>2, SMT
    <3> QED BY <3>1, <3>2
  <2>2. z < yy \/ (z = yy /\ n < mm)
    BY <1>2, <1>5, SMT DEF NextMonth
  <2>3. Ordinal(z, n, c) < Ordinal(yy, mm, 1)
    BY <2>2, DateOrder
  <2> QED BY <1>5, <2>1, <2>3
<1>6. CASE z > y \/ (z = y /\ n > m)
  <2>1. Ordinal(yy, mm, 1) <= Ordinal(z, n, c)
    <3>1. CASE z = yy /\ n = mm /\ c = 1
      BY ONLY <1>3, <3>1, SMT
    <3>2. CASE ~ (z = yy /\ n = mm /\ c = 1)
      <4>1. yy < z \/ (yy = z /\ mm < n) \/ (yy = z /\ mm = n /\ 1 < c)
        BY <1>2, <1>6, <3>2, SMT DEF NextMonth
      <4>2. Ordinal(yy, mm, 1) < Ordinal(z, n, c)
        BY <4>1, DateOrder
      <4> QED BY ONLY <1>3, <4>2, SMT
    <3> QED BY <3>1, <3>2
  <2> QED BY ONLY <1>2, <1>3, <1>6, <2>1, SMT
<1> QED BY ONLY <1>2, <1>4, <1>5, <1>6, SMT

-----------------------------------------------------------------------------
\* The time is in the window.
Inside(w, t) == w.from <= t /\ t < w.until

\* A window between midnights has both halves of its days.
LEMMA Halves ==
  ASSUME NEW o \in Int, NEW h \in {0, 1}, NEW f \in Int, NEW u \in Int, NEW t, t = 2 * o + h,
         NEW w, w = [from |-> 2 * f, until |-> 2 * u]
  PROVE  Inside(w, t) <=> f <= o /\ o < u
<1>1. w.from = 2 * f /\ w.until = 2 * u
  OBVIOUS
<1>2. 2 * f <= 2 * o + h /\ 2 * o + h < 2 * u <=> f <= o /\ o < u
  BY SMT
<1> QED BY <1>1, <1>2 DEF Inside

\* A date does not raise.
LEMMA NotRaised ==
  ASSUME NEW y, NEW m, NEW d, IsDate(y, m, d)
  PROVE  /\ Datetime(y, m, d) = 2 * Ordinal(y, m, d) /\ Datetime(y, m, d) # Raises
         /\ Ordinal(y, m, d) \in Nat
<1>1. Ordinal(y, m, d) \in 1..LastOrdinal /\ LastOrdinal \in Int
  BY LastDay
<1>2. Ordinal(y, m, d) \in Nat
  BY ONLY <1>1, SMT
<1>3. Datetime(y, m, d) = 2 * Ordinal(y, m, d)
  BY DEF Datetime
<1>4. Datetime(y, m, d) # Raises
  BY ONLY <1>2, <1>3, SMT DEF Raises
<1> QED BY <1>2, <1>3, <1>4

\* The window of a year has the times of its days; that of 9999 raises.
LEMMA YearWindow ==
  ASSUME NEW y, NEW m, NEW d, IsDate(y, m, d),
         NEW z, NEW n, NEW c, IsDate(z, n, c),
         NEW o, o = Ordinal(z, n, c), NEW h \in {0, 1}, NEW t, t = 2 * o + h,
         NEW w, w = YearOf(y)
  PROVE  /\ Raises \in {w.from, w.until} <=> y = MAXYEAR
         /\ y # MAXYEAR => (Inside(w, t) <=> z = y)
<1>1. /\ IsDate(y, 1, 1)
      /\ y < MAXYEAR => IsDate(y + 1, 1, 1)
      /\ ~ (y < MAXYEAR) => y = MAXYEAR /\ ~ IsDate(y + 1, 1, 1)
  BY FirstDays
<1>2. w = [from |-> Datetime(y, 1, 1), until |-> Datetime(y + 1, 1, 1)]
  BY DEF YearOf
<1>3. PICK f \in Int : f = Ordinal(y, 1, 1) /\ Datetime(y, 1, 1) = 2 * f /\ Datetime(y, 1, 1) # Raises
  <2>1. IsDate(y, 1, 1)
    BY <1>1
  <2>2. Ordinal(y, 1, 1) \in Nat /\ Datetime(y, 1, 1) = 2 * Ordinal(y, 1, 1) /\ Datetime(y, 1, 1) # Raises
    BY ONLY <2>1, NotRaised
  <2> QED BY <2>2
<1>4. CASE y = MAXYEAR
  <2>1. ~ (y < MAXYEAR)
    BY <1>4, Years
  <2>2. Datetime(y + 1, 1, 1) = Raises
    BY <1>1, <2>1 DEF Datetime
  <2> QED BY <1>2, <1>4, <2>2
<1>5. CASE y # MAXYEAR
  <2>1. y < MAXYEAR
    BY <1>1, <1>5
  <2>2. IsDate(y + 1, 1, 1)
    BY ONLY <1>1, <2>1
  <2>3. PICK u \in Int :
          /\ u = Ordinal(y + 1, 1, 1) /\ Datetime(y + 1, 1, 1) = 2 * u
          /\ Datetime(y + 1, 1, 1) # Raises
    <3> DEFINE k == y + 1
    <3>1. IsDate(k, 1, 1)
      BY <2>2
    <3> HIDE DEF k
    <3>2. Ordinal(k, 1, 1) \in Nat /\ Datetime(k, 1, 1) = 2 * Ordinal(k, 1, 1) /\ Datetime(k, 1, 1) # Raises
      BY ONLY <3>1, NotRaised
    <3> QED BY <3>2 DEF k
  <2>4. f <= o /\ o < u <=> z = y
    BY <1>3, <2>1, <2>3, YearSpan
  <2>5. w = [from |-> 2 * f, until |-> 2 * u] /\ Raises \notin {w.from, w.until}
    BY <1>2, <1>3, <2>3
  <2>6. o \in Int
    BY OrdinalParts
  <2>7. Inside(w, t) <=> f <= o /\ o < u
    BY <2>5, <2>6, Halves
  <2> QED BY <1>5, <2>4, <2>5, <2>7
<1> QED BY <1>4, <1>5

\* The window of a month has the times of its days; the last of all raises.
LEMMA MonthWindow ==
  ASSUME NEW y, NEW m, NEW d, IsDate(y, m, d),
         NEW z, NEW n, NEW c, IsDate(z, n, c),
         NEW o, o = Ordinal(z, n, c), NEW h \in {0, 1}, NEW t, t = 2 * o + h,
         NEW w, w = MonthOf(y, m)
  PROVE  /\ Raises \in {w.from, w.until} <=> y = MAXYEAR /\ m = 12
         /\ ~ (y = MAXYEAR /\ m = 12) => (Inside(w, t) <=> z = y /\ n = m)
<1>1. /\ IsDate(y, m, 1)
      /\ m < 12 => IsDate(y, m + 1, 1)
      /\ y < MAXYEAR => IsDate(y + 1, 1, 1)
      /\ ~ (y < MAXYEAR) => y = MAXYEAR /\ ~ IsDate(y + 1, 1, 1)
  BY FirstDays
<1>2. PICK yy, mm :
        /\ NextMonth(y, m, yy, mm)
        /\ w = [from |-> Datetime(y, m, 1), until |-> Datetime(yy, mm, 1)]
  <2>1. CASE m = 12
    <3>1. w = [from |-> Datetime(y, m, 1), until |-> Datetime(y + 1, 1, 1)]
      BY <2>1 DEF MonthOf, FirstOfNext
    <3> QED BY <2>1, <3>1, Zenon DEF NextMonth
  <2>2. CASE m # 12
    <3>1. w = [from |-> Datetime(y, m, 1), until |-> Datetime(y, m + 1, 1)]
      BY <2>2 DEF MonthOf, FirstOfNext
    <3> QED BY <2>2, <3>1, Zenon DEF NextMonth
  <2> QED BY <2>1, <2>2
<1>3. PICK f \in Int : f = Ordinal(y, m, 1) /\ Datetime(y, m, 1) = 2 * f /\ Datetime(y, m, 1) # Raises
  <2>1. IsDate(y, m, 1)
    BY <1>1
  <2>2. Ordinal(y, m, 1) \in Nat /\ Datetime(y, m, 1) = 2 * Ordinal(y, m, 1) /\ Datetime(y, m, 1) # Raises
    BY ONLY <2>1, NotRaised
  <2> QED BY <2>2
<1>4. CASE y = MAXYEAR /\ m = 12
  <2>1. ~ (y < MAXYEAR)
    BY <1>4, Years
  <2>2. ~ IsDate(yy, mm, 1)
    BY ONLY <1>1, <1>2, <1>4, <2>1 DEF NextMonth
  <2>3. Datetime(yy, mm, 1) = Raises
    BY ONLY <2>2 DEF Datetime
  <2> QED BY <1>2, <1>4, <2>3
<1>5. CASE ~ (y = MAXYEAR /\ m = 12)
  <2>1. IsDate(yy, mm, 1)
    <3>1. CASE m = 12
      <4>1. y < MAXYEAR
        BY <1>1, <1>5, <3>1
      <4> QED BY ONLY <1>1, <1>2, <3>1, <4>1 DEF NextMonth
    <3>2. CASE m # 12
      <4>1. m \in 1..12
        BY DateRanges
      <4>2. m < 12
        BY ONLY <3>2, <4>1, SMT
      <4> QED BY ONLY <1>1, <1>2, <3>2, <4>2 DEF NextMonth
    <3> QED BY <3>1, <3>2
  <2>2. PICK u \in Int :
          /\ u = Ordinal(yy, mm, 1) /\ Datetime(yy, mm, 1) = 2 * u
          /\ Datetime(yy, mm, 1) # Raises
    <3>1. /\ Ordinal(yy, mm, 1) \in Nat /\ Datetime(yy, mm, 1) = 2 * Ordinal(yy, mm, 1)
          /\ Datetime(yy, mm, 1) # Raises
      BY ONLY <2>1, NotRaised
    <3> QED BY <3>1
  <2>3. f <= o /\ o < u <=> z = y /\ n = m
    <3>1. /\ Ordinal(y, m, 1) <= Ordinal(z, n, c) /\ Ordinal(z, n, c) < Ordinal(yy, mm, 1)
             <=> z = y /\ n = m
      BY ONLY <1>2, <2>1, IsDate(y, m, d), IsDate(z, n, c), MonthSpan
    <3> QED BY ONLY <1>3, <2>2, <3>1, o = Ordinal(z, n, c)
  <2>4. w = [from |-> 2 * f, until |-> 2 * u] /\ Raises \notin {w.from, w.until}
    BY <1>2, <1>3, <2>2
  <2>5. o \in Int
    BY OrdinalParts
  <2>6. Inside(w, t) <=> f <= o /\ o < u
    BY <2>4, <2>5, Halves
  <2> QED BY <1>5, <2>3, <2>4, <2>6
<1> QED BY <1>4, <1>5

\* The window of a day has the times of that day; the last of all raises.
LEMMA DayWindow ==
  ASSUME NEW x, IsDay(x), NEW z, IsDay(z), NEW t, t = 2 * OrdinalOf(z) + z.half,
         NEW w, w = DayOf(x.year, x.month, x.day)
  PROVE  /\ Raises \in {w.from, w.until} <=> x.year = MAXYEAR /\ x.month = 12 /\ x.day = 31
         /\ Raises \notin {w.from, w.until} => (Inside(w, t) <=> OrdinalOf(z) = OrdinalOf(x))
<1> DEFINE r == Datetime(x.year, x.month, x.day)
           o == OrdinalOf(z)
           f == OrdinalOf(x)
<1>1. /\ r = 2 * f /\ r # Raises /\ f \in Nat /\ o \in Nat /\ z.half \in {0, 1}
      /\ f \in 1..LastOrdinal /\ LastOrdinal \in Nat
  BY NotRaised, DayOrdinal DEF IsDay, OrdinalOf
<1>2. f = LastOrdinal <=> x.year = MAXYEAR /\ x.month = 12 /\ x.day = 31
  BY LastDay, Years DEF IsDay, OrdinalOf
<1>3. w.from = r /\ w.until = PlusDays(r, 1) /\ w = [from |-> w.from, until |-> w.until]
  BY DEF DayOf
<1> HIDE DEF r, o, f
<1>4. PlusDays(r, 1) = IF r + 2 * 1 > 2 * LastOrdinal + 1 THEN Raises ELSE r + 2 * 1
  BY <1>1 DEF PlusDays
<1>5. r + 2 * 1 > 2 * LastOrdinal + 1 <=> f = LastOrdinal
  BY ONLY <1>1, SMT
<1>6. r + 2 * 1 = 2 * (f + 1) /\ f + 1 \in Nat /\ (f <= o /\ o < f + 1 <=> o = f)
  BY ONLY <1>1, SMT
<1>7. CASE f = LastOrdinal
  BY <1>2, <1>3, <1>4, <1>5, <1>7
<1>8. CASE f # LastOrdinal
  <2>1. w.until = 2 * (f + 1)
    BY <1>3, <1>4, <1>5, <1>6, <1>8
  <2>2. w.until # Raises
    BY ONLY <1>6, <2>1, SMT DEF Raises
  <2> DEFINE u == f + 1
  <2>3. w = [from |-> 2 * f, until |-> 2 * u] /\ u \in Nat /\ t = 2 * o + z.half
    BY <1>1, <1>3, <1>6, <2>1 DEF o
  <2> HIDE DEF u
  <2>4. Inside(w, t) <=> f <= o /\ o < u
    BY <1>1, <2>3, Halves
  <2>5. Inside(w, t) <=> o = f
    BY <1>6, <2>4 DEF u
  <2> QED BY <1>1, <1>2, <1>3, <1>8, <2>2, <2>5 DEF o, f
<1> QED BY <1>7, <1>8

\* The window of a week runs from its Monday to the midnight that begins the day.
LEMMA WeekWindow ==
  ASSUME NEW x, IsDay(x), NEW z, IsDay(z), NEW t, t = 2 * OrdinalOf(z) + z.half,
         NEW w, w = WeekTo(x.year, x.month, x.day), x.year >= MIN_YEAR
  PROVE  /\ Raises \notin {w.from, w.until}
         /\ Inside(w, t) <=> /\ OrdinalOf(x) - x.weekday <= OrdinalOf(z)
                             /\ t <= 2 * OrdinalOf(x)
<1> DEFINE r == Datetime(x.year, x.month, x.day)
           o == OrdinalOf(z)
           f == OrdinalOf(x)
           g == x.weekday
<1>1. /\ r = 2 * f /\ r # Raises /\ f \in Nat /\ o \in Nat /\ z.half \in {0, 1}
      /\ f \in 1..LastOrdinal /\ LastOrdinal \in Nat /\ g \in 0..6
  BY NotRaised, DayOrdinal DEF IsDay, OrdinalOf
<1>2. g = (f + 6) % 7
  BY DEF IsDay
<1>3. w.from = Monday(r) /\ w.until = r + 1
  BY DEF WeekTo
<1>4. t = 2 * o + z.half
  OBVIOUS
<1> HIDE DEF r, o, f, g
<1>5. Weekday(r) = g
  <2>1. (r \div 2 + 6) % 7 = (f + 6) % 7
    BY ONLY <1>1, SMT
  <2> QED BY <1>2, <2>1 DEF Weekday
<1>6. Monday(r) = PlusDays(r, -g)
  BY <1>5 DEF Monday
<1>7. PlusDays(r, -g) = r + 2 * (-g)
  <2>1. ~ (r + 2 * (-g) > 2 * LastOrdinal + 1)
    BY ONLY <1>1, SMT
  <2> QED BY <1>1, <2>1 DEF PlusDays
<1>8. w.from = 2 * f - 2 * g /\ w.until = 2 * f + 1
  BY <1>1, <1>3, <1>6, <1>7, SMT
<1>9. w.from # Raises /\ w.until # Raises
  BY ONLY <1>1, <1>8, SMT DEF Raises
<1>10. 2 * f - 2 * g <= t /\ t < 2 * f + 1 <=> f - g <= o /\ t <= 2 * f
  BY ONLY <1>1, <1>4, SMT
<1> QED BY <1>8, <1>9, <1>10 DEF Inside, f, g, o

-----------------------------------------------------------------------------
\* Two days of one calendar are as far apart as their ticks.
LEMMA SameClock ==
  ASSUME NEW u, NEW v, NEW i, NEW n,
         Reached(u, i), Reached(v, n), Clock(u, i) = Clock(v, n)
  PROVE  /\ OrdinalOf(u) - OrdinalOf(v) = i \div 2 - n \div 2
         /\ n = 2 * (n \div 2) + v.half
<1> DEFINE a == OrdinalOf(u)
           b == OrdinalOf(v)
           g == u.half
           h == v.half
<1>1. a \in Nat /\ b \in Nat /\ g \in {0, 1} /\ h \in {0, 1}
  BY DayOrdinal DEF Reached
<1>2. i \in Nat /\ n \in Nat /\ 2 * a + g - i = 2 * b + h - n /\ i % 2 = g /\ n % 2 = h
  BY DEF Clock, Reached
<1> HIDE DEF a, b, g, h
<1>3. a - b = i \div 2 - n \div 2 /\ n = 2 * (n \div 2) + h
  BY ONLY <1>1, <1>2, SMT
<1> QED BY <1>3 DEF a, b, h

\* What is asked about is a day of that calendar.
LEMMA AskedDay ==
  ASSUME WindowsInv, NEW q \in Asked
  PROVE  /\ IsDay(q.date) /\ q.tick \in Nat /\ q.tick % 2 = q.date.half
         /\ Clock(q.date, q.tick) = Clock(today, ticks)
<1>1. CASE q = [date |-> today, tick |-> ticks]
  <2>1. ticks \in Nat
    BY StartsOK DEF WindowsInv
  <2> QED BY <1>1, <2>1 DEF WindowsInv
<1>2. ASSUME NEW e \in ledger, q = [date |-> e.date, tick |-> e.tick]
      PROVE  /\ IsDay(q.date) /\ q.tick \in Nat /\ q.tick % 2 = q.date.half
             /\ Clock(q.date, q.tick) = Clock(today, ticks)
  <2>1. Kept(e) /\ Clock(e.date, e.tick) = Clock(today, ticks)
    BY DEF WindowsInv
  <2>2. q.date = e.date /\ q.tick = e.tick
    BY <1>2
  <2> QED BY <2>1, <2>2 DEF Kept
<1>3. q = [date |-> today, tick |-> ticks] \/ \E e \in ledger : q = [date |-> e.date, tick |-> e.tick]
  BY DEF Asked
<1> QED BY <1>1, <1>2, <1>3

\* The parts of a day that the windows are worked out from.
LEMMA AskedParts ==
  ASSUME NEW x, IsDay(x)
  PROVE  /\ IsDate(x.year, x.month, x.day) /\ x.year >= MIN_YEAR
         /\ OrdinalOf(x) = Ordinal(x.year, x.month, x.day)
         /\ x.half \in {0, 1} /\ OrdinalOf(x) \in Nat /\ x.weekday \in 0..6
BY DayOrdinal DEF IsDay, OrdinalOf

\* A window raises exactly when it ends with the year 9999.
LEMMA Fails ==
  ASSUME NEW grain \in Grains, NEW q, IsDay(q.date),
         NEW w, w = Window(grain, q.date.year, q.date.month, q.date.day)
  PROVE  Raises \in {w.from, w.until} <=> PastTheEnd(grain, q)
<1> DEFINE x == q.date
           t == 2 * OrdinalOf(x) + x.half
<1>1. /\ IsDate(x.year, x.month, x.day) /\ x.year >= MIN_YEAR
      /\ OrdinalOf(x) = Ordinal(x.year, x.month, x.day) /\ x.half \in {0, 1} /\ IsDay(x)
  BY AskedParts
<1>2. t = 2 * OrdinalOf(x) + x.half
  OBVIOUS
<1>3. PastTheEnd(grain, q) <=> /\ x.year = MAXYEAR
                               /\ grain # "weekly"
                               /\ grain \in {"daily", "monthly"} => x.month = 12
                               /\ grain = "daily" => x.day = 31
  BY DEF PastTheEnd
<1>4. w = Window(grain, x.year, x.month, x.day)
  OBVIOUS
<1> HIDE DEF x, t
<1>5. CASE grain = "yearly"
  <2>1. w = YearOf(x.year)
    BY <1>4, <1>5 DEF Window
  <2>2. Raises \in {w.from, w.until} <=> x.year = MAXYEAR
    BY ONLY <1>1, <1>2, <2>1, YearWindow
  <2> QED BY <1>3, <1>5, <2>2
<1>6. CASE grain = "monthly"
  <2>1. w = MonthOf(x.year, x.month)
    BY <1>4, <1>6 DEF Window
  <2>2. Raises \in {w.from, w.until} <=> x.year = MAXYEAR /\ x.month = 12
    BY ONLY <1>1, <1>2, <2>1, MonthWindow
  <2> QED BY <1>3, <1>6, <2>2
<1>7. CASE grain = "daily"
  <2>1. w = DayOf(x.year, x.month, x.day)
    BY <1>4, <1>7 DEF Window
  <2>2. Raises \in {w.from, w.until} <=> x.year = MAXYEAR /\ x.month = 12 /\ x.day = 31
    BY ONLY <1>1, <1>2, <2>1, DayWindow
  <2> QED BY <1>3, <1>7, <2>2
<1>8. CASE grain = "weekly"
  <2>1. w = WeekTo(x.year, x.month, x.day)
    BY <1>4, <1>8 DEF Window
  <2>2. Raises \notin {w.from, w.until}
    BY ONLY <1>1, <1>2, <2>1, WeekWindow
  <2> QED BY <1>3, <1>8, <2>2
<1> QED BY <1>5, <1>6, <1>7, <1>8 DEF Grains

\* A window that does not raise has the expenses of its period.
LEMMA Finds ==
  ASSUME WindowsInv, NEW grain \in Grains, NEW q \in Asked, NEW e \in ledger,
         ~ PastTheEnd(grain, q),
         NEW w, w = Window(grain, q.date.year, q.date.month, q.date.day)
  PROVE  Inside(w, e.time) <=> Covered(grain, e, q)
<1> DEFINE x == q.date
           z == e.date
           j == q.tick
           k == e.tick
           t == e.time
<1>1. /\ IsDay(x) /\ j \in Nat /\ j % 2 = x.half
      /\ IsDay(z) /\ k \in Nat /\ k % 2 = z.half
      /\ Clock(x, j) = Clock(z, k) /\ t = 2 * OrdinalOf(z) + z.half
  BY AskedDay DEF WindowsInv, Kept
<1>2. w = Window(grain, x.year, x.month, x.day) /\ (Raises \in {w.from, w.until} <=> PastTheEnd(grain, q))
  BY <1>1, Fails
<1>3. PastTheEnd(grain, q) <=> /\ x.year = MAXYEAR
                               /\ grain # "weekly"
                               /\ grain \in {"daily", "monthly"} => x.month = 12
                               /\ grain = "daily" => x.day = 31
  BY DEF PastTheEnd
<1>4. /\ grain = "yearly" => (Covered(grain, e, q) <=> z.year = x.year)
      /\ grain = "monthly" => (Covered(grain, e, q) <=> z.year = x.year /\ z.month = x.month)
      /\ grain = "daily" => (Covered(grain, e, q) <=> k \div 2 = j \div 2)
      /\ grain = "weekly" => (Covered(grain, e, q) <=> /\ j \div 2 - x.weekday <= k \div 2
                                                        /\ k <= 2 * (j \div 2))
  BY DEF Covered, DayCount
<1> HIDE DEF x, z, j, k, t
<1>5. /\ IsDate(x.year, x.month, x.day) /\ x.year >= MIN_YEAR
      /\ IsDate(z.year, z.month, z.day) /\ OrdinalOf(z) = Ordinal(z.year, z.month, z.day)
      /\ OrdinalOf(x) \in Nat /\ OrdinalOf(z) \in Nat /\ z.half \in {0, 1} /\ x.weekday \in 0..6
  BY <1>1, AskedParts
<1>6. OrdinalOf(x) - OrdinalOf(z) = j \div 2 - k \div 2 /\ k = 2 * (k \div 2) + z.half
  <2>1. Reached(x, j) /\ Reached(z, k)
    BY ONLY <1>1 DEF Reached
  <2>2. Clock(x, j) = Clock(z, k)
    BY <1>1
  <2> QED BY ONLY <2>1, <2>2, SameClock
<1> DEFINE a == j \div 2
           b == k \div 2
           g == x.weekday
           o == OrdinalOf(x)
           p == OrdinalOf(z)
           h == z.half
<1>7. /\ a \in Int /\ b \in Int /\ g \in Int /\ o \in Int /\ p \in Int /\ h \in {0, 1}
      /\ o - p = a - b /\ k = 2 * b + h /\ t = 2 * p + h
  <2>1. a \in Int /\ b \in Int
    BY ONLY <1>1, SMT
  <2>2. g \in Int /\ o \in Int /\ p \in Int /\ h \in {0, 1}
    BY ONLY <1>5
  <2>3. o - p = a - b /\ k = 2 * b + h /\ t = 2 * p + h
    BY ONLY <1>1, <1>6
  <2> QED BY <2>1, <2>2, <2>3
<1>8. CASE grain = "yearly"
  <2>1. w = YearOf(x.year)
    BY <1>2, <1>8 DEF Window
  <2>2. x.year # MAXYEAR => (Inside(w, t) <=> z.year = x.year)
    BY ONLY <1>1, <1>5, <2>1, YearWindow
  <2> QED BY <1>3, <1>4, <1>8, <2>2 DEF t
<1>9. CASE grain = "monthly"
  <2>1. w = MonthOf(x.year, x.month)
    BY <1>2, <1>9 DEF Window
  <2>2. ~ (x.year = MAXYEAR /\ x.month = 12) =>
           (Inside(w, t) <=> z.year = x.year /\ z.month = x.month)
    BY ONLY <1>1, <1>5, <2>1, MonthWindow
  <2> QED BY <1>3, <1>4, <1>9, <2>2 DEF t
<1>10. CASE grain = "daily"
  <2>1. w = DayOf(x.year, x.month, x.day)
    BY <1>2, <1>10 DEF Window
  <2>2. Raises \notin {w.from, w.until} => (Inside(w, t) <=> OrdinalOf(z) = OrdinalOf(x))
    BY ONLY <1>1, <2>1, DayWindow
  <2>3. p = o <=> b = a
    <3> HIDE DEF a, b, o, p, g, h
    <3> QED BY ONLY <1>7, SMT
  <2> QED BY <1>2, <1>4, <1>10, <2>2, <2>3 DEF t
<1>11. CASE grain = "weekly"
  <2>1. w = WeekTo(x.year, x.month, x.day)
    BY <1>2, <1>11 DEF Window
  <2>2. Inside(w, t) <=> OrdinalOf(x) - x.weekday <= OrdinalOf(z) /\ t <= 2 * OrdinalOf(x)
    BY ONLY <1>1, <1>5, <2>1, WeekWindow
  <2>3. o - g <= p /\ t <= 2 * o <=> a - g <= b /\ k <= 2 * a
    <3> HIDE DEF a, b, o, p, g, h
    <3> QED BY ONLY <1>7, SMT
  <2> QED BY <1>4, <1>11, <2>2, <2>3 DEF t
<1> QED BY <1>8, <1>9, <1>10, <1>11 DEF Grains

\* The validators accept every day of the calendar.
LEMMA Accepted ==
  ASSUME NEW grain \in Grains, NEW x, IsDay(x)
  PROVE  Validated(grain, x.year, x.month, x.day)
<1>1. IsDate(x.year, x.month, x.day) /\ x.year >= MIN_YEAR
  BY AskedParts
<1>2. x.year \in MIN_YEAR..MAX_YEAR /\ x.month \in 1..12
  <2>1. x.year \in 1..MAXYEAR /\ x.month \in 1..12
    BY <1>1 DEF IsDate
  <2>2. x.year \in Int /\ x.year <= MAXYEAR
    <3>1. MAXYEAR \in Int
      BY DEF MAXYEAR
    <3> QED BY ONLY <2>1, <3>1
  <2>3. MIN_YEAR \in Int /\ MAX_YEAR \in Int /\ MAX_YEAR = MAXYEAR
    BY DEF MIN_YEAR, MAX_YEAR, MAXYEAR
  <2>4. x.year \in MIN_YEAR..MAX_YEAR
    BY ONLY <1>1, <2>2, <2>3
  <2> QED BY <2>1, <2>4
<1> QED BY <1>1, <1>2 DEF Validated

\* A report has the caller's expenses of the period the calendar was in when they were
\* entered, and fails only for a period that ends with the year 9999
\* (models/expense_model.py:124-202).
THEOREM ReportsAreOfTheCalendar == Spec => []ReportsFollowCalendar
<1>1. WindowsInv => ReportsFollowCalendar
  <2> SUFFICES ASSUME WindowsInv, NEW grain \in Grains, NEW owner \in Owners, NEW q \in Asked
               PROVE  Report(grain, owner, q.date.year, q.date.month, q.date.day) =
                        IF PastTheEnd(grain, q) THEN [status |-> 500, expenses |-> {}]
                        ELSE [status |-> 200,
                              expenses |-> {e \in ledger : e.owner = owner /\ Covered(grain, e, q)}]
    BY DEF ReportsFollowCalendar
  <2>1. IsDay(q.date)
    BY AskedDay
  <2>2. PICK w : w = Window(grain, q.date.year, q.date.month, q.date.day)
    OBVIOUS
  <2>3. Raises \in {w.from, w.until} <=> PastTheEnd(grain, q)
    BY <2>1, <2>2, Fails
  <2>4. Validated(grain, q.date.year, q.date.month, q.date.day)
    BY <2>1, Accepted
  <2>5. PICK s : s = Status(grain, q.date.year, q.date.month, q.date.day, w)
    OBVIOUS
  <2>6. s = IF PastTheEnd(grain, q) THEN 500 ELSE 200
    BY <2>3, <2>4, <2>5 DEF Status
  <2>7. Report(grain, owner, q.date.year, q.date.month, q.date.day) =
          [status |-> s, expenses |-> IF s = 200 THEN Found(owner, w) ELSE {}]
    BY <2>2, <2>5 DEF Report
  <2>8. CASE PastTheEnd(grain, q)
    BY <2>6, <2>7, <2>8
  <2>9. CASE ~ PastTheEnd(grain, q)
    <3>1. ASSUME NEW e \in ledger
          PROVE  w.from <= e.time /\ e.time < w.until <=> Covered(grain, e, q)
      BY <2>2, <2>9, Finds DEF Inside
    <3>2. Found(owner, w) = {e \in ledger : e.owner = owner /\ Covered(grain, e, q)}
      BY <3>1 DEF Found
    <3> QED BY <2>6, <2>7, <2>9, <3>2
  <2> QED BY <2>8, <2>9
<1> QED BY <1>1, WindowsInvariant, PTL

\* The sum of no expenses is nothing.
LEMMA SumOfNone == SumOf({}) = 0
<1> DEFINE D == SUBSET {}
           Step(f, s) == LET x == CHOOSE y \in s : TRUE IN x.amount + f[s \ {x}]
           It(f) == f = [s \in D |-> IF s = {} THEN 0 ELSE Step(f, s)]
<1>1. \E f : It(f)
  <2>1. It([s \in D |-> 0])
    OBVIOUS
  <2> QED BY <2>1
<1>2. It(CHOOSE f : It(f))
  BY <1>1, Zenon
<1>3. (CHOOSE f : It(f))[{}] = 0
  BY <1>2
<1> QED BY <1>3 DEF SumOf, MapThenSumSet, MapThenFoldSet

\* A total and its report are of one window, so they agree (models/expense_model.py:204-284).
THEOREM TotalsAreOfReports == Spec => []TotalsMatchReports
<1>1. ASSUME NEW grain \in Grains, NEW y, NEW m, NEW d
      PROVE  AmountWindow(grain, y, m, d) = Window(grain, y, m, d)
  <2>1. AmountEndOfMonth(y, m) = FirstOfNext(y, m)
    BY DEF AmountEndOfMonth, FirstOfNext
  <2> QED BY <2>1 DEF AmountWindow, Window, MonthOf, YearOf, DayOf, WeekTo, Grains
<1>2. TotalsMatchReports
  <2> SUFFICES ASSUME NEW grain \in Grains, NEW owner \in Owners, NEW y, NEW m, NEW d
               PROVE  LET r == Report(grain, owner, y, m, d)
                          t == Total(grain, owner, y, m, d) IN
                      t.status = r.status /\ t.amount = SumOf(r.expenses)
    BY DEF TotalsMatchReports
  <2>1. PICK w : w = Window(grain, y, m, d)
    OBVIOUS
  <2>2. PICK s : s = Status(grain, y, m, d, w)
    OBVIOUS
  <2>3. Report(grain, owner, y, m, d) =
          [status |-> s, expenses |-> IF s = 200 THEN Found(owner, w) ELSE {}]
    BY <2>1, <2>2 DEF Report
  <2>4. Total(grain, owner, y, m, d) =
          [status |-> s, amount |-> IF s = 200 THEN SumOf(Found(owner, w)) ELSE 0]
    BY <1>1, <2>1, <2>2 DEF Total
  <2> QED BY <2>3, <2>4, SumOfNone
<1> QED BY <1>2, PTL
=============================================================================
