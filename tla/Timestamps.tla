----------------------------- MODULE Timestamps ----------------------------
(***************************************************************************)
(* detail::format_iso8601 (include/clogpp/core.hpp): an instant, a count of *)
(* microseconds since the epoch, is split into days, seconds and            *)
(* microseconds, the days are turned into a civil date by arithmetic alone, *)
(* and all of it is printed at fixed widths.  Beside it walks a calendar    *)
(* that only knows how long months are, from the epoch in both directions.  *)
(* A stamp is the sequence of the numbers that are printed.                 *)
(***************************************************************************)
EXTENDS Integers, Sequences

CONSTANTS
  DaysBack, DaysAhead,  \* how far the calendar walks from the epoch
  Times                 \* times of day: [sod : 0..86399, sub : 0..999999]

ASSUME TimesAssumption ==
  /\ {DaysBack, DaysAhead} \subseteq Nat
  /\ \A t \in Times : /\ t.sod \in Nat /\ t.sod < 86400
                      /\ t.sub \in Nat /\ t.sub < 1000000

VARIABLES
  day,   \* days since the epoch
  date   \* that day in the calendar

Precisions == {"Seconds", "Milliseconds", "Microseconds"}

-----------------------------------------------------------------------------
\* / and % of C++ for b > 0.
Quot(a, b) == IF a >= 0 THEN a \div b ELSE -((-a) \div b)
Rem(a, b) == a - b * Quot(a, b)

-----------------------------------------------------------------------------
(* Mistakes the code could have had; no specification uses them.            *)

\* No borrow from the larger unit.
Unborrowed(a, b) == <<Quot(a, b), Rem(a, b)>>

\* Every fourth year is a leap year.
YearOfEraJulian(doe) == (doe - doe \div 1460) \div 365

\* Milliseconds are rounded, not cut off.
FractionRounded(sub, precision) ==
  CASE precision = "Seconds" -> <<>>
    [] precision = "Milliseconds" -> <<((sub + 500) \div 1000) % 1000>>
    [] OTHER -> <<sub>>

-----------------------------------------------------------------------------
\* A quotient and a remainder that is not negative.
Borrowed(a, b) ==
  IF Rem(a, b) < 0 THEN <<Quot(a, b) - 1, Rem(a, b) + b>> ELSE <<Quot(a, b), Rem(a, b)>>

Split(us) ==
  LET second == Borrowed(us, 1000000)
      days == Borrowed(second[1], 86400)
  IN  [day |-> days[1], sod |-> days[2], sub |-> second[2]]

Era(days) == Quot(IF days >= 0 THEN days ELSE days - 146096, 146097)

DayOfEra(days) == days - Era(days) * 146097

YearOfEra(doe) == (doe - doe \div 1460 + doe \div 36524 - doe \div 146096) \div 365

\* Days of an era before its year yoe, which begins on March 1.
Before(yoe) == 365 * yoe + yoe \div 4 - yoe \div 100

Month(doy) == (5 * doy + 2) \div 153

\* The date of a day of an era.
DateOfEra(era, doe) ==
  LET yoe == YearOfEra(doe)
      doy == doe - Before(yoe)
      mp == Month(doy)
      m == IF mp < 10 THEN mp + 3 ELSE mp - 9
  IN  [y |-> yoe + era * 400 + (IF m <= 2 THEN 1 ELSE 0),
       m |-> m,
       d |-> doy - (153 * mp + 2) \div 5 + 1]

\* Days are counted from March 1 of the year 0.
Shifted(d) == d + 719468

Civil(d) == DateOfEra(Era(Shifted(d)), DayOfEra(Shifted(d)))

Fraction(sub, precision) ==
  CASE precision = "Seconds" -> <<>>
    [] precision = "Milliseconds" -> <<(sub \div 1000) % 1000>>
    [] OTHER -> <<sub>>

\* The numbers printed, two digits each, up to the fraction with its three
\* or six.  A minus is printed in front if the year is negative.
Stamp(d, t, precision) ==
  LET c == Civil(d)
      y == IF c.y < 0 THEN -c.y ELSE c.y
  IN  <<(y \div 100) % 100, y % 100, c.m, c.d,
        t.sod \div 3600, (t.sod \div 60) % 60, t.sod % 60>> \o Fraction(t.sub, precision)

-----------------------------------------------------------------------------
(* The proleptic Gregorian calendar.                                       *)

Leap(y) == y % 4 = 0 /\ (y % 100 # 0 \/ y % 400 = 0)

MonthLength(y, m) ==
  CASE m = 2 -> IF Leap(y) THEN 29 ELSE 28
    [] m \in {4, 6, 9, 11} -> 30
    [] OTHER -> 31

Tomorrow(c) ==
  IF c.d < MonthLength(c.y, c.m) THEN [c EXCEPT !.d = @ + 1]
  ELSE IF c.m < 12 THEN [y |-> c.y, m |-> c.m + 1, d |-> 1]
  ELSE [y |-> c.y + 1, m |-> 1, d |-> 1]

Yesterday(c) ==
  IF c.d > 1 THEN [c EXCEPT !.d = @ - 1]
  ELSE IF c.m > 1 THEN [y |-> c.y, m |-> c.m - 1, d |-> MonthLength(c.y, c.m - 1)]
  ELSE [y |-> c.y - 1, m |-> 12, d |-> 31]

CalendarInit ==
  /\ day = 0
  /\ date = [y |-> 1970, m |-> 1, d |-> 1]

NextDay ==
  /\ 0 <= day /\ day < DaysAhead
  /\ day' = day + 1
  /\ date' = Tomorrow(date)

PreviousDay ==
  /\ -DaysBack < day /\ day <= 0
  /\ day' = day - 1
  /\ date' = Yesterday(date)

CalendarNext == NextDay \/ PreviousDay

CalendarSpec == CalendarInit /\ [][CalendarNext]_<<day, date>>

-----------------------------------------------------------------------------
(* The date that the arithmetic computes is the calendar's, for every day
   (core.hpp:364-373).                                                     *)
DateIsCalendars == Civil(day) = date

\* Lexicographic order of stamps of one precision.
Sorted(s, t) ==
  \/ s = t
  \/ \E i \in DOMAIN s : s[i] < t[i] /\ \A j \in 1..i - 1 : s[j] = t[j]

Earlier(s, t) == s.sod < t.sod \/ (s.sod = t.sod /\ s.sub <= t.sub)

(* "ISO-8601 sorts lexically" (tests/timestamp.cpp:61): of two instants the
   later one has a stamp that does not sort before the other's, at every
   precision, within a day and from day to day; from the year 0 to 9999, as
   other years have a sign or lose digits.                                 *)
StampsSort ==
  0 <= date.y /\ Tomorrow(date).y <= 9999 =>
    \A precision \in Precisions, s, t \in Times :
      /\ Earlier(s, t) => Sorted(Stamp(day, s, precision), Stamp(day, t, precision))
      /\ Sorted(Stamp(day, s, precision), Stamp(day + 1, t, precision))

(* Microseconds before and after the epoch fall on the day, the second and
   the microsecond they should (core.hpp:349-362): as far as the numbers of
   TLC reach, half an hour to either side.                                 *)
SplitIsExact ==
  \A t \in Times :
    (day = 0 /\ t.sod < 2000) \/ (day = -1 /\ t.sod >= 84400) =>
      Split((day * 86400 + t.sod) * 1000000 + t.sub) = [day |-> day, sod |-> t.sod, sub |-> t.sub]
=============================================================================
