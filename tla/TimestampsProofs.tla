-------------------------- MODULE TimestampsProofs -------------------------
(***************************************************************************)
(* Theorems about Timestamps, for every instant and every day: the split    *)
(* of the microseconds is exact, and the date is the calendar's.            *)
(***************************************************************************)
EXTENDS Timestamps, SequenceTheorems, TLAPS

-----------------------------------------------------------------------------
(* The split.                                                              *)

\* Division that truncates leaves a remainder smaller than the divisor.
LEMMA QuotRange ==
  ASSUME NEW a \in Int, NEW b \in Nat \ {0}
  PROVE  /\ Quot(a, b) \in Int
         /\ Rem(a, b) \in Int
         /\ a = b * Quot(a, b) + Rem(a, b)
         /\ a >= 0 => 0 <= Rem(a, b) /\ Rem(a, b) < b
         /\ a < 0 => -b < Rem(a, b) /\ Rem(a, b) <= 0
<1> DEFINE n == IF a >= 0 THEN a ELSE -a
           q == n \div b
<1>1. n \in Nat
  OBVIOUS
<1>2. q \in Int /\ b * q <= n /\ n < b * q + b
  BY <1>1, Z3
<1> HIDE DEF q
<1>3. CASE a >= 0
  <2>1. Quot(a, b) = q
    BY <1>3 DEF Quot, q
  <2> QED BY <1>2, <1>3, <2>1 DEF Rem
<1>4. CASE a < 0
  <2>1. Quot(a, b) = -q
    BY <1>4 DEF Quot, q
  <2>2. b * (-q) = -(b * q)
    BY <1>2
  <2> QED BY <1>2, <1>4, <2>1, <2>2 DEF Rem
<1> QED BY <1>3, <1>4

\* One borrow makes the remainder a proper one.
LEMMA BorrowedRange ==
  ASSUME NEW a \in Int, NEW b \in Nat \ {0}
  PROVE  \E q, r \in Int : /\ Borrowed(a, b) = <<q, r>>
                           /\ 0 <= r /\ r < b
                           /\ a = b * q + r
<1> DEFINE q == Quot(a, b)
           r == Rem(a, b)
<1>1. /\ q \in Int /\ r \in Int
      /\ a = b * q + r
      /\ -b < r /\ r < b
  BY QuotRange
<1>2. Borrowed(a, b) = IF r < 0 THEN <<q - 1, r + b>> ELSE <<q, r>>
  BY DEF Borrowed
<1> HIDE DEF q, r
<1>3. b * (q - 1) = b * q - b
  BY <1>1
<1>4. CASE r < 0
  <2>1. /\ q - 1 \in Int /\ r + b \in Int
        /\ 0 <= r + b /\ r + b < b
        /\ a = b * (q - 1) + (r + b)
    BY <1>1, <1>3, <1>4
  <2> QED BY <1>2, <1>4, <2>1
<1>5. CASE ~(r < 0)
  BY <1>1, <1>2, <1>5
<1> QED BY <1>4, <1>5

(* An instant is split into days, seconds of a day and microseconds of a
   second, all in their ranges, and they add up to it: nothing is lost and
   nothing rounded, on both sides of the epoch (core.hpp:349-362).         *)
THEOREM SplitCorrect ==
  ASSUME NEW us \in Int
  PROVE  LET s == Split(us)
         IN  /\ s = [day |-> s.day, sod |-> s.sod, sub |-> s.sub]
             /\ s.day \in Int
             /\ s.sod \in Nat /\ s.sod < 86400
             /\ s.sub \in Nat /\ s.sub < 1000000
             /\ us = (s.day * 86400 + s.sod) * 1000000 + s.sub
<1> DEFINE million == 1000000
           oneDay == 86400
<1>1. million \in Nat \ {0} /\ oneDay \in Nat \ {0}
  BY SMT
<1> HIDE DEF million, oneDay
<1>2. PICK secs, sub \in Int : /\ Borrowed(us, million) = <<secs, sub>>
                               /\ 0 <= sub /\ sub < million
                               /\ us = million * secs + sub
  BY <1>1, BorrowedRange
<1>3. PICK d, sod \in Int : /\ Borrowed(secs, oneDay) = <<d, sod>>
                            /\ 0 <= sod /\ sod < oneDay
                            /\ secs = oneDay * d + sod
  BY <1>1, BorrowedRange
<1> USE DEF million, oneDay
<1>4. Split(us) = [day |-> d, sod |-> sod, sub |-> sub]
  BY <1>2, <1>3, SMT DEF Split
<1>5. us = (d * 86400 + sod) * 1000000 + sub
  BY <1>2, <1>3, SMT
<1>6. sod \in Nat /\ sod < 86400 /\ sub \in Nat /\ sub < 1000000
  BY <1>2, <1>3, SMT
<1> HIDE DEF million, oneDay
<1> QED BY <1>3, <1>4, <1>5, <1>6, SMT

-----------------------------------------------------------------------------
(* The year of an era.  An era is 400 years of 365 or 366 days, and begins
   on March 1.                                                             *)

\* Is the last day of the era's year yoe a February 29?
EndsInLeap(yoe) == (yoe + 1) % 4 = 0 /\ ((yoe + 1) % 100 # 0 \/ yoe = 399)

\* "era" is the quotient that is rounded down.
LEMMA EraRange ==
  ASSUME NEW days \in Int
  PROVE  /\ Era(days) \in Int
         /\ DayOfEra(days) \in Int
         /\ 0 <= DayOfEra(days) /\ DayOfEra(days) <= 146096
BY SMT DEF Era, DayOfEra, Quot

\* The next day is the next one of the era, or the first of the next era.
LEMMA NextEra ==
  ASSUME NEW days \in Int
  PROVE  IF DayOfEra(days) = 146096
           THEN Era(days + 1) = Era(days) + 1 /\ DayOfEra(days + 1) = 0
           ELSE Era(days + 1) = Era(days) /\ DayOfEra(days + 1) = DayOfEra(days) + 1
BY SMT DEF Era, DayOfEra, Quot

\* The comments [0, 399] and [0, 365] of the code; the 366th day of a year
\* is there only if February had 29.
LEMMA YearRange ==
  ASSUME NEW doe \in Int, 0 <= doe, doe <= 146096
  PROVE  LET yoe == YearOfEra(doe)
             doy == doe - Before(yoe)
         IN  /\ yoe \in Int /\ 0 <= yoe /\ yoe <= 399
             /\ doy \in Int /\ 0 <= doy /\ doy <= 365
             /\ doy = 365 => EndsInLeap(yoe)
<1> DEFINE yoe == YearOfEra(doe)
<1>1. yoe \in Int /\ 0 <= yoe /\ yoe <= 399
  BY SMTT(60) DEF YearOfEra
<1>2. Before(yoe) \in Int /\ Before(yoe) <= doe /\ doe - Before(yoe) <= 365
  BY SMTT(60) DEF YearOfEra, Before
<1>3. doe - Before(yoe) = 365 => EndsInLeap(yoe)
  BY SMTT(60) DEF YearOfEra, Before, EndsInLeap
<1> HIDE DEF yoe
<1>4. doe - Before(yoe) \in Int /\ 0 <= doe - Before(yoe)
  BY <1>2, SMT
<1> QED BY <1>1, <1>2, <1>3, <1>4, SMT DEF yoe

\* The next day is the next one of the same year, or the first of the next.
LEMMA NextDayOfEra ==
  ASSUME NEW doe \in Int, 0 <= doe, doe <= 146095
  PROVE  LET yoe == YearOfEra(doe)
             doy == doe - Before(yoe)
         IN  IF doy = IF EndsInLeap(yoe) THEN 365 ELSE 364
               THEN YearOfEra(doe + 1) = yoe + 1 /\ doe + 1 = Before(yoe + 1)
               ELSE YearOfEra(doe + 1) = yoe
BY SMTT(60) DEF YearOfEra, Before, EndsInLeap

\* The last day of an era.
LEMMA LastDayOfEra ==
  /\ YearOfEra(146096) = 399 /\ 146096 - Before(399) = 365 /\ EndsInLeap(399)
  /\ YearOfEra(0) = 0 /\ Before(0) = 0
BY SMTT(60) DEF YearOfEra, Before, EndsInLeap

-----------------------------------------------------------------------------
(* The month and the day of a year.                                        *)

MonthOf(doy) == IF Month(doy) < 10 THEN Month(doy) + 3 ELSE Month(doy) - 9
DayOfMonth(doy) == doy - (153 * Month(doy) + 2) \div 5 + 1

DateOf(era, yoe, doy) ==
  [y |-> yoe + era * 400 + (IF MonthOf(doy) <= 2 THEN 1 ELSE 0),
   m |-> MonthOf(doy), d |-> DayOfMonth(doy)]

\* The last day of a year of an era, and the day after it.
LastDoy(yoe) == IF EndsInLeap(yoe) THEN 365 ELSE 364
MarchFirst(y) == [y |-> y, m |-> 3, d |-> 1]

LEMMA DateOfEraIs ==
  ASSUME NEW era, NEW doe
  PROVE  DateOfEra(era, doe) = DateOf(era, YearOfEra(doe), doe - Before(YearOfEra(doe)))
BY Zenon DEF DateOfEra, DateOf, MonthOf, DayOfMonth

\* The comments [1, 31] and [1, 12]; January and February come last.
LEMMA MonthRange ==
  ASSUME NEW doy \in Int, 0 <= doy, doy <= 365
  PROVE  /\ MonthOf(doy) \in Int /\ 1 <= MonthOf(doy) /\ MonthOf(doy) <= 12
         /\ DayOfMonth(doy) \in Int /\ 1 <= DayOfMonth(doy) /\ DayOfMonth(doy) <= 31
         /\ MonthOf(doy) <= 2 <=> doy >= 306
BY SMTT(60) DEF MonthOf, DayOfMonth, Month

LEMMA NextDayOfYear ==
  ASSUME NEW y \in Int, NEW doy \in Int, 0 <= doy, doy <= 364, doy = 364 => Leap(y)
  PROVE  IF DayOfMonth(doy) < MonthLength(y, MonthOf(doy))
           THEN MonthOf(doy + 1) = MonthOf(doy) /\ DayOfMonth(doy + 1) = DayOfMonth(doy) + 1
           ELSE /\ DayOfMonth(doy + 1) = 1
                /\ MonthOf(doy + 1) = IF MonthOf(doy) < 12 THEN MonthOf(doy) + 1 ELSE 1
BY SMTT(60) DEF MonthOf, DayOfMonth, Month, MonthLength, Leap

LEMMA LastDayOfYear ==
  ASSUME NEW y \in Int, NEW doy \in Int, doy = IF Leap(y) THEN 365 ELSE 364
  PROVE  MonthOf(doy) = 2 /\ DayOfMonth(doy) = MonthLength(y, 2)
BY SMTT(60) DEF MonthOf, DayOfMonth, Month, MonthLength

LEMMA FirstDayOfYear == MonthOf(0) = 3 /\ DayOfMonth(0) = 1
BY SMTT(60) DEF MonthOf, DayOfMonth, Month

\* The leap years of an era are those of the calendar.
LEMMA LeapOfEra ==
  ASSUME NEW era \in Int, NEW yoe \in Int, 0 <= yoe, yoe <= 399
  PROVE  Leap(yoe + era * 400 + 1) <=> EndsInLeap(yoe)
BY SMTT(60) DEF Leap, EndsInLeap

-----------------------------------------------------------------------------
(* From one date to the next.                                              *)

\* DateOf gives a date of the calendar; yoe and doy as YearRange says.
LEMMA DateIsValid ==
  ASSUME NEW era \in Int, NEW yoe \in Int, 0 <= yoe, yoe <= 399,
         NEW doy \in Int, 0 <= doy, doy <= 365, doy = 365 => EndsInLeap(yoe)
  PROVE  LET c == DateOf(era, yoe, doy)
         IN  /\ c = [y |-> c.y, m |-> c.m, d |-> c.d]
             /\ c.y \in Int
             /\ c.m \in Int /\ 1 <= c.m /\ c.m <= 12
             /\ c.d \in Int /\ 1 <= c.d /\ c.d <= MonthLength(c.y, c.m)
<1> DEFINE m == MonthOf(doy)
           d == DayOfMonth(doy)
           y == yoe + era * 400 + (IF m <= 2 THEN 1 ELSE 0)
<1>1. m \in Int /\ 1 <= m /\ m <= 12 /\ d \in Int /\ 1 <= d
  BY MonthRange
<1>2. y \in Int
  BY <1>1, SMT
<1>3. doy = 365 => Leap(y)
  <2>1. m <= 2 <=> doy >= 306
    BY MonthRange
  <2> HIDE DEF m
  <2> QED BY <2>1, LeapOfEra, SMT
<1>4. d <= MonthLength(y, m)
  BY <1>2, <1>3, SMTT(60) DEF MonthOf, DayOfMonth, Month, MonthLength
<1>5. DateOf(era, yoe, doy) = [y |-> y, m |-> m, d |-> d]
  BY Zenon DEF DateOf
<1> HIDE DEF m, d, y
<1> QED BY <1>1, <1>2, <1>4, <1>5, SMT

\* Within a year of an era.
LEMMA TomorrowInYear ==
  ASSUME NEW era \in Int, NEW yoe \in Int, 0 <= yoe, yoe <= 399,
         NEW doy \in Int, 0 <= doy, doy <= 364, doy = 364 => EndsInLeap(yoe)
  PROVE  Tomorrow(DateOf(era, yoe, doy)) = DateOf(era, yoe, doy + 1)
<1> DEFINE m == MonthOf(doy)
           d == DayOfMonth(doy)
           n == MonthOf(doy + 1)
           e == DayOfMonth(doy + 1)
           y == yoe + era * 400 + (IF m <= 2 THEN 1 ELSE 0)
           z == yoe + era * 400 + (IF n <= 2 THEN 1 ELSE 0)
<1>1. /\ m \in Int /\ 1 <= m /\ m <= 12 /\ (m <= 2 <=> doy >= 306)
      /\ d \in Int
      /\ n \in Int /\ 1 <= n /\ n <= 12 /\ (n <= 2 <=> doy + 1 >= 306)
      /\ e \in Int
  BY MonthRange, SMT
<1>2. doy = 364 => Leap(y)
  BY <1>1, LeapOfEra, SMT
<1>3. y \in Int
  BY <1>1, SMT
<1>4. IF d < MonthLength(y, m) THEN n = m /\ e = d + 1
                               ELSE e = 1 /\ n = IF m < 12 THEN m + 1 ELSE 1
  BY <1>2, <1>3, NextDayOfYear
<1>5. /\ DateOf(era, yoe, doy) = [y |-> y, m |-> m, d |-> d]
      /\ DateOf(era, yoe, doy + 1) = [y |-> z, m |-> n, d |-> e]
  BY Zenon DEF DateOf
<1>6. CASE d < MonthLength(y, m)
  <2>1. y = z /\ n = m /\ e = d + 1
    BY <1>1, <1>4, <1>6, SMT
  <2> HIDE DEF m, d, n, e, y, z
  <2> QED BY <1>5, <1>6, <2>1, SMT DEF Tomorrow
<1>7. CASE ~(d < MonthLength(y, m)) /\ m < 12
  <2>1. n = m + 1 /\ e = 1
    BY <1>1, <1>4, <1>7, SMT
  <2>2. y = z
    BY <1>1, <2>1, SMT
  <2> HIDE DEF m, d, n, e, y, z
  <2> QED BY <1>5, <1>7, <2>1, <2>2, SMT DEF Tomorrow
<1>8. CASE ~(d < MonthLength(y, m)) /\ ~(m < 12)
  <2>1. n = 1 /\ e = 1 /\ m = 12
    BY <1>1, <1>4, <1>8, SMT
  <2>2. z = y + 1
    BY <1>1, <2>1, SMT
  <2> HIDE DEF m, d, n, e, y, z
  <2> QED BY <1>5, <1>8, <2>1, <2>2, SMT DEF Tomorrow
<1> QED BY <1>6, <1>7, <1>8

\* From the last day of February to March 1, the first day of the next year
\* of the era, or of the next era.
LEMMA TomorrowIsMarch ==
  ASSUME NEW era \in Int, NEW yoe \in Int, 0 <= yoe, yoe <= 399,
         NEW doy \in Int, doy = LastDoy(yoe),
         NEW y, y = yoe + era * 400 + 1
  PROVE  Tomorrow(DateOf(era, yoe, doy)) = MarchFirst(y)
<1>1. y \in Int /\ (Leap(y) <=> EndsInLeap(yoe))
  BY LeapOfEra, SMT
<1>2. MonthOf(doy) = 2 /\ DayOfMonth(doy) = MonthLength(y, 2)
  BY <1>1, LastDayOfYear DEF LastDoy
<1>3. DateOf(era, yoe, doy) = [y |-> y, m |-> 2, d |-> MonthLength(y, 2)]
  BY <1>2, SMT DEF DateOf
<1>4. MonthLength(y, 2) \in Int
  BY SMT DEF MonthLength
<1> QED BY <1>3, <1>4, SMT DEF Tomorrow, MarchFirst

-----------------------------------------------------------------------------
(* From one civil date to the next.                                        *)

\* Every civil date is a date of some year of an era.
LEMMA CivilIs ==
  ASSUME NEW d \in Int
  PROVE  LET era == Era(Shifted(d))
             doe == DayOfEra(Shifted(d))
             yoe == YearOfEra(doe)
             doy == doe - Before(yoe)
         IN  /\ Civil(d) = DateOf(era, yoe, doy)
             /\ era \in Int /\ doe \in Int /\ 0 <= doe /\ doe <= 146096
             /\ yoe \in Int /\ 0 <= yoe /\ yoe <= 399
             /\ doy \in Int /\ 0 <= doy /\ doy <= 365
             /\ doy = 365 => EndsInLeap(yoe)
<1> DEFINE era == Era(Shifted(d))
           doe == DayOfEra(Shifted(d))
<1>1. Shifted(d) \in Int
  BY SMT DEF Shifted
<1>2. era \in Int /\ doe \in Int /\ 0 <= doe /\ doe <= 146096
  BY <1>1, EraRange, SMT
<1>3. Civil(d) = DateOfEra(era, doe)
  BY Zenon DEF Civil
<1> HIDE DEF era, doe
<1>4. Civil(d) = DateOf(era, YearOfEra(doe), doe - Before(YearOfEra(doe)))
  BY <1>3, DateOfEraIs, Zenon
<1> QED BY <1>2, <1>4, YearRange, SMT DEF era, doe

\* The arithmetic gives the next day the next date.
LEMMA CivilTomorrow ==
  ASSUME NEW d \in Int
  PROVE  Civil(d + 1) = Tomorrow(Civil(d))
<1> DEFINE era == Era(Shifted(d))
           doe == DayOfEra(Shifted(d))
           yoe == YearOfEra(doe)
           doy == doe - Before(yoe)
           next == doe + 1
           doy1 == next - Before(YearOfEra(next))
           y1 == yoe + era * 400 + 1
<1>1. /\ Civil(d) = DateOf(era, yoe, doy)
      /\ era \in Int /\ doe \in Int /\ 0 <= doe /\ doe <= 146096
      /\ yoe \in Int /\ 0 <= yoe /\ yoe <= 399
      /\ doy \in Int /\ 0 <= doy /\ doy <= 365
      /\ doy = 365 => EndsInLeap(yoe)
  BY CivilIs, SMT
<1>2. Shifted(d) \in Int /\ Shifted(d + 1) = Shifted(d) + 1
  BY SMT DEF Shifted
<1>3. Civil(d + 1) = DateOfEra(Era(Shifted(d) + 1), DayOfEra(Shifted(d) + 1))
  BY <1>2, Zenon DEF Civil
<1>4. CASE doe = 146096
  <2>1. Civil(d + 1) = DateOfEra(era + 1, 0)
    <3>1. Era(Shifted(d) + 1) = era + 1 /\ DayOfEra(Shifted(d) + 1) = 0
      BY <1>2, <1>4, NextEra, SMT
    <3> QED BY <1>3, <3>1, SMT
  <2>2. yoe = 399 /\ doy = LastDoy(yoe)
    BY <1>4, LastDayOfEra, SMT DEF LastDoy
  <2> HIDE DEF era, yoe, doy
  <2>3. DateOfEra(era + 1, 0) = DateOf(era + 1, 0, 0)
    BY DateOfEraIs, LastDayOfEra, SMT
  <2>4. DateOf(era + 1, 0, 0) = MarchFirst(y1)
    BY <1>1, <2>2, FirstDayOfYear, SMT DEF DateOf, MarchFirst
  <2>5. Tomorrow(DateOf(era, yoe, doy)) = MarchFirst(y1)
    BY <1>1, <2>2, TomorrowIsMarch, SMT
  <2> QED BY <1>1, <2>1, <2>3, <2>4, <2>5, SMT
<1>5. CASE doe # 146096
  <2>1. Civil(d + 1) = DateOf(era, YearOfEra(next), doy1)
    <3>1. Era(Shifted(d) + 1) = era /\ DayOfEra(Shifted(d) + 1) = doe + 1
      BY <1>2, <1>5, NextEra, SMT
    <3>2. Civil(d + 1) = DateOfEra(era, next)
      BY <1>3, <3>1, Zenon
    <3> HIDE DEF era, next
    <3>3. DateOfEra(era, next) = DateOf(era, YearOfEra(next), next - Before(YearOfEra(next)))
      BY DateOfEraIs, Zenon
    <3> QED BY <3>2, <3>3, Zenon
  <2>2. doe <= 146095
    BY <1>1, <1>5, SMT
  <2> HIDE DEF doe
  <2>3. IF doy = LastDoy(yoe) THEN YearOfEra(next) = yoe + 1 /\ doe + 1 = Before(yoe + 1)
                      ELSE YearOfEra(next) = yoe
    BY <1>1, <2>2, NextDayOfEra, SMT DEF LastDoy
  <2>4. Before(yoe) \in Int /\ Before(yoe + 1) \in Int
    BY <1>1, SMT DEF Before
  <2>5. CASE doy = LastDoy(yoe)
    <3>1. YearOfEra(next) = yoe + 1 /\ doy1 = 0
      <4>1. doe + 1 = Before(yoe + 1) /\ YearOfEra(next) = yoe + 1
        BY <2>3, <2>5, Zenon
      <4> HIDE DEF yoe
      <4> QED BY <1>1, <2>4, <4>1, SMT
    <3> HIDE DEF era, yoe, doy, doy1
    <3>2. DateOf(era, yoe + 1, 0) = MarchFirst(y1)
      BY <1>1, FirstDayOfYear, SMT DEF DateOf, MarchFirst
    <3>3. Tomorrow(DateOf(era, yoe, doy)) = MarchFirst(y1)
      BY <1>1, <2>5, TomorrowIsMarch, SMT
    <3> QED BY <1>1, <2>1, <3>1, <3>2, <3>3, SMT
  <2>6. CASE doy # LastDoy(yoe)
    <3>1. YearOfEra(next) = yoe
      BY <2>3, <2>6, Zenon
    <3>2. doy1 = doy + 1
      <4> HIDE DEF yoe, next
      <4>1. doy1 = next - Before(yoe)
        BY <3>1, SMT
      <4> HIDE DEF doy1
      <4> USE DEF next
      <4> QED BY <1>1, <2>4, <4>1, SMT
    <3>3. doy <= 364 /\ (doy = 364 => EndsInLeap(yoe))
      <4> HIDE DEF yoe, doy
      <4> QED BY <1>1, <2>6, SMT DEF LastDoy
    <3> HIDE DEF era, yoe, doy, doy1
    <3>4. Tomorrow(DateOf(era, yoe, doy)) = DateOf(era, yoe, doy + 1)
      BY <1>1, <3>3, TomorrowInYear, SMT
    <3> QED BY <1>1, <2>1, <3>1, <3>2, <3>4, SMT
  <2> QED BY <2>5, <2>6, Zenon
<1> QED BY <1>4, <1>5, SMT

-----------------------------------------------------------------------------
(* The calendar's theorems.                                                *)

\* Civil dates are dates of the calendar.
LEMMA CivilIsValid ==
  ASSUME NEW d \in Int
  PROVE  LET c == Civil(d)
         IN  /\ c = [y |-> c.y, m |-> c.m, d |-> c.d]
             /\ c.y \in Int
             /\ c.m \in Int /\ 1 <= c.m /\ c.m <= 12
             /\ c.d \in Int /\ 1 <= c.d /\ c.d <= MonthLength(c.y, c.m)
<1> DEFINE era == Era(Shifted(d))
           yoe == YearOfEra(DayOfEra(Shifted(d)))
           doy == DayOfEra(Shifted(d)) - Before(yoe)
<1>1. /\ Civil(d) = DateOf(era, yoe, doy)
      /\ era \in Int /\ yoe \in Int /\ 0 <= yoe /\ yoe <= 399
      /\ doy \in Int /\ 0 <= doy /\ doy <= 365
      /\ doy = 365 => EndsInLeap(yoe)
  BY CivilIs, SMT
<1> HIDE DEF era, yoe, doy
<1> QED BY <1>1, DateIsValid, SMT

\* Going forward and back again leads to the same date.
LEMMA YesterdayOfTomorrow ==
  ASSUME NEW c, c = [y |-> c.y, m |-> c.m, d |-> c.d],
         c.y \in Int, c.m \in Int, 1 <= c.m, c.m <= 12,
         c.d \in Int, 1 <= c.d, c.d <= MonthLength(c.y, c.m)
  PROVE  Yesterday(Tomorrow(c)) = c
<1>1. MonthLength(c.y, 12) = 31
  BY SMT DEF MonthLength
<1>2. MonthLength(c.y, c.m) \in Int
  BY SMT DEF MonthLength
<1>3. CASE c.d < MonthLength(c.y, c.m)
  <2>1. Tomorrow(c) = [y |-> c.y, m |-> c.m, d |-> c.d + 1]
    BY <1>3, SMT DEF Tomorrow
  <2>2. Yesterday(Tomorrow(c)) = [y |-> c.y, m |-> c.m, d |-> c.d]
    BY <2>1, SMT DEF Yesterday
  <2> QED BY <2>2
<1>4. CASE c.d = MonthLength(c.y, c.m) /\ c.m < 12
  <2>1. Tomorrow(c) = [y |-> c.y, m |-> c.m + 1, d |-> 1]
    BY <1>2, <1>4, SMT DEF Tomorrow
  <2>2. Yesterday(Tomorrow(c)) = [y |-> c.y, m |-> c.m, d |-> MonthLength(c.y, c.m)]
    BY <2>1, SMT DEF Yesterday
  <2> QED BY <1>4, <2>2, SMT
<1>5. CASE c.d = MonthLength(c.y, c.m) /\ c.m = 12
  <2>1. Tomorrow(c) = [y |-> c.y + 1, m |-> 1, d |-> 1]
    BY <1>2, <1>5, SMT DEF Tomorrow
  <2>2. Yesterday(Tomorrow(c)) = [y |-> c.y, m |-> 12, d |-> 31]
    BY <2>1, SMT DEF Yesterday
  <2> QED BY <1>1, <1>5, <2>2, SMT
<1> QED BY <1>2, <1>3, <1>4, <1>5, SMT

\* The calendar's day is a number, and the arithmetic gives its date.
LEMMA CalendarInvariant == CalendarSpec => [](day \in Int /\ DateIsCalendars)
<1> DEFINE Inv == day \in Int /\ DateIsCalendars
<1>1. CalendarInit => Inv
  <2>1. Era(719468) = 4 /\ DayOfEra(719468) = 135080
    BY SMT DEF Era, DayOfEra, Quot
  <2>2. YearOfEra(135080) = 369 /\ Before(369) = 134774 /\ Month(306) = 10
    BY SMT DEF YearOfEra, Before, Month
  <2>3. DateOfEra(4, 135080) = [y |-> 1970, m |-> 1, d |-> 1]
    BY <2>2, SMT DEF DateOfEra
  <2>4. Civil(0) = [y |-> 1970, m |-> 1, d |-> 1]
    BY <2>1, <2>3, SMT DEF Civil, Shifted
  <2> QED BY <2>4, SMT DEF CalendarInit, DateIsCalendars
<1>2. Inv /\ [CalendarNext]_<<day, date>> => Inv'
  <2> SUFFICES ASSUME Inv, [CalendarNext]_<<day, date>>
               PROVE  Inv'
    OBVIOUS
  <2> USE DEF DateIsCalendars
  <2>1. CASE NextDay
    BY <2>1, CivilTomorrow, SMT DEF NextDay
  <2>2. CASE PreviousDay
    <3>1. day - 1 \in Int /\ day' = day - 1 /\ date' = Yesterday(date)
      BY <2>2, SMT DEF PreviousDay
    <3>2. Civil(day) = Tomorrow(Civil(day - 1))
      BY <3>1, CivilTomorrow, SMT
    <3>3. Yesterday(Tomorrow(Civil(day - 1))) = Civil(day - 1)
      BY <3>1, CivilIsValid, YesterdayOfTomorrow
    <3> QED BY <3>1, <3>2, <3>3, SMT
  <2>3. CASE UNCHANGED <<day, date>>
    BY <2>3
  <2> QED BY <2>1, <2>2, <2>3 DEF CalendarNext
<1> QED BY <1>1, <1>2, PTL DEF CalendarSpec

(* The arithmetic of format_iso8601 gives the calendar's date for every day,
   however far before or after the epoch (core.hpp:364-373).               *)
THEOREM DateCorrect == CalendarSpec => []DateIsCalendars
<1>1. day \in Int /\ DateIsCalendars => DateIsCalendars
  OBVIOUS
<1> QED BY <1>1, CalendarInvariant, PTL

-----------------------------------------------------------------------------
(* The split of an instant of the calendar.                                *)

(* An instant of any day, however far from the epoch, is split into that day,
   its second of the day and its microsecond (core.hpp:349-362).           *)
THEOREM SplitInverts ==
  ASSUME NEW a \in Int, NEW b \in Nat, b < 86400, NEW c \in Nat, c < 1000000
  PROVE  Split((a * 86400 + b) * 1000000 + c) = [day |-> a, sod |-> b, sub |-> c]
<1>1. PICK us \in Int : us = (a * 86400 + b) * 1000000 + c
  BY SMT
<1>2. PICK d, sod, sub : d = Split(us).day /\ sod = Split(us).sod /\ sub = Split(us).sub
  BY SMT
<1>3. Split(us) = [day |-> d, sod |-> sod, sub |-> sub]
  BY <1>2, SplitCorrect, SMT
<1>4. /\ d \in Int
      /\ sod \in Nat /\ sod < 86400
      /\ sub \in Nat /\ sub < 1000000
      /\ us = (d * 86400 + sod) * 1000000 + sub
  BY <1>2, SplitCorrect, SMT
<1>5. PICK u, v : u = a * 86400 + b /\ v = d * 86400 + sod
  BY SMT
<1>6. u \in Int /\ v \in Int /\ u * 1000000 + c = v * 1000000 + sub
  BY <1>1, <1>4, <1>5, SMT
<1>7. u = v /\ c = sub
  BY <1>4, <1>6, SMT
<1>8. a = d /\ b = sod
  BY <1>4, <1>5, <1>7, SMT
<1> QED BY <1>1, <1>3, <1>7, <1>8, SMT

(* What TLC checks next to the epoch is a case of it (core.hpp:349-362).    *)
THEOREM SplitExactCorrect == CalendarSpec => []SplitIsExact
<1>1. day \in Int /\ DateIsCalendars => SplitIsExact
  <2> SUFFICES ASSUME day \in Int, NEW t \in Times
               PROVE  Split((day * 86400 + t.sod) * 1000000 + t.sub)
                        = [day |-> day, sod |-> t.sod, sub |-> t.sub]
    BY SMT DEF SplitIsExact
  <2>1. PICK a, b, c : a = day /\ b = t.sod /\ c = t.sub
    BY SMT
  <2>2. a \in Int /\ b \in Nat /\ b < 86400 /\ c \in Nat /\ c < 1000000
    BY <2>1, TimesAssumption, SMT
  <2>3. Split((a * 86400 + b) * 1000000 + c) = [day |-> a, sod |-> b, sub |-> c]
    BY <2>2, SplitInverts, SMT
  <2> QED BY <2>1, <2>3, SMT
<1> QED BY <1>1, CalendarInvariant, PTL

-----------------------------------------------------------------------------
(* The order of stamps.                                                    *)

\* The numbers of a stamp up to its fraction, in the years 0 to 9999.
Numbers(c, t) ==
  <<c.y \div 100, c.y % 100, c.m, c.d, t.sod \div 3600, (t.sod \div 60) % 60, t.sod % 60>>

\* A date whose year is printed with four digits and no sign.
Printable(c) == c.y \in Int /\ 0 <= c.y /\ c.y <= 9999 /\ c.m \in Int /\ c.d \in Int

\* The numbers sort, and are not the same.
Less(p, q) == \E i \in 1..7 : p[i] < q[i] /\ \A j \in 1..i - 1 : p[j] = q[j]

LEMMA StampIs ==
  ASSUME NEW d \in Int, NEW t, NEW precision, Printable(Civil(d))
  PROVE  Stamp(d, t, precision) = Numbers(Civil(d), t) \o Fraction(t.sub, precision)
<1>1. Civil(d).y \in Int /\ 0 <= Civil(d).y /\ Civil(d).y <= 9999
  BY SMT DEF Printable
<1>2. PICK y : y = Civil(d).y
  BY SMT
<1>3. (y \div 100) % 100 = y \div 100 /\ ~(y < 0)
  BY <1>1, <1>2, SMT
<1> QED BY <1>2, <1>3, SMT DEF Stamp, Numbers

\* A fraction is no number or one.
LEMMA FractionIs ==
  ASSUME NEW sub \in Nat, sub < 1000000, NEW precision \in Precisions
  PROVE  \/ precision = "Seconds" /\ Fraction(sub, precision) = <<>>
         \/ precision = "Milliseconds" /\ Fraction(sub, precision) = <<sub \div 1000>>
         \/ precision = "Microseconds" /\ Fraction(sub, precision) = <<sub>>
<1>1. (sub \div 1000) % 1000 = sub \div 1000
  BY SMT
<1> QED BY <1>1, SMT DEF Fraction, Precisions

\* The numbers decide, if they are not equal.
LEMMA NumbersDecide ==
  ASSUME NEW S, NEW p \in Seq(S), NEW q \in Seq(S), NEW f \in Seq(S), NEW g \in Seq(S),
         Len(p) = 7, Len(q) = 7, Less(p, q)
  PROVE  Sorted(p \o f, q \o g)
<1> PICK i \in 1..7 : p[i] < q[i] /\ \A j \in 1..i - 1 : p[j] = q[j]
  BY DEF Less
<1>1. Len(f) \in Nat /\ Len(g) \in Nat
  BY LenProperties
<1>2. /\ p \o f \in Seq(S) /\ Len(p \o f) = Len(p) + Len(f)
      /\ \A j \in 1..Len(p) + Len(f) :
           (p \o f)[j] = IF j <= Len(p) THEN p[j] ELSE f[j - Len(p)]
  BY ConcatProperties
<1>3. \A j \in 1..Len(q) + Len(g) :
        (q \o g)[j] = IF j <= Len(q) THEN q[j] ELSE g[j - Len(q)]
  BY ConcatProperties
<1>4. ASSUME NEW j \in 1..7 PROVE (p \o f)[j] = p[j] /\ (q \o g)[j] = q[j]
  <2>1. j \in 1..Len(p) + Len(f) /\ j \in 1..Len(q) + Len(g) /\ j <= Len(p) /\ j <= Len(q)
    BY <1>1
  <2> QED BY <1>2, <1>3, <2>1
<1>5. i \in DOMAIN (p \o f)
  <2>1. DOMAIN (p \o f) = 1..7 + Len(f)
    BY <1>2, LenProperties
  <2> QED BY <1>1, <2>1
<1>6. \A j \in 1..i - 1 : j \in 1..7
  OBVIOUS
<1> QED BY <1>4, <1>5, <1>6, ZenonT(30) DEF Sorted

LEMMA WithOneMore ==
  ASSUME NEW S, NEW p \in Seq(S), NEW a \in S
  PROVE  /\ Len(p \o <<a>>) = Len(p) + 1
         /\ DOMAIN (p \o <<a>>) = 1..Len(p) + 1
         /\ (p \o <<a>>)[Len(p) + 1] = a
         /\ \A j \in 1..Len(p) : (p \o <<a>>)[j] = p[j]
<1>1. p \o <<a>> = Append(p, a)
  BY AppendIsConcat
<1>2. /\ Append(p, a) \in Seq(S)
      /\ Len(Append(p, a)) = Len(p) + 1
      /\ \A j \in 1..Len(p) : Append(p, a)[j] = p[j]
      /\ Append(p, a)[Len(p) + 1] = a
  BY AppendProperties
<1>3. DOMAIN Append(p, a) = 1..Len(p) + 1
  BY <1>2, LenProperties
<1> QED BY <1>1, <1>2, <1>3

\* If they are, the fractions do.
LEMMA FractionsDecide ==
  ASSUME NEW S, NEW p \in Seq(S), NEW a \in S, NEW b \in S,
         a \in Int, b \in Int, a <= b
  PROVE  Sorted(p \o <<a>>, p \o <<b>>)
<1>1. CASE a = b
  BY <1>1 DEF Sorted
<1>2. CASE a # b
  <2>1. PICK n : n = Len(p)
    OBVIOUS
  <2>2. n \in Nat /\ a < b
    BY <1>2, <2>1, LenProperties
  <2>3. /\ DOMAIN (p \o <<a>>) = 1..n + 1
        /\ (p \o <<a>>)[n + 1] = a /\ (p \o <<b>>)[n + 1] = b
        /\ \A j \in 1..n : (p \o <<a>>)[j] = p[j] /\ (p \o <<b>>)[j] = p[j]
    BY <2>1, WithOneMore
  <2>4. n + 1 \in 1..n + 1 /\ (n + 1) - 1 = n
    BY <2>2
  <2> QED BY <2>2, <2>3, <2>4 DEF Sorted
<1> QED BY <1>1, <1>2

LEMMA NumbersAre ==
  ASSUME NEW c, NEW t \in Times, Printable(c)
  PROVE  Numbers(c, t) \in Seq(Int) /\ Len(Numbers(c, t)) = 7
<1>1. PICK a, b, h, m, n : /\ a = c.y \div 100 /\ b = c.y % 100
                           /\ h = t.sod \div 3600 /\ m = (t.sod \div 60) % 60 /\ n = t.sod % 60
  BY SMT
<1>2. t.sod \in Nat
  BY TimesAssumption, SMT
<1>3. a \in Int /\ b \in Int /\ h \in Int /\ m \in Int /\ n \in Int
  BY <1>1, <1>2, SMT DEF Printable
<1>4. Numbers(c, t) = <<a, b, c.m, c.d, h, m, n>>
  BY <1>1, SMT DEF Numbers
<1> QED BY <1>3, <1>4, SMT DEF Printable

\* Stamps are compared by their numbers, then by the microseconds.
LEMMA StampsCompared ==
  ASSUME NEW d1 \in Int, NEW d2 \in Int, Printable(Civil(d1)), Printable(Civil(d2)),
         NEW t1 \in Times, NEW t2 \in Times, NEW precision \in Precisions,
         \/ Less(Numbers(Civil(d1), t1), Numbers(Civil(d2), t2))
         \/ Numbers(Civil(d1), t1) = Numbers(Civil(d2), t2) /\ t1.sub <= t2.sub
  PROVE  Sorted(Stamp(d1, t1, precision), Stamp(d2, t2, precision))
<1>1. PICK p, q, f, g : /\ p = Numbers(Civil(d1), t1) /\ q = Numbers(Civil(d2), t2)
                        /\ f = Fraction(t1.sub, precision) /\ g = Fraction(t2.sub, precision)
  BY SMT
<1>2. Stamp(d1, t1, precision) = p \o f /\ Stamp(d2, t2, precision) = q \o g
  BY <1>1, StampIs, Zenon
<1>3. /\ t1.sub \in Nat /\ t1.sub < 1000000
      /\ t2.sub \in Nat /\ t2.sub < 1000000
  BY TimesAssumption, SMT
<1>4. p \in Seq(Int) /\ Len(p) = 7 /\ q \in Seq(Int) /\ Len(q) = 7
  BY <1>1, NumbersAre, Zenon
<1>5. /\ \/ precision = "Seconds" /\ f = <<>>
         \/ precision = "Milliseconds" /\ f = <<t1.sub \div 1000>>
         \/ precision = "Microseconds" /\ f = <<t1.sub>>
      /\ \/ precision = "Seconds" /\ g = <<>>
         \/ precision = "Milliseconds" /\ g = <<t2.sub \div 1000>>
         \/ precision = "Microseconds" /\ g = <<t2.sub>>
  BY <1>1, <1>3, FractionIs, SMT
<1>6. CASE Less(p, q)
  <2>1. f \in Seq(Int) /\ g \in Seq(Int)
    <3>1. PICK a, b : a = t1.sub \div 1000 /\ b = t2.sub \div 1000
      BY SMT
    <3>2. a \in Int /\ b \in Int /\ t1.sub \in Int /\ t2.sub \in Int
      BY <1>3, <3>1, SMT
    <3>3. f \in {<<>>, <<a>>, <<t1.sub>>} /\ g \in {<<>>, <<b>>, <<t2.sub>>}
      BY <1>5, <3>1, ZenonT(30)
    <3>4. \A x \in Int : <<x>> \in Seq(Int)
      BY SMT
    <3>5. <<>> \in Seq(Int)
      BY SMT
    <3> QED BY <3>2, <3>3, <3>4, <3>5, Zenon
  <2>2. Sorted(p \o f, q \o g)
    BY <1>4, <1>6, <2>1, NumbersDecide, Zenon
  <2> QED BY <1>2, <2>2, Zenon
<1>7. CASE p = q /\ t1.sub <= t2.sub
  <2>1. CASE precision = "Seconds"
    BY <1>2, <1>5, <1>7, <2>1, SMT DEF Sorted
  <2>2. CASE precision = "Milliseconds"
    <3>1. PICK a, b : a = t1.sub \div 1000 /\ b = t2.sub \div 1000
      BY SMT
    <3>2. a \in Int /\ b \in Int /\ a <= b
      BY <1>3, <1>7, <3>1, SMT
    <3>3. f = <<a>> /\ g = <<b>>
      BY <1>5, <2>2, <3>1, SMT
    <3>4. Sorted(p \o <<a>>, p \o <<b>>)
      BY <1>4, <3>2, FractionsDecide, SMT
    <3> QED BY <1>2, <1>7, <3>3, <3>4, SMT
  <2>3. CASE precision = "Microseconds"
    <3>1. PICK a, b : a = t1.sub /\ b = t2.sub
      BY SMT
    <3>2. a \in Int /\ b \in Int /\ a <= b
      BY <1>3, <1>7, <3>1, SMT
    <3>3. f = <<a>> /\ g = <<b>>
      BY <1>5, <2>3, <3>1, SMT
    <3>4. Sorted(p \o <<a>>, p \o <<b>>)
      BY <1>4, <3>2, FractionsDecide, SMT
    <3> QED BY <1>2, <1>7, <3>3, <3>4, SMT
  <2> QED BY <1>5, <2>1, <2>2, <2>3, SMT
<1> QED BY <1>1, <1>6, <1>7, Zenon

\* Within a day the hours, the minutes or the seconds decide.
LEMMA TimeDecides ==
  ASSUME NEW c, NEW t1 \in Times, NEW t2 \in Times, t1.sod < t2.sod
  PROVE  Less(Numbers(c, t1), Numbers(c, t2))
<1>1. PICK p, q, a, b : p = Numbers(c, t1) /\ q = Numbers(c, t2) /\ a = t1.sod /\ b = t2.sod
  BY SMT
<1>2. a \in Nat /\ b \in Nat /\ a < b /\ b < 86400
  BY <1>1, TimesAssumption, SMT
<1>3. /\ p[1] = q[1] /\ p[2] = q[2] /\ p[3] = q[3] /\ p[4] = q[4]
      /\ p[5] = a \div 3600 /\ p[6] = (a \div 60) % 60 /\ p[7] = a % 60
      /\ q[5] = b \div 3600 /\ q[6] = (b \div 60) % 60 /\ q[7] = b % 60
  BY <1>1, SMT DEF Numbers
<1>4. \/ a \div 3600 < b \div 3600
      \/ a \div 3600 = b \div 3600 /\ (a \div 60) % 60 < (b \div 60) % 60
      \/ a \div 3600 = b \div 3600 /\ (a \div 60) % 60 = (b \div 60) % 60 /\ a % 60 < b % 60
  BY <1>2, SMT
<1>5. \/ p[5] < q[5]
      \/ p[5] = q[5] /\ p[6] < q[6]
      \/ p[5] = q[5] /\ p[6] = q[6] /\ p[7] < q[7]
  BY <1>3, <1>4, SMT
<1>6. \A i \in 1..7 : \A j \in 1..i - 1 : j \in {1, 2, 3, 4, 5, 6} /\ j < i
  BY SMT
<1>7. Less(p, q)
  <2>1. CASE p[5] < q[5]
    BY <1>3, <1>6, <2>1, SMT DEF Less
  <2>2. CASE p[5] = q[5] /\ p[6] < q[6]
    BY <1>3, <1>6, <2>2, SMT DEF Less
  <2>3. CASE p[5] = q[5] /\ p[6] = q[6] /\ p[7] < q[7]
    BY <1>3, <1>6, <2>3, SMT DEF Less
  <2> QED BY <1>5, <2>1, <2>2, <2>3
<1> QED BY <1>1, <1>7, Zenon

\* From day to day the year, the month or the day decides.
LEMMA DateDecides ==
  ASSUME NEW d \in Int, 0 <= Civil(d).y, Civil(d + 1).y <= 9999, NEW t1, NEW t2
  PROVE  /\ Printable(Civil(d)) /\ Printable(Civil(d + 1))
         /\ Less(Numbers(Civil(d), t1), Numbers(Civil(d + 1), t2))
<1>1. PICK c, n, x, y, z, p, q :
        /\ c = Civil(d) /\ n = Civil(d + 1) /\ x = c.y /\ y = c.m /\ z = c.d
        /\ p = Numbers(c, t1) /\ q = Numbers(n, t2)
  BY SMT
<1>2. /\ n = Tomorrow(c) /\ c = [y |-> x, m |-> y, d |-> z]
      /\ x \in Int /\ y \in Int /\ z \in Int
  BY <1>1, CivilTomorrow, CivilIsValid, SMT
<1>3. \/ n.y = x /\ n.m = y /\ n.d = z + 1
      \/ n.y = x /\ n.m = y + 1 /\ n.d = 1
      \/ n.y = x + 1 /\ n.m = 1 /\ n.d = 1
  BY <1>2, SMT DEF Tomorrow
<1>4. 0 <= x /\ n.y <= 9999
  BY <1>1, SMT
<1>5. Printable(c) /\ Printable(n)
  BY <1>1, <1>2, <1>3, <1>4, SMT DEF Printable
<1>6. /\ p[1] = x \div 100 /\ p[2] = x % 100 /\ p[3] = y /\ p[4] = z
      /\ q[1] = n.y \div 100 /\ q[2] = n.y % 100 /\ q[3] = n.m /\ q[4] = n.d
  BY <1>1, SMT DEF Numbers
<1>7. \A i \in 1..7 : \A j \in 1..i - 1 : j \in {1, 2, 3, 4, 5, 6} /\ j < i
  BY SMT
<1>8. Less(p, q)
  <2>1. CASE n.y = x /\ n.m = y /\ n.d = z + 1
    <3>1. p[1] = q[1] /\ p[2] = q[2] /\ p[3] = q[3] /\ p[4] < q[4]
      BY <1>2, <1>6, <2>1, SMT
    <3> QED BY <1>7, <3>1, SMT DEF Less
  <2>2. CASE n.y = x /\ n.m = y + 1 /\ n.d = 1
    <3>1. p[1] = q[1] /\ p[2] = q[2] /\ p[3] < q[3]
      BY <1>2, <1>6, <2>2, SMT
    <3> QED BY <1>7, <3>1, SMT DEF Less
  <2>3. CASE n.y = x + 1
    <3>1. \/ x \div 100 < (x + 1) \div 100
          \/ x \div 100 = (x + 1) \div 100 /\ x % 100 < (x + 1) % 100
      BY <1>2, SMT
    <3>2. p[1] < q[1] \/ (p[1] = q[1] /\ p[2] < q[2])
      BY <1>6, <2>3, <3>1, SMT
    <3> QED BY <1>7, <3>2, SMT DEF Less
  <2> QED BY <1>3, <2>1, <2>2, <2>3
<1> QED BY <1>1, <1>5, <1>8, SMT

(* "ISO-8601 sorts lexically" (tests/timestamp.cpp:61), for every day of the
   years 0 to 9999, every two times of day and every precision.            *)
THEOREM SortCorrect == CalendarSpec => []StampsSort
<1>1. day \in Int /\ DateIsCalendars => StampsSort
  <2> SUFFICES ASSUME day \in Int, Civil(day) = date,
                      0 <= date.y, Tomorrow(date).y <= 9999,
                      NEW precision \in Precisions, NEW s \in Times, NEW t \in Times
               PROVE  /\ Earlier(s, t) => Sorted(Stamp(day, s, precision), Stamp(day, t, precision))
                      /\ Sorted(Stamp(day, s, precision), Stamp(day + 1, t, precision))
    BY SMT DEF StampsSort, DateIsCalendars
  <2>1. day + 1 \in Int /\ 0 <= Civil(day).y /\ Civil(day + 1).y <= 9999
    BY CivilTomorrow, SMT
  <2>2. /\ Printable(Civil(day)) /\ Printable(Civil(day + 1))
        /\ Less(Numbers(Civil(day), s), Numbers(Civil(day + 1), t))
    BY <2>1, DateDecides, SMT
  <2>3. Sorted(Stamp(day, s, precision), Stamp(day + 1, t, precision))
    BY <2>1, <2>2, StampsCompared, SMT
  <2>4. ASSUME Earlier(s, t) PROVE Sorted(Stamp(day, s, precision), Stamp(day, t, precision))
    <3>1. CASE s.sod < t.sod
      <4>1. Less(Numbers(Civil(day), s), Numbers(Civil(day), t))
        BY <3>1, TimeDecides, SMT
      <4> QED BY <2>2, <4>1, StampsCompared, SMT
    <3>2. CASE s.sod = t.sod /\ s.sub <= t.sub
      <4>1. Numbers(Civil(day), s) = Numbers(Civil(day), t)
        BY <3>2, SMT DEF Numbers
      <4> QED BY <2>2, <3>2, <4>1, StampsCompared, SMT
    <3> QED BY <2>4, <3>1, <3>2, SMT DEF Earlier
  <2> QED BY <2>3, <2>4, SMT
<1> QED BY <1>1, CalendarInvariant, PTL
=============================================================================
