--------------------------- MODULE CivilTimeProofs ---------------------------
(***************************************************************************)
(* CivilTime, proved for every day from the epoch on, with seconds of any  *)
(* number of ticks: the 10^9 of the code among them.                       *)
(*                                                                         *)
(* A day is era, year of the era from March on, and day of that year; a    *)
(* date is read off these three.  Each lemma about a division is linear    *)
(* arithmetic over a bounded range, with the era taken out first.          *)
(***************************************************************************)
EXTENDS CivilTime, TLAPS

-----------------------------------------------------------------------------
(* Days of an era. *)

(* The days before a year of the era, and the years whose last day, at the *)
(* end of February, is a leap day.                                         *)
YearStart(y) == 365 * y + y \div 4 - y \div 100
LeapEnd(y) == (y + 1) % 4 = 0 /\ ((y + 1) % 100 # 0 \/ y = 399)
YearsOfEra == 0 .. 399
DaysOfYear == 0 .. 365
LastDoy(y) == IF LeapEnd(y) THEN 365 ELSE 364

(* A day of an era has a year and a day of the year; the correction terms  *)
(* of the division by 365 are right at every leap day.                     *)
LEMMA YearOfEraRange ==
  ASSUME NEW doe \in Nat, doe <= 146096
  PROVE  YearOfEra(doe) \in 0 .. 399
  BY SMTT(20) DEF YearOfEra

LEMMA DayOfYearRange ==
  ASSUME NEW doe \in Nat, doe <= 146096
  PROVE  DayOfYear(doe, YearOfEra(doe)) \in 0 .. LastDoy(YearOfEra(doe))
<1> DEFINE y == YearOfEra(doe)
<1>1. y \in 0 .. 399
  BY YearOfEraRange
<1>2. DayOfYear(doe, y) >= 0
  BY SMTT(30) DEF YearOfEra, DayOfYear
<1>3. DayOfYear(doe, y) <= 365
  BY SMTT(30) DEF YearOfEra, DayOfYear
<1>4. DayOfYear(doe, y) = 365 => LeapEnd(y)
  BY SMTT(60) DEF YearOfEra, DayOfYear, LeapEnd
<1> QED
  BY <1>1, <1>2, <1>3, <1>4 DEF DayOfYear, LastDoy

(* And the year and the day of the year give the day of the era back, so   *)
(* that no other year and day do.                                          *)
LEMMA DayOfEraRange ==
  ASSUME NEW y \in YearsOfEra, NEW doy \in DaysOfYear, doy = 365 => LeapEnd(y)
  PROVE  YearStart(y) + doy \in Nat /\ YearStart(y) + doy <= 146096
  BY SMTT(30) DEF LeapEnd, YearStart, YearsOfEra, DaysOfYear

LEMMA YearAndDayOfEra ==
  ASSUME NEW y \in YearsOfEra, NEW doy \in DaysOfYear, doy = 365 => LeapEnd(y)
  PROVE  /\ YearOfEra(YearStart(y) + doy) = y
         /\ DayOfYear(YearStart(y) + doy, y) = doy
<1>1. YearOfEra(YearStart(y) + doy) = y
  BY SMTT(60) DEF YearOfEra, LeapEnd, YearStart, YearsOfEra, DaysOfYear
<1>2. DayOfYear(YearStart(y) + doy, y) = doy
  BY SMT DEF DayOfYear, YearStart, YearsOfEra, DaysOfYear
<1> QED
  BY <1>1, <1>2

(* A year follows the last day of the year before. *)
LEMMA YearsFollow ==
  ASSUME NEW y \in YearsOfEra
  PROVE  /\ y < 399 => YearStart(y + 1) = YearStart(y) + LastDoy(y) + 1
         /\ y = 399 => YearStart(y) + LastDoy(y) = 146096
  BY SMTT(30) DEF YearStart, LastDoy, LeapEnd, YearsOfEra

-----------------------------------------------------------------------------
(* Eras. *)

(* The day of the era is a remainder; the day after is in the same era, or *)
(* the first of the next.                                                  *)
LEMMA EraIsQuotient ==
  ASSUME NEW z \in Nat
  PROVE  Era(z) = z \div DaysPerEra /\ DayOfEra(z) = z - Era(z) * DaysPerEra
<1>1. z >= 0
  OBVIOUS
<1> QED
  BY <1>1, SMT DEF Era, DayOfEra

LEMMA EraOfDay ==
  ASSUME NEW z \in Nat
  PROVE  /\ Era(z) \in Nat /\ DayOfEra(z) \in Nat /\ DayOfEra(z) <= 146096
         /\ z = 146097 * Era(z) + DayOfEra(z)
<1>1. /\ z \div 146097 \in Nat
      /\ z - (z \div 146097) * 146097 \in Nat
      /\ z - (z \div 146097) * 146097 <= 146096
  BY SMT
<1> QED
  BY <1>1, EraIsQuotient, SMT DEF DaysPerEra

LEMMA EraOfSum ==
  ASSUME NEW e \in Nat, NEW doe \in Nat, doe <= 146096,
         NEW z \in Nat, z = 146097 * e + doe
  PROVE  Era(z) = e /\ DayOfEra(z) = doe
<1>1. z \div 146097 = e /\ z - e * 146097 = doe
  BY SMT
<1>2. Era(z) = z \div 146097 /\ DayOfEra(z) = z - Era(z) * 146097
  BY EraIsQuotient, SMT DEF DaysPerEra
<1> QED
  BY <1>1, <1>2, SMT

(* Leap years are those of the era, whatever the era. *)
LEMMA LeapYearOfEra ==
  ASSUME NEW y \in YearsOfEra, NEW e \in Nat
  PROVE  IsLeap(y + e * 400 + 1) <=> LeapEnd(y)
<1>1. /\ (y + 1 + e * 400) % 4 = (y + 1) % 4
      /\ (y + 1 + e * 400) % 100 = (y + 1) % 100
      /\ (y + 1 + e * 400) % 400 = (y + 1) % 400
  BY SMT DEF YearsOfEra
<1>2. (y + 1) % 400 = 0 <=> y = 399
  BY SMT DEF YearsOfEra
<1>3. y + e * 400 + 1 = y + 1 + e * 400
  BY SMT DEF YearsOfEra
<1> QED
  BY <1>1, <1>2, <1>3 DEF IsLeap, LeapEnd

-----------------------------------------------------------------------------
(* Months. *)

DayOfMonth(doy) == doy - (153 * MonthFromMarch(doy) + 2) \div 5 + 1

(* The days of a month that is not February. *)
DaysFromMarch(mp) == IF mp \in {1, 3, 6, 8} THEN 30 ELSE 31

MonthInRange(doy) ==
  /\ MonthFromMarch(doy) \in 0 .. 11 /\ DayOfMonth(doy) \in 1 .. 31
  /\ MonthFromMarch(doy) < 11 => DayOfMonth(doy) <= DaysFromMarch(MonthFromMarch(doy))
  /\ MonthFromMarch(doy) = 11 => DayOfMonth(doy) = doy - 336

LEMMA MonthRange ==
  ASSUME NEW doy \in DaysOfYear
  PROVE  MonthInRange(doy)
  BY SMTT(30) DEF MonthInRange, MonthFromMarch, DayOfMonth, DaysFromMarch, DaysOfYear

(* The next day is the next of the month, or the first of the next one     *)
(* when the month has as many days as its name says.                       *)
LEMMA MonthsFollow ==
  ASSUME NEW doy \in 0 .. 364
  PROVE  LET m == MonthFromMarch(doy)
             n == MonthFromMarch(doy + 1)
         IN  \/ /\ n = m /\ DayOfMonth(doy + 1) = DayOfMonth(doy) + 1
                /\ m < 11 => DayOfMonth(doy) < DaysFromMarch(m)
             \/ /\ m < 11 /\ n = m + 1 /\ DayOfMonth(doy + 1) = 1
                /\ DayOfMonth(doy) = DaysFromMarch(m)
  BY SMTT(30) DEF MonthFromMarch, DayOfMonth, DaysFromMarch

-----------------------------------------------------------------------------
(* Dates. *)

(* The date of a day of a year of an era. *)
DateOf(e, y, doy) ==
  LET mp == MonthFromMarch(doy)
      m == IF mp < 10 THEN mp + 3 ELSE mp - 9
      year == y + e * 400
  IN  [year |-> IF m <= 2 THEN year + 1 ELSE year, month |-> m, day |-> DayOfMonth(doy)]

LEMMA CivilIsDateOf ==
  ASSUME NEW d \in Nat
  PROVE  LET z == Shifted(d)
             doe == DayOfEra(z)
             y == YearOfEra(doe)
         IN  CivilFromDays(d) = DateOf(Era(z), y, DayOfYear(doe, y))
  BY DEF CivilFromDays, DateOf, DayOfMonth

(* A month of a date is as long as the calendar says. *)
DateInCalendar(t, e, y, mp) ==
  /\ t = [year |-> t.year, month |-> t.month, day |-> t.day]
  /\ t.year \in Nat /\ t.month \in 1 .. 12
  /\ t.month = IF mp < 10 THEN mp + 3 ELSE mp - 9
  /\ t.year = IF mp < 10 THEN y + e * 400 ELSE y + e * 400 + 1
  /\ mp < 11 => DaysIn(t.year, t.month) = DaysFromMarch(mp)
  /\ mp = 11 => DaysIn(t.year, t.month) = IF LeapEnd(y) THEN 29 ELSE 28

LEMMA DaysOfMonth ==
  ASSUME NEW e \in Nat, NEW y \in YearsOfEra, NEW doy \in DaysOfYear
  PROVE  /\ DateInCalendar(DateOf(e, y, doy), e, y, MonthFromMarch(doy))
         /\ DateOf(e, y, doy).day = DayOfMonth(doy)
<1> DEFINE t == DateOf(e, y, doy)
           mp == MonthFromMarch(doy)
<1>2. mp \in 0 .. 11
  BY MonthRange DEF MonthInRange
<1> HIDE DEF mp
<1>3. /\ t = [year |-> t.year, month |-> t.month, day |-> t.day]
      /\ t.month = IF mp < 10 THEN mp + 3 ELSE mp - 9
      /\ t.year = IF mp < 10 THEN y + e * 400 ELSE y + e * 400 + 1
      /\ t.day = DayOfMonth(doy)
  BY <1>2 DEF DateOf, mp
<1> HIDE DEF t
<1>4. t.year \in Nat /\ t.month \in 1 .. 12
  BY <1>2, <1>3 DEF YearsOfEra
<1>5. ASSUME mp < 11 PROVE DaysIn(t.year, t.month) = DaysFromMarch(mp)
  <2>1. t.month # 2
    BY <1>2, <1>3, <1>5
  <2>2. t.month \in {4, 6, 9, 11} <=> mp \in {1, 3, 6, 8}
    BY <1>2, <1>3, <1>5
  <2> QED
    BY <2>1, <2>2 DEF DaysIn, DaysFromMarch
<1>6. ASSUME mp = 11
      PROVE  DaysIn(t.year, t.month) = IF LeapEnd(y) THEN 29 ELSE 28
  <2>1. t.month = 2 /\ t.year = y + e * 400 + 1
    BY <1>3, <1>6
  <2> QED
    BY <2>1, LeapYearOfEra DEF DaysIn
<1> QED
  BY <1>3, <1>4, <1>5, <1>6 DEF t, mp, DateInCalendar

YearIn(e, y) == y + e * 400
FirstOf(year, month) == [year |-> year, month |-> month, day |-> 1]

LEMMA NextMonth ==
  ASSUME NEW t, t = [year |-> t.year, month |-> t.month, day |-> t.day],
         NEW u, u = [t EXCEPT !.day = 1, !.month = @ + 1]
  PROVE  u = FirstOf(t.year, t.month + 1)
  BY Zenon DEF FirstOf

(* The calendar goes through the days of a year from March on, ...         *)
LEMMA TomorrowInYear ==
  ASSUME NEW e \in Nat, NEW y \in YearsOfEra,
         NEW doy \in DaysOfYear, doy < LastDoy(y)
  PROVE  Tomorrow(DateOf(e, y, doy)) = DateOf(e, y, doy + 1)
<1> DEFINE t == DateOf(e, y, doy)
           m == MonthFromMarch(doy)
           n == MonthFromMarch(doy + 1)
           len == DaysIn(t.year, t.month)
<1>0. doy \in 0 .. 364 /\ doy + 1 \in DaysOfYear
  BY SMT DEF DaysOfYear, LastDoy
<1>1. /\ DateInCalendar(t, e, y, m) /\ t.day = DayOfMonth(doy)
      /\ DateInCalendar(DateOf(e, y, doy + 1), e, y, n)
      /\ DateOf(e, y, doy + 1).day = DayOfMonth(doy + 1)
  BY <1>0, DaysOfMonth, Zenon
<1>2. MonthInRange(doy) /\ MonthInRange(doy + 1)
  BY <1>0, MonthRange, Zenon
<1>3. /\ m \in 0 .. 11 /\ n \in 0 .. 11 /\ DayOfMonth(doy) \in 1 .. 31
      /\ m = 11 => DayOfMonth(doy) = doy - 336
  BY <1>2 DEF MonthInRange
<1>4. \/ /\ n = m /\ DayOfMonth(doy + 1) = DayOfMonth(doy) + 1
         /\ m < 11 => DayOfMonth(doy) < DaysFromMarch(m)
      \/ /\ m < 11 /\ n = m + 1 /\ DayOfMonth(doy + 1) = 1
         /\ DayOfMonth(doy) = DaysFromMarch(m)
  BY <1>0, MonthsFollow
<1>5. doy = 364 => LeapEnd(y)
  BY <1>0 DEF LastDoy
<1> DEFINE u == DateOf(e, y, doy + 1)
<1> HIDE DEF t, m, n, len, u
<1>6. /\ t = [year |-> t.year, month |-> t.month, day |-> t.day]
      /\ t.year \in Nat /\ t.month \in 1 .. 12
      /\ t.month = IF m < 10 THEN m + 3 ELSE m - 9
      /\ t.year = IF m < 10 THEN y + e * 400 ELSE y + e * 400 + 1
      /\ m < 11 => len = DaysFromMarch(m)
      /\ m = 11 => len = IF LeapEnd(y) THEN 29 ELSE 28
  BY <1>1, Zenon DEF DateInCalendar, len
<1>7. /\ u = [year |-> u.year, month |-> u.month, day |-> u.day]
      /\ u.month = IF n < 10 THEN n + 3 ELSE n - 9
      /\ u.year = IF n < 10 THEN y + e * 400 ELSE y + e * 400 + 1
      /\ u.day = DayOfMonth(doy + 1)
  BY <1>1, Zenon DEF DateInCalendar, u
<1>8. CASE n = m /\ DayOfMonth(doy + 1) = DayOfMonth(doy) + 1
           /\ (m < 11 => DayOfMonth(doy) < DaysFromMarch(m))
  <2>1. t.day < len
    <3>1. CASE m < 11
      BY <1>1, <1>6, <1>8, <3>1
    <3>2. CASE m = 11
      BY <1>0, <1>1, <1>3, <1>5, <1>6, <3>2
    <3> QED
      BY <1>3, <3>1, <3>2
  <2>2. Tomorrow(t) = [t EXCEPT !.day = @ + 1]
    BY <2>1 DEF Tomorrow, len
  <2>3. Tomorrow(t) = [year |-> t.year, month |-> t.month, day |-> t.day + 1]
    BY <1>6, <2>2
  <2>4. u.year = t.year /\ u.month = t.month /\ u.day = t.day + 1
    BY <1>1, <1>3, <1>6, <1>7, <1>8
  <2> QED
    BY <1>7, <2>3, <2>4 DEF t, u
<1>9. CASE m < 11 /\ n = m + 1 /\ DayOfMonth(doy + 1) = 1
           /\ DayOfMonth(doy) = DaysFromMarch(m)
  <2>1. ~(t.day < len)
    BY <1>1, <1>3, <1>6, <1>9 DEF DaysFromMarch
  <2>2. CASE t.month < 12
    <3>1. Tomorrow(t) = [t EXCEPT !.day = 1, !.month = @ + 1]
      BY <2>1, <2>2 DEF Tomorrow, len
    <3>2. Tomorrow(t) = FirstOf(t.year, t.month + 1)
      <4>1. t = [year |-> t.year, month |-> t.month, day |-> t.day]
        BY <1>6
      <4> QED
        BY <3>1, <4>1, NextMonth
    <3>3. u.year = t.year /\ u.month = t.month + 1 /\ u.day = 1
      BY <1>3, <1>6, <1>7, <1>9, <2>2
    <3> QED
      BY <1>7, <3>2, <3>3 DEF t, u, FirstOf
  <2>3. CASE t.month = 12
    <3>1. Tomorrow(t) = [year |-> t.year + 1, month |-> 1, day |-> 1]
      BY <2>1, <2>3 DEF Tomorrow, len
    <3>2. u.year = t.year + 1 /\ u.month = 1 /\ u.day = 1
      BY <1>3, <1>6, <1>7, <1>9, <2>3
    <3> QED
      BY <1>7, <3>1, <3>2 DEF t, u
  <2> QED
    BY <1>6, <2>2, <2>3
<1> QED
  BY <1>4, <1>8, <1>9

(* ... from the end of February to the first of March, ...                 *)
LEMMA TomorrowInMarch ==
  ASSUME NEW e \in Nat, NEW y \in YearsOfEra
  PROVE  Tomorrow(DateOf(e, y, LastDoy(y))) = FirstOf(YearIn(e, y) + 1, 3)
<1> DEFINE doy == LastDoy(y)
           t == DateOf(e, y, doy)
<1>1. doy \in DaysOfYear /\ (doy = 365 <=> LeapEnd(y)) /\ doy \in {364, 365}
  BY SMT DEF LastDoy, DaysOfYear
<1> HIDE DEF doy
<1>2. MonthInRange(doy) /\ MonthFromMarch(doy) = 11
  BY <1>1, MonthRange, SMT DEF MonthFromMarch
<1>3. /\ DateInCalendar(t, e, y, MonthFromMarch(doy))
      /\ t.day = DayOfMonth(doy)
  <2>1. doy \in DaysOfYear
    BY <1>1
  <2> QED
    BY <2>1, DaysOfMonth, Zenon
<1> HIDE DEF t
<1>4. /\ t = [year |-> t.year, month |-> t.month, day |-> t.day]
      /\ t.month = 2 /\ t.year = y + e * 400 + 1
      /\ DaysIn(t.year, t.month) = IF LeapEnd(y) THEN 29 ELSE 28
  BY <1>2, <1>3 DEF DateInCalendar
<1>5. ~(t.day < DaysIn(t.year, t.month)) /\ t.month < 12
  BY <1>1, <1>2, <1>3, <1>4 DEF MonthInRange
<1>6. Tomorrow(t) = [t EXCEPT !.day = 1, !.month = @ + 1]
  BY <1>5 DEF Tomorrow
<1>7. Tomorrow(t) = FirstOf(t.year, t.month + 1)
  <2>1. t = [year |-> t.year, month |-> t.month, day |-> t.day]
    BY <1>4
  <2> QED
    BY <1>6, <2>1, NextMonth
<1> QED
  BY <1>4, <1>7 DEF t, doy, YearIn

(* ... which is the first day of the next year, or of the next era.        *)
LEMMA MarchOfYear ==
  ASSUME NEW e \in Nat, NEW y \in Nat
  PROVE  DateOf(e, y, 0) = FirstOf(YearIn(e, y), 3)
<1>1. MonthFromMarch(0) = 0 /\ DayOfMonth(0) = 1
  BY DEF MonthFromMarch, DayOfMonth
<1> QED
  BY <1>1 DEF DateOf, FirstOf, YearIn

-----------------------------------------------------------------------------
(* The date of each day. *)

(* The era, year and day of the year of a day since 1970-01-01. *)
IsDay(d, e, y, doy) ==
  /\ e \in Nat /\ y \in YearsOfEra /\ doy \in DaysOfYear
  /\ doy = 365 => LeapEnd(y)
  /\ Shifted(d) = 146097 * e + (YearStart(y) + doy)

LEMMA DayHasYear ==
  ASSUME NEW d \in Nat
  PROVE  \E e, y, doy : IsDay(d, e, y, doy)
<1> DEFINE z == Shifted(d)
           e == Era(z)
           doe == DayOfEra(z)
           y == YearOfEra(doe)
           doy == DayOfYear(doe, y)
<1>1. z \in Nat
  BY SMT DEF Shifted
<1> HIDE DEF z
<1>2. e \in Nat /\ doe \in Nat /\ doe <= 146096 /\ z = 146097 * e + doe
  BY <1>1, EraOfDay, SMT
<1> HIDE DEF e, doe
<1>3. y \in YearsOfEra
  BY <1>2, YearOfEraRange, SMT DEF YearsOfEra
<1>4. doy \in 0 .. LastDoy(y)
  BY <1>2, DayOfYearRange, SMT
<1> HIDE DEF y
<1>5. doe = YearStart(y) + doy
  BY <1>2, <1>3, SMT DEF DayOfYear, YearStart, YearsOfEra
<1> HIDE DEF doy
<1>6. doy \in DaysOfYear /\ (doy = 365 => LeapEnd(y))
  BY <1>4, SMT DEF LastDoy, DaysOfYear
<1>7. IsDay(d, e, y, doy)
  BY <1>2, <1>3, <1>5, <1>6, SMT DEF IsDay, z
<1> QED
  BY <1>7

LEMMA YearHasDate ==
  ASSUME NEW d \in Nat, NEW e, NEW y, NEW doy, IsDay(d, e, y, doy)
  PROVE  CivilFromDays(d) = DateOf(e, y, doy)
<1> DEFINE z == Shifted(d)
           doe == YearStart(y) + doy
<1>1. e \in Nat /\ y \in YearsOfEra /\ doy \in DaysOfYear /\ (doy = 365 => LeapEnd(y))
  BY SMT DEF IsDay
<1>2. z \in Nat /\ z = 146097 * e + doe
  BY SMT DEF IsDay, Shifted
<1>3. /\ doe \in Nat /\ doe <= 146096
      /\ YearOfEra(doe) = y /\ DayOfYear(doe, y) = doy
  BY <1>1, DayOfEraRange, YearAndDayOfEra, SMT
<1> HIDE DEF z, doe
<1>4. Era(z) = e /\ DayOfEra(z) = doe
  BY <1>1, <1>2, <1>3, EraOfSum, SMT
<1>5. CivilFromDays(d) = DateOf(Era(z), YearOfEra(DayOfEra(z)),
                                DayOfYear(DayOfEra(z), YearOfEra(DayOfEra(z))))
  BY CivilIsDateOf DEF z
<1> QED
  BY <1>3, <1>4, <1>5

(* The divisions follow the calendar from each day to the next. *)
LEMMA NextDate ==
  ASSUME NEW d \in Nat
  PROVE  CivilFromDays(d + 1) = Tomorrow(CivilFromDays(d))
<1>1. PICK e, y, doy : IsDay(d, e, y, doy)
  BY DayHasYear
<1>2. e \in Nat /\ y \in YearsOfEra /\ doy \in DaysOfYear /\ (doy = 365 => LeapEnd(y))
  BY <1>1, SMT DEF IsDay
<1>3. CivilFromDays(d) = DateOf(e, y, doy)
  BY <1>1, YearHasDate
<1>4. d + 1 \in Nat
  OBVIOUS
<1>5. CASE doy < LastDoy(y)
  <2>1. IsDay(d + 1, e, y, doy + 1)
    BY <1>1, <1>2, <1>5, SMT DEF IsDay, Shifted, LastDoy, DaysOfYear, YearStart, YearsOfEra
  <2>2. CivilFromDays(d + 1) = DateOf(e, y, doy + 1)
    BY <1>4, <2>1, YearHasDate
  <2>3. Tomorrow(DateOf(e, y, doy)) = DateOf(e, y, doy + 1)
    BY <1>2, <1>5, TomorrowInYear
  <2> QED
    BY <1>3, <2>2, <2>3
<1>6. CASE doy = LastDoy(y) /\ y < 399
  <2>1. IsDay(d + 1, e, y + 1, 0)
    BY <1>1, <1>2, <1>6, YearsFollow, SMT
       DEF IsDay, Shifted, LastDoy, DaysOfYear, YearStart, YearsOfEra
  <2>2. CivilFromDays(d + 1) = DateOf(e, y + 1, 0)
    BY <1>4, <2>1, YearHasDate
  <2>3. /\ y + 1 \in Nat
        /\ YearIn(e, y + 1) = YearIn(e, y) + 1
    BY <1>2, SMT DEF YearsOfEra, YearIn
  <2>4. DateOf(e, y + 1, 0) = FirstOf(YearIn(e, y + 1), 3)
    BY <1>2, <2>3, MarchOfYear, Zenon
  <2>5. Tomorrow(DateOf(e, y, LastDoy(y))) = FirstOf(YearIn(e, y) + 1, 3)
    BY <1>2, TomorrowInMarch
  <2> QED
    BY <1>3, <1>6, <2>2, <2>3, <2>4, <2>5
<1>7. CASE doy = LastDoy(y) /\ y = 399
  <2>1. IsDay(d + 1, e + 1, 0, 0)
    BY <1>1, <1>2, <1>7, YearsFollow, SMT
       DEF IsDay, Shifted, LastDoy, DaysOfYear, YearStart, YearsOfEra
  <2>2. CivilFromDays(d + 1) = DateOf(e + 1, 0, 0)
    BY <1>4, <2>1, YearHasDate
  <2>3. /\ e + 1 \in Nat
        /\ YearIn(e + 1, 0) = YearIn(e, y) + 1
    BY <1>2, <1>7, SMT DEF YearIn
  <2>4. DateOf(e + 1, 0, 0) = FirstOf(YearIn(e + 1, 0), 3)
    BY <2>3, MarchOfYear, Zenon
  <2>5. Tomorrow(DateOf(e, y, LastDoy(y))) = FirstOf(YearIn(e, y) + 1, 3)
    BY <1>2, TomorrowInMarch
  <2> QED
    BY <1>3, <1>7, <2>2, <2>3, <2>4, <2>5
<1> QED
  BY <1>2, <1>5, <1>6, <1>7, SMT DEF LastDoy, DaysOfYear, YearsOfEra

(* The epoch. *)
LEMMA FirstDate ==
  CivilFromDays(0) = [year |-> 1970, month |-> 1, day |-> 1]
<1>1. IsDay(0, 4, 369, 306)
  BY SMT DEF IsDay, Shifted, YearStart, LeapEnd, YearsOfEra, DaysOfYear
<1>2. CivilFromDays(0) = DateOf(4, 369, 306)
  BY <1>1, YearHasDate
<1>3. MonthFromMarch(306) = 10 /\ DayOfMonth(306) = 1
  BY SMT DEF MonthFromMarch, DayOfMonth
<1> QED
  BY <1>2, <1>3, SMT DEF DateOf

(* A day from its date, so that two days do not have the same.             *)
LEMMA DateTellsDay ==
  ASSUME NEW a \in Nat, NEW b \in Nat, CivilFromDays(a) = CivilFromDays(b)
  PROVE  a = b
<1>1. PICK ea, ya, da : IsDay(a, ea, ya, da)
  BY DayHasYear
<1>2. PICK eb, yb, db : IsDay(b, eb, yb, db)
  BY DayHasYear
<1>3. /\ ea \in Nat /\ ya \in YearsOfEra /\ da \in DaysOfYear
      /\ eb \in Nat /\ yb \in YearsOfEra /\ db \in DaysOfYear
  BY <1>1, <1>2, SMT DEF IsDay
<1> DEFINE t == DateOf(ea, ya, da)
           u == DateOf(eb, yb, db)
           m == MonthFromMarch(da)
           n == MonthFromMarch(db)
<1>4. t = u
  BY <1>1, <1>2, YearHasDate
<1>5. /\ DateInCalendar(t, ea, ya, m) /\ t.day = DayOfMonth(da)
      /\ DateInCalendar(u, eb, yb, n) /\ u.day = DayOfMonth(db)
      /\ MonthInRange(da) /\ MonthInRange(db)
  BY <1>3, DaysOfMonth, MonthRange, Zenon
<1>6. DayOfMonth(da) = da - (153 * m + 2) \div 5 + 1
      /\ DayOfMonth(db) = db - (153 * n + 2) \div 5 + 1
  BY DEF DayOfMonth
<1>7. m \in 0 .. 11 /\ n \in 0 .. 11
  BY <1>5 DEF MonthInRange
<1> HIDE DEF t, u, m, n
<1>8. /\ t.month = IF m < 10 THEN m + 3 ELSE m - 9
      /\ t.year = IF m < 10 THEN ya + ea * 400 ELSE ya + ea * 400 + 1
      /\ u.month = IF n < 10 THEN n + 3 ELSE n - 9
      /\ u.year = IF n < 10 THEN yb + eb * 400 ELSE yb + eb * 400 + 1
  BY <1>5, Zenon DEF DateInCalendar
<1>9. m = n
  BY <1>4, <1>7, <1>8, SMT
<1>10. ya + ea * 400 = yb + eb * 400
  BY <1>3, <1>4, <1>8, <1>9, SMT DEF YearsOfEra
<1>11. ya = yb /\ ea = eb
  BY <1>3, <1>10, SMT DEF YearsOfEra
<1>12. da = db
  BY <1>3, <1>4, <1>5, <1>6, <1>7, <1>9, SMT DEF DaysOfYear
<1> QED
  BY <1>1, <1>2, <1>11, <1>12, SMT DEF IsDay, Shifted

-----------------------------------------------------------------------------
(* The time of day. *)

Clock == [hour : 0 .. 23, min : 0 .. 59, sec : 0 .. 59, subsec : 0 .. NanosPerSecond - 1]

SecondsOf(c) == 3600 * c.hour + 60 * c.min + c.sec

(* A tick later is another tick of the same second, or the first of the    *)
(* next, or midnight behind the last of the day.                           *)
LEMMA TickFollows ==
  ASSUME NEW c \in Clock
  PROVE  /\ TickOf(c) \in Clock
         /\ \/ /\ TickOf(c) # Midnight /\ SecondsOf(TickOf(c)) = SecondsOf(c)
               /\ TickOf(c).subsec = c.subsec + 1
            \/ /\ TickOf(c) # Midnight /\ SecondsOf(TickOf(c)) = SecondsOf(c) + 1
               /\ TickOf(c).subsec = 0 /\ c.subsec + 1 = NanosPerSecond
            \/ /\ TickOf(c) = Midnight /\ SecondsOf(c) + 1 = SecondsPerDay
               /\ c.subsec + 1 = NanosPerSecond
<1> USE TicksAssumption
<1>0. c.hour \in Int /\ c.min \in Int /\ c.sec \in Int
  BY DEF Clock
<1>1. /\ c = [hour |-> c.hour, min |-> c.min, sec |-> c.sec, subsec |-> c.subsec]
      /\ c.hour \in 0 .. 23 /\ c.min \in 0 .. 59 /\ c.sec \in 0 .. 59
      /\ c.subsec \in 0 .. NanosPerSecond - 1
  BY DEF Clock
<1>2. CASE c.subsec + 1 < NanosPerSecond
  <2>1. TickOf(c) = [c EXCEPT !.subsec = @ + 1]
    BY <1>1, <1>2, SMT DEF TickOf
  <2>2. TickOf(c) = [hour |-> c.hour, min |-> c.min, sec |-> c.sec, subsec |-> c.subsec + 1]
    BY <1>1, <2>1, Zenon
  <2>3. TickOf(c) \in Clock
    BY <1>1, <1>2, <2>2, SMT DEF Clock
  <2>4. /\ TickOf(c).hour = c.hour /\ TickOf(c).min = c.min
        /\ TickOf(c).sec = c.sec /\ TickOf(c).subsec = c.subsec + 1
    BY <2>2
  <2>5. TickOf(c) # Midnight
    BY <1>1, <2>4, SMT DEF Midnight
  <2>6. SecondsOf(TickOf(c)) = SecondsOf(c)
    BY <2>4 DEF SecondsOf
  <2> QED
    BY <2>3, <2>4, <2>5, <2>6
<1>3. CASE c.subsec + 1 = NanosPerSecond /\ c.sec < 59
  <2>1. TickOf(c) = [c EXCEPT !.subsec = 0, !.sec = @ + 1]
    BY <1>1, <1>3, SMT DEF TickOf
  <2>2. TickOf(c) = [hour |-> c.hour, min |-> c.min, sec |-> c.sec + 1, subsec |-> 0]
    BY <1>1, <2>1, Zenon
  <2>3. TickOf(c) \in Clock
    BY <1>1, <1>3, <2>2, SMT DEF Clock
  <2>4. /\ TickOf(c).hour = c.hour /\ TickOf(c).min = c.min
        /\ TickOf(c).sec = c.sec + 1 /\ TickOf(c).subsec = 0
    BY <2>2
  <2>5. TickOf(c) # Midnight
    BY <1>1, <2>4, SMT DEF Midnight
  <2>6. SecondsOf(TickOf(c)) = SecondsOf(c) + 1
    <3>1. SecondsOf(TickOf(c)) = 3600 * c.hour + 60 * c.min + (c.sec + 1)
      BY <2>4 DEF SecondsOf
    <3>2. SecondsOf(c) = 3600 * c.hour + 60 * c.min + c.sec
      BY DEF SecondsOf
    <3> QED
      BY <1>0, <3>1, <3>2, SMT
  <2> QED
    BY <1>3, <2>3, <2>4, <2>5, <2>6
<1>4. CASE c.subsec + 1 = NanosPerSecond /\ c.sec = 59 /\ c.min < 59
  <2>1. TickOf(c) = [Midnight EXCEPT !.hour = c.hour, !.min = c.min + 1]
    BY <1>1, <1>4, SMT DEF TickOf
  <2>2. TickOf(c) = [hour |-> c.hour, min |-> c.min + 1, sec |-> 0, subsec |-> 0]
    BY <1>1, <2>1, Zenon DEF Midnight
  <2>3. TickOf(c) \in Clock
    BY <1>1, <1>4, <2>2, SMT DEF Clock
  <2>4. /\ TickOf(c).hour = c.hour /\ TickOf(c).min = c.min + 1
        /\ TickOf(c).sec = 0 /\ TickOf(c).subsec = 0
    BY <2>2
  <2>5. TickOf(c) # Midnight
    BY <1>1, <2>4, SMT DEF Midnight
  <2>6. SecondsOf(TickOf(c)) = SecondsOf(c) + 1
    BY <1>0, <1>4, <2>4, SMT DEF SecondsOf
  <2> QED
    BY <1>4, <2>3, <2>4, <2>5, <2>6
<1>5. CASE c.subsec + 1 = NanosPerSecond /\ c.sec = 59 /\ c.min = 59 /\ c.hour < 23
  <2>1. TickOf(c) = [Midnight EXCEPT !.hour = c.hour + 1]
    BY <1>1, <1>5, SMT DEF TickOf
  <2>2. TickOf(c) = [hour |-> c.hour + 1, min |-> 0, sec |-> 0, subsec |-> 0]
    BY <1>1, <2>1, Zenon DEF Midnight
  <2>3. TickOf(c) \in Clock
    BY <1>1, <1>5, <2>2, SMT DEF Clock
  <2>4. /\ TickOf(c).hour = c.hour + 1 /\ TickOf(c).min = 0
        /\ TickOf(c).sec = 0 /\ TickOf(c).subsec = 0
    BY <2>2
  <2>5. TickOf(c) # Midnight
    BY <1>1, <2>4, SMT DEF Midnight
  <2>6. SecondsOf(TickOf(c)) = SecondsOf(c) + 1
    BY <1>0, <1>5, <2>4, SMT DEF SecondsOf
  <2> QED
    BY <1>5, <2>3, <2>4, <2>5, <2>6
<1>6. CASE c.subsec + 1 = NanosPerSecond /\ c.sec = 59 /\ c.min = 59 /\ c.hour = 23
  <2>1. TickOf(c) = Midnight
    BY <1>1, <1>6, SMT DEF TickOf
  <2>2. Midnight \in Clock
    BY SMT DEF Midnight, Clock
  <2>3. SecondsOf(c) + 1 = SecondsPerDay
    BY <1>6, SMT DEF SecondsOf, SecondsPerDay
  <2> QED
    BY <1>6, <2>1, <2>2, <2>3
<1>7. \/ c.subsec + 1 < NanosPerSecond
      \/ c.subsec + 1 = NanosPerSecond /\ c.sec < 59
      \/ c.subsec + 1 = NanosPerSecond /\ c.sec = 59 /\ c.min < 59
      \/ c.subsec + 1 = NanosPerSecond /\ c.sec = 59 /\ c.min = 59 /\ c.hour < 23
      \/ c.subsec + 1 = NanosPerSecond /\ c.sec = 59 /\ c.min = 59 /\ c.hour = 23
  BY <1>1, SMT
<1> QED
  BY <1>2, <1>3, <1>4, <1>5, <1>6, <1>7

(* The ticks of some seconds, and of one and of a day more. *)
LEMMA TicksOfSeconds ==
  ASSUME NEW s \in Nat, NEW N \in Nat
  PROVE  /\ s * N \in Nat
         /\ (s + 1) * N = s * N + N
         /\ (s + 86400) * N = s * N + 86400 * N
  BY SMT

LEMMA SecondsOfTicks ==
  ASSUME NEW s \in Nat, NEW N \in Nat, NEW r \in Nat, r < N
  PROVE  (s * N + r) \div N = s /\ (s * N + r) % N = r
  BY SMTT(30)

(* The ticks up to a time of a day. *)
TicksOf(d, c) == (SecondsPerDay * d + SecondsOf(c)) * NanosPerSecond + c.subsec

(* The divisions give back the day and the time of day. *)
LEMMA FieldsOfTicks ==
  ASSUME NEW d \in Nat, NEW c \in Clock
  PROVE  FormatTimestamp(TicksOf(d, c)) = [date |-> CivilFromDays(d), clock |-> c]
<1> USE TicksAssumption
<1> DEFINE h == c.hour
           m == c.min
           s == c.sec
           r == c.subsec
<1>1. c = [hour |-> h, min |-> m, sec |-> s, subsec |-> r]
  BY DEF Clock
<1>2. /\ h \in 0 .. 23 /\ m \in 0 .. 59 /\ s \in 0 .. 59
      /\ r \in Nat /\ r < NanosPerSecond
  BY DEF Clock
<1>3. TicksOf(d, c) = (86400 * d + (3600 * h + 60 * m + s)) * NanosPerSecond + r
  BY SMT DEF TicksOf, SecondsOf, SecondsPerDay
<1> HIDE DEF h, m, s, r
<1> DEFINE secs == 3600 * h + 60 * m + s
           total == 86400 * d + secs
           ticks == total * NanosPerSecond + r
<1>4. total \in Nat /\ total \div 86400 = d /\ total % 86400 = secs
  BY <1>2, SMT
<1> HIDE DEF total
<1>5. secs \div 3600 = h /\ (secs % 3600) \div 60 = m /\ secs % 60 = s
  BY <1>2, SMT
<1>6. ticks = TicksOf(d, c)
  BY <1>3, SMT DEF total
<1> HIDE DEF secs
<1>7. ticks \div NanosPerSecond = total /\ ticks % NanosPerSecond = r
  BY <1>2, <1>4, SecondsOfTicks, SMT
<1> HIDE DEF ticks
<1>8. FormatTimestamp(ticks) =
        [date |-> CivilFromDays(d),
         clock |-> [hour |-> secs \div 3600, min |-> (secs % 3600) \div 60,
                    sec |-> secs % 60, subsec |-> r]]
  BY <1>4, <1>7, SMT DEF FormatTimestamp, SecondsPerDay
<1>9. FormatTimestamp(ticks) =
        [date |-> CivilFromDays(d), clock |-> [hour |-> h, min |-> m, sec |-> s, subsec |-> r]]
  BY <1>5, <1>8
<1> QED
  BY <1>1, <1>6, <1>9

-----------------------------------------------------------------------------
(* The calendar and the clock of a behaviour. *)

(* Days are numbers, and the divisions give today's date. *)
DateIsRight == days \in Nat /\ DateIsCalendar

(* The ticks are those of the days gone by and of the time of day.         *)
TicksAreCounted ==
  /\ days \in Nat /\ clock \in Clock
  /\ days <= CountedDays => nanos = TicksOf(days, clock)

LEMMA InitDate == Init => DateIsRight
  BY FirstDate DEF Init, DateIsRight, DateIsCalendar

LEMMA NextKeepsDate == DateIsRight /\ [Next]_vars => DateIsRight'
<1> SUFFICES ASSUME DateIsRight, [Next]_vars PROVE DateIsRight'
  OBVIOUS
<1>1. days \in Nat /\ CivilFromDays(days) = date
  BY DEF DateIsRight, DateIsCalendar
<1>2. ASSUME days' = days + 1, date' = Tomorrow(date) PROVE DateIsRight'
  <2>1. days' \in Nat /\ CivilFromDays(days + 1) = Tomorrow(CivilFromDays(days))
    BY <1>1, <1>2, NextDate
  <2>2. CivilFromDays(days') = date'
    BY <1>1, <1>2, <2>1
  <2> QED
    BY <2>1, <2>2 DEF DateIsRight, DateIsCalendar
<1>3. ASSUME UNCHANGED << days, date >> PROVE DateIsRight'
  BY <1>1, <1>3 DEF DateIsRight, DateIsCalendar
<1>4. CASE Tick
  BY <1>2, <1>3, <1>4 DEF Tick
<1>5. CASE NextDay
  BY <1>2, <1>5 DEF NextDay
<1>6. CASE UNCHANGED vars
  BY <1>3, <1>6 DEF vars
<1> QED
  BY <1>4, <1>5, <1>6 DEF Next

LEMMA InitTicks == Init => TicksAreCounted
<1> SUFFICES ASSUME Init PROVE TicksAreCounted
  OBVIOUS
<1>1. /\ nanos = 0 /\ days = 0
      /\ clock = [hour |-> 0, min |-> 0, sec |-> 0, subsec |-> 0]
  BY DEF Init, Midnight
<1>2. clock \in Clock
  BY <1>1, TicksAssumption, SMT DEF Clock
<1>3. clock.hour = 0 /\ clock.min = 0 /\ clock.sec = 0 /\ clock.subsec = 0
  BY <1>1
<1>4. SecondsOf(clock) = 0
  BY <1>3, SMT DEF SecondsOf
<1>5. TicksOf(days, clock) = 0
  BY <1>1, <1>3, <1>4, TicksAssumption, SMT DEF SecondsPerDay, TicksOf
<1> QED
  BY <1>1, <1>2, <1>5 DEF TicksAreCounted

LEMMA NextKeepsTicks == TicksAreCounted /\ [Next]_vars => TicksAreCounted'
<1> SUFFICES ASSUME TicksAreCounted, [Next]_vars PROVE TicksAreCounted'
  OBVIOUS
<1> USE DaysAssumption, TicksAssumption
<1> DEFINE N == NanosPerSecond
           s == SecondsPerDay * days + SecondsOf(clock)
<1>1. /\ days \in Nat /\ clock \in Clock
      /\ days <= CountedDays => nanos = s * N + clock.subsec
  BY DEF TicksAreCounted, TicksOf
<1>2. /\ SecondsOf(clock) \in Nat /\ clock.subsec \in Nat
      /\ s \in Nat /\ s * N \in Nat
  <2>1. clock.hour \in Nat /\ clock.min \in Nat /\ clock.sec \in Nat /\ clock.subsec \in Nat
    BY <1>1 DEF Clock
  <2>2. SecondsOf(clock) \in Nat
    BY <2>1, SMT DEF SecondsOf
  <2>3. s \in Nat
    BY <1>1, <2>2, SMT DEF SecondsPerDay
  <2> QED
    BY <2>1, <2>2, <2>3, TicksOfSeconds
<1>3. CASE Tick
  <2>1. nanos' = nanos + 1 /\ clock' = TickOf(clock) /\ clock' \in Clock
    BY <1>1, <1>3, TickFollows DEF Tick
  <2>2. CASE /\ clock' # Midnight /\ SecondsOf(clock') = SecondsOf(clock)
             /\ clock'.subsec = clock.subsec + 1
    <3>1. days' = days
      BY <1>3, <2>2 DEF Tick
    <3>2. s' = s
      BY <2>2, <3>1
    <3> HIDE DEF s
    <3>3. days <= CountedDays => nanos' = s * N + clock'.subsec
      BY <1>1, <1>2, <2>1, <2>2, SMT
    <3> QED
      BY <1>1, <2>1, <3>1, <3>2, <3>3 DEF TicksAreCounted, TicksOf, s
  <2>3. CASE /\ clock' # Midnight /\ SecondsOf(clock') = SecondsOf(clock) + 1
             /\ clock'.subsec = 0 /\ clock.subsec + 1 = NanosPerSecond
    <3>1. days' = days
      BY <1>3, <2>3 DEF Tick
    <3>2. s' = s + 1
      BY <1>1, <1>2, <2>3, <3>1, SMT DEF SecondsPerDay
    <3>3. (s + 1) * N = s * N + N
      BY <1>2, TicksOfSeconds
    <3> HIDE DEF s
    <3>4. days <= CountedDays => nanos' = s' * N + clock'.subsec
      BY <1>1, <1>2, <2>1, <2>3, <3>2, <3>3, SMT
    <3> QED
      BY <1>1, <2>1, <3>1, <3>4 DEF TicksAreCounted, TicksOf, s
  <2>4. CASE /\ clock' = Midnight /\ SecondsOf(clock) + 1 = SecondsPerDay
             /\ clock.subsec + 1 = NanosPerSecond
    <3>1. days' = days + 1
      BY <1>3, <2>4 DEF Tick
    <3>2. SecondsOf(clock') = 0 /\ clock'.subsec = 0
      BY <2>4, SMT DEF Midnight, SecondsOf
    <3>3. s' = s + 1
      BY <1>1, <1>2, <2>4, <3>1, <3>2, SMT DEF SecondsPerDay
    <3>4. (s + 1) * N = s * N + N
      BY <1>2, TicksOfSeconds
    <3> HIDE DEF s
    <3>5. days' <= CountedDays => nanos' = s' * N + clock'.subsec
      BY <1>1, <1>2, <2>1, <2>4, <3>1, <3>2, <3>3, <3>4, SMT
    <3>6. days' \in Nat
      BY <1>1, <3>1
    <3> QED
      BY <2>1, <3>5, <3>6 DEF TicksAreCounted, TicksOf, s
  <2> QED
    BY <1>1, <2>1, <2>2, <2>3, <2>4, TickFollows
<1>4. CASE NextDay
  <2>1. /\ days' = days + 1 /\ clock' = clock /\ days' \in Nat
        /\ days < CountedDays => nanos' = nanos + SecondsPerDay * N
    BY <1>1, <1>4 DEF NextDay
  <2>2. s' = s + 86400
    BY <1>1, <1>2, <2>1, SMT DEF SecondsPerDay
  <2>3. (s + 86400) * N = s * N + 86400 * N
    BY <1>2, TicksOfSeconds, SMT
  <2>4. clock'.subsec = clock.subsec
    BY <2>1
  <2> HIDE DEF s
  <2>5. days' <= CountedDays => nanos' = s' * N + clock'.subsec
    BY <1>1, <1>2, <2>1, <2>2, <2>3, <2>4, SMT DEF SecondsPerDay
  <2> QED
    BY <1>1, <2>1, <2>5 DEF TicksAreCounted, TicksOf, s
<1>5. CASE UNCHANGED vars
  BY <1>1, <1>5 DEF vars, TicksAreCounted, TicksOf
<1> QED
  BY <1>3, <1>4, <1>5 DEF Next

-----------------------------------------------------------------------------
(* Every day from the epoch on gets its date of the calendar: the integer  *)
(* divisions of format.rs 80-92 are right at every month's end, leap day,  *)
(* century and era, without a last day.                                    *)
THEOREM DatesAreRight == Spec => []DateIsCalendar
<1>1. DateIsRight => DateIsCalendar
  BY DEF DateIsRight
<1> QED
  BY <1>1, InitDate, NextKeepsDate, PTL DEF Spec

LEMMA CountedTicksAreRight == DateIsRight /\ TicksAreCounted => TimestampIsClock
<1> SUFFICES ASSUME DateIsRight, TicksAreCounted, days <= CountedDays
             PROVE  FormatTimestamp(nanos) = [date |-> date, clock |-> clock]
  BY DEF TimestampIsClock
<1>1. days \in Nat /\ clock \in Clock /\ nanos = TicksOf(days, clock)
  BY DEF TicksAreCounted, TicksOf
<1>2. date = CivilFromDays(days)
  BY DEF DateIsRight, DateIsCalendar
<1> QED
  BY <1>1, <1>2, FieldsOfTicks

(* Every timestamp shows the clock's time of day with the calendar's date, *)
(* for seconds of any number of ticks: what format.rs 57-67 takes apart is *)
(* put together right at every carry.                                      *)
THEOREM TimestampsAreRight == Spec => []TimestampIsClock
  BY InitDate, InitTicks, NextKeepsDate, NextKeepsTicks, CountedTicksAreRight, PTL DEF Spec

LEMMA TicksFromParts ==
  ASSUME NEW t \in Nat, NEW N \in Nat \ {0}
  PROVE  /\ t \div N \in Nat /\ t % N \in 0 .. N - 1
         /\ t = (t \div N) * N + (t % N)
  BY SMTT(30)

(* The fields that are printed at fixed widths (format.rs 69-75) are those *)
(* of a date of the calendar and of a time of day, whatever a clock that   *)
(* nobody set may return.                                                  *)
THEOREM FieldsAreInRange ==
  \A ticks \in Nat :
    LET t == FormatTimestamp(ticks)
    IN  /\ t.date.year \in Nat /\ t.date.month \in 1 .. 12
        /\ t.date.day \in 1 .. DaysIn(t.date.year, t.date.month)
        /\ t.clock \in Clock
<1> SUFFICES ASSUME NEW ticks \in Nat
             PROVE  LET t == FormatTimestamp(ticks)
                    IN  /\ t.date.year \in Nat /\ t.date.month \in 1 .. 12
                        /\ t.date.day \in 1 .. DaysIn(t.date.year, t.date.month)
                        /\ t.clock \in Clock
  OBVIOUS
<1> USE TicksAssumption
<1> DEFINE total == ticks \div NanosPerSecond
           d == total \div SecondsPerDay
           secs == total % SecondsPerDay
           t == FormatTimestamp(ticks)
<1>1. total \in Nat /\ ticks % NanosPerSecond \in 0 .. NanosPerSecond - 1
  BY TicksFromParts
<1> HIDE DEF total
<1>2. d \in Nat /\ secs \in Nat /\ secs < 86400
  BY <1>1, SMT DEF SecondsPerDay
<1>3. /\ t.date = CivilFromDays(d)
      /\ t.clock = [hour |-> secs \div 3600, min |-> (secs % 3600) \div 60,
                    sec |-> secs % 60, subsec |-> ticks % NanosPerSecond]
  BY DEF FormatTimestamp, total
<1> HIDE DEF d, secs, t
<1>4. /\ secs \div 3600 \in 0 .. 23 /\ (secs % 3600) \div 60 \in 0 .. 59
      /\ secs % 60 \in 0 .. 59
  BY <1>2, SMT
<1>5. t.clock \in Clock
  BY <1>1, <1>3, <1>4, SMT DEF Clock
<1>6. PICK e, y, doy : IsDay(d, e, y, doy)
  BY <1>2, DayHasYear
<1>7. e \in Nat /\ y \in YearsOfEra /\ doy \in DaysOfYear /\ (doy = 365 => LeapEnd(y))
  BY <1>6, SMT DEF IsDay
<1> DEFINE u == DateOf(e, y, doy)
           mp == MonthFromMarch(doy)
<1>8. t.date = u
  BY <1>2, <1>3, <1>6, YearHasDate
<1>9. DateInCalendar(u, e, y, mp) /\ u.day = DayOfMonth(doy) /\ MonthInRange(doy)
  BY <1>7, DaysOfMonth, MonthRange
<1>10. /\ mp \in 0 .. 11 /\ DayOfMonth(doy) \in 1 .. 31
       /\ mp < 11 => DayOfMonth(doy) <= DaysFromMarch(mp)
       /\ mp = 11 => DayOfMonth(doy) = doy - 336
  BY <1>9 DEF MonthInRange
<1> HIDE DEF u, mp
<1>11. /\ u.year \in Nat /\ u.month \in 1 .. 12
       /\ mp < 11 => DaysIn(u.year, u.month) = DaysFromMarch(mp)
       /\ mp = 11 => DaysIn(u.year, u.month) = IF LeapEnd(y) THEN 29 ELSE 28
  BY <1>9 DEF DateInCalendar
<1>12. u.day \in 1 .. DaysIn(u.year, u.month)
  <2>1. CASE mp < 11
    BY <1>9, <1>10, <1>11, <2>1, SMT DEF DaysFromMarch
  <2>2. CASE mp = 11
    BY <1>7, <1>9, <1>10, <1>11, <2>2, SMT DEF DaysOfYear
  <2> QED
    BY <1>10, <2>1, <2>2
<1> QED
  BY <1>5, <1>8, <1>11, <1>12 DEF t

(* No two times are printed alike: the order of the lines of a log can be  *)
(* told from their timestamps.                                             *)
THEOREM TimestampsTellTimes ==
  \A a, b \in Nat : FormatTimestamp(a) = FormatTimestamp(b) => a = b
<1> SUFFICES ASSUME NEW a \in Nat, NEW b \in Nat,
                    FormatTimestamp(a) = FormatTimestamp(b)
             PROVE  a = b
  OBVIOUS
<1> USE TicksAssumption
<1> DEFINE ta == a \div NanosPerSecond
           tb == b \div NanosPerSecond
           ra == a % NanosPerSecond
           rb == b % NanosPerSecond
           da == ta \div SecondsPerDay
           db == tb \div SecondsPerDay
           sa == ta % SecondsPerDay
           sb == tb % SecondsPerDay
<1>1. /\ ta \in Nat /\ a = ta * NanosPerSecond + ra
      /\ tb \in Nat /\ b = tb * NanosPerSecond + rb
  BY TicksFromParts
<1>2. /\ FormatTimestamp(a).date = CivilFromDays(da)
      /\ FormatTimestamp(b).date = CivilFromDays(db)
      /\ FormatTimestamp(a).clock =
           [hour |-> sa \div 3600, min |-> (sa % 3600) \div 60, sec |-> sa % 60, subsec |-> ra]
      /\ FormatTimestamp(b).clock =
           [hour |-> sb \div 3600, min |-> (sb % 3600) \div 60, sec |-> sb % 60, subsec |-> rb]
  BY DEF FormatTimestamp
<1> HIDE DEF ta, tb, ra, rb
<1>3. /\ da \in Nat /\ sa \in Nat /\ sa < 86400 /\ ta = 86400 * da + sa
      /\ db \in Nat /\ sb \in Nat /\ sb < 86400 /\ tb = 86400 * db + sb
  BY <1>1, SMT DEF SecondsPerDay
<1> HIDE DEF da, db, sa, sb
<1>4. da = db
  BY <1>2, <1>3, DateTellsDay
<1>5. /\ sa \div 3600 = sb \div 3600 /\ (sa % 3600) \div 60 = (sb % 3600) \div 60
      /\ sa % 60 = sb % 60 /\ ra = rb
  BY <1>2, SMT
<1>6. sa = sb
  BY <1>3, <1>5, SMT
<1> QED
  BY <1>1, <1>3, <1>4, <1>5, <1>6, SMT
=============================================================================
