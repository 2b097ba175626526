----------------------------- MODULE CivilTime ------------------------------
(***************************************************************************)
(* Timestamps (format.rs 49-92), against the clock and the calendar.       *)
(*                                                                         *)
(* format_timestamp turns a u64 of nanoseconds into a time of day and days *)
(* since 1970-01-01, and civil_from_days those into a date, by integer     *)
(* division only.  The reference is the clock and the calendar themselves: *)
(* they count up and carry over, from a fraction of a second to a day, and *)
(* from a day to the next, month by month, with the Gregorian leap years.  *)
(* A behaviour walks from the epoch to the last day a u64 of nanoseconds   *)
(* reaches, 213503 days later: through the first days tick by tick, and    *)
(* then from midnight to midnight.                                         *)
(***************************************************************************)
EXTENDS Integers

CONSTANTS
  LastDay,          \* bound: the last day
  TickedDays,       \* bound: days walked tick by tick
  CountedDays,      \* bound: days whose ticks since the epoch TLC can count
  NanosPerSecond    \* ticks of a second, 10^9 in the code

ASSUME DaysAssumption ==
  LastDay \in Nat /\ TickedDays \in Nat /\ CountedDays \in Nat
ASSUME TicksAssumption == NanosPerSecond \in Nat \ {0}

VARIABLES
  nanos,    \* ticks since the epoch, up to the last counted day
  clock,    \* the time of day
  days,     \* days since the epoch
  date      \* the date

vars == << nanos, clock, days, date >>

-----------------------------------------------------------------------------
(* civil_from_days, in the order of its divisions. *)

DaysPerEra == 146097

(* The day 0000-03-01 is day 0 of era 0. *)
Shifted(d) == d + 719468

(* Rust's division truncates, so the code rounds to the floor by hand. *)
Era(z) == IF z >= 0 THEN z \div DaysPerEra
          ELSE -((146096 - z) \div DaysPerEra)

DayOfEra(z) == z - Era(z) * DaysPerEra

(* Fault: the correction for the 400-year rule is left out. *)
YearOfEraJulian(doe) == (doe - doe \div 1460 + doe \div 36524) \div 365

YearOfEra(doe) ==
  (doe - doe \div 1460 + doe \div 36524 - doe \div 146096) \div 365

DayOfYear(doe, yoe) == doe - (365 * yoe + yoe \div 4 - yoe \div 100)

(* Months count from March, so that the leap day is a year's last. *)
MonthFromMarch(doy) == (5 * doy + 2) \div 153

CivilFromDays(d) ==
  LET z == Shifted(d)
      doe == DayOfEra(z)
      yoe == YearOfEra(doe)
      doy == DayOfYear(doe, yoe)
      mp == MonthFromMarch(doy)
      m == IF mp < 10 THEN mp + 3 ELSE mp - 9
      y == yoe + Era(z) * 400
  IN  [year |-> IF m <= 2 THEN y + 1 ELSE y,
       month |-> m,
       day |-> doy - (153 * mp + 2) \div 5 + 1]

SecondsPerDay == 86400

(* Fault: the minutes are those since midnight. *)
MinutesOfDay(ticks) ==
  LET total == ticks \div NanosPerSecond
      secs == total % SecondsPerDay
  IN  [date |-> CivilFromDays(total \div SecondsPerDay),
       clock |-> [hour |-> secs \div 3600, min |-> secs \div 60,
                  sec |-> secs % 60, subsec |-> ticks % NanosPerSecond]]

(* What format_timestamp prints, field by field. *)
FormatTimestamp(ticks) ==
  LET total == ticks \div NanosPerSecond
      secs == total % SecondsPerDay
  IN  [date |-> CivilFromDays(total \div SecondsPerDay),
       clock |-> [hour |-> secs \div 3600, min |-> (secs % 3600) \div 60,
                  sec |-> secs % 60, subsec |-> ticks % NanosPerSecond]]

-----------------------------------------------------------------------------
(* The clock and the calendar. *)

Midnight == [hour |-> 0, min |-> 0, sec |-> 0, subsec |-> 0]

(* The next tick of a day; the last of a day is followed by midnight. *)
TickOf(c) ==
  IF c.subsec + 1 < NanosPerSecond THEN [c EXCEPT !.subsec = @ + 1]
  ELSE IF c.sec < 59 THEN [c EXCEPT !.subsec = 0, !.sec = @ + 1]
  ELSE IF c.min < 59 THEN [Midnight EXCEPT !.hour = c.hour, !.min = c.min + 1]
  ELSE IF c.hour < 23 THEN [Midnight EXCEPT !.hour = c.hour + 1]
  ELSE Midnight

IsLeap(y) == y % 4 = 0 /\ (y % 100 # 0 \/ y % 400 = 0)

DaysIn(y, m) ==
  CASE m = 2 -> IF IsLeap(y) THEN 29 ELSE 28
    [] m \in {4, 6, 9, 11} -> 30
    [] OTHER -> 31

Tomorrow(t) ==
  IF t.day < DaysIn(t.year, t.month) THEN [t EXCEPT !.day = @ + 1]
  ELSE IF t.month < 12 THEN [t EXCEPT !.day = 1, !.month = @ + 1]
  ELSE [year |-> t.year + 1, month |-> 1, day |-> 1]

Init ==
  /\ nanos = 0 /\ clock = Midnight
  /\ days = 0 /\ date = [year |-> 1970, month |-> 1, day |-> 1]

Tick ==
  /\ days < TickedDays
  /\ nanos' = nanos + 1
  /\ clock' = TickOf(clock)
  /\ IF clock' = Midnight
     THEN days' = days + 1 /\ date' = Tomorrow(date)
     ELSE UNCHANGED << days, date >>

NextDay ==
  /\ TickedDays <= days /\ days < LastDay
  /\ days' = days + 1
  /\ date' = Tomorrow(date)
  /\ nanos' = IF days < CountedDays THEN nanos + SecondsPerDay * NanosPerSecond
              ELSE nanos
  /\ UNCHANGED clock

Next == Tick \/ NextDay

Spec == Init /\ [][Next]_vars

-----------------------------------------------------------------------------
(* Every timestamp is printed with the date of its day: the divisions of   *)
(* format.rs 80-92 agree with the calendar at every month's end, leap day, *)
(* century and era boundary a u64 of nanoseconds reaches.                  *)
DateIsCalendar == CivilFromDays(days) = date

(* Every timestamp is printed with its time of day and its date: what the  *)
(* divisions of format.rs 57-67 take apart is what the clock shows, at     *)
(* every carry of seconds, minutes, hours and days.                        *)
TimestampIsClock ==
  days <= CountedDays => FormatTimestamp(nanos) = [date |-> date, clock |-> clock]
=============================================================================
