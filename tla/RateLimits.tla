------------------------------ MODULE RateLimits ------------------------------
(***************************************************************************)
(* How long a rate-limited caller is told to wait                            *)
(* (crates/oca-opencode/src/failure.rs): what the headers of a 429 say, and    *)
(* the calendar that turns a date of theirs into milliseconds.               *)
(*                                                                         *)
(* A header is what it parses to: a number, a duration ("1m30s") in            *)
(* milliseconds, a date with a time of day, or nothing. Years are integers     *)
(* without width: the i64 arithmetic of the code overflows only for years      *)
(* beyond 10^13.                                                            *)
(***************************************************************************)
EXTENDS Integers, FiniteSetsExt

None == -1
MaxWait == 2^64 - 1                       \* u64::MAX

SaturatingMul(x, y) == IF x * y > MaxWait THEN MaxWait ELSE x * y
SaturatingSub(x, y) == IF x < y THEN 0 ELSE x - y

-----------------------------------------------------------------------------
IsLeap(year) == year % 4 = 0 /\ (year % 100 # 0 \/ year % 400 = 0)

DaysInMonth(year, month) ==
  IF month = 2 THEN IF IsLeap(year) THEN 29 ELSE 28
  ELSE IF month \in {4, 6, 9, 11} THEN 30 ELSE 31

(* Years of the calculation begin in March, so that a leap day is their last.  *)
AdjustedYear(year, month) == IF month <= 2 THEN year - 1 ELSE year
ShiftedMonth(month) == IF month > 2 THEN month - 3 ELSE month + 9

(* Days before a year of an era of 400, and before a month of a year.          *)
DayOfYear(month, day) == (153 * ShiftedMonth(month) + 2) \div 5 + day - 1
DayOfEra(yearOfEra, dayOfYear) ==
  yearOfEra * 365 + yearOfEra \div 4 - yearOfEra \div 100 + dayOfYear

(* The days from the first of March of year 0.                                *)
DayOfCalendar(adjusted, dayOfYear) ==
  (adjusted \div 400) * 146097 + DayOfEra(adjusted % 400, dayOfYear)

DaysFromCivil(year, month, day) ==
  DayOfCalendar(AdjustedYear(year, month), DayOfYear(month, day)) - 719468

IsDate(date) ==
  date.month \in 1..12 /\ date.day \in 1..DaysInMonth(date.year, date.month)
IsClock(date) == date.hour < 24 /\ date.minute < 60 /\ date.second < 60

EpochMillis(date) ==
  LET seconds == DaysFromCivil(date.year, date.month, date.day) * 86400
                   + date.hour * 3600 + date.minute * 60 + date.second
  IN  IF ~IsDate(date) \/ ~IsClock(date) \/ seconds < 0 \/ seconds * 1000 > MaxWait
      THEN None ELSE seconds * 1000

-----------------------------------------------------------------------------
Until(date, now) ==
  IF EpochMillis(date) = None THEN None
  ELSE SaturatingSub(EpochMillis(date) + date.millis, now)

(* Retry-After: seconds or a date.                                           *)
RetryAfter(header, now) ==
  CASE header.kind = "number" -> SaturatingMul(header.value, 1000)
    [] header.kind = "date" -> Until(header.value, now)
    [] OTHER -> None

(* A provider's reset: a number is a time in milliseconds, a time in seconds   *)
(* or a number of seconds, by its size.                                      *)
ProviderReset(header, now) ==
  CASE header.kind = "number" /\ header.value >= 10^12 -> SaturatingSub(header.value, now)
    [] header.kind = "number" /\ header.value \in 10^9..(10^12 - 1) ->
         SaturatingSub(SaturatingMul(header.value, 1000), now)
    [] header.kind = "number" /\ header.value < 10^9 -> SaturatingMul(header.value, 1000)
    [] header.kind = "duration" -> header.value
    [] header.kind = "date" -> Until(header.value, now)
    [] OTHER -> None

(* The longest wait that any header asks for, or none.                        *)
RateLimit(retryAfter, resets, now) ==
  Max({RetryAfter(retryAfter, now)} \cup {ProviderReset(h, now) : h \in resets})

-----------------------------------------------------------------------------
(* The calendar itself.                                                     *)
NextDay(year, month, day) ==
  IF day < DaysInMonth(year, month) THEN <<year, month, day + 1>>
  ELSE IF month < 12 THEN <<year, month + 1, 1>>
  ELSE <<year + 1, 1, 1>>
=============================================================================
