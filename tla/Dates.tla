------------------------------- MODULE Dates -------------------------------
(***************************************************************************)
(* Dates to the millisecond (tUtil.cpp).  A COM date is a double: days     *)
(* since 1899-12-30 and, whatever the sign of the days, the time of day as *)
(* a fraction away from zero.  Windows converts it to a SYSTEMTIME by      *)
(* rounding to the nearest second and leaves the milliseconds out, so that *)
(* LuaCOM adds them and takes a rounded-up second back.                    *)
(*                                                                         *)
(* A COM date here is [days, part], part being the time of day in quarters *)
(* of a millisecond: a double holds it to less than that, so that a part   *)
(* may be off by one quarter.                                              *)
(***************************************************************************)
EXTENDS Integers

Ms == 4                             \* a millisecond, in parts
Second == 1000 * Ms
DaySeconds == 24 * 60 * 60
DayParts == DaySeconds * Second

NoDate == [year |-> 0]              \* the conversion returned FALSE

IsLeapYear(year) == year % 4 = 0 /\ (year % 100 # 0 \/ year % 400 = 0)

DaysInMonth(year, month) ==
    IF month = 2 /\ IsLeapYear(year) THEN 29
    ELSE <<31, 28, 31, 30, 31, 30, 31, 31, 30, 31, 30, 31>>[month]

SecondOfDay(date) == date.hour * 3600 + date.minute * 60 + date.second

\* The dates that COM has; the day of the week may be any.
FirstYear == 100
LastYear == 9999
LastMs == 999
Years == FirstYear .. LastYear
Millis == 0 .. LastMs
IsDate(date) ==
    /\ date \in [year : Years, month : 1 .. 12, day : 1 .. 31, dow : 0 .. 6,
                 hour : 0 .. 23, minute : 0 .. 59, second : 0 .. 59, ms : Millis]
    /\ date.day <= DaysInMonth(date.year, date.month)

-----------------------------------------------------------------------------
(* The calendar of Windows: the reference for the steps of LuaCOM's own. *)

DaysBefore(year) == LET y == year - 1
                    IN  365 * y + y \div 4 - y \div 100 + y \div 400

MonthsBefore(year) ==
    LET before[m \in 1 .. 12] == IF m = 1 THEN 0
                                 ELSE before[m-1] + DaysInMonth(year, m - 1)
    IN  before

DayNumber(year, month, day) ==
    DaysBefore(year) + MonthsBefore(year)[month] + day - (DaysBefore(1899) + 364)

Weekday(days) == (days + 6) % 7

\* The date of a day and of a second in it.
DateOf(days, second, ms) ==
    LET guess == 1900 + ((400 * days) \div 146097)
        year == CHOOSE y \in guess - 1 .. guess + 1 :
                    DayNumber(y, 1, 1) <= days /\ days < DayNumber(y + 1, 1, 1)
        month == CHOOSE m \in 1 .. 12 :
                    /\ DayNumber(year, m, 1) <= days
                    /\ days < DayNumber(year, m, 1) + DaysInMonth(year, m)
    IN  [year |-> year, month |-> month, day |-> days - DayNumber(year, month, 1) + 1,
         dow |-> Weekday(days),
         hour |-> second \div 3600, minute |-> (second \div 60) % 60,
         second |-> second % 60, ms |-> ms]

FirstDay == DayNumber(100, 1, 1)
LastDay == DayNumber(9999, 12, 31)

\* The Windows functions.
VariantTimeToSystemTime(time) ==
    LET rounded == (time.part + Second \div 2) \div Second
        days == IF rounded = DaySeconds THEN time.days + 1 ELSE time.days
    IN  IF days \in FirstDay .. LastDay
        THEN DateOf(days, rounded % DaySeconds, 0) ELSE NoDate

SystemTimeToVariantTime(date) ==
    [days |-> DayNumber(date.year, date.month, date.day),
     part |-> SecondOfDay(date) * Second]

-----------------------------------------------------------------------------
(* One second back and forth, with its carries. *)

DecrementMinuteless(date) == [date EXCEPT !.second = (@ + 59) % 60]  \* (no carry)

DecrementSecond(date) ==
    LET lastDay == DaysInMonth(date.year, date.month - 1)
        back == [date EXCEPT !.second = 59, !.minute = 59, !.hour = 23,
                             !.dow = (@ + 6) % 7]
    IN  CASE date.second > 0 -> [date EXCEPT !.second = @ - 1]
          [] date.second = 0 /\ date.minute > 0 ->
                [date EXCEPT !.second = 59, !.minute = @ - 1]
          [] date.second = 0 /\ date.minute = 0 /\ date.hour > 0 ->
                [date EXCEPT !.second = 59, !.minute = 59, !.hour = @ - 1]
          [] OTHER ->
                IF date.day > 1 THEN [back EXCEPT !.day = @ - 1]
                ELSE IF date.month > 1 THEN [back EXCEPT !.month = @ - 1, !.day = lastDay]
                ELSE IF date.year <= 100 THEN NoDate
                ELSE [back EXCEPT !.year = @ - 1, !.month = 12, !.day = 31]

IncrementSecond(date) ==
    LET next == [date EXCEPT !.second = 0, !.minute = 0, !.hour = 0, !.dow = (@ + 1) % 7]
    IN  CASE date.second < 59 -> [date EXCEPT !.second = @ + 1]
          [] date.second = 59 /\ date.minute < 59 ->
                [date EXCEPT !.second = 0, !.minute = @ + 1]
          [] date.second = 59 /\ date.minute = 59 /\ date.hour < 23 ->
                [date EXCEPT !.second = 0, !.minute = 0, !.hour = @ + 1]
          [] OTHER ->
                IF date.day < DaysInMonth(date.year, date.month)
                THEN [next EXCEPT !.day = @ + 1]
                ELSE IF date.month < 12 THEN [next EXCEPT !.day = 1, !.month = @ + 1]
                ELSE IF date.year >= 9999 THEN NoDate
                ELSE [next EXCEPT !.day = 1, !.month = 1, !.year = @ + 1]

\* The date with its milliseconds: the second that Windows rounded up is taken
\* back, also over midnight.
VariantTimeToSystemTimeWithMilliseconds(time) ==
    LET date == VariantTimeToSystemTime(time)
        rounded == (time.part + Ms \div 2) \div Ms
        total == IF rounded >= DaySeconds * 1000 THEN 0 ELSE rounded
        target == total \div 1000
        found == IF date = NoDate THEN date
                 ELSE IF SecondOfDay(date) = (target + 1) % DaySeconds THEN DecrementSecond(date)
                 ELSE IF SecondOfDay(date) = target THEN date
                 ELSE NoDate
    IN  IF found = NoDate THEN NoDate ELSE [found EXCEPT !.ms = total % 1000]

\* The milliseconds lengthen the fraction, away from zero; the sum is a double,
\* off by at most error parts.
SystemTimeToVariantTimeWithMilliseconds(date, error) ==
    LET whole == SystemTimeToVariantTime(date)
        part == whole.part + date.ms * Ms
    IN  [whole EXCEPT !.part = IF part = 0 THEN 0 ELSE part + error]

RoundSystemTimeToNearestSecond(date) ==
    LET up == IncrementSecond(date)
    IN  IF date.ms < 500 THEN [date EXCEPT !.ms = 0]
        ELSE IF up = NoDate THEN NoDate
        ELSE [up EXCEPT !.ms = 0]

\* The date with its day of the week, and the calendar's nearest second, for
\* comparison.
Weekdayed(date) == [date EXCEPT !.dow = Weekday(DayNumber(date.year, date.month, date.day))]

NearestSecond(date) ==
    LET second == SecondOfDay(date) + (IF date.ms < 500 THEN 0 ELSE 1)
        days == DayNumber(date.year, date.month, date.day)
                + (IF second = DaySeconds THEN 1 ELSE 0)
    IN  IF days > LastDay THEN NoDate ELSE DateOf(days, second % DaySeconds, 0)
=============================================================================
