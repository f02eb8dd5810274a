------------------------------ MODULE Calendar ------------------------------
(***************************************************************************)
(* The calendar of applicationCore.c: leapYear, summerTimeCorrection,      *)
(* getTime and parseTime, on seconds since 1 Jan 2000 0000 UT.  The loops  *)
(* that count off years and months are given by where they stop.           *)
(***************************************************************************)
EXTENDS Integers

CONSTANT LastYear      \* bound: the years that are looked at

\* The rule for the Sundays of summer time takes every fourth year for a leap year
ASSUME LastYearAssumption == LastYear \in 2001..2100

DAY_IN_SECONDS    == 86400
HOUR_IN_SECONDS   == 3600
MINUTE_IN_SECONDS == 60

leapYearNo400(year) ==                                   \* mutant: 2000 is none
  IF year % 4 = 0 /\ year % 100 # 0 THEN 1 ELSE 0
leapYear(year) ==
  IF year % 400 = 0 \/ (year % 100 # 0 /\ year % 4 = 0) THEN 1 ELSE 0

mon(month, year) ==
  CASE month \in {4, 6, 9, 11} -> 30
    [] month = 2 -> 28 + leapYear(year)
    [] OTHER -> 31

\* Days from the beginning of 2000 to that of a year, of a year to that of a month
YearStart[y \in 2000..LastYear] ==
  IF y = 2000 THEN 0 ELSE YearStart[y - 1] + 365 + leapYear(y - 1)

MonthStart(year) ==
  LET start[m \in 1..12] == IF m = 1 THEN 0 ELSE start[m - 1] + mon(m - 1, year)
  IN  start

(***************************************************************************)
(* "European rules as at 2009".  A month that is none of those tested for  *)
(* is taken for October.                                                   *)
(***************************************************************************)
summerTimeCorrection(hour, day, month, year) ==
  LET changed(k) == day > 31 - (((5 * year) \div 4 + k) % 7)
                      \/ (day = 31 - (((5 * year) \div 4 + k) % 7) /\ hour >= 1)
  IN  CASE month < 2 \/ month > 10 -> 0
        [] month > 3 /\ month < 10 -> 1
        [] month = 3 -> IF changed(4) THEN 1 ELSE 0
        [] OTHER     -> IF changed(1) THEN 0 ELSE 1

(* getTime: seconds from a date *)
getTime(day, month, year, hour, minute, second) ==
  (YearStart[year] + MonthStart(year)[month] + day - 1) * DAY_IN_SECONDS
    + hour * HOUR_IN_SECONDS + minute * MINUTE_IN_SECONDS + second
    + summerTimeCorrection(hour, day, month, year) * HOUR_IN_SECONDS

(***************************************************************************)
(* The loops of parseTime: a year, then a month, is counted off while the  *)
(* time that is left is more than it has.                                  *)
(***************************************************************************)
Left(time, days) == time - days * DAY_IN_SECONDS

Stops(time, days, length) == Left(time, days) <= length * DAY_IN_SECONDS

YearOf(time) ==
  CHOOSE y \in 2000..(LastYear - 1) :
    /\ Stops(time, YearStart[y], 365 + leapYear(y))
    /\ y > 2000 => ~ Stops(time, YearStart[y - 1], 365 + leapYear(y - 1))

MonthOf(time, year) ==
  LET start == MonthStart(year)
  IN  CHOOSE m \in 1..12 :
        /\ Stops(time, start[m], mon(m, year))
        /\ m > 1 => ~ Stops(time, start[m - 1], mon(m - 1, year))

(* An hour later: summer time.  "this is where it gets complicated" *)
InSummer(d) ==
  IF d.hour < 23 THEN [d EXCEPT !.hour = @ + 1, !.BST = 1]
  ELSE LET spills == d.day + 1 > mon(d.month, d.year)
       IN  [d EXCEPT !.hour = 0, !.BST = 1, !.wk_day = (@ + 1) % 7,
                     !.day = IF spills THEN 0 ELSE @ + 1,
                     !.month = IF spills THEN @ + 1 ELSE @]

parseTime(time) ==
  LET year  == YearOf(time)
      inYear == Left(time, YearStart[year])
      month == MonthOf(inYear, year)
      inMonth == Left(inYear, MonthStart(year)[month])
      inDay == inMonth % DAY_IN_SECONDS
      d == [year |-> year, month |-> month, day |-> inMonth \div DAY_IN_SECONDS + 1,
            hour |-> inDay \div HOUR_IN_SECONDS,
            minute |-> (inDay % HOUR_IN_SECONDS) \div MINUTE_IN_SECONDS,
            secs |-> inDay % MINUTE_IN_SECONDS,
            wk_day |-> (time \div DAY_IN_SECONDS + 5) % 7, BST |-> 0]
  IN  IF summerTimeCorrection(d.hour, d.day, d.month, d.year) = 1 THEN InSummer(d) ELSE d

-----------------------------------------------------------------------------
(* Reference definitions *)

\* The number of a day of the Gregorian calendar, from 1 Mar 0000
Gregorian(year, month, day) ==
  LET y == IF month > 2 THEN year ELSE year - 1
      m == (month + 9) % 12
  IN  365 * y + (y \div 4) - (y \div 100) + (y \div 400) + ((153 * m + 2) \div 5) + day - 1

DaysSince2000(year, month, day) == Gregorian(year, month, day) - Gregorian(2000, 1, 1)

\* 1 Jan 2000 was a Saturday; Monday is 0
Weekday(days) == (days + 5) % 7

LastSunday(year, month) ==
  CHOOSE d \in 25..31 : Weekday(DaysSince2000(year, month, d)) = 6

\* From 0100 UT on the last Sunday of March to 0100 UT on the last of October
SummerTime(time) ==
  \E y \in 2000..LastYear :
    /\ time >= DaysSince2000(y, 3, LastSunday(y, 3)) * DAY_IN_SECONDS + HOUR_IN_SECONDS
    /\ time < DaysSince2000(y, 10, LastSunday(y, 10)) * DAY_IN_SECONDS + HOUR_IN_SECONDS
=============================================================================
