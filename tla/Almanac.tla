------------------------------ MODULE Almanac -------------------------------
(***************************************************************************)
(* Calendar set to work: a clock that goes through the given moments of    *)
(* every day.                                                              *)
(***************************************************************************)
EXTENDS Calendar

CONSTANT Moments     \* seconds of a day, among them 0

ASSUME MomentsAssumption == 0 \in Moments /\ Moments \subseteq 0..(DAY_IN_SECONDS - 1)

VARIABLE time        \* seconds since 1 Jan 2000 0000 UT

Off == -1

(* The next moment of the day, or the beginning of the next day *)
NextMoment ==
  LET later == {m \in Moments : m > time % DAY_IN_SECONDS}
      today == time - (time % DAY_IN_SECONDS)
  IN  IF later = {} THEN today + DAY_IN_SECONDS
      ELSE today + CHOOSE m \in later : \A n \in later : m <= n

TimeInit == time \in {0, Off}

Pass ==
  /\ time # Off
  /\ NextMoment < YearStart[LastYear] * DAY_IN_SECONDS
  /\ time' = NextMoment

TimeSpec == TimeInit /\ [][Pass]_time

-----------------------------------------------------------------------------
(***************************************************************************)
(* parseTime gives the date and the hour of a Gregorian calendar, advanced *)
(* by an hour in summer, and the day of the week, except                   *)
(*   in the first second of a month, which it takes for the day after the  *)
(*   last of the month before (its loops stop when the time is equal);     *)
(*   in the last hour (UT) of a month of summer, for which it has day 0;   *)
(*   in February, in which it may find summer time.                        *)
(* A day that no month has is reported at those moments and nowhere else,  *)
(* and out of summer getTime undoes parseTime.                             *)
(***************************************************************************)
Regular(t) ==
  LET d == parseTime(t)
  IN  d.month # 2 /\ d.day \in 1..mon(d.month, d.year)

MonthBegins(t) ==
  \E y \in 2000..LastYear, m \in 1..12 : t = DaysSince2000(y, m, 1) * DAY_IN_SECONDS

AtEdge(t) ==
  \/ MonthBegins(t)
  \/ /\ t % DAY_IN_SECONDS >= 23 * HOUR_IN_SECONDS
     /\ MonthBegins((t \div DAY_IN_SECONDS + 1) * DAY_IN_SECONDS)

Agrees(d, t) ==
  LET local == t + d.BST * HOUR_IN_SECONDS
  IN  /\ d.BST = 1 <=> SummerTime(t)
      /\ d.wk_day = Weekday(local \div DAY_IN_SECONDS)
      /\ local = DaysSince2000(d.year, d.month, d.day) * DAY_IN_SECONDS
                 + d.hour * HOUR_IN_SECONDS + d.minute * MINUTE_IN_SECONDS + d.secs

ParsedRight ==
  time # Off =>
    LET d == parseTime(time)
    IN  /\ Regular(time) => Agrees(d, time)
        /\ Regular(time) /\ d.BST = 0 =>
             getTime(d.day, d.month, d.year, d.hour, d.minute, d.secs) = time
        /\ d.day \notin 1..mon(d.month, d.year) => AtEdge(time)

(***************************************************************************)
(* "European rules": there is summer time in summer.                       *)
(***************************************************************************)
SummerInSummer == time # Off => (parseTime(time).BST = 1 <=> SummerTime(time))

(* "Returns time measured in seconds from 1 Jan 2000 0000 UT" *)
GetTimeIsUT ==
  time # Off /\ Regular(time) =>
    LET d == parseTime(time)
    IN  getTime(d.day, d.month, d.year, d.hour, d.minute, d.secs) = time
=============================================================================
