----------------------------- MODULE Calendar ------------------------------
(***************************************************************************)
(* The calendar behind SetLocalTime (rild/utils.c), which sets the         *)
(* system's clock to the network's time: time_jul_to_secs counts seconds   *)
(* from 6 January 1980, time_jul_from_secs turns them into a date, both by *)
(* tables of the days in sets of four years.                               *)
(*                                                                         *)
(* The state walks through the days of the Gregorian calendar one by one,  *)
(* the reference both are compared with.                                   *)
(***************************************************************************)
EXTENDS Integers, Sequences, FiniteSetsExt

CONSTANTS
  LastYear,     \* bound on the walk: the tables have a 29 February 2100
  Hours,        \* the hours looked at in a day
  Zones         \* the offsets from UTC looked at, in quarters of an hour

ASSUME CalendarAssumption ==
  /\ LastYear \in 1980 .. 2099 /\ Hours \subseteq 0 .. 23 /\ Zones \subseteq -48 .. 56

QUAD_YEAR == 366 + 3 * 365
OFFSET_S == 432000
BASE_YEAR == 1980

\* The cumulative tables: entry k is the days before the k-th year of four, or the
\* k-th month.
year_tab == <<0, 366, 731, 1096, 1461>>
norm_month_tab == <<0, 31, 59, 90, 120, 151, 181, 212, 243, 273, 304, 334, 365>>
leap_month_tab == <<0, 31, 60, 91, 121, 152, 182, 213, 244, 274, 305, 335, 366>>
day_offset == <<1, 3, 4, 5>>

\* The search in a table: the last entry that is not above days.
Bracket(table, days) == Max({k \in 1 .. Len(table) - 1 : table[k] <= days})

\* FAULT: the first year of four has the normal months.
time_jul_from_secs_NoLeap(secs) ==
  LET minutes == (secs + OFFSET_S) \div 60
      total == minutes \div 1440
      i == Bracket(year_tab, total % QUAD_YEAR)
      days == (total % QUAD_YEAR) - year_tab[i]
      month == Bracket(norm_month_tab, days)
  IN  [year |-> BASE_YEAR + 4 * (total \div QUAD_YEAR) + i - 1, month |-> month,
       day |-> days - norm_month_tab[month] + 1, hour |-> (minutes \div 60) % 24,
       minute |-> minutes % 60, second |-> (secs + OFFSET_S) % 60,
       day_of_week |-> (day_offset[4] * (total \div QUAD_YEAR) + day_offset[i] + days) % 7]

time_jul_from_secs(secs) ==
  LET minutes == (secs + OFFSET_S) \div 60
      total == minutes \div 1440
      i == Bracket(year_tab, total % QUAD_YEAR)
      days == (total % QUAD_YEAR) - year_tab[i]
      month_table == IF i = 1 THEN leap_month_tab ELSE norm_month_tab
      month == Bracket(month_table, days)
  IN  [year |-> BASE_YEAR + 4 * (total \div QUAD_YEAR) + i - 1, month |-> month,
       day |-> days - month_table[month] + 1, hour |-> (minutes \div 60) % 24,
       minute |-> minutes % 60, second |-> (secs + OFFSET_S) % 60,
       day_of_week |-> (day_offset[4] * (total \div QUAD_YEAR) + day_offset[i] + days) % 7]

time_jul_to_secs(j) ==
  LET leap == j.year % 4 = 0
      days == ((j.year - BASE_YEAR) \div 4) * QUAD_YEAR
              + (IF leap THEN leap_month_tab[j.month]
                         ELSE year_tab[(j.year % 4) + 1] + norm_month_tab[j.month])
              + j.day - 1
  IN  ((days * 24 + j.hour) * 60 + j.minute) * 60 + j.second - OFFSET_S

\* FAULT: the zone is rounded to hours.
SetLocalTime_WholeHours(j, tz) ==
  time_jul_from_secs(time_jul_to_secs(j) + (tz \div 4) * 3600)

\* What SetLocalTime makes of the network's time and its zone.
SetLocalTime(j, tz) == time_jul_from_secs(time_jul_to_secs(j) + tz * 900)

-----------------------------------------------------------------------------
(* The walk.                                                               *)

VARIABLES
  before,       \* the day before
  today,        \* the day
  elapsed       \* days since 6 January 1980

calendarVars == <<before, today, elapsed>>

IsLeap(y) == (y % 4 = 0 /\ y % 100 # 0) \/ y % 400 = 0
LengthOf(y, m) ==
  IF m = 2 THEN IF IsLeap(y) THEN 29 ELSE 28 ELSE IF m \in {4, 6, 9, 11} THEN 30 ELSE 31

Date(y, m, d, w) == [year |-> y, month |-> m, day |-> d, day_of_week |-> w]
Following(date) ==
  LET w == (date.day_of_week + 1) % 7
  IN  IF date.day < LengthOf(date.year, date.month)
        THEN Date(date.year, date.month, date.day + 1, w)
      ELSE IF date.month < 12 THEN Date(date.year, date.month + 1, 1, w)
      ELSE Date(date.year + 1, 1, 1, w)

\* 6 January 1980 was a Sunday, the sixth day after Monday.
CalendarInit ==
  /\ before = Date(1980, 1, 5, 5) /\ today = Date(1980, 1, 6, 6)
  /\ elapsed = 0

NextDay ==
  /\ Following(today).year <= LastYear
  /\ before' = today /\ today' = Following(today)
  /\ elapsed' = elapsed + 1

CalendarNext == NextDay
CalendarSpec == CalendarInit /\ [][CalendarNext]_calendarVars

-----------------------------------------------------------------------------

Times == {[hour |-> h, minute |-> ms[1], second |-> ms[2]] :
            h \in Hours, ms \in {<<0, 0>>, <<59, 59>>}}
SecsOf(t) == ((elapsed * 24 + t.hour) * 60 + t.minute) * 60 + t.second
Moment(date, t) ==
  [year |-> date.year, month |-> date.month, day |-> date.day, hour |-> t.hour,
   minute |-> t.minute, second |-> t.second, day_of_week |-> date.day_of_week]

\* A number of seconds is turned into the date, the time and the weekday it is,
\* and back again, on every day and at both ends of its hours.
CalendarAgrees ==
  \A t \in Times :
    /\ time_jul_from_secs(SecsOf(t)) = Moment(today, t)
    /\ time_jul_to_secs(Moment(today, t)) = SecsOf(t)

\* The local time is the network's time moved by the zone, over the end of a day, a
\* month and a year too.
LocalTimeAgrees ==
  \A t \in Times, tz \in Zones :
    LET quarters == 4 * t.hour + (t.minute \div 15) + tz
        local == [hour |-> (quarters \div 4) % 24,
                  minute |-> 15 * (quarters % 4) + (t.minute % 15), second |-> t.second]
        date == IF quarters < 0 THEN before ELSE IF quarters >= 96 THEN Following(today) ELSE today
    IN  elapsed > 0 => SetLocalTime(Moment(today, t), tz) = Moment(date, local)
=============================================================================
