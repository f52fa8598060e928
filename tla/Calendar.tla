------------------------------- MODULE Calendar -------------------------------
(***************************************************************************)
(* The dates of the application: timegm (src/timegm.c), which turns a date *)
(* into seconds since 1970 in a time_t of 32 bits, and the registers of    *)
(* the PCF8563 in which dates and alarms are kept (src/PCF8563.c). A       *)
(* behaviour is a walk through the days of one year; the walk is the       *)
(* calendar that the formulas are compared with.                           *)
(***************************************************************************)
EXTENDS Integers, FiniteSets, Bitwise

CONSTANT Years   \* the years walked through

ASSUME YearsAssumption == Years \subseteq 1970..2099

VARIABLE day     \* [y, m, d]: a date; n: the days from 1970-01-01 to it

-----------------------------------------------------------------------------
(* The walk. *)
Leap(y) == y % 4 = 0 /\ (y % 100 # 0 \/ y % 400 = 0)
MonthLength(y, m) ==
  IF m = 2 THEN (IF Leap(y) THEN 29 ELSE 28) ELSE IF m \in {4, 6, 9, 11} THEN 30 ELSE 31
LengthOf(ys) == 365 * Cardinality(ys) + Cardinality({y \in ys : Leap(y)})

CalendarInit == \E y \in Years : day = [y |-> y, m |-> 1, d |-> 1, n |-> LengthOf(1970..(y - 1))]

Tomorrow ==
  LET last == day.d = MonthLength(day.y, day.m)
  IN /\ ~(last /\ day.m = 12)
     /\ day' = [day EXCEPT !.d = IF last THEN 1 ELSE @ + 1, !.m = IF last THEN @ + 1 ELSE @, !.n = @ + 1]

-----------------------------------------------------------------------------
(* sub_mkgmt: what a time_t of 32 bits cannot hold comes out negative and is answered with -1. Times   *)
(* are kept as days and seconds of the day: 2^31 is second 11648 of day 24855.                         *)
Failed == [days |-> -1, secs |-> 0]
MonthOffset == <<0, 31, 59, 90, 120, 151, 181, 212, 243, 273, 304, 334>>
LeapDays(y) == y \div 4 - y \div 100 + y \div 400
\* Fault: the leap day of a year counted from its January.
SubMkgmtJanuary(date, secs) ==
  LET y == date.y
      days == (date.y - 1970) * 365 + MonthOffset[date.m] + date.d - 1 + LeapDays(y) - LeapDays(1969)
  IN IF date.y < 1970 \/ days > 24855 \/ (days = 24855 /\ secs >= 11648) THEN Failed
     ELSE [days |-> days, secs |-> secs]
SubMkgmt(date, secs) ==
  LET y == date.y - (IF date.m <= 2 THEN 1 ELSE 0)
      days == (date.y - 1970) * 365 + MonthOffset[date.m] + date.d - 1 + LeapDays(y) - LeapDays(1969)
  IN IF date.y < 1970 \/ days > 24855 \/ (days = 24855 /\ secs >= 11648) THEN Failed
     ELSE [days |-> days, secs |-> secs]

\* timegm: what gmtime makes of the first guess is compared with the date; a second past the 59th, which
\* gmtime puts into the next minute, is taken for the 59th.
Timegm(date, secs, second) ==
  LET t == SubMkgmt(date, secs)
  IN IF t = Failed \/ second < 60 THEN t ELSE [t EXCEPT !.secs = @ - 1]

-----------------------------------------------------------------------------
(* PCF_SetDateTime and PCF_GetDateTime, PCF_SetAlarm and PCF_GetAlarm: a register holds two decimal    *)
(* digits in as many bits as the chip has for them, and the month's top bit the century.               *)
BinToBCD(n) == ((n \div 10) * 16) + (n % 10)
Digits(b, mask) == (((b \div 16) & mask) * 10) + (b % 16)

Accepted(t) ==
  /\ t.second < 60 /\ t.minute < 60 /\ t.hour < 24
  /\ t.day <= 32 /\ t.weekday <= 6 /\ t.month <= 12 /\ t.year >= 1900 /\ t.year < 2100
ToRegisters(t) ==
  <<BinToBCD(t.second) & 127, BinToBCD(t.minute) & 127, BinToBCD(t.hour) & 63, BinToBCD(t.day) & 63,
    BinToBCD(t.weekday) & 7, (BinToBCD(t.month) & 31) + (IF t.year >= 2000 THEN 128 ELSE 0),
    BinToBCD(t.year - (IF t.year >= 2000 THEN 2000 ELSE 1900))>>
FromRegisters(b) ==
  [second |-> Digits(b[1], 7), minute |-> Digits(b[2], 7), hour |-> Digits(b[3], 3), day |-> Digits(b[4], 3),
   weekday |-> b[5] & 7, month |-> Digits(b[6], 1),
   year |-> 1900 + Digits(b[7], 15) + (IF b[6] >= 128 THEN 100 ELSE 0)]

\* An alarm's minute, hour, day and weekday; 80 leaves its part of the alarm out.
AlarmAccepted(a) ==
  /\ a[1] < 60 \/ a[1] = 80
  /\ a[2] < 24 \/ a[2] = 80
  /\ a[3] <= 32 \/ a[3] = 80
  /\ a[4] <= 6 \/ a[4] = 80
ToAlarm(a) == <<BinToBCD(a[1]), BinToBCD(a[2]) & 191, BinToBCD(a[3]) & 191, BinToBCD(a[4]) & 135>>
FromAlarm(b) == <<Digits(b[1], 15), Digits(b[2], 11), Digits(b[3], 11), (((b[4] \div 16) & 8) * 10) + (b[4] & 7)>>

-----------------------------------------------------------------------------
(* On every day, timegm counts the days that have passed, answers -1 when a time_t can no longer hold    *)
(* them and takes a leap second for the second before, and the clock's registers give back the date and *)
(* the alarms put into them.                                                                             *)
TimeOfDay ==
  [second |-> day.n % 60, minute |-> day.n * 7 % 60, hour |-> day.n % 24, day |-> day.d,
   weekday |-> (day.n + 4) % 7, month |-> day.m, year |-> day.y]
AlarmsOfDay ==
  LET t == TimeOfDay
  IN {<<t.minute, t.hour, t.day, t.weekday>>, <<t.second, 80, t.day, 80>>, <<80, t.hour, 80, t.weekday>>}
DatesAgree ==
  /\ \A secs \in {0, 11647, 11648, 86399} :
       Timegm(day, secs, secs % 60) =
         IF day.n < 24855 \/ (day.n = 24855 /\ secs < 11648) THEN [days |-> day.n, secs |-> secs] ELSE Failed
  /\ Timegm(day, 86400, 60) = Timegm(day, 86399, 59)
  /\ Accepted(TimeOfDay) /\ FromRegisters(ToRegisters(TimeOfDay)) = TimeOfDay
  /\ \A a \in AlarmsOfDay : AlarmAccepted(a) /\ FromAlarm(ToAlarm(a)) = a
=============================================================================
