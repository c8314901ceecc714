-------------------------------- MODULE Ptime --------------------------------
(***************************************************************************)
(* The clock of ehp (src/src/ptime.cc).  ptime() reads the local time into *)
(* fields; ptime_epoch(), which stamps connections and timers, gives the   *)
(* fields to mktime as they are, although that counts years from 1900 and  *)
(* months from 0.  mktime takes local time, and gmtime gives UTC.  The     *)
(* variables are the real local time, which is Zone ahead of UTC, without  *)
(* changes for summer; a day has DayMs milliseconds, and hours, minutes,   *)
(* seconds and milliseconds, which are copied only, are one field.         *)
(***************************************************************************)
EXTENDS Integers

CONSTANTS
    DayMs,   \* milliseconds of a day
    Word,    \* number of values of a uint64_t
    Zone,    \* milliseconds that local time is ahead of UTC, or less than 0
    Years    \* bound on the time: the years it passes in

ASSUME PtimeAssumption ==
    /\ DayMs \in Nat \ {0} /\ Word \in Nat \ {0, 1} /\ Zone \in Int
    /\ Years \subseteq Nat

VARIABLES year, month, day, half   \* half milliseconds since midnight

pvars == <<year, month, day, half>>

Leap(y) == y % 4 = 0 /\ (y % 100 # 0 \/ y % 400 = 0)

DaysIn(y, m) == IF m = 2 THEN IF Leap(y) THEN 29 ELSE 28
                ELSE IF m \in {4, 6, 9, 11} THEN 30 ELSE 31

\* Days before month m of year y, counted from 0, the year and the month.
DaysBefore(y, m) ==
    LET past == <<0, 31, 59, 90, 120, 151, 181, 212, 243, 273, 304, 334>>[m]
    IN  365 * y + (y + 3) \div 4 - (y + 99) \div 100 + (y + 399) \div 400
          + past + IF m > 2 /\ Leap(y) THEN 1 ELSE 0

NextDay(d) ==
    IF d.day < DaysIn(d.year, d.month) THEN [d EXCEPT !.day = @ + 1]
    ELSE IF d.month < 12 THEN [d EXCEPT !.month = @ + 1, !.day = 1]
    ELSE [d EXCEPT !.year = @ + 1, !.month = 1, !.day = 1]

Today == [year |-> year, month |-> month, day |-> day, ms |-> 0]

\* ptime(): rounded to a millisecond, which may be one of the next second.
Now ==
    LET ms == (half + 1) \div 2
    IN  IF ms < DayMs THEN [Today EXCEPT !.ms = ms] ELSE NextDay(Today)

\* ptime_less compares the fields from the year on.
Less(t, u) ==
    IF t.year # u.year THEN t.year < u.year
    ELSE IF t.month # u.month THEN t.month < u.month
    ELSE IF t.day # u.day THEN t.day < u.day
    ELSE t.ms < u.ms

\* The day mktime counts: year 1900 + y, month m from 0; 12 is the first of the next year,
\* and days beyond the end of a month are of the next one.
MkTime(y, m, d) == DaysBefore(1900 + y + (m \div 12), (m % 12) + 1) + d - 1

\* Mutants of ToEpoch: a field is forgotten, in days or in a day.
ToEpochNoYear(t) == (MkTime(0, t.month, t.day) * DayMs + t.ms) - Zone
ToEpochNoMs(t)   == MkTime(t.year, t.month, t.day) * DayMs - Zone

\* ptime_to_epoch: mktime takes the fields for local time.
ToEpoch(t) == (MkTime(t.year, t.month, t.day) * DayMs + t.ms) - Zone

\* gmtime: the year, the month from 1, and the day that day n is.
Civil(n) ==
    LET y == CHOOSE y \in n \div 366 .. n \div 365 :
                DaysBefore(y, 1) <= n /\ n < DaysBefore(y + 1, 1)
        m == CHOOSE m \in 1 .. 12 :
                DaysBefore(y, m) <= n /\ n < DaysBefore(y, m) + DaysIn(y, m)
    IN  [year |-> y, month |-> m, day |-> n - DaysBefore(y, m) + 1]

Fields(year0, month0, e) ==
    LET c == Civil(e \div DayMs) IN
    [year |-> c.year - year0, month |-> c.month - month0, day |-> c.day,
     ms |-> e % DayMs]

\* epoch_to_ptime: again the fields as gmtime has them, of UTC.
FromEpoch(e) == Fields(1900, 1, e)

PtimeAdd(t, ms) == FromEpoch(ToEpoch(t) + ms)

\* Subtraction of uint64_t, in ptime_sub and of time stamps.
Minus(a, b) == (a - b + Word) % Word

PtimeSub(t, u) ==
    IF Less(t, u) THEN Minus(ToEpoch(u), ToEpoch(t)) ELSE Minus(ToEpoch(t), ToEpoch(u))

PtimeInit == year \in Years /\ month = 1 /\ day = 1 /\ half = 0

PtimeTick ==
    /\ year \in Years
    /\ IF half < 2 * DayMs - 1
       THEN half' = half + 1 /\ UNCHANGED <<year, month, day>>
       ELSE /\ half' = 0
            /\ year' = NextDay(Today).year
            /\ month' = NextDay(Today).month
            /\ day' = NextDay(Today).day

PtimeSpec == PtimeInit /\ [][PtimeTick]_pvars

----------------------------------------------------------------------------
\* The day is one of the month and the year that mktime takes it for, except in
\* December and on days that the next month does not have 1900 years on: mktime
\* has no 29 February where ptime has 29 January 2000.
TakenForDay(t) == t.month # 12 /\ t.day <= DaysIn(1900 + t.year, t.month + 1)

\* Within a month ptime_epoch() is exact: the difference of two stamps, by
\* which timers tell idle connections, is the time between them; and added to
\* the earlier reading together with the offset that gmtime does not know of,
\* it gives the later one, on days that mktime does not take for another.
ExactWithinMonth ==
    [][Now'.month = Now.month =>
          LET d == PtimeSub(Now', Now) IN
          /\ d = IF Less(Now, Now') THEN 1 ELSE 0
          /\ TakenForDay(Now') => PtimeAdd(Now, d + Zone) = Now']_pvars

\* Where it goes back, and a stamp minus an earlier one wraps, a month has
\* ended that is longer than the one that begins.
BackAfterLongMonth ==
    [][ToEpoch(Now') < ToEpoch(Now) =>
          Now'.day = 1 /\ DaysIn(year, Now'.month) < DaysIn(year, Now.month)]_pvars
=============================================================================
