--------------------------- MODULE WorkCalendar ---------------------------
(***************************************************************************)
(* The working calendar that the front-end scripts share (WORKING_DAY_SET,   *)
(* HOLIDAY_SET and WORKING_HOURS_PER_DAY) and the date arithmetic on it.     *)
(* A date is a day number; the time of day is left out where the code steps  *)
(* whole days.                                                               *)
(***************************************************************************)
EXTENDS Integers, SequencesExt

CONSTANTS
    WorkingDays,    \* the weekdays worked, of 0..6
    Holidays,       \* the dates that are not
    HoursPerDay

\* With no weekday worked, or every day a holiday, the loops of the code would not end.
ASSUME CalendarAssumption ==
    /\ WorkingDays \subseteq 0..6 /\ WorkingDays # {} /\ Holidays \subseteq Int /\ IsFiniteSet(Holidays)
    /\ HoursPerDay \in Nat \ {0}

NoDate == -1000
Or(a, b) == IF a # NoDate THEN a ELSE b
Larger(a, b) == IF a < b THEN b ELSE a
Smaller(a, b) == IF a < b THEN a ELSE b
Clamp(v, lo, hi) == Larger(lo, Smaller(hi, v))
CeilDiv(a, b) == -((-a) \div b)

IsWorkday(d) == d % 7 \in WorkingDays /\ d \notin Holidays

\* The date reached by counting k working days after (step 1) or before
\* (step -1) d; with k < 1 it is d itself, worked or not.
Counted(d, k, step) ==
    LET count[q \in Int \X Int] ==      \* the date, and the days left
            IF q[2] < 1 THEN q[1]
            ELSE count[<<q[1] + step, q[2] - (IF IsWorkday(q[1] + step) THEN 1 ELSE 0)>>]
    IN  count[<<d, k>>]

\* addDurationToDate rounds the hours up to days.
AddHours(d, hours) == IF d = NoDate THEN NoDate ELSE Counted(d, CeilDiv(hours, HoursPerDay), 1)
=============================================================================
