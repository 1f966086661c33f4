------------------------------- MODULE Shift -------------------------------
(* The shift arithmetic of app/presence.py and app/timeutil.py: which      *)
(* office-local date an instant belongs to, where that date's shift lies   *)
(* on the UTC axis, and how an arrival is classified.  Instants are        *)
(* integers on the UTC axis, DayLen of them to a day; a roster carries its *)
(* office's UTC offset, which the model keeps fixed (no daylight saving).  *)
EXTENDS Integers

CONSTANTS
  DayLen,         \* instants in a day
  NULL

ASSUME DayLenAssumption == DayLen \in Nat \ {0}
ASSUME NoDaysAssumption == \A days \in SUBSET (0..6) : NULL # days

(* A roster row joined with the time zone of its office.  The CHECK        *)
(* constraint of the table orders start_time and end_time within one day.  *)
(* A PATCH may store a null for working_days: RosterUpdate lets it pass,   *)
(* and to the JSONB column it is a value like any other.                   *)
RosterSet ==
  {s \in [start_time : Nat, end_time : Nat, grace_minutes : Nat,
          working_days : (SUBSET (0..6)) \cup {NULL}, tz : Int] :
     s.start_time < s.end_time /\ s.end_time < DayLen}

\* mutant: the UTC date taken for the office's
LocalDateUtc(s, now) == now \div DayLen

LocalDate(s, now) == (now + s.tz) \div DayLen
Weekday(date) == date % 7

ShiftStart(s, date) == date * DayLen + s.start_time - s.tz
ShiftEnd(s, date) == date * DayLen + s.end_time - s.tz
GraceEnd(s, date) == ShiftStart(s, date) + s.grace_minutes

(* Looking a weekday up in a null raises.                                  *)
DayKind(s, date) ==
  IF s.working_days = NULL THEN "error"
  ELSE IF Weekday(date) \in s.working_days THEN "working" ELSE "off"

Phase(s, now) ==
  LET date == LocalDate(s, now)
      kind == DayKind(s, date)
  IN  CASE kind = "error" -> "error"
        [] kind = "off"   -> "off_day"
        [] kind = "working" /\ now < ShiftStart(s, date) -> "before_shift"
        [] kind = "working" /\ now > ShiftEnd(s, date)   -> "after_shift"
        [] OTHER          -> "in_shift"

(* Lateness is triggered past the grace end but measured from the start.   *)
(* Instants are whole minutes or more: that the code drops the seconds of  *)
(* the lateness is not modelled.                                           *)
Status(s, date, now) == IF now > GraceEnd(s, date) THEN "late" ELSE "present"

\* mutant: lateness counted from the end of the grace
LateMinutesPastGrace(s, date, now) ==
  IF now > GraceEnd(s, date) THEN now - GraceEnd(s, date) ELSE 0

LateMinutes(s, date, now) ==
  IF now > GraceEnd(s, date) THEN now - ShiftStart(s, date) ELSE 0
=============================================================================
