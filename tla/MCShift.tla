------------------------------ MODULE MCShift ------------------------------
(* The shift evaluation against a definition that knows no dates: a clock  *)
(* walks past every instant under every small roster.                      *)
EXTENDS Shift

CONSTANTS
  MaxTime,     \* bound: the clock stops here
  MaxOffset    \* bound: UTC offsets go this far east and west

VARIABLES roster, now

Rosters ==
  {s \in [start_time : 0..(DayLen - 1), end_time : 0..(DayLen - 1),
          grace_minutes : {0, 2}, working_days : {0..4, {1, 2, 6}},
          tz : (-MaxOffset)..MaxOffset] : s.start_time < s.end_time}

Init == roster \in Rosters /\ now = 0

Walk ==
  /\ now < MaxTime
  /\ now' = now + 1
  /\ UNCHANGED roster

Spec == Init /\ [][Walk]_<<roster, now>>

(* A wall clock in the office of roster s shows Hour(s, t) at the instant t*)
(* on day DayOfWeek(s, t), counted from the clock's first instant, whose   *)
(* local time is s.tz.                                                     *)
Hour(s, t) == (t + s.tz) % DayLen
DayOfWeek(s, t) == ((t + s.tz - Hour(s, t)) \div DayLen) % 7

MatchesWallClock(s, t) ==
  /\ Phase(s, t) = "in_shift"
       <=> /\ DayOfWeek(s, t) \in s.working_days
           /\ s.start_time <= Hour(s, t) /\ Hour(s, t) <= s.end_time
  /\ Phase(s, t) = "in_shift" =>
       LET date == LocalDate(s, t)
           after == Hour(s, t) - s.start_time
       IN  /\ Status(s, date, t) = "late" <=> after > s.grace_minutes
           /\ LateMinutes(s, date, t)
                = IF after > s.grace_minutes THEN after ELSE 0

(* presence.py:54-73 - a check-in is let through exactly while the office's*)
(* wall clock is between start and end of a working day, although the code *)
(* compares UTC instants; and an arrival is late exactly when that clock is*)
(* past the grace, by the time since the start.                            *)
PhaseMatchesWallClock == MatchesWallClock(roster, now)
=============================================================================
