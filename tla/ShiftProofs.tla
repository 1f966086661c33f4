---------------------------- MODULE ShiftProofs ----------------------------
(* The shift evaluation agrees with the office's wall clock, for every     *)
(* roster, offset, length of the day and instant.                          *)
EXTENDS MCShift, TLAPS

(* An instant is a date and a time of that date.                           *)
LEMMA DivMod ==
  ASSUME NEW x \in Int
  PROVE  /\ x \div DayLen \in Int /\ x % DayLen \in 0..(DayLen - 1)
         /\ x = (x \div DayLen) * DayLen + (x % DayLen)
BY DayLenAssumption

LEMMA Midnight ==
  ASSUME NEW d \in Int
  PROVE  (d * DayLen) \div DayLen = d
BY DayLenAssumption

(* The bounds of the shift, on the UTC axis and on the wall clock.         *)
LEMMA Bounds ==
  ASSUME NEW s \in RosterSet, NEW t \in Int
  PROVE  LET date == LocalDate(s, t)
         IN  /\ date \in Int /\ Hour(s, t) \in 0..(DayLen - 1)
             /\ ShiftStart(s, date) = t - Hour(s, t) + s.start_time
             /\ ShiftEnd(s, date) = t - Hour(s, t) + s.end_time
             /\ Weekday(date) = DayOfWeek(s, t)
<1> DEFINE x == t + s.tz
           d == x \div DayLen
           h == x % DayLen
<1>1. /\ s.start_time \in Int /\ s.end_time \in Int /\ s.tz \in Int /\ DayLen \in Int
      /\ x \in Int
  BY DayLenAssumption DEF RosterSet
<1>2. d \in Int /\ h \in 0..(DayLen - 1) /\ x = d * DayLen + h
  BY <1>1, DivMod
<1>3. LocalDate(s, t) = d /\ Hour(s, t) = h
  BY DEF LocalDate, Hour
<1> HIDE DEF d, h
<1>4. PICK y \in Int : y = d * DayLen
  BY <1>1, <1>2
<1>5. h \in Int /\ t = y + h - s.tz
  BY <1>1, <1>2, <1>4
<1>6. /\ ShiftStart(s, d) = t - h + s.start_time
      /\ ShiftEnd(s, d) = t - h + s.end_time
  BY <1>1, <1>4, <1>5 DEF ShiftStart, ShiftEnd
<1>7. DayOfWeek(s, t) = ((d * DayLen) \div DayLen) % 7
  BY <1>1, <1>2, <1>3, <1>4, <1>5 DEF DayOfWeek
<1>8. DayOfWeek(s, t) = Weekday(d)
  BY <1>2, <1>7, Midnight DEF Weekday
<1> QED
  BY <1>2, <1>3, <1>6, <1>8

(* presence.py:54-73, for any roster with working days and any instant: a  *)
(* check-in is let through, and is late, by the wall clock of the office.  *)
THEOREM WallClock ==
  ASSUME NEW s \in RosterSet, s.working_days # NULL, NEW t \in Int
  PROVE  MatchesWallClock(s, t)
<1> DEFINE date == LocalDate(s, t)
           h == Hour(s, t)
           after == h - s.start_time
<1>1. /\ date \in Int /\ h \in Int
      /\ ShiftStart(s, date) = t - h + s.start_time
      /\ ShiftEnd(s, date) = t - h + s.end_time
      /\ Weekday(date) = DayOfWeek(s, t)
  BY Bounds
<1>2. s.start_time \in Int /\ s.end_time \in Int /\ s.grace_minutes \in Int
  BY DEF RosterSet
<1> HIDE DEF date, h
<1>3. Phase(s, t) = "in_shift"
        <=> /\ DayOfWeek(s, t) \in s.working_days
            /\ s.start_time <= h /\ h <= s.end_time
  <2>1. /\ t < ShiftStart(s, date) <=> h < s.start_time
        /\ t > ShiftEnd(s, date) <=> h > s.end_time
    BY <1>1, <1>2
  <2>2. DayKind(s, date) = IF DayOfWeek(s, t) \in s.working_days THEN "working" ELSE "off"
    BY <1>1 DEF DayKind
  <2>3. CASE DayOfWeek(s, t) \notin s.working_days
    BY <2>2, <2>3 DEF Phase, date
  <2>4. CASE DayOfWeek(s, t) \in s.working_days
    <3>1. DayKind(s, date) = "working"
      BY <2>2, <2>4
    <3>2. CASE t < ShiftStart(s, date)
      <4>1. Phase(s, t) # "in_shift"
        BY <3>1, <3>2 DEF Phase, date
      <4> QED BY <1>1, <1>2, <2>1, <3>2, <4>1
    <3>3. CASE t > ShiftEnd(s, date)
      <4>1. Phase(s, t) # "in_shift"
        BY <3>1, <3>3 DEF Phase, date
      <4> QED BY <1>1, <1>2, <2>1, <3>3, <4>1
    <3>4. CASE ~(t < ShiftStart(s, date)) /\ ~(t > ShiftEnd(s, date))
      <4>1. Phase(s, t) = "in_shift"
        BY <3>1, <3>4 DEF Phase, date
      <4> QED BY <1>1, <1>2, <2>1, <2>4, <3>4, <4>1
    <3> QED BY <3>2, <3>3, <3>4
  <2> QED BY <2>3, <2>4
<1>4. t > GraceEnd(s, date) <=> after > s.grace_minutes
  BY <1>1, <1>2 DEF GraceEnd
<1>5. Status(s, date, t) = "late" <=> after > s.grace_minutes
  BY <1>4 DEF Status
<1>6. LateMinutes(s, date, t) = IF after > s.grace_minutes THEN after ELSE 0
  BY <1>1, <1>2, <1>4 DEF LateMinutes
<1> QED
  BY <1>3, <1>5, <1>6 DEF MatchesWallClock, date, h

(* The clock of the instance reaches nothing but rosters and instants that *)
(* WallClock is about.                                                     *)
THEOREM PhaseCorrect == Spec => []PhaseMatchesWallClock
<1> DEFINE Reached == roster \in Rosters /\ now \in Int
<1>1. Init => Reached
  BY DEF Init
<1>2. Reached /\ [Walk]_<<roster, now>> => Reached'
  BY DEF Walk
<1>3. Reached => PhaseMatchesWallClock
  <2>1. ASSUME NEW s \in Rosters
        PROVE  s \in RosterSet /\ s.working_days # NULL
    <3>1. s.working_days \in SUBSET (0..6)
      BY DEF Rosters
    <3> QED BY <3>1, DayLenAssumption, NoDaysAssumption DEF Rosters, RosterSet
  <2> QED BY <2>1, WallClock DEF PhaseMatchesWallClock
<1> QED
  BY <1>1, <1>2, <1>3, PTL DEF Spec
=============================================================================
