---------------------------- MODULE MCAttendance ----------------------------
(* Small instances of Attendance.  A day has six instants; the shifts lie  *)
(* between instants 1 and 4 of it and the nightly run fires at 5.          *)
EXTENDS AttendanceProperties, TLC

AllWeek == 0..6

Shift(start, end, grace, days, tz) ==
  [start_time |-> start, end_time |-> end, grace_minutes |-> grace,
   working_days |-> days, tz |-> tz]

DayShift == Shift(1, 3, 1, AllWeek, 0)

OneShift == {DayShift}

(* The edits move the end of the shift earlier and take the grace away,    *)
(* make date 0 a day off, or store a null for the working days.            *)
BrokenShift == Shift(1, 3, 1, NULL, 0)
EditedShifts == {DayShift, Shift(1, 2, 0, AllWeek, 0), Shift(1, 3, 1, {1}, 0),
                 BrokenShift}

(* Offices in two zones: one in that of the scheduler of the instance, one *)
(* instant east of UTC, and one in UTC, where it is earlier of the day.    *)
TwoZones == {Shift(1, 3, 1, AllWeek, 1), DayShift}

EmployeeAndAdmin == {"wifi", "gps", "heartbeat", "approve", "query", "absent"}
CheckInOps == {"wifi"}
CheckInAndBeat == {"wifi", "heartbeat"}
WithEdit == {"wifi", "edit"}

RequestSymmetry == Permutations(Requests)
UserSymmetry == Permutations(Users)
=============================================================================
