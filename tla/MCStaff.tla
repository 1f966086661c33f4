------------------------------ MODULE MCStaff ------------------------------
(* Small instances of Staff, with the shifts of MCAttendance.              *)
EXTENDS Staff

DayShift ==
  [start_time |-> 1, end_time |-> 3, grace_minutes |-> 1, working_days |-> 0..6,
   tz |-> 0]

(* The admin may store a null for the working days, and repair it.         *)
SoundOrBroken == {DayShift, [DayShift EXCEPT !.working_days = NULL]}

(* Two sound settings of the shift.                                        *)
LongOrShort == {DayShift, [DayShift EXCEPT !.end_time = 2]}

EditOps == {"edit"}
LiveOps == {"wifi", "heartbeat", "edit"}
AllChanges == {"admit", "disable", "delete"}
=============================================================================
