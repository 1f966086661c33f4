------------------------------- MODULE DayRow -------------------------------
(* One row of attendance_days and the SQL statements that write it.  Every *)
(* operator maps the row a statement finds to the row it leaves; the row   *)
(* that does not exist yet is NoRow.                                       *)
EXTENDS Shift

Statuses == {"present", "late", "flagged", "absent", "leave", "off_day"}
Methods == {"wifi", "gps"}
Proofs == {"gps_pending", "verified"}
Verdicts == {"approve", "query", "present", "absent", "leave"}

ASSUME NullAssumption == NULL \notin Int \cup Methods \cup Proofs

(* resolved stands for resolved_by being set: an admin decided this day.   *)
RowSet ==
  [status : Statuses \cup {"none"}, method : Methods \cup {NULL},
   verification : Proofs \cup {NULL},
   check_in : Int \cup {NULL}, check_out : Int \cup {NULL},
   last_seen : Int \cup {NULL}, late_minutes : Int, resolved : BOOLEAN]

NoRow ==
  [status |-> "none", method |-> NULL, verification |-> NULL,
   check_in |-> NULL, check_out |-> NULL, last_seen |-> NULL,
   late_minutes |-> 0, resolved |-> FALSE]

\* mutant: the end of the shift forgotten
EarlierUncapped(a, b) == a

(* min(last_seen, shift_end).                                              *)
Earlier(a, b) == IF a <= b THEN a ELSE b

EnsureOffDay(row) ==
  IF row.status = "none" THEN [NoRow EXCEPT !.status = "off_day"] ELSE row

\* mutant: the upsert without its WHERE
AcceptsAny(row) == TRUE

(* The WHERE of apply_presence_event's upsert.                             *)
Accepts(row) == row.check_in = NULL

\* mutant: a detection method the table does not know
CheckInByAgent(row, s, date, method, now) ==
  IF Accepts(row)
  THEN [row EXCEPT !.status = Status(s, date, now), !.method = "agent",
                   !.verification = "verified", !.check_in = now,
                   !.last_seen = now]
  ELSE row

(* apply_presence_event: the only writer of a check-in.                    *)
CheckIn(row, s, date, method, now) ==
  IF Accepts(row)
  THEN [row EXCEPT !.status = Status(s, date, now),
                   !.method = method,
                   !.verification = IF method = "wifi" THEN "verified"
                                                       ELSE "gps_pending",
                   !.check_in = now,
                   !.last_seen = now,
                   !.late_minutes = LateMinutes(s, date, now)]
  ELSE row

\* mutant: a plain UPDATE, as if the upsert had no WHERE
FlagDayBlind(row) == [row EXCEPT !.status = "flagged"]

\* mutant: only an UPDATE, where a day may have no row yet
FlagDayIfAny(row) ==
  IF row.check_in = NULL /\ row.status # "none"
  THEN [row EXCEPT !.status = "flagged"] ELSE row

(* The nightly upsert, guarded like a check-in's.                          *)
FlagDay(row) ==
  IF row.check_in = NULL THEN [row EXCEPT !.status = "flagged"] ELSE row

\* mutant: an UPDATE without the WHERE that makes it a compare-and-set
CloseDayAgain(row, out) == [row EXCEPT !.check_out = out]

(* The compare-and-set on check_out.                                       *)
CloseDay(row, out) ==
  IF row.check_out = NULL THEN [row EXCEPT !.check_out = out] ELSE row

\* mutant: the upgrade forgets the method
AdvanceKeepsMethod(row, now, upgrade) ==
  IF upgrade
  THEN [row EXCEPT !.last_seen = now, !.verification = "verified"]
  ELSE [row EXCEPT !.last_seen = now]

(* What a heartbeat flushes: last_seen, and on an upgrade to the office    *)
(* network the two columns that make the day a verified WiFi day.          *)
Advance(row, now, upgrade) ==
  IF upgrade
  THEN [row EXCEPT !.last_seen = now, !.method = "wifi",
                   !.verification = "verified"]
  ELSE [row EXCEPT !.last_seen = now]

(* What an admin's decision flushes.  The ORM writes a status only when it *)
(* differs from the one loaded: that is what moved says.                   *)
VerdictStatus(verdict) == IF verdict = "query" THEN "flagged" ELSE verdict

Decided(row, verdict, moved) ==
  IF verdict = "approve"
  THEN [row EXCEPT !.verification = "verified", !.resolved = TRUE]
  ELSE [row EXCEPT !.status = IF moved THEN VerdictStatus(verdict) ELSE @,
                   !.resolved = TRUE]

(* One write statement of a scheduled job, run against the row it finds.   *)
Run(row, stmt) ==
  CASE stmt.op = "off"   -> EnsureOffDay(row)
    [] stmt.op = "flag"  -> FlagDay(row)
    [] stmt.op = "close" -> CloseDay(row, stmt.out)

\* mutant: rowcount ignored, every compare-and-set counts as a close
LocksAlways(row, stmt) == TRUE

(* The statement takes the row's lock: an upsert locks the row it meets    *)
(* even when its WHERE is false, an UPDATE or a DO NOTHING only a row it   *)
(* writes.                                                                 *)
Locks(row, stmt) == stmt.op = "flag" \/ Run(row, stmt) # row
=============================================================================
