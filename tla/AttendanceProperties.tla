------------------------ MODULE AttendanceProperties ------------------------
(* What is claimed of Attendance.  The README says which run checks which. *)
EXTENDS Attendance

-----------------------------------------------------------------------------
(* The type invariant.                                                     *)
Results == {"checked_in", "already_checked_in"}

ReqSet ==
  [pc : {"free"}]
  \cup [pc : {"guarded", "stamped"}, key : Keys, now : 0..MaxTime,
        shift : Shifts, method : Methods]
  \cup [pc : {"beating"}, key : Keys, now : 0..MaxTime, ip : BOOLEAN,
        inside : BOOLEAN]
  \cup [pc : {"beat"}, key : Keys, now : 0..MaxTime, upgrade : BOOLEAN]
  \cup [pc : {"decided"}, key : Keys, now : 0..MaxTime, verdict : Verdicts,
        moved : BOOLEAN]
  \cup [pc : {"done"}, key : Keys, result : Results]

EntrySet == [key : Keys, end : Int, kind : {"off", "working", "error"}]
StmtSet == [op : {"off", "flag"}, key : Keys, out : {NULL}]
           \cup [op : {"close"}, key : Keys, out : Int]

JobSet ==
  [phase : {"off", "begun", "running"}, now : 0..MaxTime,
   todo : SUBSET EntrySet, plans : SUBSET StmtSet, held : SUBSET StmtSet]

TypeOK ==
  /\ clock \in 0..MaxTime
  /\ roster \in [Users -> Shifts]
  /\ day \in [Keys -> RowSet]
  /\ req \in [Requests -> ReqSet]
  /\ job \in [Jobs -> JobSet]
  /\ up \subseteq Schedulers
  /\ fired \in [Schedulers -> SUBSET Kinds]
  /\ faults \in 0..MaxFaults
  /\ reports \in [Keys -> Nat]

-----------------------------------------------------------------------------
(* Safety.                                                                 *)

(* Of all requests racing on a day, at most one is told "checked_in": the  *)
(* double tap of README.md:173-174.                                        *)
DoubleTapOnce ==
  \A q, r \in Requests :
    /\ req[q].pc = "done" /\ req[q].result = "checked_in"
    /\ req[r].pc = "done" /\ req[r].result = "checked_in"
    /\ req[q].key = req[r].key
    => q = r

(* Unless a human decided the day, its status says exactly whether there   *)
(* is a check-in: nobody is present without one, no racing nightly run     *)
(* flags a day that has one, and no job writes absent or leave.            *)
HasEvidence(row) ==
  ~row.resolved => /\ row.status \in {"present", "late"} <=> row.check_in # NULL
                   /\ row.status \notin {"absent", "leave"}

StatusHasEvidence == \A k \in Keys : HasEvidence(day[k])

(* The proof of a day never says more than the code could establish: a GPS *)
(* day is verified only by an admin, and a WiFi day always is verified.    *)
Justified(row) ==
  /\ row.method = "gps" /\ row.verification = "verified" => row.resolved
  /\ row.method = "wifi" => row.verification = "verified"
  /\ row.check_in # NULL <=> row.method # NULL

VerificationJustified == \A k \in Keys : Justified(day[k])

(* A day is closed only after a check-in, and a forgotten tab never runs   *)
(* past the end of the shift.                                              *)
ClosedInShift(k, row) ==
  row.check_out # NULL =>
    /\ row.check_in # NULL
    /\ \E s \in Shifts : row.check_out <= ShiftEnd(s, k[2])

ClosedWithinShift == \A k \in Keys : ClosedInShift(k, day[k])

(* The lateness of an undecided day is that of its own check_in, although  *)
(* the shift was evaluated at an earlier reading of the clock; and nobody  *)
(* checks in before the shift.                                             *)
LateAsArrived(k, row) ==
  row.check_in # NULL =>
    \E s \in Shifts :
      LET after == row.check_in - ShiftStart(s, k[2])
          late == after > s.grace_minutes
      IN  /\ after >= 0
          /\ row.late_minutes = IF late THEN after ELSE 0
          /\ ~row.resolved => row.status = IF late THEN "late" ELSE "present"

LatenessRecorded == \A k \in Keys : LateAsArrived(k, day[k])

(* However many runs race on a day, with the lock or without, exactly one  *)
(* committed run reports closing it, and it is closed iff one did.         *)
ReportedOnce(k) ==
  reports[k] <= 1 /\ (reports[k] = 1 <=> day[k].check_out # NULL)

CloseReportedOnce == \A k \in Keys : ReportedOnce(k)

-----------------------------------------------------------------------------
(* Action properties.                                                      *)

(* The status of a day that has a check-in changes only by a human.        *)
CheckedInStatusIsHuman ==
  [][\A k \in Keys :
       /\ day[k].check_in # NULL
       /\ day'[k].status # day[k].status
       => day'[k].resolved /\ \E r \in Requests : req[r].pc = "decided"]_vars

(* No job flags a day of somebody who came, or a day on which the shift of *)
(* any office may still run: the one nightly instant must suit them all.   *)
NightlyActsAfterShift ==
  [][UNCHANGED req
     => \A k \in Keys :
          day'[k].status = "flagged" /\ day[k].status # "flagged"
          => /\ day[k].check_in = NULL
             /\ \A s \in Shifts : clock > ShiftEnd(s, k[2])]_vars

-----------------------------------------------------------------------------
(* The lifecycle a day is promised, and the mapping that shows it kept.    *)
Entry(row) ==
  [in |-> row.check_in, out |-> row.check_out, proof |-> row.verification]

DL == INSTANCE DayLifecycle
        WITH Instants <- Int, entry <- [k \in Keys |-> Entry(day[k])]

(* Check-in and check-out are written once each and in this order, and     *)
(* proof is never withdrawn, whatever races.                               *)
ArriveOnceLeaveOnce == DL!Spec

-----------------------------------------------------------------------------
(* The inductive invariant behind the safety properties.                   *)

(* What holds of every row.                                                *)
RowInv(k, row) ==
  /\ row.check_in # NULL <=> row.verification # NULL
  /\ row.check_in # NULL <=> row.last_seen # NULL
  /\ row.status = "none" => row.check_in = NULL
  /\ HasEvidence(row)
  /\ Justified(row)
  /\ ClosedInShift(k, row)
  /\ LateAsArrived(k, row)

(* What a request or a job read still holds when it comes to write, as far *)
(* as it is about the days of L: all of them in Attendance, those of users *)
(* who are still there in Staff.                                           *)
ReqInv(q, L) ==
  /\ q.pc \notin {"free", "done"} => q.now <= clock
  /\ q.pc \in {"guarded", "stamped"} => q.now >= ShiftStart(q.shift, q.key[2])
  /\ \/ q.pc = "beat"
     \/ q.pc = "decided" /\ q.verdict = "approve"
     \/ q.pc = "done" /\ q.result = "checked_in"
     => (q.key \in L => day[q.key].check_in # NULL)
  /\ q.pc = "decided" => (q.key \in L => day[q.key].status # "none")

(* A compare-and-set is planned only for a checked-in day.                 *)
StmtInv(p, L) ==
  p.op = "close" => /\ p.key \in L => day[p.key].check_in # NULL
                    /\ \E s \in Shifts : p.out <= ShiftEnd(s, p.key[2])

JobInv(b, L) ==
  /\ \A p \in b.plans \cup b.held : StmtInv(p, L)
  /\ \A e \in b.todo : \E s \in Shifts : e.end = ShiftEnd(s, e.key[2])

CoherentOn(L) ==
  /\ \A k \in Keys : RowInv(k, day[k])
  /\ \A r \in Requests : ReqInv(req[r], L)
  /\ \A j \in Jobs : JobInv(job[j], L)

Coherent == CoherentOn(Keys)

(* A job treats each day once, and no two transactions hold one row.  The  *)
(* days a transaction is about to close are still open.                    *)
OncePerDay(b) ==
  /\ b.phase # "running" => b.todo = {} /\ b.plans = {} /\ b.held = {}
  /\ \A p, q \in b.plans \cup b.held : p.key = q.key => p = q
  /\ b.plans \cap b.held = {}
  /\ \A e \in b.todo, p \in b.plans \cup b.held : e.key # p.key
  /\ \A e, f \in b.todo : e.key = f.key => e = f

RowLocks ==
  /\ \A j \in Jobs : OncePerDay(job[j])
  /\ \A i, j \in Jobs : i # j =>
       \A p \in job[i].held, q \in job[j].held : p.key # q.key
  /\ \A j \in Jobs : \A p \in job[j].held :
       p.op = "close" => day[p.key].check_out = NULL

-----------------------------------------------------------------------------
(* What documents, docstrings and the README say, and the code does not    *)
(* keep.  Each is checked by a run that expects the violation.             *)

(* README.md:203 - check_out = last verified last_seen and is after        *)
(* check_in.                                                               *)
CheckOutNotBeforeCheckIn ==
  \A k \in Keys : day[k].check_out # NULL => day[k].check_out >= day[k].check_in
=============================================================================
