-------------------------- MODULE AttendanceProofs --------------------------
(* Proofs about Attendance, for every value of its constants.              *)
EXTENDS AttendanceProperties, TLAPS

-----------------------------------------------------------------------------
(* The operators on shifts and rows.                                       *)

(* The date of an instant, and the bounds of a shift, are integers.        *)
LEMMA ShiftTypes ==
  ASSUME NEW s \in Shifts, NEW t \in Int, NEW date \in Int
  PROVE  /\ s.tz \in Int /\ s.grace_minutes \in Nat
         /\ LocalDate(s, t) \in Int
         /\ ShiftStart(s, date) \in Int
         /\ ShiftEnd(s, date) \in Int
         /\ GraceEnd(s, date) \in Int
BY DayLenAssumption, SystemAssumption, SMT
   DEF RosterSet, LocalDate, ShiftStart, ShiftEnd, GraceEnd

(* Keys are pairs of a user and a date that is an integer.                 *)
LEMMA KeyTypes ==
  /\ \A k \in Keys : k[1] \in Users /\ k[2] \in Int
  /\ \A u \in Users, s \in Shifts, t \in 0..MaxTime : <<u, LocalDate(s, t)>> \in Keys
<1>1. Dates \subseteq Int
  BY ShiftTypes DEF Dates
<1> QED
  BY <1>1 DEF Keys, Dates

(* What one write may do to a row.                                         *)
RowStep(k, row, next) ==
  /\ next \in RowSet
  /\ RowInv(k, next)
  /\ row.check_in # NULL => next.check_in # NULL
  /\ row.status # "none" => next.status # "none"
  /\ Entry(next) = Entry(row) \/ DL!EntryStep(Entry(row), Entry(next))

(* A write that leaves the arrival alone and moves the status only for a   *)
(* human keeps the lateness right.                                         *)
LEMMA SameArrival ==
  ASSUME NEW k, NEW row, NEW next, LateAsArrived(k, row),
         next.check_in = row.check_in, next.late_minutes = row.late_minutes,
         next.resolved \/ (next.status = row.status /\ next.resolved = row.resolved)
  PROVE  LateAsArrived(k, next)
BY DEF LateAsArrived

(* ensure_off_day: an insert that meets a row does nothing.                *)
LEMMA EnsureOffDayStep ==
  ASSUME NEW k \in Keys, NEW row \in RowSet, RowInv(k, row)
  PROVE  RowStep(k, row, EnsureOffDay(row))
<1>1. CASE row.status # "none"
  BY <1>1 DEF EnsureOffDay, RowStep
<1>2. CASE row.status = "none"
  <2> DEFINE next == [NoRow EXCEPT !.status = "off_day"]
  <2>1. EnsureOffDay(row) = next
    BY <1>2 DEF EnsureOffDay
  <2>2. /\ next \in RowSet
        /\ next.status = "off_day" /\ next.check_in = NULL /\ next.check_out = NULL
        /\ next.method = NULL /\ next.verification = NULL /\ next.last_seen = NULL
    <3>1. NoRow \in RowSet
      BY DEF NoRow, RowSet
    <3>2. /\ NoRow.check_in = NULL /\ NoRow.check_out = NULL /\ NoRow.method = NULL
          /\ NoRow.verification = NULL /\ NoRow.last_seen = NULL
      BY DEF NoRow
    <3> QED BY <3>1, <3>2 DEF RowSet, Statuses
  <2>3. row.check_in = NULL /\ row.check_out = NULL /\ row.verification = NULL
    BY <1>2 DEF RowInv, ClosedInShift
  <2>4. RowInv(k, next)
    BY <2>2, NullAssumption DEF RowInv, HasEvidence, Justified, ClosedInShift,
       LateAsArrived, Methods, Proofs
  <2>5. Entry(next) = Entry(row)
    BY <2>2, <2>3 DEF Entry
  <2> QED BY <2>1, <2>2, <2>3, <2>4, <2>5 DEF RowStep
<1> QED BY <1>1, <1>2

(* The nightly flag: only a row without a check-in is touched.             *)
LEMMA FlagDayStep ==
  ASSUME NEW k \in Keys, NEW row \in RowSet, RowInv(k, row)
  PROVE  RowStep(k, row, FlagDay(row))
<1>1. CASE row.check_in # NULL
  BY <1>1 DEF FlagDay, RowStep
<1>2. CASE row.check_in = NULL
  <2> DEFINE next == [row EXCEPT !.status = "flagged"]
  <2>1. FlagDay(row) = next
    BY <1>2 DEF FlagDay
  <2>2. /\ next \in RowSet
        /\ next.status = "flagged" /\ next.check_in = NULL
        /\ next.check_out = row.check_out /\ next.method = row.method
        /\ next.verification = row.verification /\ next.last_seen = row.last_seen
        /\ next.resolved = row.resolved
    BY <1>2 DEF RowSet, Statuses
  <2>3. RowInv(k, next)
    BY <1>2, <2>2 DEF RowInv, HasEvidence, Justified, ClosedInShift, LateAsArrived
  <2>4. Entry(next) = Entry(row)
    BY <1>2, <2>2 DEF Entry
  <2> QED BY <1>2, <2>1, <2>2, <2>3, <2>4 DEF RowStep
<1> QED BY <1>1, <1>2

(* The compare-and-set: a checked-in row is checked out once.              *)
LEMMA CloseDayStep ==
  ASSUME NEW k \in Keys, NEW row \in RowSet, RowInv(k, row), NEW out \in Int,
         row.check_in # NULL, \E s \in Shifts : out <= ShiftEnd(s, k[2])
  PROVE  RowStep(k, row, CloseDay(row, out))
<1>1. CASE row.check_out # NULL
  BY <1>1 DEF CloseDay, RowStep
<1>2. CASE row.check_out = NULL
  <2> DEFINE next == [row EXCEPT !.check_out = out]
  <2>1. CloseDay(row, out) = next
    BY <1>2 DEF CloseDay
  <2>2. /\ next \in RowSet
        /\ next.status = row.status /\ next.check_in = row.check_in
        /\ next.check_out = out /\ next.method = row.method
        /\ next.verification = row.verification /\ next.last_seen = row.last_seen
        /\ next.resolved = row.resolved /\ next.late_minutes = row.late_minutes
    BY DEF RowSet
  <2>3. LateAsArrived(k, next)
    BY <2>2, SameArrival DEF RowInv
  <2>4. RowInv(k, next)
    BY <2>2, <2>3 DEF RowInv, HasEvidence, Justified, ClosedInShift
  <2>5. DL!CheckedOut(Entry(row), Entry(next))
    BY <1>2, <2>2 DEF Entry, DL!CheckedOut
  <2> QED BY <2>1, <2>2, <2>4, <2>5 DEF RowStep, DL!EntryStep
<1> QED BY <1>1, <1>2

(* The arrival is classified by its own instant.                           *)
LEMMA CheckInStep ==
  ASSUME NEW k \in Keys, NEW row \in RowSet, RowInv(k, row),
         NEW s \in Shifts, NEW method \in Methods, NEW now \in Int,
         now >= ShiftStart(s, k[2])
  PROVE  RowStep(k, row, CheckIn(row, s, k[2], method, now))
         /\ CheckIn(row, s, k[2], method, now).check_in # NULL
<1>1. CASE row.check_in # NULL
  BY <1>1 DEF CheckIn, Accepts, RowStep
<1>2. CASE row.check_in = NULL
  <2> DEFINE next == CheckIn(row, s, k[2], method, now)
             late == now > GraceEnd(s, k[2])
  <2>0. /\ ShiftStart(s, k[2]) \in Int /\ s.grace_minutes \in Nat
        /\ GraceEnd(s, k[2]) = ShiftStart(s, k[2]) + s.grace_minutes
    BY KeyTypes, ShiftTypes DEF GraceEnd
  <2>1. next = [row EXCEPT !.status = IF late THEN "late" ELSE "present",
                           !.method = method,
                           !.verification = IF method = "wifi" THEN "verified"
                                                               ELSE "gps_pending",
                           !.check_in = now,
                           !.last_seen = now,
                           !.late_minutes = IF late THEN now - ShiftStart(s, k[2])
                                                    ELSE 0]
    BY <1>2 DEF CheckIn, Accepts, Status, LateMinutes
  <2>a. (IF late THEN now - ShiftStart(s, k[2]) ELSE 0) \in Int
    BY <2>0
  <2>2. /\ next \in RowSet
        /\ next.status = IF late THEN "late" ELSE "present"
        /\ next.check_in = now /\ next.last_seen = now
        /\ next.check_out = row.check_out /\ next.method = method
        /\ next.verification = IF method = "wifi" THEN "verified" ELSE "gps_pending"
        /\ next.resolved = row.resolved
        /\ next.late_minutes = IF late THEN now - ShiftStart(s, k[2]) ELSE 0
    <3> DEFINE minutes == IF late THEN now - ShiftStart(s, k[2]) ELSE 0
               st == IF late THEN "late" ELSE "present"
    <3>1. minutes \in Int /\ st \in Statuses
      BY <2>a DEF Statuses
    <3> HIDE DEF next, minutes, st, late
    <3>2. next = [row EXCEPT !.status = st, !.method = method,
                             !.verification = IF method = "wifi" THEN "verified"
                                                                 ELSE "gps_pending",
                             !.check_in = now, !.last_seen = now,
                             !.late_minutes = minutes]
      BY <2>1 DEF minutes, st
    <3>3. /\ next \in RowSet
          /\ next.status = st /\ next.check_in = now /\ next.last_seen = now
          /\ next.check_out = row.check_out /\ next.method = method
          /\ next.verification = IF method = "wifi" THEN "verified" ELSE "gps_pending"
          /\ next.resolved = row.resolved /\ next.late_minutes = minutes
      BY <3>1, <3>2 DEF RowSet, Methods, Proofs
    <3> QED BY <3>3 DEF minutes, st
  <2> HIDE DEF next
  <2>3. now # NULL /\ method # NULL /\ next.verification # NULL
    BY <2>2, NullAssumption DEF Methods, Proofs
  <2>4. LateAsArrived(k, next)
    BY <2>0, <2>2 DEF LateAsArrived
  <2>5. row.check_out = NULL /\ row.verification = NULL
    BY <1>2 DEF RowInv, ClosedInShift
  <2>6. RowInv(k, next)
    BY <2>2, <2>3, <2>4, <2>5 DEF RowInv, HasEvidence, Justified, ClosedInShift, Methods
  <2>7. DL!Arrived(Entry(row), Entry(next))
    <3>1. Entry(row) = [in |-> NULL, out |-> NULL, proof |-> NULL]
      BY <1>2, <2>5 DEF Entry
    <3>2. Entry(next) = [in |-> now, out |-> NULL, proof |-> next.verification]
      BY <2>2, <2>5 DEF Entry
    <3>3. next.verification \in {"gps_pending", "verified"}
      BY <2>2
    <3> HIDE DEF next
    <3> QED BY <3>1, <3>2, <3>3 DEF DL!Arrived, DL!NoEntry
  <2> QED BY <2>2, <2>3, <2>6, <2>7 DEF RowStep, DL!EntryStep, next
<1> QED BY <1>1, <1>2

(* A heartbeat's flush leaves the arrival alone.                           *)
LEMMA AdvanceStep ==
  ASSUME NEW k \in Keys, NEW row \in RowSet, RowInv(k, row), row.check_in # NULL,
         NEW now \in Int, NEW upgrade \in BOOLEAN
  PROVE  RowStep(k, row, Advance(row, now, upgrade))
<1> DEFINE next == Advance(row, now, upgrade)
<1>1. /\ next \in RowSet
      /\ next.status = row.status /\ next.check_in = row.check_in
      /\ next.check_out = row.check_out /\ next.last_seen = now
      /\ next.method = IF upgrade THEN "wifi" ELSE row.method
      /\ next.verification = IF upgrade THEN "verified" ELSE row.verification
      /\ next.resolved = row.resolved /\ next.late_minutes = row.late_minutes
  BY DEF Advance, RowSet, Methods, Proofs
<1> HIDE DEF next
<1>2. LateAsArrived(k, next)
  BY <1>1, SameArrival DEF RowInv
<1>3. RowInv(k, next)
  BY <1>1, <1>2, NullAssumption DEF RowInv, HasEvidence, Justified, ClosedInShift,
     Methods, Proofs, RowSet
<1>4. row.verification \in {"verified", "gps_pending"}
  BY DEF RowInv, RowSet, Proofs
<1>5. Entry(next) = Entry(row) \/ DL!Verified(Entry(row), Entry(next))
  BY <1>1, <1>4 DEF Entry, DL!Verified
<1> QED BY <1>1, <1>3, <1>5 DEF RowStep, DL!EntryStep, next

(* An admin's flush leaves both instants alone.                            *)
LEMMA DecidedStep ==
  ASSUME NEW k \in Keys, NEW row \in RowSet, RowInv(k, row),
         NEW verdict \in Verdicts, NEW moved \in BOOLEAN,
         row.status # "none", verdict = "approve" => row.check_in # NULL
  PROVE  RowStep(k, row, Decided(row, verdict, moved))
<1> DEFINE next == Decided(row, verdict, moved)
<1>1. /\ next \in RowSet
      /\ next.status # "none" /\ next.check_in = row.check_in
      /\ next.check_out = row.check_out /\ next.last_seen = row.last_seen
      /\ next.method = row.method
      /\ next.verification = IF verdict = "approve" THEN "verified"
                                                    ELSE row.verification
      /\ next.resolved = TRUE /\ next.late_minutes = row.late_minutes
  <2>1. CASE verdict = "approve"
    BY <2>1 DEF Decided, RowSet, Proofs
  <2>2. CASE verdict # "approve"
    <3>1. VerdictStatus(verdict) \in Statuses
      BY <2>2 DEF VerdictStatus, Verdicts, Statuses
    <3>2. next = [row EXCEPT !.status = IF moved THEN VerdictStatus(verdict) ELSE @,
                             !.resolved = TRUE]
      BY <2>2 DEF Decided
    <3>3. "none" \notin Statuses
      BY DEF Statuses
    <3> QED BY <2>2, <3>1, <3>2, <3>3 DEF RowSet
  <2> QED BY <2>1, <2>2
<1> HIDE DEF next
<1>2. LateAsArrived(k, next)
  BY <1>1, SameArrival DEF RowInv
<1>3. RowInv(k, next)
  BY <1>1, <1>2, NullAssumption DEF RowInv, HasEvidence, Justified, ClosedInShift,
     Methods, Proofs, RowSet
<1>4. verdict = "approve" => row.verification \in {"verified", "gps_pending"}
  BY DEF RowInv, RowSet, Proofs
<1>5. Entry(next) = Entry(row) \/ DL!Verified(Entry(row), Entry(next))
  BY <1>1, <1>4 DEF Entry, DL!Verified
<1> QED BY <1>1, <1>3, <1>5 DEF RowStep, DL!EntryStep, next

(* Any statement of a job, if a close meets a checked-in row.              *)
LEMMA RunStep ==
  ASSUME NEW k \in Keys, NEW row \in RowSet, RowInv(k, row), NEW p \in StmtSet,
         p.op = "close" => /\ row.check_in # NULL
                           /\ \E s \in Shifts : p.out <= ShiftEnd(s, k[2])
  PROVE  RowStep(k, row, Run(row, p))
<1>1. CASE p.op = "off"
  BY <1>1, EnsureOffDayStep DEF Run
<1>2. CASE p.op = "flag"
  BY <1>2, FlagDayStep DEF Run
<1>3. CASE p.op = "close"
  <2>1. p.out \in Int
    BY <1>3 DEF StmtSet
  <2> QED BY <1>3, <2>1, CloseDayStep DEF Run
<1> QED BY <1>1, <1>2, <1>3 DEF StmtSet

-----------------------------------------------------------------------------
(* The state and its steps.                                                *)

(* A request that passes the guard is past the start of the shift.         *)
LEMMA PhaseInShift ==
  ASSUME NEW s, NEW now, Phase(s, now) = "in_shift"
  PROVE  ~(now < ShiftStart(s, LocalDate(s, now)))
BY DEF Phase, DayKind

(* The fields a request has at each point.                                 *)
LEMMA ReqTypes ==
  ASSUME NEW q \in ReqSet
  PROVE  /\ q.pc \in {"free", "guarded", "stamped", "beating", "beat", "decided", "done"}
         /\ q.pc # "free" => q.key \in Keys
         /\ q.pc \notin {"free", "done"} => q.now \in 0..MaxTime
         /\ q.pc \in {"guarded", "stamped"} => q.shift \in Shifts /\ q.method \in Methods
         /\ q.pc = "beating" => q.ip \in BOOLEAN /\ q.inside \in BOOLEAN
         /\ q.pc = "beat" => q.upgrade \in BOOLEAN
         /\ q.pc = "decided" => q.verdict \in Verdicts /\ q.moved \in BOOLEAN
         /\ q.pc = "done" => q.result \in Results
BY DEF ReqSet

(* What one step may do to the table: every row moves by one write at most.*)
DayStep ==
  /\ day' \in [Keys -> RowSet]
  /\ \A k \in Keys : day'[k] = day[k] \/ RowStep(k, day[k], day'[k])

(* What was read before a step that moves rows so is still good after it.  *)
LEMMA Stable ==
  ASSUME NEW L \in SUBSET Keys, TypeOK, CoherentOn(L),
         DayStep, clock' \in Int, clock' >= clock
  PROVE  /\ \A k \in Keys : RowInv(k, day'[k])
         /\ \A k \in Keys : day[k].check_in # NULL => day'[k].check_in # NULL
         /\ \A k \in Keys : day[k].status # "none" => day'[k].status # "none"
         /\ \A q \in ReqSet : ReqInv(q, L) => ReqInv(q, L)'
         /\ \A b \in JobSet : JobInv(b, L) => JobInv(b, L)'
<1>1. \A k \in Keys : RowInv(k, day'[k])
  BY DEF DayStep, RowStep, CoherentOn
<1>2. \A k \in Keys : day[k].check_in # NULL => day'[k].check_in # NULL
  BY DEF DayStep, RowStep
<1>a. \A k \in Keys : day[k].status # "none" => day'[k].status # "none"
  BY DEF DayStep, RowStep
<1>3. ASSUME NEW q \in ReqSet, ReqInv(q, L) PROVE ReqInv(q, L)'
  BY <1>2, <1>a, <1>3, ReqTypes DEF ReqInv, TypeOK
<1>4. ASSUME NEW p \in StmtSet, StmtInv(p, L) PROVE StmtInv(p, L)'
  BY <1>2, <1>4 DEF StmtInv, StmtSet
<1>5. ASSUME NEW b \in JobSet, JobInv(b, L) PROVE JobInv(b, L)'
  BY <1>4, <1>5 DEF JobInv, JobSet
<1> QED BY <1>1, <1>2, <1>a, <1>3, <1>5

(* A step keeps the invariant when what it writes does.                    *)
LEMMA Assemble ==
  ASSUME NEW L \in SUBSET Keys, TypeOK, CoherentOn(L),
         DayStep, clock' \in 0..MaxTime, clock' >= clock,
         roster' \in [Users -> Shifts],
         req' \in [Requests -> ReqSet],
         job' \in [Jobs -> JobSet],
         up' \subseteq Schedulers, fired' \in [Schedulers -> SUBSET Kinds],
         faults' \in 0..MaxFaults, reports' \in [Keys -> Nat],
         \A r \in Requests : req'[r] = req[r] \/ ReqInv(req[r], L)',
         \A j \in Jobs : job'[j] = job[j] \/ JobInv(job[j], L)'
  PROVE  TypeOK' /\ CoherentOn(L)'
<1>1. TypeOK'
  BY DEF TypeOK, DayStep
<1>2. \A r \in Requests : req[r] \in ReqSet /\ ReqInv(req[r], L)
  BY DEF TypeOK, CoherentOn
<1>3. \A j \in Jobs : job[j] \in JobSet /\ JobInv(job[j], L)
  BY DEF TypeOK, CoherentOn
<1>4. ASSUME NEW r \in Requests PROVE ReqInv(req[r], L)'
  <2>1. CASE req'[r] = req[r]
    <3>1. ReqInv(req[r], L) /\ req[r] \in ReqSet
      BY <1>2
    <3> DEFINE q == req[r]
    <3> QED BY <2>1, <3>1, Stable DEF ReqInv
  <2> QED BY <2>1
<1>5. ASSUME NEW j \in Jobs PROVE JobInv(job[j], L)'
  <2>1. CASE job'[j] = job[j]
    BY <2>1, <1>3, Stable DEF JobInv, StmtInv
  <2> QED BY <2>1
<1>6. \A k \in Keys : RowInv(k, day[k])'
  BY Stable DEF RowInv, HasEvidence, Justified, ClosedInShift, LateAsArrived
<1> QED BY <1>1, <1>4, <1>5, <1>6 DEF CoherentOn

(* A step of a request: it moves the slot of r to q and at most one row.   *)
LEMMA RequestMove ==
  ASSUME NEW L \in SUBSET Keys, TypeOK, CoherentOn(L),
         NEW r \in Requests, NEW q \in ReqSet,
         req' = [req EXCEPT ![r] = q], UNCHANGED Others, DayStep, ReqInv(q, L)'
  PROVE  TypeOK' /\ CoherentOn(L)'
<1>1. \A s \in Requests : req'[s] = req[s] \/ ReqInv(req[s], L)'
  <2>1. ASSUME NEW s \in Requests, s # r PROVE req'[s] = req[s]
    BY <2>1 DEF TypeOK
  <2>2. req'[r] = q
    BY DEF TypeOK
  <2>3. ReqInv(req[r], L)'
    BY <2>2 DEF ReqInv
  <2> QED BY <2>1, <2>3
<1>2. req' \in [Requests -> ReqSet]
  BY DEF TypeOK
<1>3. clock' >= clock
  BY SystemAssumption DEF TypeOK, Others
<1>4. \A j \in Jobs : job'[j] = job[j]
  BY DEF Others
<1> QED
  BY <1>1, <1>2, <1>3, <1>4, Assemble DEF TypeOK, Others

(* A step of a job: it moves the record of j to b.                         *)
LEMMA JobMove ==
  ASSUME NEW L \in SUBSET Keys, TypeOK, CoherentOn(L), NEW j \in Jobs, NEW b \in JobSet,
         job' = [job EXCEPT ![j] = b], JobInv(b, L)', DayStep,
         UNCHANGED <<clock, roster, req, up>>,
         fired' \in [Schedulers -> SUBSET Kinds], faults' \in 0..MaxFaults,
         reports' \in [Keys -> Nat]
  PROVE  TypeOK' /\ CoherentOn(L)'
<1>1. \A i \in Jobs : job'[i] = job[i] \/ JobInv(job[i], L)'
  <2>1. ASSUME NEW i \in Jobs, i # j PROVE job'[i] = job[i]
    BY <2>1 DEF TypeOK
  <2>2. job'[j] = b
    BY DEF TypeOK
  <2>3. JobInv(job[j], L)'
    BY <2>2 DEF JobInv, StmtInv
  <2> QED BY <2>1, <2>3
<1>2. job' \in [Jobs -> JobSet]
  BY DEF TypeOK
<1>3. clock' >= clock
  BY SystemAssumption DEF TypeOK
<1> QED
  BY <1>1, <1>2, <1>3, Assemble DEF TypeOK

(* A step that leaves the table alone.                                     *)
LEMMA SameTable ==
  ASSUME TypeOK, UNCHANGED day
  PROVE  DayStep
BY DEF DayStep, TypeOK

(* One row k is written, and moves by one write.                           *)
LEMMA OneRow ==
  ASSUME TypeOK, NEW k \in Keys, NEW next, day' = [day EXCEPT ![k] = next],
         RowStep(k, day[k], next)
  PROVE  DayStep
BY DEF DayStep, TypeOK, RowStep

(* An idle request slot promises nothing.                                  *)
LEMMA FreeRequest ==
  ASSUME NEW L \in SUBSET Keys
  PROVE  FreeReq \in ReqSet /\ ReqInv(FreeReq, L)'
BY DEF FreeReq, ReqSet, ReqInv

(* A job that is off promises nothing.                                     *)
LEMMA IdleJob ==
  ASSUME NEW L \in SUBSET Keys
  PROVE  OffJob \in JobSet /\ JobInv(OffJob, L)'
BY SystemAssumption DEF OffJob, JobSet, JobInv

(* A day without a row is as it should be.                                 *)
LEMMA NoRowFits == NoRow \in RowSet /\ \A k \in Keys : RowInv(k, NoRow)
BY NullAssumption DEF NoRow, RowSet, RowInv, HasEvidence, Justified, ClosedInShift,
   LateAsArrived, Methods, Proofs

(* The initial state satisfies the invariant.                              *)
LEMMA InitCoherent ==
  ASSUME NEW L \in SUBSET Keys, Init
  PROVE  TypeOK /\ CoherentOn(L)
<1>1. NoRow \in RowSet /\ \A k \in Keys : RowInv(k, NoRow)
  BY NoRowFits
<1>2. OffJob \in JobSet /\ JobInv(OffJob, L)
  BY SystemAssumption DEF OffJob, JobSet, JobInv
<1>3. FreeReq \in ReqSet /\ ReqInv(FreeReq, L)
  BY DEF FreeReq, ReqSet, ReqInv
<1>4. TypeOK
  BY <1>1, <1>2, <1>3, SystemAssumption DEF Init, TypeOK
<1>5. CoherentOn(L)
  BY <1>1, <1>2, <1>3 DEF Init, CoherentOn
<1> QED BY <1>4, <1>5

-----------------------------------------------------------------------------
(* One lemma per action.                                                   *)

(* The clock: nothing read earlier speaks of the present.                  *)
LEMMA TickStep ==
  ASSUME NEW L \in SUBSET Keys, TypeOK, CoherentOn(L), Tick
  PROVE  TypeOK' /\ CoherentOn(L)' /\ DayStep
<1>1. DayStep
  BY SameTable DEF Tick
<1>2. clock' \in 0..MaxTime /\ clock' >= clock
  BY SystemAssumption DEF Tick, TypeOK
<1> QED BY <1>1, <1>2, Assemble DEF Tick, TypeOK

(* An edited roster is one of Shifts; no row moves.                        *)
LEMMA EditRosterStep ==
  ASSUME NEW L \in SUBSET Keys, TypeOK, CoherentOn(L), NEW u \in Users, EditRoster(u)
  PROVE  TypeOK' /\ CoherentOn(L)' /\ DayStep
<1>1. DayStep
  BY SameTable DEF EditRoster
<1>2. clock' \in 0..MaxTime /\ clock' >= clock
  BY SystemAssumption DEF EditRoster, TypeOK
<1>3. roster' \in [Users -> Shifts]
  BY DEF EditRoster, TypeOK
<1> QED BY <1>1, <1>2, <1>3, Assemble DEF EditRoster, TypeOK

(* The shift guard: what it captures is past the shift's start.            *)
LEMMA AttemptStep ==
  ASSUME NEW L \in SUBSET Keys, TypeOK, CoherentOn(L),
         NEW r \in Requests, NEW u \in Users,
         NEW method \in Methods, Attempt(r, u, method)
  PROVE  TypeOK' /\ CoherentOn(L)' /\ DayStep
<1> DEFINE s == roster[u]
           k == <<u, LocalDate(s, clock)>>
<1>1. s \in Shifts /\ clock \in 0..MaxTime /\ clock \in Int /\ k \in Keys
  BY KeyTypes DEF TypeOK
<1>2. CASE /\ day' = [day EXCEPT ![k] = EnsureOffDay(@)]
           /\ req' = [req EXCEPT ![r] = FreeReq]
  <2>1. DayStep
    BY <1>1, <1>2, EnsureOffDayStep, OneRow DEF TypeOK, CoherentOn
  <2> QED BY <1>2, <2>1, FreeRequest, RequestMove DEF Attempt
<1>3. CASE req' = [req EXCEPT ![r] = FreeReq] /\ UNCHANGED day
  BY <1>3, FreeRequest, RequestMove, SameTable DEF Attempt
<1>4. CASE /\ Phase(s, clock) = "in_shift"
           /\ req' = [req EXCEPT ![r] = [pc |-> "guarded", key |-> k, now |-> clock,
                                         shift |-> s, method |-> method]]
           /\ UNCHANGED day
  <2>0. PICK q : q = [pc |-> "guarded", key |-> k, now |-> clock, shift |-> s,
                      method |-> method]
    OBVIOUS
  <2>1. q \in ReqSet
    BY <1>1, <2>0 DEF ReqSet
  <2>2. clock >= ShiftStart(s, k[2])
    BY <1>1, <1>4, PhaseInShift, ShiftTypes
  <2>3. ReqInv(q, L)'
    BY <1>1, <2>0, <2>2 DEF ReqInv, Attempt, Others
  <2> QED BY <1>4, <2>0, <2>1, <2>3, RequestMove, SameTable DEF Attempt
<1> QED BY <1>2, <1>3, <1>4 DEF Attempt

(* A request that is not located ends.                                     *)
LEMMA NotLocatedStep ==
  ASSUME NEW L \in SUBSET Keys, TypeOK, CoherentOn(L), NEW r \in Requests, NotLocated(r)
  PROVE  TypeOK' /\ CoherentOn(L)' /\ DayStep
BY FreeRequest, RequestMove, SameTable DEF NotLocated

(* A request that dies leaves no trace.                                    *)
LEMMA DropStep ==
  ASSUME NEW L \in SUBSET Keys, TypeOK, CoherentOn(L), NEW r \in Requests, Drop(r)
  PROVE  TypeOK' /\ CoherentOn(L)' /\ DayStep
BY FreeRequest, RequestMove, SameTable DEF Drop

(* The second reading of the clock is no earlier than the first.           *)
LEMMA StampStep ==
  ASSUME NEW L \in SUBSET Keys, TypeOK, CoherentOn(L), NEW r \in Requests, Stamp(r)
  PROVE  TypeOK' /\ CoherentOn(L)' /\ DayStep
<1>0. PICK q : q = [pc |-> "stamped", key |-> req[r].key, shift |-> req[r].shift,
                    method |-> req[r].method, now |-> clock]
  OBVIOUS
<1>1. /\ req[r] \in ReqSet /\ req[r].pc = "guarded" /\ clock \in 0..MaxTime
      /\ ReqInv(req[r], L)
  BY DEF Stamp, TypeOK, CoherentOn
<1>2. req[r].key \in Keys /\ req[r].shift \in Shifts /\ req[r].method \in Methods
      /\ req[r].now \in 0..MaxTime
  BY <1>1, ReqTypes
<1>3. q \in ReqSet
  BY <1>0, <1>1, <1>2 DEF ReqSet
<1>4. clock >= ShiftStart(req[r].shift, req[r].key[2])
  <2>1. req[r].now <= clock /\ req[r].now >= ShiftStart(req[r].shift, req[r].key[2])
    BY <1>1 DEF ReqInv
  <2>2. ShiftStart(req[r].shift, req[r].key[2]) \in Int
    BY <1>2, KeyTypes, ShiftTypes
  <2> QED BY <1>1, <1>2, <2>1, <2>2
<1>5. ReqInv(q, L)'
  BY <1>0, <1>1, <1>4 DEF ReqInv, Stamp, Others
<1> QED BY <1>0, <1>3, <1>5, RequestMove, SameTable DEF Stamp

(* The check-in: one row, by CheckIn, and the answer it earned.            *)
LEMMA ApplyPresenceStep ==
  ASSUME NEW L \in SUBSET Keys, TypeOK, CoherentOn(L),
         NEW r \in Requests, ApplyPresence(r)
  PROVE  TypeOK' /\ CoherentOn(L)' /\ DayStep
<1>0. PICK q : q = req[r]
  OBVIOUS
<1>a. PICK a : a = IF Accepts(day[q.key])
                   THEN Finished(q.key, "checked_in")
                   ELSE Finished(q.key, "already_checked_in")
  OBVIOUS
<1> DEFINE k == q.key
           next == CheckIn(day[k], q.shift, k[2], q.method, q.now)
<1>1. /\ q \in ReqSet /\ q.pc = "stamped" /\ ReqInv(q, L)
      /\ req' = [req EXCEPT ![r] = a] /\ day' = [day EXCEPT ![k] = next]
      /\ UNCHANGED Others
  BY <1>0, <1>a DEF ApplyPresence, TypeOK, CoherentOn
<1>2. k \in Keys /\ q.shift \in Shifts /\ q.method \in Methods /\ q.now \in 0..MaxTime
  BY <1>1, ReqTypes
<1>3. q.now >= ShiftStart(q.shift, k[2]) /\ q.now \in Int
  BY <1>1, <1>2 DEF ReqInv
<1>4. day[k] \in RowSet /\ RowInv(k, day[k])
  BY <1>2 DEF TypeOK, CoherentOn
<1>5. RowStep(k, day[k], next) /\ next.check_in # NULL
  BY <1>2, <1>3, <1>4, CheckInStep
<1>6. a \in ReqSet /\ a.pc = "done" /\ a.key = k
  BY <1>a, <1>2 DEF Finished, ReqSet, Results
<1>7. day'[k] = next
  BY <1>1, <1>2 DEF TypeOK
<1>8. ReqInv(a, L)'
  BY <1>5, <1>6, <1>7 DEF ReqInv
<1> HIDE DEF next
<1>9. DayStep
  BY <1>1, <1>2, <1>5, OneRow
<1> QED BY <1>1, <1>6, <1>8, <1>9, RequestMove

(* A heartbeat starts.                                                     *)
LEMMA HeartbeatStep ==
  ASSUME NEW L \in SUBSET Keys, TypeOK, CoherentOn(L),
         NEW r \in Requests, NEW u \in Users,
         NEW ip \in BOOLEAN, NEW inside \in BOOLEAN, Heartbeat(r, u, ip, inside)
  PROVE  TypeOK' /\ CoherentOn(L)' /\ DayStep
<1>0. PICK q : q = [pc |-> "beating", key |-> <<u, LocalDate(roster[u], clock)>>,
                    now |-> clock, ip |-> ip, inside |-> inside]
  OBVIOUS
<1>1. clock \in 0..MaxTime /\ roster[u] \in Shifts
  BY DEF TypeOK
<1>2. q \in ReqSet
  BY <1>0, <1>1, KeyTypes DEF ReqSet
<1>3. ReqInv(q, L)'
  BY <1>0, <1>1 DEF ReqInv, Heartbeat, Others
<1> QED BY <1>0, <1>2, <1>3, RequestMove, SameTable DEF Heartbeat

(* A heartbeat goes on only for a checked-in day.                          *)
LEMMA HeartbeatReadStep ==
  ASSUME NEW L \in SUBSET Keys, TypeOK, CoherentOn(L),
         NEW r \in Requests, HeartbeatRead(r)
  PROVE  TypeOK' /\ CoherentOn(L)' /\ DayStep
<1> DEFINE q == req[r]
           row == day[q.key]
<1>0. PICK b : b = [pc |-> "beat", key |-> q.key, now |-> q.now,
                    upgrade |-> q.ip /\ row.method = "gps"]
  OBVIOUS
<1>1. q \in ReqSet /\ q.pc = "beating" /\ ReqInv(q, L)
  BY DEF HeartbeatRead, TypeOK, CoherentOn
<1>2. q.key \in Keys /\ q.now \in 0..MaxTime /\ q.ip \in BOOLEAN
  BY <1>1, ReqTypes
<1>3. CASE row.check_in # NULL /\ req' = [req EXCEPT ![r] = b]
  <2>1. b \in ReqSet
    BY <1>0, <1>2 DEF ReqSet
  <2>2. ReqInv(b, L)'
    BY <1>0, <1>1, <1>3 DEF ReqInv, HeartbeatRead, Others
  <2> QED BY <1>3, <2>1, <2>2, RequestMove, SameTable DEF HeartbeatRead
<1>4. CASE req' = [req EXCEPT ![r] = FreeReq]
  BY <1>4, FreeRequest, RequestMove, SameTable DEF HeartbeatRead
<1> QED BY <1>0, <1>3, <1>4 DEF HeartbeatRead

(* A heartbeat writes: the day it read is still checked in.                *)
LEMMA HeartbeatCommitStep ==
  ASSUME NEW L \in SUBSET Keys, TypeOK, CoherentOn(L),
         NEW r \in Requests, HeartbeatCommit(r),
         req[r].key \in L
  PROVE  TypeOK' /\ CoherentOn(L)' /\ DayStep
<1> DEFINE q == req[r]
           k == q.key
<1>1. q \in ReqSet /\ q.pc = "beat" /\ ReqInv(q, L)
  BY DEF HeartbeatCommit, TypeOK, CoherentOn
<1>2. k \in Keys /\ q.now \in 0..MaxTime /\ q.now \in Int /\ q.upgrade \in BOOLEAN
  BY <1>1, ReqTypes
<1>3. day[k] \in RowSet /\ RowInv(k, day[k]) /\ day[k].check_in # NULL
  BY <1>1, <1>2 DEF TypeOK, CoherentOn, ReqInv
<1>4. RowStep(k, day[k], Advance(day[k], q.now, q.upgrade))
  BY <1>2, <1>3, AdvanceStep
<1>5. DayStep
  BY <1>2, <1>4, OneRow DEF HeartbeatCommit
<1> QED BY <1>5, FreeRequest, RequestMove DEF HeartbeatCommit

(* An admin loads a day: approval is offered only with a check-in.         *)
LEMMA DecideStep ==
  ASSUME NEW L \in SUBSET Keys, TypeOK, CoherentOn(L),
         NEW r \in Requests, NEW k \in Keys,
         NEW verdict \in Verdicts, Decide(r, k, verdict)
  PROVE  TypeOK' /\ CoherentOn(L)' /\ DayStep
<1>0. PICK q : q = [pc |-> "decided", key |-> k, now |-> clock, verdict |-> verdict,
                    moved |-> day[k].status # VerdictStatus(verdict)]
  OBVIOUS
<1>1. clock \in 0..MaxTime /\ RowInv(k, day[k])
  BY DEF TypeOK, CoherentOn
<1>2. q \in ReqSet
  BY <1>0, <1>1 DEF ReqSet
<1>3. verdict = "approve" => day[k].check_in # NULL
  BY <1>1, NullAssumption DEF Decide, RowInv, Proofs
<1>4. ReqInv(q, L)'
  BY <1>0, <1>1, <1>3 DEF ReqInv, Decide, Others
<1> QED BY <1>0, <1>2, <1>4, RequestMove, SameTable DEF Decide

(* An admin's decision is written over what is there by then.              *)
LEMMA DecideCommitStep ==
  ASSUME NEW L \in SUBSET Keys, TypeOK, CoherentOn(L),
         NEW r \in Requests, DecideCommit(r),
         req[r].key \in L
  PROVE  TypeOK' /\ CoherentOn(L)' /\ DayStep
<1> DEFINE q == req[r]
           k == q.key
<1>1. q \in ReqSet /\ q.pc = "decided" /\ ReqInv(q, L)
  BY DEF DecideCommit, TypeOK, CoherentOn
<1>2. k \in Keys /\ q.verdict \in Verdicts /\ q.moved \in BOOLEAN
  BY <1>1, ReqTypes
<1>3. /\ day[k] \in RowSet /\ RowInv(k, day[k])
      /\ q.verdict = "approve" => day[k].check_in # NULL
      /\ day[k].status # "none"
  BY <1>1, <1>2 DEF TypeOK, CoherentOn, ReqInv
<1>4. RowStep(k, day[k], Decided(day[k], q.verdict, q.moved))
  BY <1>2, <1>3, DecidedStep
<1>5. DayStep
  BY <1>2, <1>4, OneRow DEF DecideCommit
<1> QED BY <1>5, FreeRequest, RequestMove DEF DecideCommit

(* A cron instant starts a job with nothing planned.                       *)
LEMMA FireStep ==
  ASSUME NEW L \in SUBSET Keys, TypeOK, CoherentOn(L),
         NEW s \in Schedulers, NEW kind \in Kinds, Fire(s, kind)
  PROVE  TypeOK' /\ CoherentOn(L)' /\ DayStep
<1> DEFINE j == <<s, kind>>
<1>1. j \in Jobs
  BY DEF Jobs
<1>2. PICK b : b = Begun
  OBVIOUS
<1>3. b \in JobSet /\ JobInv(b, L)'
  BY <1>2 DEF Begun, OffJob, JobSet, JobInv, TypeOK
<1>4. fired' \in [Schedulers -> SUBSET Kinds]
  BY DEF Fire, TypeOK
<1>5. CASE job' = [job EXCEPT ![j] = b]
  BY <1>1, <1>3, <1>4, <1>5, JobMove, SameTable DEF Fire, TypeOK
<1>6. CASE job' = job
  <2>1. clock' \in 0..MaxTime /\ clock' >= clock
    BY SystemAssumption DEF Fire, TypeOK
  <2> QED BY <1>4, <1>6, <2>1, Assemble, SameTable DEF Fire, TypeOK
<1> QED BY <1>2, <1>5, <1>6 DEF Fire

(* A missed instant changes no row.                                        *)
LEMMA MisfireStep ==
  ASSUME NEW L \in SUBSET Keys, TypeOK, CoherentOn(L),
         NEW s \in Schedulers, NEW kind \in Kinds, Misfire(s, kind)
  PROVE  TypeOK' /\ CoherentOn(L)' /\ DayStep
<1>1. /\ clock' \in 0..MaxTime /\ clock' >= clock
      /\ faults' \in 0..MaxFaults /\ fired' \in [Schedulers -> SUBSET Kinds]
  BY SystemAssumption DEF Misfire, TypeOK
<1> QED BY <1>1, Assemble, SameTable DEF Misfire, TypeOK

(* A debug run starts with nothing planned.                                *)
LEMMA DebugRunStep ==
  ASSUME NEW L \in SUBSET Keys, TypeOK, CoherentOn(L),
         NEW d \in Debuggers, NEW kind \in Kinds, DebugRun(d, kind)
  PROVE  TypeOK' /\ CoherentOn(L)' /\ DayStep
<1>1. <<d, kind>> \in Jobs
  BY DEF Jobs
<1>2. PICK b : b = Begun
  OBVIOUS
<1>3. b \in JobSet /\ JobInv(b, L)'
  BY <1>2 DEF Begun, OffJob, JobSet, JobInv, TypeOK
<1> QED BY <1>1, <1>2, <1>3, JobMove, SameTable DEF DebugRun, TypeOK

(* The idle query: only checked-in days, closed at the shift's end at last.*)
LEMMA IdleSelectStep ==
  ASSUME NEW L \in SUBSET Keys, TypeOK, CoherentOn(L), NEW j \in Jobs, IdleSelect(j)
  PROVE  TypeOK' /\ CoherentOn(L)' /\ DayStep
<1> DEFINE close(k) == [op |-> "close", key |-> k,
                        out |-> Earlier(day[k].last_seen, ShiftEnd(roster[k[1]], k[2]))]
           stale == {k \in Keys : Stale(k, job[j].now - IdleMinutes)}
<1>1. PICK plans : plans = {close(k) : k \in stale}
  OBVIOUS
<1>2. PICK b : b = [job[j] EXCEPT !.phase = "running", !.plans = plans]
  OBVIOUS
<1>3. job' = [job EXCEPT ![j] = b]
  BY <1>1, <1>2 DEF IdleSelect, TypeOK
<1>4. ASSUME NEW k \in stale
      PROVE  close(k) \in StmtSet /\ StmtInv(close(k), L)
  <2>1. k \in Keys /\ day[k].check_in # NULL
    BY <1>4 DEF Stale
  <2>2. /\ k[1] \in Users /\ k[2] \in Int /\ roster[k[1]] \in Shifts
        /\ day[k].last_seen \in Int
    BY <2>1, KeyTypes DEF TypeOK, CoherentOn, RowInv, RowSet
  <2>3. ShiftEnd(roster[k[1]], k[2]) \in Int
    BY <2>2, ShiftTypes
  <2>4. /\ close(k).out \in Int
        /\ close(k).out <= ShiftEnd(roster[k[1]], k[2])
    BY <2>2, <2>3 DEF Earlier
  <2>5. close(k) \in StmtSet
    BY <2>1, <2>4 DEF StmtSet
  <2> QED BY <2>1, <2>2, <2>4, <2>5 DEF StmtInv
<1>5. \A p \in plans : p \in StmtSet /\ StmtInv(p, L)
  BY <1>1, <1>4
<1>6. job[j] \in JobSet /\ JobInv(job[j], L)
  BY DEF TypeOK, CoherentOn
<1>7. b \in JobSet
  BY <1>2, <1>5, <1>6 DEF JobSet
<1>8. JobInv(b, L)
  BY <1>2, <1>5, <1>6 DEF JobInv, JobSet
<1>9. JobInv(b, L)'
  BY <1>8 DEF JobInv, StmtInv, IdleSelect
<1> QED BY <1>3, <1>7, <1>9, JobMove, SameTable DEF IdleSelect, TypeOK

(* The nightly query: one entry per user, with the end of its shift.       *)
LEMMA NightlySelectStep ==
  ASSUME NEW L \in SUBSET Keys, TypeOK, CoherentOn(L), NEW j \in Jobs,
         NEW E \in SUBSET Users, NightlySelectOf(j, E)
  PROVE  TypeOK' /\ CoherentOn(L)' /\ DayStep
<1> DEFINE date(u) == LocalDate(roster[u], job[j].now)
           entry(u) == [key |-> <<u, date(u)>>, end |-> ShiftEnd(roster[u], date(u)),
                        kind |-> DayKind(roster[u], date(u))]
<1>1. PICK todo : todo = {entry(u) : u \in E}
  OBVIOUS
<1>2. PICK b : b = [job[j] EXCEPT !.phase = "running", !.todo = todo]
  OBVIOUS
<1>3. job' = [job EXCEPT ![j] = b]
  BY <1>1, <1>2 DEF NightlySelectOf, TypeOK
<1>4. job[j] \in JobSet /\ JobInv(job[j], L) /\ job[j].now \in 0..MaxTime
  BY DEF TypeOK, CoherentOn, JobSet
<1>5. ASSUME NEW u \in Users
      PROVE  /\ entry(u) \in EntrySet
             /\ \E s \in Shifts : entry(u).end = ShiftEnd(s, entry(u).key[2])
  <2>1. roster[u] \in Shifts /\ job[j].now \in Int
    BY <1>4 DEF TypeOK
  <2>2. <<u, date(u)>> \in Keys /\ date(u) \in Int
    BY <1>4, <2>1, KeyTypes, ShiftTypes
  <2>3. ShiftEnd(roster[u], date(u)) \in Int
    BY <2>1, <2>2, ShiftTypes
  <2>4. DayKind(roster[u], date(u)) \in {"off", "working", "error"}
    BY DEF DayKind
  <2>5. entry(u) \in EntrySet
    BY <2>2, <2>3, <2>4 DEF EntrySet
  <2> QED BY <2>1, <2>5
<1>6. \A e \in todo : e \in EntrySet /\ \E s \in Shifts : e.end = ShiftEnd(s, e.key[2])
  BY <1>1, <1>5
<1>7. b \in JobSet
  BY <1>2, <1>4, <1>6 DEF JobSet
<1>8. JobInv(b, L)
  BY <1>2, <1>4, <1>6 DEF JobInv, JobSet
<1>9. JobInv(b, L)'
  BY <1>8 DEF JobInv, StmtInv, NightlySelectOf
<1> QED BY <1>3, <1>7, <1>9, JobMove, SameTable DEF NightlySelectOf, TypeOK

(* The nightly loop body plans a close only for a row it read as arrived.  *)
LEMMA NightlyPlanOK ==
  ASSUME NEW L \in SUBSET Keys, TypeOK, CoherentOn(L),
         NEW e \in EntrySet, NEW s \in Shifts,
         e.end = ShiftEnd(s, e.key[2])
  PROVE  \A p \in NightlyPlan(e, day[e.key]) :
           p \in StmtSet /\ StmtInv(p, L) /\ p.key = e.key
<1>1. e.key \in Keys /\ e.end \in Int
  BY DEF EntrySet
<1>2. day[e.key].check_in # NULL => day[e.key].last_seen \in Int
  BY <1>1 DEF TypeOK, CoherentOn, RowInv, RowSet
<1> DEFINE out == Earlier(day[e.key].last_seen, e.end)
           p1 == [op |-> "off", key |-> e.key, out |-> NULL]
           p2 == [op |-> "flag", key |-> e.key, out |-> NULL]
           p3 == [op |-> "close", key |-> e.key, out |-> out]
<1>3. day[e.key].check_in # NULL => out \in Int /\ out <= e.end
  BY <1>1, <1>2 DEF Earlier
<1>4. p1 \in StmtSet /\ p2 \in StmtSet /\ StmtInv(p1, L) /\ StmtInv(p2, L)
  BY <1>1 DEF StmtSet, StmtInv
<1>5. day[e.key].check_in # NULL => p3 \in StmtSet /\ StmtInv(p3, L)
  <2> HIDE DEF out
  <2> QED BY <1>1, <1>3 DEF StmtSet, StmtInv
<1> HIDE DEF out
<1> QED BY <1>4, <1>5 DEF NightlyPlan, out

(* A raise rolls back.                                                     *)
LEMMA NightlyRaiseStep ==
  ASSUME NEW L \in SUBSET Keys, TypeOK, CoherentOn(L),
         NEW j \in Jobs, NEW e \in job[j].todo, NightlyRaise(j, e)
  PROVE  TypeOK' /\ CoherentOn(L)' /\ DayStep
BY IdleJob, JobMove, SameTable DEF NightlyRaise, TypeOK

(* The nightly loop moves on to one employee.                              *)
LEMMA NightlyReadStep ==
  ASSUME NEW L \in SUBSET Keys, TypeOK, CoherentOn(L),
         NEW j \in Jobs, NEW e \in job[j].todo, NightlyRead(j, e)
  PROVE  TypeOK' /\ CoherentOn(L)' /\ DayStep
<1>1. PICK plans : plans = NightlyPlan(e, day[e.key])
  OBVIOUS
<1>2. PICK b : b = [job[j] EXCEPT !.todo = @ \ {e}, !.plans = plans]
  OBVIOUS
<1>3. job' = [job EXCEPT ![j] = b]
  BY <1>1, <1>2 DEF NightlyRead, TypeOK
<1>4. job[j] \in JobSet /\ JobInv(job[j], L) /\ e \in EntrySet
  BY DEF TypeOK, CoherentOn, JobSet
<1>5. \A p \in plans : p \in StmtSet /\ StmtInv(p, L)
  BY <1>1, <1>4, NightlyPlanOK DEF JobInv
<1>6. b \in JobSet
  BY <1>2, <1>4, <1>5 DEF JobSet
<1>7. JobInv(b, L)
  BY <1>2, <1>4, <1>5 DEF JobInv, JobSet
<1>8. JobInv(b, L)'
  BY <1>7 DEF JobInv, StmtInv, NightlyRead
<1> QED BY <1>3, <1>6, <1>8, JobMove, SameTable DEF NightlyRead, TypeOK

(* A statement moves from the plans to the held locks.                     *)
LEMMA JobWriteStep ==
  ASSUME NEW L \in SUBSET Keys, TypeOK, CoherentOn(L),
         NEW j \in Jobs, NEW p \in job[j].plans, JobWrite(j, p)
  PROVE  TypeOK' /\ CoherentOn(L)' /\ DayStep
<1>1. PICK held : held = IF Locks(day[p.key], p) THEN job[j].held \cup {p}
                                                 ELSE job[j].held
  OBVIOUS
<1>2. PICK b : b = [job[j] EXCEPT !.plans = @ \ {p}, !.held = held]
  OBVIOUS
<1>3. job' = [job EXCEPT ![j] = b]
  BY <1>1, <1>2 DEF JobWrite, TypeOK
<1>4. job[j] \in JobSet /\ JobInv(job[j], L)
  BY DEF TypeOK, CoherentOn
<1>5. b \in JobSet
  BY <1>1, <1>2, <1>4 DEF JobSet
<1>6. JobInv(b, L)
  BY <1>1, <1>2, <1>4 DEF JobInv, JobSet
<1>7. JobInv(b, L)'
  BY <1>6 DEF JobInv, StmtInv, JobWrite
<1> QED BY <1>3, <1>5, <1>7, JobMove, SameTable DEF JobWrite, TypeOK

(* The one step that may write many rows.                                  *)
LEMMA JobCommitStep ==
  ASSUME NEW L \in SUBSET Keys, TypeOK, CoherentOn(L), NEW j \in Jobs, JobCommit(j),
         \A p \in job[j].held : p.key \in L
  PROVE  TypeOK' /\ CoherentOn(L)' /\ DayStep
<1> DEFINE held == job[j].held
           written(k) == {p \in held : p.key = k}
           pick(k) == CHOOSE p \in written(k) : TRUE
<1>1. job[j] \in JobSet /\ JobInv(job[j], L)
  BY DEF TypeOK, CoherentOn
<1>2. ASSUME NEW k \in Keys, written(k) # {}
      PROVE  RowStep(k, day[k], Run(day[k], pick(k)))
  <2>1. pick(k) \in held /\ pick(k).key = k
    BY <1>2
  <2>2. pick(k) \in StmtSet /\ StmtInv(pick(k), L)
    BY <1>1, <2>1 DEF JobSet, JobInv
  <2>3. day[k] \in RowSet /\ RowInv(k, day[k])
    BY DEF TypeOK, CoherentOn
  <2> HIDE DEF pick
  <2> QED BY <2>1, <2>2, <2>3, RunStep DEF StmtInv
<1>3. \A k \in Keys : day'[k] = IF written(k) = {} THEN day[k]
                                                   ELSE Run(day[k], pick(k))
  BY DEF JobCommit
<1>4. DayStep
  <2>1. \A k \in Keys : day'[k] = day[k] \/ RowStep(k, day[k], day'[k])
    <3> HIDE DEF written, pick
    <3> QED BY <1>2, <1>3
  <2>2. \A k \in Keys : day'[k] \in RowSet
    BY <2>1 DEF RowStep, TypeOK
  <2>3. day' = [k \in Keys |-> day'[k]]
    BY DEF JobCommit
  <2> QED BY <2>1, <2>2, <2>3 DEF DayStep
<1>5. reports' \in [Keys -> Nat]
  BY DEF JobCommit, TypeOK
<1> QED BY <1>4, <1>5, IdleJob, JobMove DEF JobCommit, TypeOK

(* A transaction that ends without a commit leaves no trace.               *)
LEMMA DeadlockAbortStep ==
  ASSUME NEW L \in SUBSET Keys, TypeOK, CoherentOn(L), NEW j \in Jobs, DeadlockAbort(j)
  PROVE  TypeOK' /\ CoherentOn(L)' /\ DayStep
BY IdleJob, JobMove, SameTable DEF DeadlockAbort, TypeOK

(* A job that raises is rolled back.                                       *)
LEMMA JobFailStep ==
  ASSUME NEW L \in SUBSET Keys, TypeOK, CoherentOn(L), NEW j \in Jobs, JobFail(j)
  PROVE  TypeOK' /\ CoherentOn(L)' /\ DayStep
<1>1. faults' \in 0..MaxFaults
  BY SystemAssumption DEF JobFail, TypeOK
<1> QED BY <1>1, IdleJob, JobMove, SameTable DEF JobFail, TypeOK

(* A dead scheduler's transactions are rolled back.                        *)
LEMMA CrashStep ==
  ASSUME NEW L \in SUBSET Keys, TypeOK, CoherentOn(L), NEW s \in Schedulers, Crash(s)
  PROVE  TypeOK' /\ CoherentOn(L)' /\ DayStep
<1>1. clock' \in 0..MaxTime /\ clock' >= clock /\ faults' \in 0..MaxFaults
  BY SystemAssumption DEF Crash, TypeOK
<1>2. /\ job' \in [Jobs -> JobSet]
      /\ \A j \in Jobs : job'[j] = job[j] \/ JobInv(job[j], L)'
  <2>1. \A j \in Jobs : job'[j] = job[j] \/ job'[j] = OffJob
    BY DEF Crash
  <2>2. job' = [j \in Jobs |-> job'[j]]
    BY DEF Crash
  <2>3. \A j \in Jobs : job'[j] = OffJob => JobInv(job[j], L)'
    BY DEF JobInv, OffJob
  <2> QED BY <2>1, <2>2, <2>3, IdleJob DEF TypeOK
<1> QED BY <1>1, <1>2, Assemble, SameTable DEF Crash, TypeOK

(* A restarted scheduler holds nothing.                                    *)
LEMMA RestartStep ==
  ASSUME NEW L \in SUBSET Keys, TypeOK, CoherentOn(L), NEW s \in Schedulers, Restart(s)
  PROVE  TypeOK' /\ CoherentOn(L)' /\ DayStep
<1>1. /\ clock' \in 0..MaxTime /\ clock' >= clock
      /\ up' \subseteq Schedulers /\ fired' \in [Schedulers -> SUBSET Kinds]
  BY SystemAssumption DEF Restart, TypeOK
<1> QED BY <1>1, Assemble, SameTable DEF Restart, TypeOK

-----------------------------------------------------------------------------
(* The theorems.                                                           *)

(* Every step of the system keeps the inductive invariant, and moves each  *)
(* row by one write at most.                                               *)
LEMMA NextStep ==
  ASSUME TypeOK, Coherent, [Next]_vars
  PROVE  TypeOK' /\ Coherent' /\ DayStep
<1> SUFFICES ASSUME CoherentOn(Keys)
             PROVE  TypeOK' /\ CoherentOn(Keys)' /\ DayStep
  BY DEF Coherent
<1>1. CASE UNCHANGED vars
  <2>1. clock' \in 0..MaxTime /\ clock' >= clock
    BY <1>1, SystemAssumption DEF vars, TypeOK
  <2> QED BY <1>1, <2>1, Assemble, SameTable DEF vars, TypeOK
<1>2. CASE Tick
  BY <1>2, TickStep
<1>3. ASSUME NEW u \in Users, EditRoster(u)
      PROVE  TypeOK' /\ CoherentOn(Keys)' /\ DayStep
  BY <1>3, EditRosterStep
<1>4. ASSUME NEW r \in Requests, RequestNext(r)
      PROVE  TypeOK' /\ CoherentOn(Keys)' /\ DayStep
  <2>1. ASSUME NEW u \in Users, NEW m \in Methods, Attempt(r, u, m)
        PROVE  TypeOK' /\ CoherentOn(Keys)' /\ DayStep
    BY <2>1, AttemptStep
  <2>2. ASSUME NEW u \in Users, NEW ip \in BOOLEAN, NEW inside \in BOOLEAN,
               Heartbeat(r, u, ip, inside)
        PROVE  TypeOK' /\ CoherentOn(Keys)' /\ DayStep
    BY <2>2, HeartbeatStep
  <2>3. ASSUME NEW k \in Keys, NEW v \in Verdicts, Decide(r, k, v)
        PROVE  TypeOK' /\ CoherentOn(Keys)' /\ DayStep
    BY <2>3, DecideStep
  <2>4. CASE RequestStep(r)
    <3>1. req[r].pc # "free" => req[r].key \in Keys
      BY ReqTypes DEF TypeOK
    <3> QED
      BY <3>1, <2>4, StampStep, ApplyPresenceStep, HeartbeatReadStep, HeartbeatCommitStep,
       DecideCommitStep
         DEF RequestStep, HeartbeatCommit, DecideCommit
  <2>5. CASE NotLocated(r) \/ Drop(r)
    BY <2>5, NotLocatedStep, DropStep
  <2> QED BY <1>4, <2>1, <2>2, <2>3, <2>4, <2>5 DEF RequestNext
<1>5. ASSUME NEW s \in Schedulers, SchedulerNext(s)
      PROVE  TypeOK' /\ CoherentOn(Keys)' /\ DayStep
  BY <1>5, FireStep, MisfireStep, CrashStep, RestartStep DEF SchedulerNext
<1>6. ASSUME NEW d \in Debuggers, NEW kind \in Kinds, DebugRun(d, kind)
      PROVE  TypeOK' /\ CoherentOn(Keys)' /\ DayStep
  BY <1>6, DebugRunStep
<1>7. ASSUME NEW j \in Jobs, JobStep(j) \/ JobFail(j)
      PROVE  TypeOK' /\ CoherentOn(Keys)' /\ DayStep
  <2>1. ASSUME NEW e \in job[j].todo, NightlyRead(j, e)
        PROVE  TypeOK' /\ CoherentOn(Keys)' /\ DayStep
    BY <2>1, NightlyReadStep
  <2>2. ASSUME NEW p \in job[j].plans, JobWrite(j, p)
        PROVE  TypeOK' /\ CoherentOn(Keys)' /\ DayStep
    BY <2>2, JobWriteStep
  <2>3. ASSUME NEW e \in job[j].todo, NightlyRaise(j, e)
        PROVE  TypeOK' /\ CoherentOn(Keys)' /\ DayStep
    BY <2>3, NightlyRaiseStep
  <2>4. CASE JobCommit(j)
    <3>1. \A p \in job[j].held : p.key \in Keys
      BY DEF TypeOK, JobSet, StmtSet
    <3> QED BY <2>4, <3>1, JobCommitStep
  <2>5. CASE NightlySelect(j)
    BY <2>5, NightlySelectStep DEF NightlySelect
  <2> QED BY <1>7, <2>1, <2>2, <2>3, <2>4, <2>5, IdleSelectStep, DeadlockAbortStep,
             JobFailStep DEF JobStep
<1> QED BY <1>1, <1>2, <1>3, <1>4, <1>5, <1>6, <1>7 DEF Next

(* The invariant, and that every step moves rows by single writes.         *)
LEMMA Invariance == Spec => [](TypeOK /\ Coherent) /\ [][DayStep]_vars
<1>1. Init => TypeOK /\ Coherent
  BY InitCoherent DEF Coherent
<1>2. TypeOK /\ Coherent /\ [Next]_vars => (TypeOK /\ Coherent)'
  BY NextStep
<1>3. TypeOK /\ Coherent /\ [Next]_vars => [DayStep]_vars
  BY NextStep
<1> QED BY <1>1, <1>2, <1>3, PTL DEF Spec

(* Every variable keeps its type: no handler or job writes a value the     *)
(* columns of the tables do not have.                                      *)
THEOREM TypeCorrect == Spec => []TypeOK
BY Invariance, PTL

(* However many requests and jobs race, a day that no human decided is     *)
(* present or late exactly when it has a check-in.                         *)
THEOREM EvidenceCorrect == Spec => []StatusHasEvidence
<1>1. Coherent => StatusHasEvidence
  BY DEF Coherent, CoherentOn, RowInv, StatusHasEvidence
<1> QED BY <1>1, Invariance, PTL

(* Only an admin turns a GPS day into a verified one.                      *)
THEOREM VerificationCorrect == Spec => []VerificationJustified
<1>1. Coherent => VerificationJustified
  BY DEF Coherent, CoherentOn, RowInv, VerificationJustified
<1> QED BY <1>1, Invariance, PTL

(* Idle close-out and the nightly run, racing with edits of the roster,    *)
(* never close a day past the end of its shift, or one nobody came to.     *)
THEOREM ClosedCorrect == Spec => []ClosedWithinShift
<1>1. Coherent => ClosedWithinShift
  BY DEF Coherent, CoherentOn, RowInv, ClosedWithinShift
<1> QED BY <1>1, Invariance, PTL

(* An arrival is classified by the instant it records, for every shift,    *)
(* grace and time zone.                                                    *)
THEOREM LatenessCorrect == Spec => []LatenessRecorded
<1>1. Coherent => LatenessRecorded
  BY DEF Coherent, CoherentOn, RowInv, LatenessRecorded
<1> QED BY <1>1, Invariance, PTL

(* Attendance implements DayLifecycle: a user arrives once and leaves once,*)
(* after arriving, and a proof is never withdrawn.                         *)
THEOREM LifecycleImplemented == Spec => ArriveOnceLeaveOnce
<1>1. Init => DL!Init
  BY DEF Init, DL!Init, DL!NoEntry, Entry, NoRow
<1>2. TypeOK /\ [DayStep]_vars => [DL!Next]_([k \in Keys |-> Entry(day[k])])
  <2> SUFFICES ASSUME TypeOK, [DayStep]_vars
               PROVE  [DL!Next]_([k \in Keys |-> Entry(day[k])])
    OBVIOUS
  <2>1. CASE UNCHANGED vars
    BY <2>1 DEF vars, Entry
  <2>2. CASE DayStep
    <3>1. \A k \in Keys : \/ Entry(day'[k]) = Entry(day[k])
                          \/ DL!EntryStep(Entry(day[k]), Entry(day'[k]))
      BY <2>2 DEF DayStep, RowStep
    <3> QED BY <3>1 DEF DL!Next, Entry
  <2> QED BY <2>1, <2>2
<1>3. DL!Spec <=> DL!Init /\ [][DL!Next]_([k \in Keys |-> Entry(day[k])])
  BY DEF DL!Spec
<1> QED BY <1>1, <1>2, <1>3, Invariance, PTL DEF Spec, ArriveOnceLeaveOnce
=============================================================================
