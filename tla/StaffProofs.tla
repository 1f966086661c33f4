---------------------------- MODULE StaffProofs ----------------------------
(* What holds of the days while employees are approved, disabled, enabled  *)
(* and deleted, for any number of employees, requests and jobs: nobody     *)
(* writes a row of somebody deleted, and the rows of the others keep all   *)
(* that Attendance promises of them.                                       *)
EXTENDS Staff, JobProofs, RequestProofs

-----------------------------------------------------------------------------
(* The rows of somebody deleted.                                           *)

(* All that has to be known of the values: which fields and rows there are.*)
IsJob(q) == "held" \in DOMAIN q

Shaped ==
  /\ day = [k \in Keys |-> day[k]]
  /\ staff = [u \in Users |-> staff[u]]
  /\ job = [j \in Jobs |-> job[j]]
  /\ \A j \in Jobs : IsJob(job[j])

(* No transaction holds a statement on a row of somebody gone.             *)
Released == \A k \in Keys : Gone(k) => ~Locked(k)

Inv == Shaped /\ Released /\ NothingOfTheGone

LEMMA KeysOfUsers == \A k \in Keys : k[1] \in Users
BY DEF Keys

LEMMA OffJobShape == IsJob(OffJob) /\ OffJob.held = {}
BY DEF OffJob, IsJob

(* A job that reads, or ends without a commit, holds nothing more, and one *)
(* that writes nothing of somebody gone.                                   *)
LEMMA JobChange ==
  ASSUME Inv, job' = [j \in Jobs |-> job'[j]], UNCHANGED <<day, staff>>,
         \A j \in Jobs : /\ IsJob(job'[j])
                         /\ \A p \in job'[j].held : p \in job[j].held \/ ~Gone(p.key)
  PROVE  Inv'
<1>1. Shaped'
  BY DEF Inv, Shaped, IsJob
<1>2. Released'
  BY DEF Inv, Released, Locked, Gone
<1>3. NothingOfTheGone'
  BY DEF Inv, NothingOfTheGone, Gone
<1> QED
  BY <1>1, <1>2, <1>3 DEF Inv

LEMMA OneJobChange ==
  ASSUME Inv, NEW j \in Jobs, NEW q, job' = [job EXCEPT ![j] = q],
         IsJob(q), \A p \in q.held : p \in job[j].held \/ ~Gone(p.key),
         UNCHANGED <<day, staff>>
  PROVE  Inv'
<1>1. job' = [i \in Jobs |-> job'[i]] /\ \A i \in Jobs : job'[i] = IF i = j THEN q ELSE job[i]
  BY DEF Inv, Shaped
<1> QED
  BY <1>1, JobChange DEF Inv, Shaped

LEMMA JobEnds ==
  ASSUME Inv, NEW j \in Jobs, job' = [job EXCEPT ![j] = OffJob],
         UNCHANGED <<day, staff>>
  PROVE  Inv'
BY OneJobChange, OffJobShape

LEMMA PlansEdited ==
  ASSUME NEW q, IsJob(q), NEW x
  PROVE  IsJob([q EXCEPT !.plans = x]) /\ [q EXCEPT !.plans = x].held = q.held
BY DEF IsJob

(* A request writes one row, of somebody who is not gone.                  *)
LEMMA RowChange ==
  ASSUME Inv, NEW k, NEW row, ~Gone(k), day' = [day EXCEPT ![k] = row],
         UNCHANGED <<job, staff>>
  PROVE  Inv'
<1>1. \A l \in Keys : Gone(l) => day'[l] = day[l]
  BY DEF Inv, Shaped
<1>2. Shaped'
  BY DEF Inv, Shaped
<1>3. Released' /\ NothingOfTheGone'
  BY <1>1 DEF Inv, Released, NothingOfTheGone, Locked, Gone
<1> QED
  BY <1>2, <1>3 DEF Inv

LEMMA NoChange ==
  ASSUME Inv, UNCHANGED <<day, job, staff>>
  PROVE  Inv'
BY DEF Inv, Shaped, Released, NothingOfTheGone, Locked, Gone

-----------------------------------------------------------------------------
LEMMA AccountStep ==
  ASSUME Inv, NEW u \in Users, Admit(u) \/ Disable(u) \/ DeleteUser(u)
  PROVE  Inv'
<1>1. CASE Admit(u) \/ Disable(u)
  <2>1. /\ day' = day /\ job' = job
        /\ \E s \in {"active", "inactive"} : staff' = [staff EXCEPT ![u] = s]
    BY <1>1 DEF Admit, Disable, vars
  <2>2. \A k \in Keys : Gone(k)' => Gone(k)
    BY <2>1, KeysOfUsers DEF Inv, Shaped, Gone
  <2> QED
    BY <2>1, <2>2 DEF Inv, Shaped, Released, NothingOfTheGone, Locked
<1>2. CASE DeleteUser(u)
  <2>1. /\ staff' = [staff EXCEPT ![u] = "gone"] /\ job' = job
        /\ day' = [k \in Keys |-> IF k[1] = u THEN NoRow ELSE day[k]]
        /\ \A k \in Keys : k[1] = u => ~Locked(k)
    BY <1>2 DEF DeleteUser
  <2>2. \A k \in Keys : Gone(k)' => k[1] = u \/ Gone(k)
    BY <2>1, KeysOfUsers DEF Inv, Shaped, Gone
  <2>3. Shaped'
    BY <2>1 DEF Inv, Shaped
  <2>4. Released'
    BY <2>1, <2>2 DEF Inv, Released, Locked
  <2>5. NothingOfTheGone'
    BY <2>1, <2>2 DEF Inv, NothingOfTheGone
  <2> QED
    BY <2>3, <2>4, <2>5 DEF Inv
<1> QED
  BY <1>1, <1>2

LEMMA BeginStep ==
  ASSUME Inv, NEW r \in Requests, Begin(r)
  PROVE  Inv'
<1>1. ASSUME NEW u \in ActiveStaff, NEW m \in Methods, Attempt(r, u, m), staff' = staff
      PROVE  Inv'
  <2>1. job' = job /\ ~Gone(<<u, LocalDate(roster[u], clock)>>)
    BY <1>1 DEF Attempt, Others, ActiveStaff, Gone
  <2>2. \/ day' = day
        \/ \E row : day' = [day EXCEPT ![<<u, LocalDate(roster[u], clock)>>] = row]
    BY <1>1 DEF Attempt
  <2> QED
    BY <1>1, <2>1, <2>2, NoChange, RowChange
<1>2. ASSUME NEW u \in Users, NEW ip \in BOOLEAN, NEW inside \in BOOLEAN,
             Heartbeat(r, u, ip, inside), staff' = staff
      PROVE  Inv'
  BY <1>2, NoChange DEF Heartbeat, Others
<1>3. ASSUME NEW k \in Keys, NEW v \in Verdicts, Decide(r, k, v), staff' = staff
      PROVE  Inv'
  BY <1>3, NoChange DEF Decide, Others
<1> QED
  BY <1>1, <1>2, <1>3 DEF Begin, ActiveStaff

LEMMA ProceedStep ==
  ASSUME Inv, NEW r \in Requests, Proceed(r)
  PROVE  Inv'
<1>1. staff' = staff
  BY DEF Proceed
<1>2. CASE Gone(req[r].key)
  BY <1>1, <1>2, NoChange DEF Proceed, Drop, Others
<1>3. CASE ~Gone(req[r].key)
  <2>1. RequestStep(r)
    BY <1>3 DEF Proceed
  <2>2. CASE Stamp(r) \/ HeartbeatRead(r)
    BY <1>1, <2>2, NoChange DEF Stamp, HeartbeatRead, Others
  <2>3. CASE ApplyPresence(r) \/ HeartbeatCommit(r) \/ DecideCommit(r)
    <3>1. job' = job /\ \E row : day' = [day EXCEPT ![req[r].key] = row]
      BY <2>3 DEF ApplyPresence, HeartbeatCommit, DecideCommit, Others
    <3> QED
      BY <1>1, <1>3, <3>1, RowChange
  <2> QED
    BY <2>1, <2>2, <2>3 DEF RequestStep
<1> QED
  BY <1>2, <1>3

LEMMA WriteStep ==
  ASSUME Inv, NEW j \in Jobs, NEW p \in job[j].plans, Write(j, p)
  PROVE  Inv'
<1>0. PICK q : q = job[j]
  OBVIOUS
<1>1. IsJob(q) /\ UNCHANGED <<day, staff>>
  BY <1>0 DEF Inv, Shaped, Write, JobWrite
<1>2. CASE Gone(p.key) /\ p.op # "close"
  <2>1. job' = [job EXCEPT ![j] = OffJob]
    BY <1>2 DEF Write
  <2> QED
    BY <1>1, <2>1, JobEnds
<1>3. CASE Gone(p.key) /\ p.op = "close"
  <2>1. job' = [job EXCEPT ![j] = [q EXCEPT !.plans = q.plans \ {p}]]
    BY <1>0, <1>3 DEF Write, Inv, Shaped
  <2> QED
    BY <1>0, <1>1, <2>1, OneJobChange, PlansEdited
<1>4. CASE ~Gone(p.key)
  <2> DEFINE plans == q.plans \ {p}
             held == IF Locks(day[p.key], p) THEN q.held \cup {p} ELSE q.held
  <2>1. job' = [job EXCEPT ![j].plans = plans, ![j].held = held]
    BY <1>0, <1>4 DEF Write, JobWrite
  <2>2. PICK new : new = [q EXCEPT !.plans = plans, !.held = held]
    OBVIOUS
  <2>5. job' = [job EXCEPT ![j] = new]
    BY <1>0, <2>1, <2>2 DEF Inv, Shaped
  <2>3. \A h \in held : h \in q.held \/ h = p
    OBVIOUS
  <2> HIDE DEF plans, held
  <2>4. IsJob(new) /\ new.held = held
    BY <1>1, <2>2 DEF IsJob
  <2> QED
    BY <1>0, <1>1, <1>4, <2>3, <2>4, <2>5, OneJobChange
<1> QED
  BY <1>2, <1>3, <1>4

LEMMA CommitSparesTheGone ==
  ASSUME Inv, NEW j \in Jobs, JobCommit(j), staff' = staff
  PROVE  Inv'
<1>1. job' = [job EXCEPT ![j] = OffJob] /\ day' = [k \in Keys |-> day'[k]]
  BY DEF JobCommit
<1>2. ASSUME NEW k \in Keys, Gone(k)
      PROVE  day'[k] = day[k]
  <2>1. {p \in job[j].held : p.key = k} = {}
    BY <1>2 DEF Inv, Released, Locked
  <2> QED
    BY <2>1 DEF JobCommit
<1>3. \A i \in Jobs : job'[i] = IF i = j THEN OffJob ELSE job[i]
  BY <1>1 DEF Inv, Shaped
<1>4. Shaped'
  BY <1>1, <1>3, OffJobShape DEF Inv, Shaped, IsJob
<1>5. Released'
  BY <1>3, OffJobShape DEF Inv, Released, Locked, Gone
<1>6. NothingOfTheGone'
  BY <1>2 DEF Inv, NothingOfTheGone, Gone
<1> QED
  BY <1>4, <1>5, <1>6 DEF Inv

(* The other steps of a job assign fields that hold no lock, or end it.    *)
LEMMA JobReadStep ==
  ASSUME Inv, NEW j \in Jobs, staff' = staff,
         \/ IdleSelect(j) \/ NightlySelectOf(j, ActiveStaff)
         \/ \E e \in job[j].todo : NightlyRead(j, e)
  PROVE  Inv'
<1>0. PICK q : q = job[j]
  OBVIOUS
<1>1. IsJob(q)
  BY <1>0 DEF Inv, Shaped
<1>2. PICK new : job' = [job EXCEPT ![j] = new] /\ IsJob(new) /\ new.held = q.held
  <2>1. CASE IdleSelect(j)
    <3>1. PICK x, y : job' = [job EXCEPT ![j].phase = x, ![j].plans = y]
      BY <2>1 DEF IdleSelect
    <3>2. PICK b : b = [q EXCEPT !.phase = x, !.plans = y]
      OBVIOUS
    <3>3. job' = [job EXCEPT ![j] = b]
      BY <1>0, <3>1, <3>2 DEF Inv, Shaped
    <3>4. IsJob(b) /\ b.held = q.held
      BY <1>1, <3>2 DEF IsJob
    <3> QED
      BY <3>3, <3>4
  <2>2. CASE NightlySelectOf(j, ActiveStaff)
    <3>1. PICK x, y : job' = [job EXCEPT ![j].phase = x, ![j].todo = y]
      BY <2>2 DEF NightlySelectOf
    <3>2. PICK b : b = [q EXCEPT !.phase = x, !.todo = y]
      OBVIOUS
    <3>3. job' = [job EXCEPT ![j] = b]
      BY <1>0, <3>1, <3>2 DEF Inv, Shaped
    <3>4. IsJob(b) /\ b.held = q.held
      BY <1>1, <3>2 DEF IsJob
    <3> QED
      BY <3>3, <3>4
  <2>3. ASSUME NEW e \in job[j].todo, NightlyRead(j, e)
        PROVE  \E new : job' = [job EXCEPT ![j] = new] /\ IsJob(new)
                        /\ new.held = q.held
    <3>1. PICK x, y : job' = [job EXCEPT ![j].todo = x, ![j].plans = y]
      BY <2>3 DEF NightlyRead
    <3>2. PICK b : b = [q EXCEPT !.todo = x, !.plans = y]
      OBVIOUS
    <3>3. job' = [job EXCEPT ![j] = b]
      BY <1>0, <3>1, <3>2 DEF Inv, Shaped
    <3>4. IsJob(b) /\ b.held = q.held
      BY <1>1, <3>2 DEF IsJob
    <3> QED
      BY <3>3, <3>4
  <2> QED
    BY <2>1, <2>2, <2>3
<1>3. UNCHANGED <<day, staff>>
  BY DEF IdleSelect, NightlySelectOf, NightlyRead
<1> QED
  BY <1>0, <1>2, <1>3, OneJobChange

LEMMA StaffJobStepInv ==
  ASSUME Inv, NEW j \in Jobs, StaffJobStep(j)
  PROVE  Inv'
<1>1. CASE /\ \/ IdleSelect(j) \/ NightlySelectOf(j, ActiveStaff)
              \/ \E e \in job[j].todo : NightlyRead(j, e)
           /\ staff' = staff
  BY <1>1, JobReadStep
<1>2. ASSUME NEW e \in job[j].todo, NightlyRaise(j, e), staff' = staff
      PROVE  Inv'
  BY <1>2, JobEnds DEF NightlyRaise
<1>3. CASE JobCommit(j) /\ staff' = staff
  BY <1>3, CommitSparesTheGone
<1>4. CASE DeadlockAbort(j) /\ staff' = staff
  BY <1>4, JobEnds DEF DeadlockAbort
<1>5. CASE \E p \in job[j].plans : Write(j, p)
  BY <1>5, WriteStep
<1> QED
  BY <1>1, <1>2, <1>3, <1>4, <1>5 DEF StaffJobStep

LEMMA SchedulerStep ==
  ASSUME Inv, NEW s \in Schedulers, SchedulerNext(s), staff' = staff
  PROVE  Inv'
<1>1. ASSUME NEW kind \in Kinds, Fire(s, kind)
      PROVE  Inv'
  <2>1. IsJob(Begun) /\ Begun.held = {}
    BY DEF Begun, OffJob, IsJob
  <2>2. <<s, kind>> \in Jobs
    BY DEF Jobs
  <2>3. job' = [job EXCEPT ![<<s, kind>>] = Begun] \/ job' = job
    BY <1>1 DEF Fire
  <2>4. UNCHANGED <<day, staff>>
    BY <1>1 DEF Fire
  <2> QED
    BY <2>1, <2>2, <2>3, <2>4, OneJobChange, NoChange
<1>2. ASSUME NEW kind \in Kinds, Misfire(s, kind)
      PROVE  Inv'
  BY <1>2, NoChange DEF Misfire
<1>3. CASE Crash(s)
  <2>1. /\ job' = [j \in Jobs |-> IF j[1] = s THEN OffJob ELSE job[j]]
        /\ UNCHANGED <<day, staff>>
    BY <1>3 DEF Crash
  <2>2. job' = [j \in Jobs |-> job'[j]]
    BY <2>1
  <2>3. \A j \in Jobs : job'[j] \in {job[j], OffJob}
    BY <2>1
  <2>4. \A j \in Jobs : IsJob(job'[j]) /\ \A p \in job'[j].held : p \in job[j].held
    BY <2>3, OffJobShape DEF Inv, Shaped
  <2> QED
    BY <2>1, <2>2, <2>4, JobChange
<1>4. CASE Restart(s)
  BY <1>4, NoChange DEF Restart
<1> QED
  BY <1>1, <1>2, <1>3, <1>4 DEF SchedulerNext

LEMMA StaffStep ==
  ASSUME Inv, [StaffNext]_staffVars
  PROVE  Inv'
<1>1. CASE UNCHANGED staffVars
  BY <1>1, NoChange DEF staffVars, vars
<1>2. CASE \E u \in Users : Admit(u) \/ Disable(u) \/ DeleteUser(u)
  BY <1>2, AccountStep
<1>3. CASE \E r \in Requests : Begin(r) \/ Proceed(r)
  BY <1>3, BeginStep, ProceedStep
<1>4. CASE \E j \in Jobs : StaffJobStep(j)
  BY <1>4, StaffJobStepInv
<1>5. CASE Tick /\ staff' = staff
  BY <1>5, NoChange DEF Tick
<1>6. CASE (\E u \in Users : EditRoster(u)) /\ staff' = staff
  BY <1>6, NoChange DEF EditRoster
<1>7. CASE (\E r \in Requests : NotLocated(r) \/ Drop(r)) /\ staff' = staff
  BY <1>7, NoChange DEF NotLocated, Drop, Others
<1>8. CASE (\E s \in Schedulers : SchedulerNext(s)) /\ staff' = staff
  BY <1>8, SchedulerStep
<1>9. ASSUME NEW d \in Debuggers, NEW kind \in Kinds, DebugRun(d, kind), staff' = staff
      PROVE  Inv'
  <2>1. IsJob(Begun) /\ Begun.held = {}
    BY DEF Begun, OffJob, IsJob
  <2>2. <<d, kind>> \in Jobs
    BY DEF Jobs
  <2> QED
    BY <1>9, <2>1, <2>2, OneJobChange DEF DebugRun
<1>10. ASSUME NEW j \in Jobs, JobFail(j), staff' = staff
       PROVE  Inv'
  BY <1>10, JobEnds DEF JobFail
<1> QED
  BY <1>1, <1>2, <1>3, <1>4, <1>5, <1>6, <1>7, <1>8, <1>9, <1>10 DEF StaffNext

LEMMA StaffInitInv == StaffInit => Inv
<1> SUFFICES ASSUME StaffInit PROVE Inv
  OBVIOUS
<1>1. Shaped
  BY OffJobShape DEF StaffInit, Init, Shaped
<1>2. \A k \in Keys : ~Gone(k)
  BY KeysOfUsers DEF StaffInit, Gone
<1> QED
  BY <1>1, <1>2 DEF Inv, Released, NothingOfTheGone

(* A deleted employee leaves no attendance row, whatever request or job had*)
(* read the employee before (admin.py:170 and the cascade of models.py).   *)
THEOREM GoneCorrect == StaffSpec => []NothingOfTheGone
<1>1. Inv /\ [StaffNext]_staffVars => Inv'
  BY StaffStep
<1>2. Inv => NothingOfTheGone
  BY DEF Inv
<1> QED
  BY StaffInitInv, <1>1, <1>2, PTL DEF StaffSpec

-----------------------------------------------------------------------------
(* The rows of everybody else.  A request or a job that read a user who is *)
(* deleted meanwhile knows nothing any more, but Inv says that it can write*)
(* nothing either: CoherentOn(Alive) asks no more of it.                   *)

StaffInv == StaffTypeOK /\ CoherentOn(Alive)

(* A row moves by one write, or goes with its user.                        *)
DayStepOrGone ==
  \A k \in Keys : \/ day'[k] = day[k]
                  \/ RowStep(k, day[k], day'[k])
                  \/ Gone(k)'

(* Any step that Attendance's lemmas cover, while nobody comes or goes.    *)
LEMMA SameStaff ==
  ASSUME StaffInv, NEW L, L = Alive, TypeOK', CoherentOn(L)', DayStep,
         UNCHANGED staff
  PROVE  StaffInv' /\ DayStepOrGone
<1>1. StaffTypeOK'
  BY DEF StaffInv, StaffTypeOK
<1>2. CoherentOn(Alive)'
  BY DEF CoherentOn, ReqInv, JobInv, StmtInv, Alive, Gone
<1>3. DayStepOrGone
  BY DEF DayStep, DayStepOrGone
<1> QED
  BY <1>1, <1>2, <1>3 DEF StaffInv

(* Accounts: with a user go its rows, and what others know of them.        *)
LEMMA AccountKeeps ==
  ASSUME StaffInv, NEW u \in Users, Admit(u) \/ Disable(u) \/ DeleteUser(u)
  PROVE  StaffInv' /\ DayStepOrGone
<1>1. /\ UNCHANGED <<clock, roster, req, job, up, fired, faults, reports>>
      /\ staff' \in [Users -> {"active", "inactive", "gone"}]
      /\ \A k \in Keys : Gone(k) => Gone(k)'
  BY KeyTypes DEF Admit, Disable, DeleteUser, StaffInv, StaffTypeOK, vars, Gone
<1>2. /\ day' \in [Keys -> RowSet]
      /\ \A k \in Keys : RowInv(k, day'[k])
      /\ \A k \in Keys : day'[k] = day[k] \/ Gone(k)'
  <2>1. \A k \in Keys : day[k] \in RowSet /\ RowInv(k, day[k])
    BY DEF StaffInv, StaffTypeOK, TypeOK, CoherentOn
  <2>2. NoRow \in RowSet /\ \A k \in Keys : RowInv(k, NoRow)
    BY NoRowFits
  <2>3. CASE day' = day
    BY <2>1, <2>3 DEF StaffInv, StaffTypeOK, TypeOK
  <2>4. CASE DeleteUser(u)
    <3>1. day' = [k \in Keys |-> IF k[1] = u THEN NoRow ELSE day[k]]
      BY <2>4 DEF DeleteUser
    <3>2. staff'[u] = "gone"
      BY <2>4 DEF DeleteUser, StaffInv, StaffTypeOK
    <3> QED
      BY <2>1, <2>2, <3>1, <3>2 DEF Gone
  <2> QED
    BY <2>3, <2>4 DEF Admit, Disable, vars
<1>3. StaffTypeOK'
  BY <1>1, <1>2 DEF StaffInv, StaffTypeOK, TypeOK
<1>4. \A k \in Alive' : k \in Alive /\ day'[k] = day[k]
  BY <1>1, <1>2 DEF Alive
<1>5. \A r \in Requests : ReqInv(req[r], Alive)'
  BY <1>1, <1>4 DEF StaffInv, CoherentOn, ReqInv
<1>6. \A j \in Jobs : JobInv(job[j], Alive)'
  BY <1>1, <1>4 DEF StaffInv, CoherentOn, JobInv, StmtInv
<1>7. \A k \in Keys : RowInv(k, day[k])'
  BY <1>2 DEF RowInv, HasEvidence, Justified, ClosedInShift, LateAsArrived
<1>8. CoherentOn(Alive)'
  BY <1>5, <1>6, <1>7 DEF CoherentOn
<1> QED
  BY <1>2, <1>3, <1>8 DEF StaffInv, DayStepOrGone

(* Requests: only an employee who is still there begins, or goes on.       *)
LEMMA BeginKeeps ==
  ASSUME StaffInv, NEW r \in Requests, Begin(r)
  PROVE  StaffInv' /\ DayStepOrGone
<1>1. PICK L \in SUBSET Keys : L = Alive
  BY DEF Alive
<1>2. TypeOK /\ CoherentOn(L) /\ UNCHANGED staff
  BY <1>1 DEF StaffInv, StaffTypeOK, Begin
<1>3. TypeOK' /\ CoherentOn(L)' /\ DayStep
  BY <1>2, AttemptStep, HeartbeatStep, DecideStep DEF Begin, ActiveStaff
<1> QED
  BY <1>1, <1>2, <1>3, SameStaff

LEMMA ProceedKeeps ==
  ASSUME StaffInv, NEW r \in Requests, Proceed(r)
  PROVE  StaffInv' /\ DayStepOrGone
<1>1. PICK L \in SUBSET Keys : L = Alive
  BY DEF Alive
<1>2. TypeOK /\ CoherentOn(L) /\ UNCHANGED staff
  BY <1>1 DEF StaffInv, StaffTypeOK, Proceed
<1>3. req[r].key \in Keys
  BY <1>2, ReqTypes DEF Proceed, Available, TypeOK
<1>4. CASE Gone(req[r].key)
  <2>1. Drop(r)
    BY <1>4 DEF Proceed
  <2> QED
    BY <1>1, <1>2, <2>1, DropStep, SameStaff
<1>5. CASE ~Gone(req[r].key)
  <2>1. req[r].key \in L /\ RequestStep(r)
    BY <1>1, <1>3, <1>5 DEF Proceed, Alive
  <2>2. TypeOK' /\ CoherentOn(L)' /\ DayStep
    BY <1>2, <2>1, StampStep, ApplyPresenceStep, HeartbeatReadStep,
       HeartbeatCommitStep, DecideCommitStep DEF RequestStep
  <2> QED
    BY <1>1, <1>2, <2>2, SameStaff
<1> QED
  BY <1>4, <1>5

(* A statement on a row of somebody gone writes nothing, or ends the run.  *)
LEMMA WriteKeeps ==
  ASSUME StaffInv, NEW j \in Jobs, NEW p \in job[j].plans, Write(j, p)
  PROVE  StaffInv' /\ DayStepOrGone
<1>1. PICK L \in SUBSET Keys : L = Alive
  BY DEF Alive
<1>2. TypeOK /\ CoherentOn(L) /\ UNCHANGED staff
  BY <1>1 DEF StaffInv, StaffTypeOK, Write
<1>3. CASE ~Gone(p.key)
  <2>1. JobWrite(j, p)
    BY <1>3 DEF Write
  <2> QED
    BY <1>1, <1>2, <2>1, JobWriteStep, SameStaff
<1>4. CASE Gone(p.key)
  <2>1. UNCHANGED <<clock, roster, day, req, up, fired, faults, reports>>
    BY <1>4 DEF Write
  <2>2. PICK b : b = [job[j] EXCEPT !.plans = @ \ {p}]
    OBVIOUS
  <2>3. job[j] \in JobSet /\ JobInv(job[j], L)
    BY <1>2 DEF TypeOK, CoherentOn
  <2>4. b \in JobSet /\ JobInv(b, L)
    BY <2>2, <2>3 DEF JobSet, JobInv
  <2>5. JobInv(b, L)'
    BY <2>1, <2>4 DEF JobInv, StmtInv
  <2>6. job' = [job EXCEPT ![j] = b] \/ job' = [job EXCEPT ![j] = OffJob]
    BY <1>2, <1>4, <2>2 DEF Write, TypeOK
  <2>7. TypeOK' /\ CoherentOn(L)' /\ DayStep
    BY <1>2, <2>1, <2>4, <2>5, <2>6, IdleJob, JobMove, SameTable DEF TypeOK
  <2> QED
    BY <1>1, <1>2, <2>7, SameStaff
<1> QED
  BY <1>3, <1>4

(* A job commits nothing on a row of somebody gone (Released).             *)
LEMMA StaffJobKeeps ==
  ASSUME Inv, StaffInv, NEW j \in Jobs, StaffJobStep(j)
  PROVE  StaffInv' /\ DayStepOrGone
<1>1. PICK L \in SUBSET Keys : L = Alive
  BY DEF Alive
<1>2. TypeOK /\ CoherentOn(L)
  BY <1>1 DEF StaffInv, StaffTypeOK
<1>3. PICK E \in SUBSET Users : E = ActiveStaff
  BY DEF ActiveStaff
<1>4. ASSUME IdleSelect(j) \/ NightlySelectOf(j, ActiveStaff) \/ DeadlockAbort(j)
      PROVE  TypeOK' /\ CoherentOn(L)' /\ DayStep
  BY <1>2, <1>3, <1>4, IdleSelectStep, NightlySelectStep, DeadlockAbortStep
<1>5. ASSUME NEW e \in job[j].todo, NightlyRead(j, e) \/ NightlyRaise(j, e)
      PROVE  TypeOK' /\ CoherentOn(L)' /\ DayStep
  BY <1>2, <1>5, NightlyReadStep, NightlyRaiseStep
<1>6. ASSUME JobCommit(j)
      PROVE  TypeOK' /\ CoherentOn(L)' /\ DayStep
  <2>1. \A p \in job[j].held : p.key \in Keys
    BY <1>2 DEF TypeOK, JobSet, StmtSet
  <2>2. \A p \in job[j].held : p.key \in L
    BY <1>1, <2>1 DEF Inv, Released, Locked, Alive
  <2> QED
    BY <1>2, <1>6, <2>2, JobCommitStep
<1>7. CASE \E p \in job[j].plans : Write(j, p)
  BY <1>7, WriteKeeps
<1> QED
  BY <1>1, <1>4, <1>5, <1>6, <1>7, SameStaff DEF StaffJobStep

LEMMA StaffNextKeeps ==
  ASSUME Inv, StaffInv, [StaffNext]_staffVars
  PROVE  StaffInv' /\ DayStepOrGone
<1>1. PICK L \in SUBSET Keys : L = Alive
  BY DEF Alive
<1>2. TypeOK /\ CoherentOn(L)
  BY <1>1 DEF StaffInv, StaffTypeOK
<1>3. CASE UNCHANGED staffVars
  <2>1. clock' \in 0..MaxTime /\ clock' >= clock
    BY <1>2, <1>3, SystemAssumption DEF staffVars, vars, TypeOK
  <2>2. TypeOK' /\ CoherentOn(L)' /\ DayStep
    BY <1>2, <1>3, <2>1, Assemble, SameTable DEF staffVars, vars, TypeOK
  <2> QED
    BY <1>1, <1>3, <2>2, SameStaff DEF staffVars
<1>4. CASE \E u \in Users : Admit(u) \/ Disable(u) \/ DeleteUser(u)
  BY <1>4, AccountKeeps
<1>5. CASE \E r \in Requests : Begin(r) \/ Proceed(r)
  BY <1>5, BeginKeeps, ProceedKeeps
<1>6. CASE \E j \in Jobs : StaffJobStep(j)
  BY <1>6, StaffJobKeeps
<1>7. ASSUME \/ Tick
             \/ \E u \in Users : EditRoster(u)
             \/ \E r \in Requests : NotLocated(r) \/ Drop(r)
             \/ \E s \in Schedulers : SchedulerNext(s)
             \/ \E d \in Debuggers, kind \in Kinds : DebugRun(d, kind)
             \/ \E j \in Jobs : JobFail(j)
      PROVE  TypeOK' /\ CoherentOn(L)' /\ DayStep
  BY <1>2, <1>7, TickStep, EditRosterStep, NotLocatedStep, DropStep, FireStep,
     MisfireStep, CrashStep, RestartStep, DebugRunStep, JobFailStep
     DEF SchedulerNext
<1> QED
  BY <1>1, <1>3, <1>4, <1>5, <1>6, <1>7, SameStaff DEF StaffNext

LEMMA StaffInvariance ==
  StaffSpec => [](Inv /\ StaffInv) /\ [][DayStepOrGone]_staffVars
<1>1. StaffInit => Inv /\ StaffInv
  <2> SUFFICES ASSUME StaffInit PROVE Inv /\ StaffInv
    OBVIOUS
  <2>1. PICK L \in SUBSET Keys : L = Alive
    BY DEF Alive
  <2>2. TypeOK /\ CoherentOn(L)
    BY InitCoherent DEF StaffInit
  <2> QED
    BY <2>1, <2>2, StaffInitInv DEF StaffInit, StaffInv, StaffTypeOK
<1>2. Inv /\ StaffInv /\ [StaffNext]_staffVars => (Inv /\ StaffInv)'
  BY StaffStep, StaffNextKeeps
<1>3. Inv /\ StaffInv /\ [StaffNext]_staffVars => [DayStepOrGone]_staffVars
  BY StaffNextKeeps
<1> QED
  BY <1>1, <1>2, <1>3, PTL DEF StaffSpec

(* Whatever happens to accounts, every variable keeps its type.            *)
THEOREM StaffTypeCorrect == StaffSpec => []StaffTypeOK
<1>1. StaffInv => StaffTypeOK
  BY DEF StaffInv
<1> QED
  BY <1>1, StaffInvariance, PTL

(* A day nobody decided is present or late exactly when it has a check-in, *)
(* also when its user is disabled between the read and the write of a      *)
(* request, or deleted under it.                                           *)
THEOREM StaffEvidenceCorrect == StaffSpec => []StatusHasEvidence
<1>1. StaffInv => StatusHasEvidence
  BY DEF StaffInv, CoherentOn, RowInv, StatusHasEvidence
<1> QED
  BY <1>1, StaffInvariance, PTL

(* Only an admin verifies a GPS day, whatever happens to accounts.         *)
THEOREM StaffVerificationCorrect == StaffSpec => []VerificationJustified
<1>1. StaffInv => VerificationJustified
  BY DEF StaffInv, CoherentOn, RowInv, VerificationJustified
<1> QED
  BY <1>1, StaffInvariance, PTL

(* No job closes a day past the end of its shift, or one nobody came to,   *)
(* whatever happens to accounts.                                           *)
THEOREM StaffClosedCorrect == StaffSpec => []ClosedWithinShift
<1>1. StaffInv => ClosedWithinShift
  BY DEF StaffInv, CoherentOn, RowInv, ClosedWithinShift
<1> QED
  BY <1>1, StaffInvariance, PTL

(* An arrival is classified by the instant it records, whatever happens to *)
(* accounts.                                                               *)
THEOREM StaffLatenessCorrect == StaffSpec => []LatenessRecorded
<1>1. StaffInv => LatenessRecorded
  BY DEF StaffInv, CoherentOn, RowInv, LatenessRecorded
<1> QED
  BY <1>1, StaffInvariance, PTL

(* A day keeps its lifecycle until its user is deleted.                    *)
THEOREM LifecycleCorrect == StaffSpec => LifecycleUntilGone
<1> DEFINE A == \A k \in Keys :
                  \/ Entry(day'[k]) = Entry(day[k])
                  \/ DL!EntryStep(Entry(day[k]), Entry(day'[k]))
                  \/ Gone(k)'
<1>1. [DayStepOrGone]_staffVars => [A]_staffVars
  BY DEF DayStepOrGone, RowStep
<1> HIDE DEF A
<1>2. LifecycleUntilGone <=> [][A]_staffVars
  BY DEF LifecycleUntilGone, A
<1> QED
  BY <1>1, <1>2, StaffInvariance, PTL

-----------------------------------------------------------------------------
(* Jobs and answers, whatever happens to accounts.  Most steps are steps of*)
(* Attendance; these are the others.                                       *)

GoneWrite(j, p) == Gone(p.key) /\ Write(j, p)

LEMMA StaffSteps ==
  ASSUME [StaffNext]_staffVars
  PROVE  \/ [Next]_vars
         \/ \E u \in Users : DeleteUser(u)
         \/ \E j \in Jobs : NightlySelectOf(j, ActiveStaff)
         \/ \E j \in Jobs : \E p \in job[j].plans : GoneWrite(j, p)
<1>1. ASSUME NEW r \in Requests, Begin(r) \/ Proceed(r) PROVE RequestNext(r)
  BY <1>1 DEF Begin, Proceed, RequestNext, ActiveStaff
<1>2. ASSUME NEW j \in Jobs, StaffJobStep(j)
      PROVE  \/ JobStep(j)
             \/ NightlySelectOf(j, ActiveStaff)
             \/ \E p \in job[j].plans : GoneWrite(j, p)
  BY <1>2 DEF StaffJobStep, JobStep, Write, GoneWrite
<1>3. CASE UNCHANGED staffVars
  BY <1>3 DEF staffVars
<1>4. CASE \E u \in Users : Admit(u) \/ Disable(u)
  BY <1>4 DEF Admit, Disable
<1>5. ASSUME NEW r \in Requests, NotLocated(r) \/ Drop(r) PROVE RequestNext(r)
  BY <1>5 DEF RequestNext
<1> QED
  BY <1>1, <1>2, <1>3, <1>4, <1>5 DEF StaffNext, Next

(* What a statement on a row of somebody gone leaves of its job.           *)
LEMMA GoneWriteJob ==
  ASSUME TypeOK, NEW j \in Jobs, NEW p \in job[j].plans, GoneWrite(j, p)
  PROVE  /\ UNCHANGED <<clock, roster, day, req, up, fired, faults, reports>>
         /\ \/ job' = [job EXCEPT ![j] = [job[j] EXCEPT !.plans = @ \ {p}]]
            \/ job' = [job EXCEPT ![j] = OffJob]
BY DEF GoneWrite, Write, TypeOK

-----------------------------------------------------------------------------
(* The close that is counted.                                              *)

(* The delete takes rows that nobody holds, and with them their count.     *)
LEMMA DeleteCounted ==
  ASSUME StaffInv, Counted(Alive), NEW u \in Users, DeleteUser(u)
  PROVE  Counted(Alive)'
<1>1. /\ UNCHANGED <<job, reports>>
      /\ day' = [k \in Keys |-> IF k[1] = u THEN NoRow ELSE day[k]]
      /\ staff' = [staff EXCEPT ![u] = "gone"]
  BY DEF DeleteUser
<1>2. \A j \in Jobs : \A p \in job[j].held : p.key \in Keys
  BY DEF StaffInv, StaffTypeOK, TypeOK, JobSet, StmtSet
<1>3. RowLocks'
  BY <1>1, <1>2 DEF Counted, RowLocks, OncePerDay, NoRow
<1>4. ASSUME NEW k \in Keys, ~Gone(k)' PROVE k \in Alive /\ day'[k] = day[k]
  BY <1>1, <1>4, KeyTypes DEF StaffInv, StaffTypeOK, Alive, Gone
<1>5. \A k \in Alive' : ReportedOnce(k)'
  BY <1>1, <1>4 DEF Counted, ReportedOnce, Alive
<1> QED
  BY <1>3, <1>5 DEF Counted

LEMMA GoneWriteCounted ==
  ASSUME NEW L \in SUBSET Keys, TypeOK, Counted(L),
         NEW j \in Jobs, NEW p \in job[j].plans, GoneWrite(j, p)
  PROVE  Counted(L)'
<1>1. PICK b : b = [job[j] EXCEPT !.plans = @ \ {p}]
  OBVIOUS
<1>2. job[j] \in JobSet /\ OncePerDay(job[j])
  BY DEF TypeOK, Counted, RowLocks
<1>3. /\ b \in JobSet /\ b.phase = job[j].phase /\ b.todo = job[j].todo
      /\ b.plans = job[j].plans \ {p} /\ b.held = job[j].held
  BY <1>1, <1>2 DEF JobSet
<1>4. OncePerDay(b)
  BY <1>2, <1>3 DEF OncePerDay
<1>5. UNCHANGED <<day, reports>>
  BY GoneWriteJob
<1>6. CASE job' = [job EXCEPT ![j] = b]
  BY <1>3, <1>4, <1>5, <1>6, SlotCounted
<1>7. CASE job' = [job EXCEPT ![j] = OffJob]
  BY <1>5, <1>7, EmptySlotCounted
<1> QED
  BY <1>1, <1>6, <1>7, GoneWriteJob

LEMMA StaffCountedStep ==
  ASSUME StaffInv, Counted(Alive), [StaffNext]_staffVars
  PROVE  Counted(Alive)'
<1>1. PICK L \in SUBSET Keys : L = Alive
  BY DEF Alive
<1>2. TypeOK /\ CoherentOn(L) /\ Counted(L)
  BY <1>1 DEF StaffInv, StaffTypeOK
<1>3. CASE \E u \in Users : DeleteUser(u)
  BY <1>3, DeleteCounted
<1>4. ASSUME ~\E u \in Users : DeleteUser(u)
      PROVE  \A k \in Alive' : k \in Alive
  <2>1. ASSUME NEW u \in Users, Admit(u) \/ Disable(u), NEW k \in Keys, ~Gone(k)'
        PROVE  ~Gone(k)
    BY <2>1, KeyTypes DEF Admit, Disable, StaffInv, StaffTypeOK, Gone
  <2>2. CASE \E u \in Users : Admit(u) \/ Disable(u)
    BY <2>1, <2>2 DEF Alive
  <2>3. CASE UNCHANGED staff
    BY <2>3 DEF Alive, Gone
  <2> QED
    BY <1>4, <2>2, <2>3 DEF StaffNext, staffVars, Begin, Proceed, StaffJobStep, Write
<1>5. CASE Counted(L)' /\ ~\E u \in Users : DeleteUser(u)
  BY <1>1, <1>4, <1>5 DEF Counted
<1>6. PICK E \in SUBSET Users : E = ActiveStaff
  BY DEF ActiveStaff
<1>7. Counted(L)' \/ \E u \in Users : DeleteUser(u)
  BY <1>2, <1>6, StaffSteps, CountedStep, NightlySelectCounted, GoneWriteCounted
<1> QED
  BY <1>3, <1>5, <1>7

(* Of every employee who is still there, each day is closed by exactly one *)
(* committed run that reports it, or by none and is open.                  *)
THEOREM StaffCloseReportedCorrect == StaffSpec => [](\A k \in Alive : ReportedOnce(k))
<1>1. StaffInit => Counted(Alive)
  <2>1. Alive \in SUBSET Keys
    BY DEF Alive
  <2> QED
    BY <2>1, InitCounted DEF StaffInit
<1>2. StaffInv /\ Counted(Alive) /\ [StaffNext]_staffVars => Counted(Alive)'
  BY StaffCountedStep
<1>3. Counted(Alive) => \A k \in Alive : ReportedOnce(k)
  BY DEF Counted
<1> QED
  BY <1>1, <1>2, <1>3, StaffInvariance, PTL DEF StaffSpec

-----------------------------------------------------------------------------
(* When the nightly run flags a day.                                       *)

LEMMA StaffNightlyStep ==
  ASSUME Debuggers = {}, NightlyAfterShifts, StaffInv, NightlyInv,
         [StaffNext]_staffVars
  PROVE  NightlyInv'
<1>1. PICK L \in SUBSET Keys : L = Alive
  BY DEF Alive
<1>2. TypeOK /\ CoherentOn(L)
  BY <1>1 DEF StaffInv, StaffTypeOK
<1>3. ASSUME NEW u \in Users, DeleteUser(u) PROVE NightlyInv'
  <2>1. clock' \in 0..MaxTime /\ clock' >= clock
    BY <1>2, <1>3, SystemAssumption DEF DeleteUser, TypeOK
  <2> QED
    BY <1>2, <1>3, <2>1, NightlyKept DEF DeleteUser
<1>4. ASSUME NEW j \in Jobs, NEW p \in job[j].plans, GoneWrite(j, p)
      PROVE  NightlyInv'
  <2>1. PICK b : b = [job[j] EXCEPT !.plans = @ \ {p}]
    OBVIOUS
  <2>2. job[j] \in JobSet /\ NightlyJob(j, job[j])
    BY <1>2 DEF TypeOK, NightlyInv
  <2>3. NightlyJob(j, b)
    BY <2>1, <2>2 DEF JobSet, NightlyJob
  <2>4. UNCHANGED clock
    BY <1>2, <1>4, GoneWriteJob
  <2>5. job' = [job EXCEPT ![j] = b] \/ job' = [job EXCEPT ![j] = OffJob]
    BY <1>2, <1>4, <2>1, GoneWriteJob
  <2> QED
    BY <1>2, <2>3, <2>4, <2>5, NightlySlot, NightlyEnds
<1>5. PICK E \in SUBSET Users : E = ActiveStaff
  BY DEF ActiveStaff
<1> QED
  BY <1>2, <1>3, <1>4, <1>5, StaffSteps, NightlyStep, NightlySelectNightly

LEMMA StaffFlagsStep ==
  ASSUME TypeOK, NightlyInv, [StaffNext]_staffVars
  PROVE  FlagsOnlyOver
<1>1. CASE UNCHANGED day
  BY <1>1 DEF FlagsOnlyOver
<1>2. ASSUME NEW u \in Users, DeleteUser(u) PROVE FlagsOnlyOver
  BY <1>2 DEF DeleteUser, FlagsOnlyOver, NoRow
<1>3. ASSUME NEW j \in Jobs, NEW p \in job[j].plans, GoneWrite(j, p)
      PROVE  UNCHANGED day
  BY <1>3, GoneWriteJob
<1> QED
  BY <1>1, <1>2, <1>3, StaffSteps, FlagsStep DEF NightlySelectOf

(* NightlyCorrect stays true while the nightly query selects whoever is    *)
(* active at the time, and employees come and go under it.                 *)
THEOREM StaffNightlyCorrect ==
  ASSUME Debuggers = {}, NightlyAfterShifts
  PROVE  StaffSpec => NightlyActsAfterShift
<1> DEFINE A == UNCHANGED req
                => \A k \in Keys :
                     day'[k].status = "flagged" /\ day[k].status # "flagged"
                     => /\ day[k].check_in = NULL
                        /\ \A s \in Shifts : clock > ShiftEnd(s, k[2])
<1>1. StaffInit => NightlyInv
  BY NightlyInit DEF StaffInit
<1>2. StaffInv /\ NightlyInv /\ [StaffNext]_staffVars => NightlyInv'
  BY StaffNightlyStep
<1>3. StaffInv /\ NightlyInv /\ [StaffNext]_staffVars => [A]_vars
  BY StaffFlagsStep DEF FlagsOnlyOver, Over, StaffInv, StaffTypeOK
<1> HIDE DEF A
<1>4. NightlyActsAfterShift <=> [][A]_vars
  BY DEF NightlyActsAfterShift, A
<1> QED
  BY <1>1, <1>2, <1>3, <1>4, StaffInvariance, PTL DEF StaffSpec

-----------------------------------------------------------------------------
(* The double tap.                                                         *)

(* Whoever is answered is still there, or nobody is told anything new.     *)
LEMMA StaffTapStep ==
  ASSUME StaffInv, DoubleTapOnce, [StaffNext]_staffVars
  PROVE  DoubleTapOnce'
<1>1. PICK L \in SUBSET Keys : L = Alive
  BY DEF Alive
<1>2. TypeOK /\ CoherentOn(L)
  BY <1>1 DEF StaffInv, StaffTypeOK
<1>3. UNCHANGED req => DoubleTapOnce'
  BY QuietTap DEF NoNewFirst
<1>4. ASSUME NEW r \in Requests, RequestNext(r), ~ApplyPresence(r)
      PROVE  DoubleTapOnce'
  BY <1>2, <1>4, OnlyApplyAnswers, QuietTap
<1>5. ASSUME NEW r \in Requests, Begin(r) PROVE DoubleTapOnce'
  <2>1. Available(r) /\ RequestNext(r)
    BY <1>5 DEF Begin, Attempt, Heartbeat, Decide, RequestNext, ActiveStaff
  <2>2. ~ApplyPresence(r)
    BY <2>1 DEF Available, ApplyPresence
  <2> QED
    BY <1>4, <2>1, <2>2
<1>6. ASSUME NEW r \in Requests, Proceed(r) PROVE DoubleTapOnce'
  <2>1. RequestNext(r)
    BY <1>6 DEF Proceed, RequestNext
  <2>2. CASE ApplyPresence(r) /\ ~Gone(req[r].key)
    <3>1. req[r].key \in L
      BY <1>1, <1>2, <2>2, ReqTypes DEF ApplyPresence, TypeOK, Alive
    <3> QED
      BY <1>2, <2>2, <3>1, TapStep
  <2>3. CASE Gone(req[r].key)
    <3>1. Drop(r)
      BY <1>6, <2>3 DEF Proceed
    <3> QED
      BY <1>2, <3>1, NoAnswer, FreeNoAnswer, QuietTap DEF Drop
  <2> QED
    BY <1>4, <2>1, <2>2, <2>3
<1>7. ASSUME NEW r \in Requests, NotLocated(r) \/ Drop(r) PROVE DoubleTapOnce'
  BY <1>2, <1>7, NoAnswer, FreeNoAnswer, QuietTap DEF NotLocated, Drop
<1>8. ASSUME NEW j \in Jobs, StaffJobStep(j) \/ JobFail(j) PROVE UNCHANGED req
  BY <1>8
     DEF StaffJobStep, JobFail, IdleSelect, NightlySelectOf, NightlyRead,
         NightlyRaise, JobWrite, Write, JobCommit, DeadlockAbort
<1>9. ASSUME NEW s \in Schedulers, SchedulerNext(s) PROVE UNCHANGED req
  BY <1>9 DEF SchedulerNext, Fire, Misfire, Crash, Restart
<1>10. CASE UNCHANGED staffVars \/ \E u \in Users : Admit(u) \/ Disable(u) \/ DeleteUser(u)
  BY <1>3, <1>10 DEF staffVars, vars, Admit, Disable, DeleteUser
<1> QED
  BY <1>3, <1>5, <1>6, <1>7, <1>8, <1>9, <1>10
     DEF StaffNext, Tick, EditRoster, DebugRun

(* A user may be disabled, enabled or deleted between two taps: of a day   *)
(* one request at most is ever told "checked_in".                          *)
THEOREM StaffDoubleTapCorrect == StaffSpec => []DoubleTapOnce
<1>1. StaffInit => DoubleTapOnce
  BY DEF StaffInit, Init, DoubleTapOnce, FreeReq
<1>2. StaffInv /\ DoubleTapOnce /\ [StaffNext]_staffVars => DoubleTapOnce'
  BY StaffTapStep
<1> QED
  BY <1>1, <1>2, StaffInvariance, PTL DEF StaffSpec

-----------------------------------------------------------------------------
(* Who changes the status of a day that somebody came to.                  *)

(* schemas.py:265, whatever happens to accounts: an admin's decision moves *)
(* such a day from one status to another, or its user is deleted.          *)
THEOREM StaffStatusCorrect ==
  StaffSpec => [][\A k \in Keys :
                    /\ day[k].check_in # NULL
                    /\ day'[k].status # day[k].status
                    => \/ /\ day'[k].resolved
                          /\ \E r \in Requests : req[r].pc = "decided"
                       \/ Gone(k)']_staffVars
<1> DEFINE A == \A k \in Keys :
                  /\ day[k].check_in # NULL
                  /\ day'[k].status # day[k].status
                  => \/ /\ day'[k].resolved
                        /\ \E r \in Requests : req[r].pc = "decided"
                     \/ Gone(k)'
<1>1. StaffInv /\ [StaffNext]_staffVars => [A]_staffVars
  <2> SUFFICES ASSUME StaffInv, [StaffNext]_staffVars PROVE A
    OBVIOUS
  <2>1. PICK L \in SUBSET Keys : L = Alive
    BY DEF Alive
  <2>2. TypeOK /\ CoherentOn(L)
    BY <2>1 DEF StaffInv, StaffTypeOK
  <2>3. CASE [Next]_vars
    <3>1. StatusKept \/ \E r \in Requests : DecideCommit(r)
      BY <2>2, <2>3, StatusStep
    <3> QED
      BY <2>2, <3>1, DecisionResolves DEF StatusKept
  <2>4. CASE \E u \in Users : DeleteUser(u)
    BY <2>4 DEF DeleteUser, StaffInv, StaffTypeOK, Gone
  <2>5. CASE UNCHANGED day
    BY <2>5
  <2> QED
    BY <2>2, <2>3, <2>4, <2>5, StaffSteps, GoneWriteJob DEF NightlySelectOf
<1> HIDE DEF A
<1>2. StaffSpec => [][A]_staffVars
  BY <1>1, StaffInvariance, PTL DEF StaffSpec
<1> QED
  BY <1>2 DEF A
=============================================================================
