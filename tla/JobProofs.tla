------------------------------ MODULE JobProofs ------------------------------
(* Proofs about the scheduled jobs, for every number of processes, users   *)
(* and requests: what the row locks of a job's transaction and the         *)
(* compare-and-set that is counted are for, and when the nightly run may   *)
(* flag a day.                                                             *)
EXTENDS AttendanceProofs

-----------------------------------------------------------------------------
(* The steps that leave every job and every check-out alone.               *)

Quiet ==
  /\ UNCHANGED <<job, reports>>
  /\ \A k \in Keys : day'[k].check_out = day[k].check_out

(* No write of a request touches check_out.                                *)
LEMMA RequestWritesKeepCheckOut ==
  ASSUME NEW k, NEW row \in RowSet, RowInv(k, row)
  PROVE  /\ EnsureOffDay(row).check_out = row.check_out
         /\ FlagDay(row).check_out = row.check_out
         /\ \A s, date, m, now : CheckIn(row, s, date, m, now).check_out = row.check_out
         /\ \A now, up1 : Advance(row, now, up1).check_out = row.check_out
         /\ \A v, m : Decided(row, v, m).check_out = row.check_out
<1>1. EnsureOffDay(row).check_out = row.check_out
  <2>1. CASE row.status = "none"
    <3>1. row.check_out = NULL
      BY <2>1 DEF RowInv, ClosedInShift
    <3> QED BY <2>1, <3>1 DEF EnsureOffDay, NoRow
  <2> QED BY <2>1 DEF EnsureOffDay
<1>2. FlagDay(row).check_out = row.check_out
  BY DEF FlagDay, RowSet
<1>3. ASSUME NEW s, NEW date, NEW m, NEW now
      PROVE  CheckIn(row, s, date, m, now).check_out = row.check_out
  BY DEF CheckIn, RowSet
<1>4. ASSUME NEW now, NEW up1
      PROVE  Advance(row, now, up1).check_out = row.check_out
  BY DEF Advance, RowSet
<1>5. ASSUME NEW v, NEW m PROVE Decided(row, v, m).check_out = row.check_out
  BY DEF Decided, RowSet
<1> QED BY <1>1, <1>2, <1>3, <1>4, <1>5

(* One row is written, and its check_out kept.                             *)
LEMMA KeepCheckOut ==
  ASSUME TypeOK, NEW k \in Keys, NEW next, day' = [day EXCEPT ![k] = next],
         next.check_out = day[k].check_out
  PROVE  \A i \in Keys : day'[i].check_out = day[i].check_out
BY DEF TypeOK

(* Requests, the clock, roster edits, misfires and restarts are quiet.     *)
LEMMA RequestQuiet ==
  ASSUME NEW L \in SUBSET Keys, TypeOK, CoherentOn(L), NEW r \in Requests,
         RequestNext(r)
  PROVE  Quiet
<1>1. ASSUME NEW u \in Users, NEW m \in Methods, Attempt(r, u, m) PROVE Quiet
  <2> DEFINE k == <<u, LocalDate(roster[u], clock)>>
  <2>1. k \in Keys /\ day[k] \in RowSet /\ RowInv(k, day[k])
    BY KeyTypes DEF TypeOK, CoherentOn
  <2>2. CASE UNCHANGED day
    BY <1>1, <2>2 DEF Attempt, Others, Quiet
  <2>3. CASE day' = [day EXCEPT ![k] = EnsureOffDay(@)]
    BY <1>1, <2>1, <2>3, RequestWritesKeepCheckOut, KeepCheckOut
       DEF Attempt, Others, Quiet
  <2> QED BY <1>1, <2>2, <2>3 DEF Attempt
<1>2. CASE ApplyPresence(r)
  <2> DEFINE q == req[r]
             k == q.key
  <2>1. q \in ReqSet /\ q.pc = "stamped"
    BY <1>2 DEF ApplyPresence, TypeOK
  <2>2. k \in Keys /\ day[k] \in RowSet /\ RowInv(k, day[k])
    BY <2>1, ReqTypes DEF TypeOK, CoherentOn
  <2>3. CheckIn(day[k], q.shift, k[2], q.method, q.now).check_out = day[k].check_out
    BY <2>2, RequestWritesKeepCheckOut
  <2> QED BY <1>2, <2>2, <2>3, KeepCheckOut DEF ApplyPresence, Others, Quiet
<1>3. CASE HeartbeatCommit(r)
  <2> DEFINE q == req[r]
             k == q.key
  <2>1. q \in ReqSet /\ q.pc = "beat"
    BY <1>3 DEF HeartbeatCommit, TypeOK
  <2>2. k \in Keys /\ day[k] \in RowSet /\ RowInv(k, day[k])
    BY <2>1, ReqTypes DEF TypeOK, CoherentOn
  <2>3. Advance(day[k], q.now, q.upgrade).check_out = day[k].check_out
    BY <2>2, RequestWritesKeepCheckOut
  <2> QED BY <1>3, <2>2, <2>3, KeepCheckOut DEF HeartbeatCommit, Others, Quiet
<1>4. CASE DecideCommit(r)
  <2> DEFINE q == req[r]
             k == q.key
  <2>1. q \in ReqSet /\ q.pc = "decided"
    BY <1>4 DEF DecideCommit, TypeOK
  <2>2. k \in Keys /\ day[k] \in RowSet /\ RowInv(k, day[k])
    BY <2>1, ReqTypes DEF TypeOK, CoherentOn
  <2>3. Decided(day[k], q.verdict, q.moved).check_out = day[k].check_out
    BY <2>2, RequestWritesKeepCheckOut
  <2> QED BY <1>4, <2>2, <2>3, KeepCheckOut DEF DecideCommit, Others, Quiet
<1>5. CASE UNCHANGED <<day, Others>>
  BY <1>5 DEF Others, Quiet
<1> QED BY <1>1, <1>2, <1>3, <1>4, <1>5
        DEF RequestNext, RequestStep, Stamp, HeartbeatRead, NotLocated, Drop,
            Heartbeat, Decide

-----------------------------------------------------------------------------
(* A request has no job.                                                   *)
LEMMA RequestKeepsJobs ==
  ASSUME NEW r \in Requests, RequestNext(r)
  PROVE  UNCHANGED <<clock, job>>
BY DEF RequestNext, RequestStep, Attempt, Heartbeat, Decide, Stamp,
   ApplyPresence, HeartbeatRead, HeartbeatCommit, DecideCommit, NotLocated,
   Drop, Others

-----------------------------------------------------------------------------
(* Row locks, and the close that is counted.                               *)

Counted(L) == RowLocks /\ \A k \in L : ReportedOnce(k)

(* A quiet step disturbs neither the locks nor the count.                  *)
LEMMA QuietCounted ==
  ASSUME NEW L \in SUBSET Keys, TypeOK, Counted(L), Quiet
  PROVE  Counted(L)'
<1>1. \A j \in Jobs : \A p \in job[j].held : p.key \in Keys
  BY DEF TypeOK, JobSet, StmtSet
<1>2. RowLocks'
  BY <1>1 DEF Counted, RowLocks, Quiet, OncePerDay
<1>3. \A k \in L : ReportedOnce(k)'
  BY DEF Counted, ReportedOnce, Quiet
<1> QED BY <1>2, <1>3 DEF Counted

(* The record of one job moves to b, and no row is written.                *)
LEMMA SlotCounted ==
  ASSUME NEW L \in SUBSET Keys, TypeOK, Counted(L), NEW j \in Jobs, NEW b \in JobSet,
         job' = [job EXCEPT ![j] = b], UNCHANGED <<day, reports>>, OncePerDay(b),
         \A p \in b.held : \/ p \in job[j].held
                           \/ /\ ~LockedByOther(j, p.key)
                              /\ p.op = "close" => day[p.key].check_out = NULL
  PROVE  Counted(L)'
<1>1. job'[j] = b /\ \A i \in Jobs : i # j => job'[i] = job[i]
  BY DEF TypeOK
<1>2. \A i \in Jobs : OncePerDay(job'[i])
  BY <1>1 DEF Counted, RowLocks
<1>3. \A i \in Jobs : i # j => \A p \in b.held, q \in job[i].held : p.key # q.key
  BY DEF Counted, RowLocks, LockedByOther
<1>4. \A i, h \in Jobs : i # h =>
        \A p \in job'[i].held, q \in job'[h].held : p.key # q.key
  BY <1>1, <1>3 DEF Counted, RowLocks
<1>5. \A i \in Jobs : \A p \in job'[i].held :
        p.op = "close" => day'[p.key].check_out = NULL
  BY <1>1 DEF Counted, RowLocks
<1>6. RowLocks'
  BY <1>2, <1>4, <1>5 DEF RowLocks, OncePerDay
<1>7. \A k \in L : ReportedOnce(k)'
  BY DEF Counted, ReportedOnce
<1> QED BY <1>6, <1>7 DEF Counted

(* A job that starts, or ends without its commit, holds nothing.           *)
LEMMA EmptySlotCounted ==
  ASSUME NEW L \in SUBSET Keys, TypeOK, Counted(L),
         NEW j \in Jobs, NEW b \in {Begun, OffJob},
         job' = [job EXCEPT ![j] = b], UNCHANGED <<day, reports>>
  PROVE  Counted(L)'
<1>1. b \in JobSet /\ b.todo = {} /\ b.plans = {} /\ b.held = {}
  <2>1. CASE b = Begun
    BY <2>1 DEF Begun, OffJob, JobSet, TypeOK
  <2>2. CASE b = OffJob
    BY <2>2, IdleJob DEF OffJob
  <2> QED BY <2>1, <2>2
<1>2. OncePerDay(b)
  BY <1>1 DEF OncePerDay
<1> QED BY <1>1, <1>2, SlotCounted

(* A process that dies takes the locks of all its jobs with it.            *)
LEMMA CrashCounted ==
  ASSUME NEW L \in SUBSET Keys, TypeOK, Counted(L), NEW s \in Schedulers, Crash(s)
  PROVE  Counted(L)'
<1>1. \A j \in Jobs : job'[j] = job[j] \/ job'[j] = OffJob
  BY DEF Crash
<1>2. /\ OffJob.todo = {} /\ OffJob.plans = {} /\ OffJob.held = {}
      /\ OncePerDay(OffJob)
  BY DEF OffJob, OncePerDay
<1>3. \A j \in Jobs : OncePerDay(job'[j])
  BY <1>1, <1>2 DEF Counted, RowLocks
<1>4. \A j \in Jobs : job'[j].held = job[j].held \/ job'[j].held = {}
  BY <1>1, <1>2
<1>5. RowLocks'
  BY <1>3, <1>4 DEF Counted, RowLocks, Crash, OncePerDay
<1>6. \A k \in L : ReportedOnce(k)'
  BY DEF Counted, ReportedOnce, Crash
<1> QED BY <1>5, <1>6 DEF Counted

(* The idle query plans at most one close for a day.                       *)
LEMMA IdleSelectCounted ==
  ASSUME NEW L \in SUBSET Keys, TypeOK, CoherentOn(L), Counted(L),
         NEW j \in Jobs, IdleSelect(j)
  PROVE  Counted(L)'
<1> DEFINE close(k) == [op |-> "close", key |-> k,
                        out |-> Earlier(day[k].last_seen, ShiftEnd(roster[k[1]], k[2]))]
           stale == {k \in Keys : Stale(k, job[j].now - IdleMinutes)}
<1>1. PICK plans : plans = {close(k) : k \in stale}
  OBVIOUS
<1>2. PICK b : b = [job[j] EXCEPT !.phase = "running", !.plans = plans]
  OBVIOUS
<1>3. job' = [job EXCEPT ![j] = b]
  BY <1>1, <1>2 DEF IdleSelect, TypeOK
<1>4. job[j] \in JobSet /\ OncePerDay(job[j]) /\ job[j].phase = "begun"
  BY DEF TypeOK, Counted, RowLocks, IdleSelect
<1>5. /\ b.phase = "running" /\ b.plans = plans
      /\ b.todo = {} /\ b.held = {}
  BY <1>2, <1>4 DEF OncePerDay, JobSet
<1>6. \A p, q \in plans : p.key = q.key => p = q
  <2>1. \A p \in plans : p = close(p.key)
    BY <1>1
  <2> HIDE DEF close
  <2> QED BY <2>1
<1>7. OncePerDay(b)
  BY <1>5, <1>6 DEF OncePerDay
<1>8. TypeOK'
  BY IdleSelectStep
<1>9. b \in JobSet
  BY <1>3, <1>8 DEF TypeOK
<1> QED BY <1>3, <1>5, <1>7, <1>9, SlotCounted DEF IdleSelect

(* The nightly query loads every employee it selects once.                 *)
LEMMA NightlySelectCounted ==
  ASSUME NEW L \in SUBSET Keys, TypeOK, CoherentOn(L), Counted(L),
         NEW j \in Jobs, NEW E \in SUBSET Users, NightlySelectOf(j, E)
  PROVE  Counted(L)'
<1> DEFINE date(u) == LocalDate(roster[u], job[j].now)
           entry(u) == [key |-> <<u, date(u)>>, end |-> ShiftEnd(roster[u], date(u)),
                        kind |-> DayKind(roster[u], date(u))]
<1>1. PICK todo : todo = {entry(u) : u \in E}
  OBVIOUS
<1>2. PICK b : b = [job[j] EXCEPT !.phase = "running", !.todo = todo]
  OBVIOUS
<1>3. job' = [job EXCEPT ![j] = b]
  BY <1>1, <1>2 DEF NightlySelectOf, TypeOK
<1>4. job[j] \in JobSet /\ OncePerDay(job[j]) /\ job[j].phase = "begun"
  BY DEF TypeOK, Counted, RowLocks, NightlySelectOf
<1>5. /\ b.phase = "running" /\ b.todo = todo
      /\ b.plans = {} /\ b.held = {}
  BY <1>2, <1>4 DEF OncePerDay, JobSet
<1>6. \A e, f \in todo : e.key = f.key => e = f
  <2>1. \A e \in todo : e = entry(e.key[1])
    BY <1>1
  <2> HIDE DEF entry
  <2> QED BY <2>1
<1>7. OncePerDay(b)
  BY <1>5, <1>6 DEF OncePerDay
<1>8. b \in JobSet
  BY <1>3, NightlySelectStep DEF TypeOK
<1> QED BY <1>3, <1>5, <1>7, <1>8, SlotCounted DEF NightlySelectOf

(* The nightly loop plans one statement at most, for the employee whose    *)
(* entry it takes off the list.                                            *)
LEMMA NightlyReadCounted ==
  ASSUME NEW L \in SUBSET Keys, TypeOK, CoherentOn(L), Counted(L),
         NEW j \in Jobs, NEW e \in job[j].todo, NightlyRead(j, e)
  PROVE  Counted(L)'
<1>1. PICK plans : plans = NightlyPlan(e, day[e.key])
  OBVIOUS
<1>2. PICK b : b = [job[j] EXCEPT !.todo = @ \ {e}, !.plans = plans]
  OBVIOUS
<1>3. job' = [job EXCEPT ![j] = b]
  BY <1>1, <1>2 DEF NightlyRead, TypeOK
<1>4. /\ job[j] \in JobSet /\ OncePerDay(job[j]) /\ JobInv(job[j], L)
      /\ e \in EntrySet /\ job[j].plans = {}
  BY DEF TypeOK, CoherentOn, Counted, RowLocks, NightlyRead, JobSet
<1>5. /\ b.phase = job[j].phase /\ b.plans = plans
      /\ b.todo = job[j].todo \ {e} /\ b.held = job[j].held
  BY <1>2, <1>4 DEF JobSet
<1>6. /\ \A p \in plans : p.key = e.key
      /\ \A p, q \in plans : p = q
  <2>1. \A p \in plans : p.key = e.key
    BY <1>1, <1>4, NightlyPlanOK DEF JobInv
  <2>2. \A p, q \in plans : p = q
    BY <1>1 DEF NightlyPlan
  <2> QED BY <2>1, <2>2
<1>7. OncePerDay(b)
  <2>1. b.phase = "running"
    BY <1>4, <1>5 DEF OncePerDay
  <2>2. \A p \in job[j].held : p.key # e.key
    BY <1>4 DEF OncePerDay
  <2>3. \A f \in b.todo : f \in job[j].todo /\ f.key # e.key
    BY <1>4, <1>5 DEF OncePerDay
  <2>4. \A p, q \in b.plans \cup b.held : p.key = q.key => p = q
    BY <1>4, <1>5, <1>6, <2>2 DEF OncePerDay
  <2>5. b.plans \cap b.held = {}
    BY <1>5, <1>6, <2>2
  <2>6. \A f \in b.todo, p \in b.plans \cup b.held : f.key # p.key
    BY <1>4, <1>5, <1>6, <2>3 DEF OncePerDay
  <2>7. \A f, g \in b.todo : f.key = g.key => f = g
    BY <1>4, <2>3 DEF OncePerDay
  <2> QED BY <2>1, <2>4, <2>5, <2>6, <2>7 DEF OncePerDay
<1>8. b \in JobSet
  BY <1>3, NightlyReadStep DEF TypeOK
<1> QED BY <1>3, <1>5, <1>7, <1>8, SlotCounted DEF NightlyRead

(* A statement takes its row's lock only when no other transaction has it, *)
(* and the close it then holds is of a day still open.                     *)
LEMMA JobWriteCounted ==
  ASSUME NEW L \in SUBSET Keys, TypeOK, CoherentOn(L), Counted(L),
         NEW j \in Jobs, NEW p \in job[j].plans, JobWrite(j, p)
  PROVE  Counted(L)'
<1>1. PICK held : held = IF Locks(day[p.key], p) THEN job[j].held \cup {p}
                                                 ELSE job[j].held
  OBVIOUS
<1>2. PICK b : b = [job[j] EXCEPT !.plans = @ \ {p}, !.held = held]
  OBVIOUS
<1>3. job' = [job EXCEPT ![j] = b]
  BY <1>1, <1>2 DEF JobWrite, TypeOK
<1>4. job[j] \in JobSet /\ OncePerDay(job[j])
  BY DEF TypeOK, Counted, RowLocks
<1>5. /\ b.phase = job[j].phase /\ b.todo = job[j].todo
      /\ b.plans = job[j].plans \ {p} /\ b.held = held
  BY <1>2, <1>4 DEF JobSet
<1>6. held \subseteq job[j].held \cup {p}
  BY <1>1
<1>7. OncePerDay(b)
  BY <1>4, <1>5, <1>6 DEF OncePerDay
<1>8. \A q \in b.held : \/ q \in job[j].held
                       \/ /\ ~LockedByOther(j, q.key)
                          /\ q.op = "close" => day[q.key].check_out = NULL
  <2>1. Locks(day[p.key], p) /\ p.op = "close" => day[p.key].check_out = NULL
    BY DEF Locks, Run, CloseDay
  <2>2. ~LockedByOther(j, p.key)
    BY DEF JobWrite
  <2> QED BY <1>1, <1>5, <2>1, <2>2
<1>9. b \in JobSet
  BY <1>3, JobWriteStep DEF TypeOK
<1> QED BY <1>3, <1>7, <1>8, <1>9, SlotCounted DEF JobWrite

(* The commit closes what it reports, and no one else can have closed it.  *)
LEMMA JobCommitCounted ==
  ASSUME NEW L \in SUBSET Keys, TypeOK, CoherentOn(L), Counted(L),
         NEW j \in Jobs, JobCommit(j)
  PROVE  Counted(L)'
<1> DEFINE held == job[j].held
           written(k) == {p \in held : p.key = k}
           closed(k) == \E p \in written(k) : p.op = "close"
           pick(k) == CHOOSE p \in written(k) : TRUE
<1>1. /\ job[j] \in JobSet /\ JobInv(job[j], L) /\ OncePerDay(job[j])
      /\ \A p \in held : /\ p \in StmtSet
                         /\ p.op = "close" => day[p.key].check_out = NULL
  BY DEF TypeOK, CoherentOn, Counted, RowLocks, JobSet
<1>2. \A k \in Keys : day'[k] = IF written(k) = {} THEN day[k]
                                                  ELSE Run(day[k], pick(k))
  BY DEF JobCommit
<1>3. ASSUME NEW k \in Keys, closed(k)
      PROVE  day[k].check_out = NULL /\ day'[k].check_out # NULL
  <2>1. PICK p \in held : p.key = k /\ p.op = "close"
    BY <1>3
  <2>2. written(k) = {p}
    BY <1>1, <2>1 DEF OncePerDay
  <2>3. pick(k) = p
    BY <2>2
  <2>4. day[k].check_out = NULL
    BY <1>1, <2>1
  <2>5. p.out \in Int /\ p.out # NULL
    BY <1>1, <2>1, NullAssumption DEF StmtSet
  <2>6. day'[k] = Run(day[k], p)
    <3> HIDE DEF pick
    <3> QED BY <1>2, <2>2, <2>3
  <2>7. day[k] \in RowSet
    BY DEF TypeOK
  <2>8. day'[k] = [day[k] EXCEPT !.check_out = p.out]
    BY <2>1, <2>4, <2>6 DEF Run, CloseDay
  <2> QED BY <2>4, <2>5, <2>7, <2>8 DEF RowSet
<1>4. ASSUME NEW k \in Keys, ~closed(k)
      PROVE  day'[k].check_out = day[k].check_out
  <2>1. CASE written(k) = {}
    <3> HIDE DEF written, pick
    <3> QED BY <1>2, <2>1
  <2>2. CASE written(k) # {}
    <3>1. pick(k) \in written(k)
      BY <2>2
    <3> HIDE DEF pick
    <3>2. pick(k) \in StmtSet /\ pick(k).op # "close"
      BY <1>1, <1>4, <3>1
    <3>3. pick(k).op \in {"off", "flag"}
      BY <3>2 DEF StmtSet
    <3>4. day[k] \in RowSet /\ RowInv(k, day[k])
      BY DEF TypeOK, CoherentOn
    <3>5. day'[k] = Run(day[k], pick(k))
      <4> HIDE DEF written
      <4> QED BY <1>2, <2>2
    <3>6. day'[k] = EnsureOffDay(day[k]) \/ day'[k] = FlagDay(day[k])
      BY <3>3, <3>5 DEF Run
    <3> QED BY <3>4, <3>6, RequestWritesKeepCheckOut
  <2> QED BY <2>1, <2>2
<1>5. job'[j] = OffJob /\ \A i \in Jobs : i # j => job'[i] = job[i]
  BY DEF JobCommit, TypeOK
<1>6. RowLocks'
  <2>1. \A i \in Jobs : OncePerDay(job'[i])
    BY <1>5 DEF Counted, RowLocks, OffJob, OncePerDay
  <2>2. OffJob.held = {}
    BY DEF OffJob
  <2>3. \A i, h \in Jobs : i # h =>
          \A p \in job'[i].held, q \in job'[h].held : p.key # q.key
    BY <1>5, <2>2 DEF Counted, RowLocks
  <2>4. ASSUME NEW i \in Jobs, NEW p \in job'[i].held, p.op = "close"
        PROVE  day'[p.key].check_out = NULL
    <3>1. i # j /\ p \in job[i].held
      BY <1>5, <2>2, <2>4
    <3>2. p.key \in Keys /\ day[p.key].check_out = NULL
      BY <2>4, <3>1 DEF TypeOK, JobSet, StmtSet, Counted, RowLocks
    <3>3. ~closed(p.key)
      BY <3>1 DEF Counted, RowLocks
    <3> HIDE DEF closed
    <3> QED BY <1>4, <3>2, <3>3
  <2> QED BY <2>1, <2>3, <2>4 DEF RowLocks, OncePerDay
<1>7. \A k \in L : ReportedOnce(k)'
  <2>1. \A k \in Keys : reports'[k] = reports[k] + (IF closed(k) THEN 1 ELSE 0)
    BY DEF JobCommit
  <2>2. ASSUME NEW k \in L PROVE ReportedOnce(k)'
    <3>1. /\ reports[k] \in Nat /\ reports[k] <= 1
          /\ reports[k] = 1 <=> day[k].check_out # NULL
      BY DEF TypeOK, Counted, ReportedOnce
    <3> HIDE DEF closed
    <3>2. CASE closed(k)
      BY <1>3, <2>1, <3>1, <3>2 DEF ReportedOnce
    <3>3. CASE ~closed(k)
      BY <1>4, <2>1, <3>1, <3>3 DEF ReportedOnce
    <3> QED BY <3>2, <3>3
  <2> QED BY <2>2
<1> QED BY <1>6, <1>7 DEF Counted

LEMMA InitCounted ==
  ASSUME NEW L \in SUBSET Keys, Init
  PROVE  Counted(L)
BY DEF Init, Counted, RowLocks, OncePerDay, ReportedOnce, OffJob, NoRow

(* Every step keeps the locks disjoint and the count right.                *)
LEMMA CountedStep ==
  ASSUME NEW L \in SUBSET Keys, TypeOK, CoherentOn(L), Counted(L), [Next]_vars
  PROVE  Counted(L)'
<1>1. CASE UNCHANGED vars
  BY <1>1, QuietCounted DEF vars, Quiet
<1>2. CASE Tick
  BY <1>2, QuietCounted DEF Tick, Quiet
<1>3. ASSUME NEW u \in Users, EditRoster(u) PROVE Counted(L)'
  BY <1>3, QuietCounted DEF EditRoster, Quiet
<1>4. ASSUME NEW r \in Requests, RequestNext(r) PROVE Counted(L)'
  BY <1>4, RequestQuiet, QuietCounted
<1>5. ASSUME NEW s \in Schedulers, NEW kind \in Kinds, Fire(s, kind) PROVE Counted(L)'
  <2>1. CASE job' = job
    BY <1>5, <2>1, QuietCounted DEF Fire, Quiet
  <2>2. CASE job' = [job EXCEPT ![<<s, kind>>] = Begun]
    BY <1>5, <2>2, EmptySlotCounted DEF Fire, Jobs
  <2> QED BY <1>5, <2>1, <2>2 DEF Fire
<1>6. ASSUME NEW s \in Schedulers, NEW kind \in Kinds, Misfire(s, kind)
      PROVE  Counted(L)'
  BY <1>6, QuietCounted DEF Misfire, Quiet
<1>7. ASSUME NEW s \in Schedulers, Crash(s) PROVE Counted(L)'
  BY <1>7, CrashCounted
<1>8. ASSUME NEW s \in Schedulers, Restart(s) PROVE Counted(L)'
  BY <1>8, QuietCounted DEF Restart, Quiet
<1>9. ASSUME NEW d \in Debuggers, NEW kind \in Kinds, DebugRun(d, kind)
      PROVE  Counted(L)'
  BY <1>9, EmptySlotCounted DEF DebugRun, Jobs
<1>10. ASSUME NEW j \in Jobs, JobStep(j) \/ JobFail(j) PROVE Counted(L)'
  <2>1. ASSUME NEW e \in job[j].todo, NightlyRead(j, e) PROVE Counted(L)'
    BY <2>1, NightlyReadCounted
  <2>2. ASSUME NEW p \in job[j].plans, JobWrite(j, p) PROVE Counted(L)'
    BY <2>2, JobWriteCounted
  <2>3. CASE \/ DeadlockAbort(j) \/ JobFail(j)
             \/ \E e \in job[j].todo : NightlyRaise(j, e)
    BY <2>3, EmptySlotCounted DEF DeadlockAbort, JobFail, NightlyRaise
  <2>4. CASE NightlySelect(j)
    BY <2>4, NightlySelectCounted DEF NightlySelect
  <2> QED BY <1>10, <2>1, <2>2, <2>3, <2>4, IdleSelectCounted, JobCommitCounted
          DEF JobStep
<1> QED BY <1>1, <1>2, <1>3, <1>4, <1>5, <1>6, <1>7, <1>8, <1>9, <1>10
        DEF Next, SchedulerNext

(* README.md:99-100: whatever runs race on a day, the idle job, the nightly*)
(* job and debug runs that skip the advisory lock, exactly one committed   *)
(* run reports closing it.                                                 *)
THEOREM CloseReportedCorrect == Spec => []CloseReportedOnce
<1>1. Init => Counted(Keys)
  BY InitCounted
<1>2. TypeOK /\ Coherent /\ Counted(Keys) /\ [Next]_vars => Counted(Keys)'
  BY CountedStep DEF Coherent
<1>3. Counted(Keys) => CloseReportedOnce
  BY DEF Counted, CloseReportedOnce
<1> QED BY <1>1, <1>2, <1>3, Invariance, PTL DEF Spec

-----------------------------------------------------------------------------
(* When the nightly run flags a day.                                       *)

IsNightly(t) == (t + DisplayTz) % DayLen = NightlyTime

(* On the wall clock of every office, the nightly instant falls after the  *)
(* shift and before midnight.                                              *)
NightlyAfterShifts ==
  \A s \in Shifts : LET local == NightlyTime + s.tz - DisplayTz
                    IN  s.end_time < local /\ local < DayLen

(* It is then the same date at every office, and no shift of it runs on at *)
(* another.                                                                *)
LEMMA FirstNight ==
  ASSUME NightlyAfterShifts, NEW s \in Shifts, NEW z \in Shifts
  PROVE  LET t == NightlyTime - DisplayTz
         IN  LocalDate(s, t) = 0 /\ t > ShiftEnd(z, 0)
<1>1. /\ s.end_time \in Nat /\ z.end_time \in Nat /\ s.tz \in Int /\ z.tz \in Int
      /\ DayLen \in Nat \ {0} /\ NightlyTime \in Int /\ DisplayTz \in Int
  BY SystemAssumption, DayLenAssumption DEF RosterSet
<1>2. /\ s.end_time < NightlyTime + s.tz - DisplayTz
      /\ NightlyTime + s.tz - DisplayTz < DayLen
      /\ z.end_time < NightlyTime + z.tz - DisplayTz
  BY DEF NightlyAfterShifts
<1>3. PICK x \in 0..(DayLen - 1) : x = (NightlyTime - DisplayTz) + s.tz
  BY <1>1, <1>2
<1>4. x \div DayLen = 0
  BY <1>1, <1>3
<1>5. LocalDate(s, NightlyTime - DisplayTz) = 0
  BY <1>3, <1>4 DEF LocalDate
<1>6. NightlyTime - DisplayTz > ShiftEnd(z, 0)
  BY <1>1, <1>2 DEF ShiftEnd
<1> QED
  BY <1>5, <1>6

(* A day later it is the next date.                                        *)
LEMMA DayShifted ==
  ASSUME NEW x \in Int, NEW m \in Int
  PROVE  (x + m * DayLen) \div DayLen = (x \div DayLen) + m
BY DayLenAssumption

(* An instant is a day and a time of that day.                             *)
LEMMA DayAndTime ==
  ASSUME NEW x \in Int
  PROVE  \E m \in Int : x = m * DayLen + (x % DayLen)
<1>1. x \div DayLen \in Int /\ x = (x \div DayLen) * DayLen + (x % DayLen)
  BY DayLenAssumption
<1> QED
  BY <1>1

(* What holds of the nightly instant of one day holds of all.              *)
LEMMA NightlyInstant ==
  ASSUME NightlyAfterShifts, NEW t \in Int, IsNightly(t),
         NEW s \in Shifts, NEW z \in Shifts
  PROVE  t > ShiftEnd(z, LocalDate(s, t))
<1> DEFINE t0 == NightlyTime - DisplayTz
           d0 == LocalDate(s, t0)
<1>1. /\ s.tz \in Int /\ z.tz \in Int /\ z.end_time \in Int
      /\ DisplayTz \in Int /\ NightlyTime \in Int /\ DayLen \in Int
      /\ t0 \in Int /\ d0 \in Int /\ t0 > ShiftEnd(z, d0)
  BY FirstNight, ShiftTypes, SystemAssumption, DayLenAssumption DEF RosterSet
<1>2. PICK m \in Int : t + DisplayTz = m * DayLen + NightlyTime
  <2>1. PICK x \in Int : x = t + DisplayTz
    BY <1>1
  <2>2. x % DayLen = NightlyTime
    BY <2>1 DEF IsNightly
  <2> QED
    BY <2>1, <2>2, DayAndTime
<1>3. PICK y \in Int : y = m * DayLen
  BY <1>1
<1>4. t = t0 + y
  BY <1>1, <1>2, <1>3
<1>5. LocalDate(s, t) = d0 + m
  <2>1. t + s.tz = (t0 + s.tz) + m * DayLen /\ t0 + s.tz \in Int
    BY <1>1, <1>3, <1>4
  <2>2. (t + s.tz) \div DayLen = ((t0 + s.tz) \div DayLen) + m
    BY <2>1, DayShifted
  <2> QED
    BY <2>2 DEF LocalDate
<1> HIDE DEF t0, d0
<1>6. ShiftEnd(z, d0 + m) = ShiftEnd(z, d0) + y
  BY <1>1, <1>3 DEF ShiftEnd
<1>7. ShiftEnd(z, d0) \in Int
  BY <1>1 DEF ShiftEnd
<1> QED
  BY <1>1, <1>4, <1>5, <1>6, <1>7

(* No shift a day may have runs any more.                                  *)
Over(k) == \A s \in Shifts : clock > ShiftEnd(s, k[2])

(* A nightly run began at a nightly instant; it has on its list, and means *)
(* to flag, only days that are over.                                       *)
NightlyJob(j, b) ==
  /\ j[2] = "nightly" /\ b.phase = "begun" => IsNightly(b.now) /\ b.now <= clock
  /\ \A e \in b.todo : Over(e.key)
  /\ \A p \in b.plans \cup b.held : p.op = "flag" => Over(p.key)

NightlyInv == \A j \in Jobs : NightlyJob(j, job[j])

LEMMA OverStays ==
  ASSUME TypeOK, clock' \in 0..MaxTime, clock' >= clock, NEW k \in Keys, Over(k)
  PROVE  Over(k)'
<1>1. \A s \in Shifts : ShiftEnd(s, k[2]) \in Int
  BY KeyTypes, ShiftTypes
<1>2. clock \in Int /\ clock' \in Int
  BY SystemAssumption DEF TypeOK
<1> QED
  BY <1>1, <1>2 DEF Over

LEMMA NightlyInit == Init => NightlyInv
BY DEF Init, NightlyInv, NightlyJob, OffJob

(* Time that passes changes nothing about it.                              *)
LEMMA NightlyKept ==
  ASSUME TypeOK, NightlyInv, clock' \in 0..MaxTime, clock' >= clock,
         \A j \in Jobs : job'[j] = job[j] \/ NightlyJob(j, job[j])'
  PROVE  NightlyInv'
<1>1. ASSUME NEW j \in Jobs, job'[j] = job[j] PROVE NightlyJob(j, job[j])'
  <2>1. job[j] \in JobSet /\ NightlyJob(j, job[j])
    BY DEF TypeOK, NightlyInv
  <2>2. /\ \A e \in job[j].todo : e.key \in Keys
        /\ \A p \in job[j].plans \cup job[j].held : p.key \in Keys
    BY <2>1 DEF JobSet, EntrySet, StmtSet
  <2>3. job[j].now <= clock => job[j].now <= clock'
    <3>1. job[j].now \in Int /\ clock \in Int /\ clock' \in Int
      BY <2>1, SystemAssumption DEF JobSet, TypeOK
    <3> QED
      BY <3>1
  <2> QED
    BY <1>1, <2>1, <2>2, <2>3, OverStays DEF NightlyJob, IsNightly
<1> QED
  BY <1>1 DEF NightlyInv

(* The record of one job moves to b, at an instant.                        *)
LEMMA NightlySlot ==
  ASSUME TypeOK, NightlyInv, NEW j \in Jobs, NEW b, NightlyJob(j, b),
         job' = [job EXCEPT ![j] = b], UNCHANGED clock
  PROVE  NightlyInv'
<1>1. clock' \in 0..MaxTime /\ clock' >= clock
  BY SystemAssumption DEF TypeOK
<1>2. job'[j] = b /\ \A i \in Jobs : i # j => job'[i] = job[i]
  BY DEF TypeOK
<1>3. NightlyJob(j, job[j])'
  BY <1>2 DEF NightlyJob, Over, IsNightly
<1> QED
  BY <1>1, <1>2, <1>3, NightlyKept

(* A job that ends promises nothing.                                       *)
LEMMA NightlyEnds ==
  ASSUME TypeOK, NightlyInv, NEW j \in Jobs, job' = [job EXCEPT ![j] = OffJob],
         UNCHANGED clock
  PROVE  NightlyInv'
<1>1. NightlyJob(j, OffJob)
  BY DEF OffJob, NightlyJob
<1> QED
  BY <1>1, NightlySlot

(* The cron trigger starts the nightly run at a nightly instant.           *)
LEMMA FireNightly ==
  ASSUME TypeOK, NightlyInv, NEW s \in Schedulers, NEW kind \in Kinds,
         Fire(s, kind)
  PROVE  NightlyInv'
<1>1. CASE job' = [job EXCEPT ![<<s, kind>>] = Begun]
  <2>1. <<s, kind>> \in Jobs
    BY DEF Jobs
  <2>2. /\ Begun.now = clock /\ Begun.phase = "begun"
        /\ Begun.todo = {} /\ Begun.plans = {} /\ Begun.held = {}
    BY DEF Begun, OffJob
  <2>3. kind = "nightly" => IsNightly(clock)
    BY DEF Fire, Due, IsNightly
  <2>4. clock <= clock
    BY SystemAssumption DEF TypeOK
  <2>5. NightlyJob(<<s, kind>>, Begun)
    BY <2>2, <2>3, <2>4 DEF NightlyJob
  <2> QED
    BY <1>1, <2>1, <2>5, NightlySlot DEF Fire
<1>2. CASE job' = job
  <2>1. clock' \in 0..MaxTime /\ clock' >= clock
    BY SystemAssumption DEF Fire, TypeOK
  <2> QED
    BY <1>2, <2>1, NightlyKept
<1> QED
  BY <1>1, <1>2 DEF Fire

(* The idle query plans no flag.                                           *)
LEMMA IdleSelectNightly ==
  ASSUME TypeOK, NightlyInv, NEW j \in Jobs, IdleSelect(j)
  PROVE  NightlyInv'
<1> DEFINE close(k) == [op |-> "close", key |-> k,
                        out |-> Earlier(day[k].last_seen, ShiftEnd(roster[k[1]], k[2]))]
           stale == {k \in Keys : Stale(k, job[j].now - IdleMinutes)}
<1>1. PICK plans : plans = {close(k) : k \in stale}
  OBVIOUS
<1>2. PICK b : b = [job[j] EXCEPT !.phase = "running", !.plans = plans]
  OBVIOUS
<1>3. job' = [job EXCEPT ![j] = b]
  BY <1>1, <1>2 DEF IdleSelect, TypeOK
<1>4. \A p \in plans : p.op = "close"
  BY <1>1
<1>5. job[j] \in JobSet /\ NightlyJob(j, job[j])
  BY DEF TypeOK, NightlyInv
<1>6. /\ b.phase = "running" /\ b.todo = job[j].todo
      /\ b.plans = plans /\ b.held = job[j].held
  BY <1>2, <1>5 DEF JobSet
<1>7. NightlyJob(j, b)
  BY <1>4, <1>5, <1>6 DEF NightlyJob
<1> QED
  BY <1>3, <1>7, NightlySlot DEF IdleSelect

(* The nightly query lists the date that the nightly instant is on, office *)
(* by office.                                                              *)
LEMMA NightlySelectNightly ==
  ASSUME NightlyAfterShifts, TypeOK, NightlyInv, NEW j \in Jobs,
         NEW E \in SUBSET Users, NightlySelectOf(j, E)
  PROVE  NightlyInv'
<1> DEFINE date(u) == LocalDate(roster[u], job[j].now)
           entry(u) == [key |-> <<u, date(u)>>, end |-> ShiftEnd(roster[u], date(u)),
                        kind |-> DayKind(roster[u], date(u))]
<1>1. PICK todo : todo = {entry(u) : u \in E}
  OBVIOUS
<1>2. PICK b : b = [job[j] EXCEPT !.phase = "running", !.todo = todo]
  OBVIOUS
<1>3. job' = [job EXCEPT ![j] = b]
  BY <1>1, <1>2 DEF NightlySelectOf, TypeOK
<1>4. /\ job[j] \in JobSet /\ NightlyJob(j, job[j])
      /\ j[2] = "nightly" /\ job[j].phase = "begun"
  BY DEF TypeOK, NightlyInv, NightlySelectOf
<1>5. /\ job[j].now \in Int /\ clock \in Int /\ job[j].now <= clock
      /\ IsNightly(job[j].now)
  BY <1>4, SystemAssumption DEF JobSet, NightlyJob, TypeOK
<1>6. ASSUME NEW u \in Users PROVE Over(entry(u).key)
  <2>1. roster[u] \in Shifts
    BY DEF TypeOK
  <2>2. ASSUME NEW z \in Shifts PROVE clock > ShiftEnd(z, date(u))
    <3>1. job[j].now > ShiftEnd(z, date(u))
      BY <1>5, <2>1, NightlyInstant
    <3>2. ShiftEnd(z, date(u)) \in Int
      BY <1>5, <2>1, ShiftTypes
    <3> HIDE DEF date
    <3> QED
      BY <1>5, <3>1, <3>2
  <2> QED
    BY <2>2 DEF Over
<1>7. \A e \in todo : Over(e.key)
  BY <1>1, <1>6
<1>8. /\ b.phase = "running" /\ b.todo = todo
      /\ b.plans = job[j].plans /\ b.held = job[j].held
  BY <1>2, <1>4 DEF JobSet
<1>9. NightlyJob(j, b)
  BY <1>4, <1>7, <1>8 DEF NightlyJob
<1> QED
  BY <1>3, <1>9, NightlySlot DEF NightlySelectOf

(* The loop plans for the day it takes off the list.                       *)
LEMMA NightlyReadNightly ==
  ASSUME NEW L \in SUBSET Keys, TypeOK, CoherentOn(L), NightlyInv,
         NEW j \in Jobs, NEW e \in job[j].todo, NightlyRead(j, e)
  PROVE  NightlyInv'
<1>1. PICK plans : plans = NightlyPlan(e, day[e.key])
  OBVIOUS
<1>2. PICK b : b = [job[j] EXCEPT !.todo = @ \ {e}, !.plans = plans]
  OBVIOUS
<1>3. job' = [job EXCEPT ![j] = b]
  BY <1>1, <1>2 DEF NightlyRead, TypeOK
<1>4. /\ job[j] \in JobSet /\ NightlyJob(j, job[j]) /\ JobInv(job[j], L)
      /\ e \in EntrySet
  BY DEF TypeOK, NightlyInv, CoherentOn, JobSet
<1>5. \A p \in plans : p.key = e.key
  BY <1>1, <1>4, NightlyPlanOK DEF JobInv
<1>6. /\ b.phase = job[j].phase /\ b.now = job[j].now /\ b.plans = plans
      /\ b.todo = job[j].todo \ {e} /\ b.held = job[j].held
  BY <1>2, <1>4 DEF JobSet
<1>7. NightlyJob(j, b)
  BY <1>4, <1>5, <1>6 DEF NightlyJob
<1> QED
  BY <1>3, <1>7, NightlySlot DEF NightlyRead

LEMMA JobWriteNightly ==
  ASSUME TypeOK, NightlyInv, NEW j \in Jobs, NEW p \in job[j].plans, JobWrite(j, p)
  PROVE  NightlyInv'
<1>1. PICK held : held = IF Locks(day[p.key], p) THEN job[j].held \cup {p}
                                                 ELSE job[j].held
  OBVIOUS
<1>2. PICK b : b = [job[j] EXCEPT !.plans = @ \ {p}, !.held = held]
  OBVIOUS
<1>3. job' = [job EXCEPT ![j] = b]
  BY <1>1, <1>2 DEF JobWrite, TypeOK
<1>4. job[j] \in JobSet /\ NightlyJob(j, job[j])
  BY DEF TypeOK, NightlyInv
<1>5. /\ b.phase = job[j].phase /\ b.now = job[j].now /\ b.todo = job[j].todo
      /\ b.plans \cup b.held \subseteq job[j].plans \cup job[j].held
  BY <1>1, <1>2, <1>4 DEF JobSet
<1>6. NightlyJob(j, b)
  BY <1>4, <1>5 DEF NightlyJob
<1> QED
  BY <1>3, <1>6, NightlySlot DEF JobWrite

(* A crash ends the jobs of its process, and no debugger starts one.       *)
LEMMA NightlyStep ==
  ASSUME Debuggers = {}, NightlyAfterShifts,
         NEW L \in SUBSET Keys, TypeOK, CoherentOn(L), NightlyInv, [Next]_vars
  PROVE  NightlyInv'
<1>0. UNCHANGED clock => clock' \in 0..MaxTime /\ clock' >= clock
  BY SystemAssumption DEF TypeOK
<1>1. CASE UNCHANGED <<clock, job>>
  BY <1>0, <1>1, NightlyKept
<1>2. CASE UNCHANGED vars
  BY <1>1, <1>2 DEF vars
<1>3. CASE Tick
  <2>1. clock' \in 0..MaxTime /\ clock' >= clock
    BY <1>3, SystemAssumption DEF Tick, TypeOK
  <2> QED
    BY <1>3, <2>1, NightlyKept DEF Tick
<1>4. ASSUME NEW u \in Users, EditRoster(u) PROVE NightlyInv'
  BY <1>1, <1>4 DEF EditRoster
<1>5. ASSUME NEW r \in Requests, RequestNext(r) PROVE NightlyInv'
  BY <1>1, <1>5, RequestKeepsJobs
<1>6. ASSUME NEW s \in Schedulers, SchedulerNext(s) PROVE NightlyInv'
  <2>1. CASE Crash(s)
    <3>1. \A j \in Jobs : job'[j] = job[j] \/ job'[j] = OffJob
      BY <2>1 DEF Crash
    <3>2. \A j \in Jobs : job'[j] = OffJob => NightlyJob(j, job[j])'
      BY DEF OffJob, NightlyJob
    <3> QED
      BY <1>0, <2>1, <3>1, <3>2, NightlyKept DEF Crash
  <2>2. CASE Restart(s) \/ \E kind \in Kinds : Misfire(s, kind)
    BY <1>1, <2>2 DEF Restart, Misfire
  <2> QED
    BY <1>6, <2>1, <2>2, FireNightly DEF SchedulerNext
<1>7. ASSUME NEW j \in Jobs, JobStep(j) \/ JobFail(j) PROVE NightlyInv'
  <2>1. CASE \/ JobCommit(j) \/ DeadlockAbort(j) \/ JobFail(j)
             \/ \E e \in job[j].todo : NightlyRaise(j, e)
    BY <2>1, NightlyEnds DEF JobCommit, DeadlockAbort, JobFail, NightlyRaise
  <2>2. CASE NightlySelect(j)
    BY <2>2, NightlySelectNightly DEF NightlySelect
  <2> QED
    BY <1>7, <2>1, <2>2, IdleSelectNightly, NightlyReadNightly, JobWriteNightly
       DEF JobStep
<1> QED
  BY <1>2, <1>3, <1>4, <1>5, <1>6, <1>7 DEF Next

(* A step that is no request's flags only days that are over and on which  *)
(* nobody came.                                                            *)
FlagsOnlyOver ==
  UNCHANGED req
  => \A k \in Keys : day'[k].status = "flagged" /\ day[k].status # "flagged"
                     => day[k].check_in = NULL /\ Over(k)

(* A request that flags a day, an admin's, ends with that.                 *)
LEMMA RequestFlags ==
  ASSUME TypeOK, NEW r \in Requests, RequestNext(r)
  PROVE  FlagsOnlyOver
<1>1. CASE UNCHANGED day
  BY <1>1 DEF FlagsOnlyOver
<1>2. ASSUME NEW u \in Users, NEW m \in Methods, Attempt(r, u, m)
      PROVE  FlagsOnlyOver
  <2> DEFINE k == <<u, LocalDate(roster[u], clock)>>
  <2>1. EnsureOffDay(day[k]).status = "flagged" => day[k].status = "flagged"
    BY DEF EnsureOffDay, NoRow
  <2>2. CASE day' = [day EXCEPT ![k] = EnsureOffDay(@)]
    <3> HIDE DEF k
    <3> QED
      BY <2>1, <2>2 DEF FlagsOnlyOver, TypeOK
  <2> QED
    BY <1>1, <1>2, <2>2 DEF Attempt
<1>3. CASE ApplyPresence(r) \/ HeartbeatCommit(r) \/ DecideCommit(r)
  <2>1. req[r].pc \in {"stamped", "beat", "decided"}
    BY <1>3 DEF ApplyPresence, HeartbeatCommit, DecideCommit
  <2>2. req'[r].pc \in {"free", "done"}
    BY <1>3 DEF ApplyPresence, HeartbeatCommit, DecideCommit, Finished, FreeReq, TypeOK
  <2> QED
    BY <2>1, <2>2 DEF FlagsOnlyOver
<1> QED
  BY <1>1, <1>2, <1>3 DEF RequestNext, RequestStep, Stamp, HeartbeatRead,
     NotLocated, Drop, Heartbeat, Decide

(* A commit flags the days whose flag it holds.                            *)
LEMMA CommitFlags ==
  ASSUME TypeOK, NightlyInv, NEW j \in Jobs, JobCommit(j)
  PROVE  FlagsOnlyOver
<1> DEFINE written(k) == {p \in job[j].held : p.key = k}
           pick(k) == CHOOSE p \in written(k) : TRUE
<1>1. \A k \in Keys : day'[k] = IF written(k) = {} THEN day[k]
                                                  ELSE Run(day[k], pick(k))
  BY DEF JobCommit
<1>2. \A k \in Keys : written(k) # {} => pick(k) \in written(k)
  OBVIOUS
<1>3. \A p \in job[j].held : p.op \in {"off", "flag", "close"}
  BY DEF TypeOK, JobSet, StmtSet
<1>4. ASSUME NEW row \in RowSet, NEW p \in job[j].held,
             Run(row, p).status = "flagged", row.status # "flagged"
      PROVE  p.op = "flag" /\ row.check_in = NULL
  BY <1>3, <1>4 DEF Run, EnsureOffDay, FlagDay, CloseDay, NoRow, RowSet
<1>5. ASSUME NEW k \in Keys, day'[k].status = "flagged", day[k].status # "flagged"
      PROVE  day[k].check_in = NULL /\ Over(k)
  <2>1. written(k) # {} /\ day'[k] = Run(day[k], pick(k))
    BY <1>1, <1>5
  <2>2. PICK p : p = pick(k)
    OBVIOUS
  <2>3. p \in job[j].held /\ p.key = k
    BY <1>2, <2>1, <2>2
  <2>4. p.op = "flag" /\ day[k].check_in = NULL
    BY <1>4, <1>5, <2>1, <2>2, <2>3 DEF TypeOK
  <2> QED
    BY <2>3, <2>4 DEF NightlyInv, NightlyJob
<1> QED
  BY <1>5 DEF FlagsOnlyOver

LEMMA FlagsStep ==
  ASSUME TypeOK, NightlyInv, [Next]_vars
  PROVE  FlagsOnlyOver
<1>1. CASE UNCHANGED day
  BY <1>1 DEF FlagsOnlyOver
<1>2. ASSUME NEW j \in Jobs, JobStep(j) \/ JobFail(j) PROVE FlagsOnlyOver
  BY <1>1, <1>2, CommitFlags DEF JobStep, JobFail, IdleSelect, NightlySelect,
     NightlySelectOf, NightlyRead, NightlyRaise, JobWrite, DeadlockAbort
<1>3. ASSUME NEW s \in Schedulers, SchedulerNext(s) PROVE FlagsOnlyOver
  BY <1>1, <1>3 DEF SchedulerNext, Fire, Misfire, Crash, Restart
<1> QED
  BY <1>1, <1>2, <1>3, RequestFlags DEF Next, Tick, EditRoster, DebugRun, vars

(* README.md:70, "nightly resolution (23:55 local)".  Where its instant is *)
(* after the shift and before midnight on the wall clock of every office,  *)
(* and nobody starts it by hand, no job flags a day of somebody who came,  *)
(* nor any day before the shifts of all offices have ended, whatever edits *)
(* of rosters, check-ins, crashes and delays come between.                 *)
THEOREM NightlyCorrect ==
  ASSUME Debuggers = {}, NightlyAfterShifts
  PROVE  Spec => NightlyActsAfterShift
<1> DEFINE A == UNCHANGED req
                => \A k \in Keys :
                     day'[k].status = "flagged" /\ day[k].status # "flagged"
                     => /\ day[k].check_in = NULL
                        /\ \A s \in Shifts : clock > ShiftEnd(s, k[2])
<1>1. Init => NightlyInv
  BY NightlyInit
<1>2. TypeOK /\ Coherent /\ NightlyInv /\ [Next]_vars => NightlyInv'
  BY NightlyStep DEF Coherent
<1>3. TypeOK /\ NightlyInv /\ [Next]_vars => [A]_vars
  BY FlagsStep DEF FlagsOnlyOver, Over
<1> HIDE DEF A
<1>4. NightlyActsAfterShift <=> [][A]_vars
  BY DEF NightlyActsAfterShift, A
<1> QED
  BY <1>1, <1>2, <1>3, <1>4, Invariance, PTL DEF Spec
=============================================================================
