----------------------------- MODULE Attendance -----------------------------
(* The attendance system over its one database: requests of the API        *)
(* workers (app/routers/attendance.py, app/routers/admin.py), the dedicated*)
(* scheduler processes (app/scheduler.py, app/nightly_service.py) and the  *)
(* unlocked job runs of app/routers/debug.py.                              *)
(*                                                                         *)
(* Grain.  A request writes at most one row of attendance_days and commits *)
(* right after, so its write and commit are one step; what it read or      *)
(* stamped before is a step of its own.  A job's transaction writes many   *)
(* rows: each statement is a step that takes the row's lock, nothing it    *)
(* wrote is visible before its commit, and a lock blocks every other       *)
(* writer of the row until then (PostgreSQL, READ COMMITTED).              *)
EXTENDS DayRow

CONSTANTS
  Users,          \* active employees, each with an assigned roster
  Shifts,         \* the settings a roster (with its office) may be given
  Requests,       \* API requests in flight at once
  Schedulers,     \* scheduler processes
  Debuggers,      \* concurrent runs of a job body without its lock
  Ops,            \* the operations the environment of an instance calls
  MaxTime,        \* bound: the clock stops here
  Latency,        \* bound: instants a transaction may outlive its reading
                  \*        of the clock; MaxTime + 1 leaves it unbounded
  MaxFaults,      \* bound: crashes, misfires and failures of scheduled jobs
  IdleMinutes,    \* checkout_idle_minutes
  IdlePeriod,     \* idle_checkout fires at the multiples of it
  NightlyTime,    \* nightly fires at this time of the display day
  DisplayTz       \* offset of DISPLAY_TZ, the scheduler's time zone

AllOps == {"wifi", "gps", "heartbeat", "edit"} \cup Verdicts

ASSUME SystemAssumption ==
  /\ Shifts \subseteq RosterSet /\ Shifts # {}
  /\ MaxTime \in Nat /\ Latency \in Nat \ {0} /\ MaxFaults \in Nat
  /\ IdleMinutes \in Nat /\ IdlePeriod \in Nat \ {0}
  /\ NightlyTime \in 0..(DayLen - 1) /\ DisplayTz \in Int
  /\ Schedulers \cap Debuggers = {}
  /\ Ops \subseteq AllOps

Dates == {LocalDate(s, t) : s \in Shifts, t \in 0..MaxTime}
Keys == Users \X Dates        \* UNIQUE (user_id, date)
Kinds == {"idle", "nightly"}
Jobs == (Schedulers \cup Debuggers) \X Kinds

VARIABLES
  clock,     \* now_utc(), the same for every process
  roster,    \* roster[u]: the current settings of u's assigned roster
  day,       \* day[k]: the committed row of k
  req,       \* req[r]: what request r has read and decided so far
  job,       \* job[j]: the transaction of job j
  up,        \* the scheduler processes that run
  fired,     \* fired[s]: the jobs whose cron instant s has dealt with now
  faults,    \* faults so far
  reports    \* reports[k]: how many committed runs counted k as closed

vars == <<clock, roster, day, req, job, up, fired, faults, reports>>

(* A request slot keeps the answer of a located check-in until it is used  *)
(* again; every other answer changes nothing more and is left out.         *)
FreeReq == [pc |-> "free"]
Available(r) == req[r].pc \in {"free", "done"}
Finished(k, result) == [pc |-> "done", key |-> k, result |-> result]

OffJob == [phase |-> "off", now |-> 0, todo |-> {}, plans |-> {}, held |-> {}]
Running(j) == job[j].phase # "off"

(* Row locks live as long as the transaction that took them.               *)
Locked(k) == \E j \in Jobs : \E p \in job[j].held : p.key = k
LockedByOther(j, k) ==
  \E i \in Jobs \ {j} : \E p \in job[i].held : p.key = k

(* pg_try_advisory_xact_lock, one key per kind: held by the scheduler      *)
(* transaction that took it, until that transaction ends.                  *)
LockFree(kind) == \A s \in Schedulers : ~Running(<<s, kind>>)

\* mutant: the cron trigger without its time zone
DueInUtc(kind) ==
  IF kind = "idle" THEN clock % IdlePeriod = 0
                   ELSE clock % DayLen = NightlyTime

(* The two CronTriggers.                                                   *)
Due(kind) ==
  IF kind = "idle" THEN clock % IdlePeriod = 0
                   ELSE (clock + DisplayTz) % DayLen = NightlyTime

Init ==
  /\ clock = 0
  /\ roster \in [Users -> Shifts]
  /\ day = [k \in Keys |-> NoRow]
  /\ req = [r \in Requests |-> FreeReq]
  /\ job = [j \in Jobs |-> OffJob]
  /\ up = Schedulers
  /\ fired = [s \in Schedulers |-> {}]
  /\ faults = 0
  /\ reports = [k \in Keys |-> 0]

-----------------------------------------------------------------------------
(* Time and administration of the rosters.                                 *)

Prompt(t) == clock - t < Latency

(* Time passes once every running scheduler has dealt with what is due, and*)
(* no transaction is older than Latency allows.                            *)
Tick ==
  /\ clock < MaxTime
  /\ \A r \in Requests : ~Available(r) => Prompt(req[r].now)
  /\ \A j \in Jobs : Running(j) => Prompt(job[j].now)
  /\ \A s \in up, kind \in Kinds : Due(kind) => kind \in fired[s]
  /\ clock' = clock + 1
  /\ fired' = [s \in Schedulers |-> {}]
  /\ UNCHANGED <<roster, day, req, job, up, faults, reports>>

EditRoster(u) ==
  /\ "edit" \in Ops
  /\ \E s \in Shifts \ {roster[u]} : roster' = [roster EXCEPT ![u] = s]
  /\ UNCHANGED <<clock, day, req, job, up, fired, faults, reports>>

-----------------------------------------------------------------------------
(* Requests.                                                               *)

Others == <<clock, roster, job, up, fired, faults, reports>>

(* _guard_shift: the first of a request's two readings of the clock.  A    *)
(* roster whose evaluation raises leaves no trace: it has no branch here.  *)
Attempt(r, u, method) ==
  LET s == roster[u]
      k == <<u, LocalDate(s, clock)>>
      phase == Phase(s, clock)
  IN  /\ Available(r)
      /\ method \in Ops
      /\ \/ /\ phase = "off_day"
            /\ day[k].status = "none" => ~Locked(k)
            /\ day' = [day EXCEPT ![k] = EnsureOffDay(@)]
            /\ req' = [req EXCEPT ![r] = FreeReq]
         \/ /\ phase \in {"before_shift", "after_shift"}
            /\ req' = [req EXCEPT ![r] = FreeReq]
            /\ UNCHANGED day
         \/ /\ phase = "in_shift"
            /\ req' = [req EXCEPT ![r] = [pc |-> "guarded", key |-> k, now |-> clock,
                                          shift |-> s, method |-> method]]
            /\ UNCHANGED day
      /\ UNCHANGED Others

(* The IP is no office's, or the fix is weak, far away or incomparable.    *)
NotLocated(r) ==
  /\ req[r].pc = "guarded"
  /\ req' = [req EXCEPT ![r] = FreeReq]
  /\ UNCHANGED <<day, Others>>

(* The request is located; its event is stamped with a second now_utc().   *)
Stamp(r) ==
  /\ req[r].pc = "guarded"
  /\ req' = [req EXCEPT ![r] = [pc |-> "stamped", key |-> req[r].key,
                                shift |-> req[r].shift,
                                method |-> req[r].method, now |-> clock]]
  /\ UNCHANGED <<day, Others>>

ApplyPresence(r) ==
  LET q == req[r]
      k == q.key
      first == Accepts(day[k])
  IN  /\ q.pc = "stamped"
      /\ ~Locked(k)
      /\ day' = [day EXCEPT ![k] = CheckIn(@, q.shift, k[2], q.method, q.now)]
      /\ req' = [req EXCEPT ![r] =
                   IF first THEN Finished(k, "checked_in")
                            ELSE Finished(k, "already_checked_in")]
      /\ UNCHANGED Others

(* ip: the source is an office network.  inside: the payload carries an    *)
(* accurate fix within the radius of the nearest office.                   *)
Heartbeat(r, u, ip, inside) ==
  LET s == roster[u]
  IN  /\ Available(r)
      /\ "heartbeat" \in Ops
      /\ Phase(s, clock) = "in_shift"
      /\ req' = [req EXCEPT ![r] =
                   [pc |-> "beating", key |-> <<u, LocalDate(s, clock)>>,
                    now |-> clock, ip |-> ip, inside |-> inside]]
      /\ UNCHANGED <<day, Others>>

(* A heartbeat that is not checked in, or that proves nothing, ends here.  *)
HeartbeatRead(r) ==
  LET q == req[r]
      row == day[q.key]
      proves == row.check_in # NULL /\ (q.ip \/ (row.method = "gps" /\ q.inside))
  IN  /\ q.pc = "beating"
      /\ req' = [req EXCEPT ![r] =
                   IF proves
                   THEN [pc |-> "beat", key |-> q.key, now |-> q.now,
                         upgrade |-> q.ip /\ row.method = "gps"]
                   ELSE FreeReq]
      /\ UNCHANGED <<day, Others>>

HeartbeatCommit(r) ==
  LET q == req[r]
  IN  /\ q.pc = "beat"
      /\ ~Locked(q.key)
      /\ day' = [day EXCEPT ![q.key] = Advance(@, q.now, q.upgrade)]
      /\ req' = [req EXCEPT ![r] = FreeReq]
      /\ UNCHANGED Others

(* verify_gps_day (approve, query) and resolve_flagged_day (the others)    *)
(* load the row, then flush what they changed.  Only the first has a guard *)
(* on what it loaded.                                                      *)
Decide(r, k, verdict) ==
  /\ Available(r)
  /\ verdict \in Ops
  /\ day[k].status # "none"
  /\ verdict \in {"approve", "query"} => day[k].verification = "gps_pending"
  /\ req' = [req EXCEPT ![r] =
               [pc |-> "decided", key |-> k, now |-> clock, verdict |-> verdict,
                moved |-> day[k].status # VerdictStatus(verdict)]]
  /\ UNCHANGED <<day, Others>>

DecideCommit(r) ==
  LET q == req[r]
  IN  /\ q.pc = "decided"
      /\ ~Locked(q.key)
      /\ day' = [day EXCEPT ![q.key] = Decided(@, q.verdict, q.moved)]
      /\ req' = [req EXCEPT ![r] = FreeReq]
      /\ UNCHANGED Others

(* The worker dies or the connection is lost: the transaction rolls back.  *)
Drop(r) ==
  /\ ~Available(r)
  /\ req' = [req EXCEPT ![r] = FreeReq]
  /\ UNCHANGED <<day, Others>>

RequestStep(r) ==
  \/ Stamp(r) \/ ApplyPresence(r)
  \/ HeartbeatRead(r) \/ HeartbeatCommit(r) \/ DecideCommit(r)

RequestNext(r) ==
  \/ \E u \in Users, m \in Methods : Attempt(r, u, m)
  \/ \E u \in Users, ip, inside \in BOOLEAN : Heartbeat(r, u, ip, inside)
  \/ \E k \in Keys, v \in Verdicts : Decide(r, k, v)
  \/ RequestStep(r) \/ NotLocated(r) \/ Drop(r)

-----------------------------------------------------------------------------
(* Scheduled jobs.                                                         *)

Begun == [OffJob EXCEPT !.phase = "begun", !.now = clock]

(* A cron instant: the job starts and takes the lock, or is skipped because*)
(* another process holds it or its own last run has not ended.             *)
Fire(s, kind) ==
  /\ s \in up /\ Due(kind) /\ kind \notin fired[s]
  /\ fired' = [fired EXCEPT ![s] = @ \cup {kind}]
  /\ job' = IF LockFree(kind) THEN [job EXCEPT ![<<s, kind>>] = Begun] ELSE job
  /\ UNCHANGED <<clock, roster, day, req, up, faults, reports>>

(* The loop was busy past the misfire grace: the run is dropped.           *)
Misfire(s, kind) ==
  /\ s \in up /\ Due(kind) /\ kind \notin fired[s]
  /\ faults < MaxFaults
  /\ faults' = faults + 1
  /\ fired' = [fired EXCEPT ![s] = @ \cup {kind}]
  /\ UNCHANGED <<clock, roster, day, req, job, up, reports>>

(* /debug/run-nightly and /debug/run-idle-checkout: the body, no lock.     *)
DebugRun(d, kind) ==
  /\ ~Running(<<d, kind>>)
  /\ job' = [job EXCEPT ![<<d, kind>>] = Begun]
  /\ UNCHANGED <<clock, roster, day, req, up, fired, faults, reports>>

\* mutant: the idle query looks at today only
StaleToday(k, cutoff) ==
  /\ day[k].check_in # NULL /\ day[k].check_out = NULL
  /\ day[k].last_seen < cutoff
  /\ k[2] = LocalDate(roster[k[1]], clock)

(* The WHERE of run_idle_checkout's SELECT: any date, any open day.  Its   *)
(* inner join on the assigned roster finds all of Users: each has one here.*)
Stale(k, cutoff) ==
  /\ day[k].check_in # NULL /\ day[k].check_out = NULL
  /\ day[k].last_seen < cutoff

(* run_idle_checkout's SELECT plans one compare-and-set per stale day.     *)
IdleSelect(j) ==
  LET stale == {k \in Keys : Stale(k, job[j].now - IdleMinutes)}
      close(k) == [op |-> "close", key |-> k,
                   out |-> Earlier(day[k].last_seen,
                                   ShiftEnd(roster[k[1]], k[2]))]
  IN  /\ j[2] = "idle" /\ job[j].phase = "begun"
      /\ job' = [job EXCEPT ![j].phase = "running",
                            ![j].plans = {close(k) : k \in stale}]
      /\ UNCHANGED <<clock, roster, day, req, up, fired, faults, reports>>

(* run_nightly_resolution's SELECT loads the employees with their rosters. *)
NightlySelectOf(j, employees) ==
  LET entry(u) == LET s == roster[u]
                      date == LocalDate(s, job[j].now)
                  IN  [key |-> <<u, date>>, end |-> ShiftEnd(s, date),
                       kind |-> DayKind(s, date)]
  IN  /\ j[2] = "nightly" /\ job[j].phase = "begun"
      /\ job' = [job EXCEPT ![j].phase = "running",
                            ![j].todo = {entry(u) : u \in employees}]
      /\ UNCHANGED <<clock, roster, day, req, up, fired, faults, reports>>

NightlySelect(j) == NightlySelectOf(j, Users)

(* What the loop body of run_nightly_resolution does with one employee     *)
(* whose row it reads as row.                                              *)
NightlyPlan(e, row) ==
  IF e.kind = "off" THEN {[op |-> "off", key |-> e.key, out |-> NULL]}
  ELSE IF row.check_in = NULL
  THEN {[op |-> "flag", key |-> e.key, out |-> NULL]}
  ELSE IF row.check_out = NULL
  THEN {[op |-> "close", key |-> e.key, out |-> Earlier(row.last_seen, e.end)]}
  ELSE {}

NightlyRead(j, e) ==
  /\ e \in job[j].todo /\ job[j].plans = {} /\ e.kind # "error"
  /\ job' = [job EXCEPT ![j].todo = @ \ {e},
                        ![j].plans = NightlyPlan(e, day[e.key])]
  /\ UNCHANGED <<clock, roster, day, req, up, fired, faults, reports>>

(* working_days is null: the exception ends the loop and takes everything  *)
(* the run has written so far with it.                                     *)
NightlyRaise(j, e) ==
  /\ e \in job[j].todo /\ job[j].plans = {} /\ e.kind = "error"
  /\ job' = [job EXCEPT ![j] = OffJob]
  /\ UNCHANGED <<clock, roster, day, req, up, fired, faults, reports>>

(* One statement: it waits for the row's lock, then sees the committed row.*)
JobWrite(j, p) ==
  /\ p \in job[j].plans
  /\ ~LockedByOther(j, p.key)
  /\ job' = [job EXCEPT ![j].plans = @ \ {p},
                        ![j].held = IF Locks(day[p.key], p) THEN @ \cup {p}
                                                            ELSE @]
  /\ UNCHANGED <<clock, roster, day, req, up, fired, faults, reports>>

(* The commit makes every write visible and ends the locks; the run reports*)
(* the days its compare-and-sets closed.                                   *)
JobCommit(j) ==
  LET held == job[j].held
      written(k) == {p \in held : p.key = k}
      closed(k) == \E p \in written(k) : p.op = "close"
  IN  /\ job[j].phase = "running" /\ job[j].todo = {} /\ job[j].plans = {}
      /\ day' = [k \in Keys |-> IF written(k) = {} THEN day[k]
                                ELSE Run(day[k], CHOOSE p \in written(k) : TRUE)]
      /\ reports' = [k \in Keys |-> reports[k] + IF closed(k) THEN 1 ELSE 0]
      /\ job' = [job EXCEPT ![j] = OffJob]
      /\ UNCHANGED <<clock, roster, req, up, fired, faults>>

WaitsFor(i, j) ==
  /\ i # j
  /\ \E p \in job[i].plans : \E h \in job[j].held : p.key = h.key

(* PostgreSQL breaks a cycle of waiting transactions by aborting one.      *)
DeadlockAbort(j) ==
  /\ \E i \in Jobs : WaitsFor(i, j) /\ WaitsFor(j, i)
  /\ job' = [job EXCEPT ![j] = OffJob]
  /\ UNCHANGED <<clock, roster, day, req, up, fired, faults, reports>>

(* Any other exception in the body: run_locked rolls back and re-raises.   *)
JobFail(j) ==
  /\ Running(j) /\ faults < MaxFaults
  /\ faults' = faults + 1
  /\ job' = [job EXCEPT ![j] = OffJob]
  /\ UNCHANGED <<clock, roster, day, req, up, fired, reports>>

(* The scheduler process dies: its transactions and locks go with it.      *)
Crash(s) ==
  /\ s \in up /\ faults < MaxFaults
  /\ faults' = faults + 1
  /\ up' = up \ {s}
  /\ job' = [j \in Jobs |-> IF j[1] = s THEN OffJob ELSE job[j]]
  /\ UNCHANGED <<clock, roster, day, req, fired, reports>>

(* Restart=always.  Jobs live in memory: the new process waits for the next*)
(* cron instants and never makes up for the one it was down for.           *)
Restart(s) ==
  /\ s \in Schedulers \ up
  /\ up' = up \cup {s}
  /\ fired' = [fired EXCEPT ![s] = Kinds]
  /\ UNCHANGED <<clock, roster, day, req, job, faults, reports>>

JobStep(j) ==
  \/ IdleSelect(j) \/ NightlySelect(j)
  \/ \E e \in job[j].todo : NightlyRead(j, e) \/ NightlyRaise(j, e)
  \/ \E p \in job[j].plans : JobWrite(j, p)
  \/ JobCommit(j) \/ DeadlockAbort(j)

SchedulerNext(s) ==
  \/ \E kind \in Kinds : Fire(s, kind) \/ Misfire(s, kind)
  \/ Crash(s) \/ Restart(s)

-----------------------------------------------------------------------------
Next ==
  \/ Tick
  \/ \E u \in Users : EditRoster(u)
  \/ \E r \in Requests : RequestNext(r)
  \/ \E s \in Schedulers : SchedulerNext(s)
  \/ \E d \in Debuggers, kind \in Kinds : DebugRun(d, kind)
  \/ \E j \in Jobs : JobStep(j) \/ JobFail(j)

Spec == Init /\ [][Next]_vars
=============================================================================
