# Office attendance backend: models, checks and proofs

TLA+ models of the attendance backend (`app/`, FastAPI + SQLAlchemy + PostgreSQL), TLC
configurations that check them on small instances, and TLAPS proofs of the properties that
matter most for every size. Paths below are relative to the repository.

## 1. The system

Several API worker processes and one dedicated scheduler process share one PostgreSQL
database (READ COMMITTED) and nothing else. There is no message bus and no state in
memory that survives a request, so **nearly everything that is hard is a race on rows**: what a
request or job read, and what another one committed before it writes. The rest is what a
deployment does to rows that are already there: migrations, the seed, processes that start.

| component | state | operations | interacts through |
|---|---|---|---|
| shift evaluation (`presence.py`, `timeutil.py`) | none | `evaluate_shift`, `_classify`, `shift_bounds` | called by check-ins, heartbeats, jobs |
| attendance rows (`models.py`) | `attendance_days`, one row per user and office-local date | guarded upserts, compare-and-set, ORM flushes | written by every component below |
| check-in endpoints (`routers/attendance.py`) | `checkin_attempts` | `checkin-attempt`, `verify-location` | `apply_presence_event` |
| heartbeat (`routers/attendance.py`) | `heartbeats`, `devices.last_seen_at` | advance `last_seen`, upgrade GPS to WiFi | ORM flush of a row read earlier |
| admin review (`routers/admin.py`) | `resolved_by`, `admin_note` | verify, query, resolve a day | ORM flush of a row read earlier |
| scheduler (`scheduler.py`, `scheduler_main.py`, `deploy/`) | in-memory cron jobs, advisory locks | idle check-out, nightly resolution | one transaction over many rows |
| debug routes (`routers/debug.py`, DEV_MODE) | `app_state` | the same job bodies without the lock, set-time | as the scheduler |
| accounts (`routers/auth.py`, `routers/admin.py`) | `users` | signup, resubmit, approve, reject, disable, enable, delete | `assigned_roster_id` gates check-ins |
| devices (`device_service.py`, `deps.py`) | `devices` | register with eviction, revoke | `ON DELETE CASCADE`, device token |
| rosters, offices (`routers/rosters.py`, `routers/offices.py`) | `rosters`, `offices` | create, patch, delete, IPs | foreign keys, shift evaluation |
| bootstrap (`bootstrap.py`, `main.py`) | the admin's row of `users` | upsert with `ADMIN_PASSWORD` at every start | unique index on email |
| seed (`seed.py`) | all of the above | ensures an office, rosters, demo users | the same tables, the same upsert |
| schema migrations (`alembic/versions/`) | every table | phase 1 revisions A and B, up and down | backfill what the old program recorded |

What makes each correct: a day is arrived at once and left once, after arriving; its status
says what happened; its proof is never overstated; nobody is flagged who came or whose
shift still runs; what an abandoned tab leaves open is closed, what nobody came to is
flagged; an account can check in exactly when it was approved; a revoked or orphaned device
never works; there is one default roster, and it is handed over, not lost; a migration loses no
audit text and locks nobody out, and a changed password takes effect. The hard behaviours (double taps, job
against check-in, job against job, stale decisions, deadlocks, crashes and lost cron
instants, roster edits and deletes of employees under running transactions, midnight and time
zones, migrations up and down, processes that start together) are listed line by line under
`hazards` in `PROJECT.json`.

## 2. Modules

```
Shift <- DayRow <- Attendance <- AttendanceProperties <- Staff <- MCStaff, StaffProofs
  ^                                |   ^    ^-- MCAttendance              |   |
MCShift <- ShiftProofs             |   +-- AttendanceProofs <- JobProofs <+   |
                                   |                  ^------ RequestProofs <-+
                                   +-> DayLifecycle (INSTANCE, refinement)
Orm <- Accounts   <- MCAccounts,   AccountsProofs
Orm <- Settings   <- MCSettings,   SettingsProofs
Orm <- Deployment <- MCDeployment, DeploymentProofs
```

* **Shift** - `evaluate_shift`, `shift_bounds`, `_classify` as arithmetic on integer
  instants of the UTC axis. A roster record carries its office's offset. Its `working_days` may
  be NULL, which a PATCH can store (`schemas.py:61`): evaluating such a roster raises, in a
  request, which then fails alone, or in the nightly run (`NightlyRaise`), which fails for
  everybody.
* **DayRow** - a row of `attendance_days` and every statement that writes one, as an operator
  from the row found to the row left. `status = "none"` stands for "no row yet";
  `resolved` for `resolved_by IS NOT NULL`.
* **Attendance** - the system. `day` is the committed table; `req[r]` what a request has read
  (`guarded`, `stamped`, `beating`, `beat`, `decided`); `job[j]` the transaction of a job: the
  employees still to visit (`todo`), the statements planned from rows already read
  (`plans`), and the statements executed but not committed (`held`, which are also its row
  locks). One action per handler phase: `Attempt` is `_guard_shift`, `Stamp` the second
  `now_utc()`, `ApplyPresence` the upsert and commit, `Heartbeat`/`HeartbeatRead`/`HeartbeatCommit`
  and `Decide`/`DecideCommit` the read and the flush, `Fire` the cron instant with
  `pg_try_advisory_xact_lock`, `IdleSelect`/`NightlySelect`/`NightlyRead` the job's reads,
  `JobWrite` one statement, `JobCommit` the commit. `Drop`, `JobFail`, `Crash`,
  `Misfire`, `DeadlockAbort` and `Restart` are the failures.
* **DayLifecycle** - the abstract specification of a day: arrive once, check out once and
  later, strengthen the proof only.
* **AttendanceProperties** - the properties, the refinement mapping and the inductive
  invariants.
* **Staff** - the composition of the attendance system with what admins do to accounts
  meanwhile. `staff[u]` is whether the account is active, inactive or gone. `Begin` and
  `StaffJobStep` are the steps of Attendance restricted as `require_active_employee` and the
  nightly query restrict them. `DeleteUser` is the cascade: it takes the rows along, and waits for
  their locks. Whoever read the user before meets the foreign key: a request
  fails (`Proceed`), a close finds no row, a nightly insert ends the whole run (`Write`).
* **Orm** - `Flush`: SQLAlchemy updates only the columns that differ from the loaded object. It
  is what lets two requests that loaded the same row each keep their column, and
  mix the outcomes of an approval and a rejection.
* **Accounts** - `users` and `devices`: every operation is a `Load…` step with the guard on the
  object loaded, and a write step (`Update`, `Signup`, `Delete`, `Login`, `WriteDevice`) with
  the constraints of the database only.
* **Settings** - `offices`, `rosters` and the rosters that employees requested and were granted, at
  the same grain. `LoadSignup`, `LoadEmployee` and `WriteEmployee` are the signups, resubmissions and
  decisions that make a roster used (`RosterInUse`), by either column.
* **Deployment** - the way from the schema of the old program to the present one and back.
  `schema` is "legacy", "A" or "B"; `user`, `audit` and `day` hold what the migrations look at or
  change in a row. `OldRequest` is the old program at work; the new one decides on accounts in
  two steps, `Load` and `Commit` (or `Rollback`), as in Accounts, with migrations, seeds and other
  requests in between, and `NewRecord` is what it audits and records else. `UpgradeA`, `UpgradeB`, `DowngradeB` and `DowngradeA` the four migrations, `Boot` and `Save` the upsert of
  the admin around its SELECT, `SeedRead` and `SeedWrite` the seed's transaction over its demo
  employees, `EditEnv` a change of `.env`, `Crash` the death of a process.
* **MCAttendance**, **MCShift**, **MCStaff**, **MCAccounts**, **MCSettings**, **MCDeployment** -
  the instances. The modules ending in **Proofs** are section 5.

### Grain, and what is external

A request writes at most one attendance row and commits at once, so its write and commit are one
step, guarded by nobody else holding the row's lock. A job writes many rows, so its statements
are steps of their own and its writes become visible at `JobCommit`. Modelled from how
the code uses it: PostgreSQL's row locks and deadlock detection, APScheduler's misfire,
the clock, process death, the ORM's flush, sequences (an id is reused in Settings only when no
request refers to it any more).

## 3. Runs

All constants ending in `Max…` and `Latency` are bounds of the model, not of the code.

| run | instance | what it shows |
|---|---|---|
| `requests` | 1 user, of an office in the scheduler's zone (+1) or in UTC, 2 requests (WiFi, GPS, heartbeat, approve, query, absent), 1 scheduler | `DoubleTapOnce`, `StatusHasEvidence`, `VerificationJustified`, `NightlyActsAfterShift`, `CheckedInStatusIsHuman`, types |
| `edits` | 4 shift settings (end, grace, working days, null days) edited at any moment, 1 request, 1 scheduler, 1 debug run | `ClosedWithinShift`, `LatenessRecorded` |
| `jobs` | 2 users, 2 schedulers, 1 fault, idle against nightly, deadlocks | `CloseReportedOnce`, `ArriveOnceLeaveOnce` (refinement) |
| `live` | 1 user, admitted, disabled or deleted at any moment of almost two days, a roster broken and repaired, fairness, no faults | `NothingOfTheGone`, `LifecycleUntilGone`, `OpenDayCloses`, `MissedDayFlagged` |
| `shift` | every roster on a day of 5 instants, offsets -3..3 | `PhaseMatchesWallClock` |
| `accounts` | 1 email, 1 admin, 2 visitors, 2 user ids, 3 devices | `RosterFollowsStatus`, `DevicesOfLiving`, `RevokedForGood`, types |
| `settings` | 1 office, 2 rosters, 2 IPs, an IP admin, an editor, 1 employee with a request at a time | `OneDefault`, `DefaultHandedOver`, `IpsRemovedByRequest`, types |
| `deployment` | 1 employee the seed asserts and 1 it does not know, 1 admin, 1 visitor, 1 audit row, 1 worker, 1 seed run any number of times, 2 passwords, 1 crash, fairness | `AuditTextKept`, `NobodyLockedOut`, `DaysReadable`, `PasswordTakesEffect`, `WorkersComeUp`, types |

**Why the bounds are enough.** An attendance day has six instants: before the shift, three in
it (on time, at the grace end, late), after it, and the nightly instant; every comparison of the
code has an instant on both of its sides. Between them the runs put every pair of
actors against each other (request and request, request and job, job and job, job and edit); no
guard of the code looks at a third. Two users are needed
only where transactions lock in different orders. `Latency` bounds how long a transaction may
outlive its reading of the clock: with 1 the clock may move once between a transaction's first
reading and its end, which is where the guard and the stamp of a check-in part. A larger value
only moves the stamp further; what is proved (section 5) holds for every `Latency`.
In `deployment` rows of one table do not interact, so one of each kind is enough; a worker and a
seed are the two processes that race for the admin's row, the second password
is what an old and a new start need to overlap, and one crash is what a start needs to be repeated; migrations go up and down without a bound. `MaxTime` stops the clock; the system itself goes on, so only `shift`, whose
clock is all there is, switches the deadlock check off. Symmetry is used on requests, users,
visitors, admins and ids only, and in no run that checks liveness.

**Properties worth a comment.** `StatusHasEvidence` says of every day no human decided: present or late
exactly if there is a check-in, and never absent or leave. `CloseReportedOnce` relates the
number of committed runs that counted a day as closed to the row: equal to one exactly if
the day is closed, whoever holds the advisory lock. `NightlyActsAfterShift` speaks of the shifts of all
offices, because one instant, 23:55 in the scheduler's zone, resolves them all. It holds of offices
west of that zone by less than the margin between the end of the shift and 23:55; further west
employees are flagged mid-shift. It holds of offices east by less than five minutes; further east the
instant belongs to the next date. `requests` has an office one instant west, the most its shift
allows; `NightlyCorrect` (section 5) says when it holds in general. It does not say that the jobs close no day
before its shift ends: the idle job does, at `last_seen`, and should. `LatenessRecorded` counts
in whole minutes; that the code drops the seconds (`presence.py:108`) is not modelled. `MissedDayFlagged` asks for
a row only of those who are still active after the nightly instant and whose roster can be
evaluated; with two employees it fails (`v_missed_nightly`). `NobodyLockedOut` leaves out the
employees the seed asserts, because a seed that runs while an admin decides can leave
one of them active without a roster (below). `PasswordTakesEffect` speaks of the moment when all processes
have started with the new password: before, the one that saves last wins. `RosterFollowsStatus`, `NobodyLockedOut`,
`OneDefault`, `DefaultHandedOver` and `IpsRemovedByRequest` hold with one admin at work on the object;
two admins break the first two (`v_active_without_roster`) and, with no document saying otherwise,
the other three. The advisory lock of the jobs has no property of its own: `CloseReportedOnce` and
`ArriveOnceLeaveOnce` say what must not happen with it or, in a debug run, without it. Nor have the foreign keys of
offices and rosters: they refuse what the count in `rosters.py:105` may have missed.

### Disagreements

Four runs expect a violation: a statement of a comment, README or configuration that
the code does not keep. They are listed with their quotes under `findings`.

| run | in short |
|---|---|
| `v_checkout_before_checkin` | a heartbeat that races with the check-in commits a `last_seen` before it, and the idle job closes the day there |
| `v_missed_nightly` | an employee deleted between the nightly query and the insert undoes the flags of all others, and nothing repeats the run |
| `v_active_without_roster` | approve, reject, resubmit and enable leave an active user without a roster; with one admin at work none is (`StatusCorrect`) |
| `v_device_cap` | concurrent logins exceed the device cap; `CapCorrect` proves that overlapping logins of one user are the only way |

Met while modelling, and without a run of their own:

* Two admins can both decide one signup (`admin.py:91`), a stale resubmission lands on an
  account that is pending or active again (`auth.py:56`), and a rejected account can keep a racing
  approval's `approved_by` (`admin.py:124`): the causes of `v_active_without_roster`.
* A check-in or the nightly flag overwrites the status, though not the `resolved_by`, of a day
  without check-in that an admin has already decided (`presence.py:153`, against the decision that
  `schemas.py:265` describes).
* A check-in stamped after the end of the shift that let it through is closed before itself
  (`nightly_service.py:64`); heartbeats committed out of order move `last_seen` back
  (`attendance.py:270`); the nightly run leaves an early idle check-out (`nightly_service.py:72`).
* One nightly instant serves all zones, so an office far to the west is flagged mid-shift, and one
  more than five minutes to the east just after the midnight with which the flagged date begins
  (README.md:70).
* A null in one roster's `working_days` passes the validator (`schemas.py:61`) and fails the whole
  nightly run, every night, until it is repaired.
* The second tap leaves no row in `checkin_attempts` (`models.py:167`), and a checked-in
  employee off the network is asked for a location before being told so (README.md:150).
* An audit row inserted between the detaching UPDATE and the DELETE of an employee makes the
  delete fail (`admin.py:185`); it can be repeated, and leaves nothing behind.
* The downgrade of revision A is said to be lossless, but the old check of `users.status` refuses
  it as soon as an account is rejected (revision A, line 213); and its upgrade passes over disabled
  employees, whom enabling answers with 409 from then on (line 180). The detail of what the new
  program audited is lost in it, too; `AuditTextKept` is about the rows of the old one.
* The seed that finds its default roster renamed creates a second default (`seed.py:97`), and
  writes over what an admin decided between its read and its write (`seed.py:149`). One admin is
  enough to end with an active demo account without a roster: a rejection is loaded, the seed
  activates the account, the rejection commits its status but not its roster, which went from NULL
  to NULL, an enable is loaded, a resubmission clears the roster, and the enable commits.
* `timeutil.py:10` says of the time override that it is always None in production; the
  scheduler loads one left in `app_state` whatever DEV_MODE says (`scheduler.py:53`).

`admin.py:58` also speaks of a 403 for a user without roster where `attendance.py:80` answers 200
with `no_roster`, which is a matter of wording.

## 4. Fairness

`live` and `v_missed_nightly` use `StaffFairSpec`: weak fairness of the clock; of the
steps a begun request takes (`Proceed`: the event loop and the database let it go on) but not of
users or admins, who may never call; of `Fire` (APScheduler fires what is due) and `Restart`
(`Restart=always` in the unit file); and of every step of a begun job. A failure (`Misfire`, `JobFail`,
`Crash`, `Drop`) is never required. `Tick` waits until running schedulers have dealt with a due
instant, which is APScheduler's behaviour within its misfire grace. `OpenDayCloses` asks only
for days whose next idle run fits under `MaxTime`.

`deployment` uses `FairSpec` of Deployment: a worker that is down is started again
(`Restart=always` in `deploy/attendance-api.service`), and one whose upsert has begun goes on. No
migration, seed, request or edit is ever required, and crashes are bounded, not excluded.

## 5. Proofs

For every value of the constants that satisfies the assumptions named in the modules
(`DayLenAssumption`, `NoDaysAssumption`, `NullAssumption`, `SystemAssumption`,
`ChangesAssumption`, `AccountsAssumption`, `SettingsAssumption`, `DeploymentAssumption`):

| module | theorems |
|---|---|
| ShiftProofs | `WallClock`, `PhaseCorrect` |
| AttendanceProofs | `TypeCorrect`, `EvidenceCorrect`, `VerificationCorrect`, `ClosedCorrect`, `LatenessCorrect`, `LifecycleImplemented` |
| JobProofs | `CloseReportedCorrect`, and without debug runs, under `NightlyAfterShifts`, `NightlyCorrect` |
| RequestProofs | `DoubleTapCorrect`, `CheckedInStatusCorrect` |
| StaffProofs | `GoneCorrect`, `LifecycleCorrect`, and the results about Attendance for the system with accounts: `StaffTypeCorrect`, `StaffEvidenceCorrect`, `StaffVerificationCorrect`, `StaffClosedCorrect`, `StaffLatenessCorrect`, `StaffCloseReportedCorrect`, `StaffNightlyCorrect`, `StaffDoubleTapCorrect`, `StaffStatusCorrect` |
| AccountsProofs | `TypeCorrect`, `LivingCorrect`, `RevokedCorrect`, with one admin `StatusCorrect`, and with a user's logins in turn `CapCorrect` |
| SettingsProofs | `TypeCorrect`, with one editor `OneDefaultCorrect` and `HandedOverCorrect`, with one admin of the IPs `IpsCorrect` |
| DeploymentProofs | `TypeCorrect`, `AuditCorrect`, `DaysCorrect`, `PasswordCorrect`, and with one admin `RosterCorrect` |

**Shift.** `evaluate_shift` compares instants of the UTC axis; `PhaseMatchesWallClock` speaks of the
office's hour and weekday. `WallClock` relates the two for every roster, offset and instant (and day
length) by the division of a shifted instant into days and hours. `NoDaysAssumption` only keeps the
null of `working_days` apart from a set of days. Nothing is inductive here: `PhaseCorrect` needs
only that the clock of MCShift walks over integers.

**Attendance.** No property of a row is inductive alone: what a request or job
read earlier is written later. `Coherent` therefore has three parts. `RowInv` is about a
row: check-in, last_seen, verification and method are set together, plus the row properties
themselves. `ReqInv` is about what a request holds on to: a stamped check-in is not
before its shift; a heartbeat that is about to commit and an approval refer to a day that has a
check-in. `JobInv` is about planned and executed statements: a compare-and-set is planned
only for a day with a check-in, at an instant no later than some shift's end. Check-ins are never
taken back, so what was read stays true (lemma `Stable`). Each write operator has a lemma
(`CheckInStep`, `FlagDayStep`, ...) that it takes a good row to a good row by a step of
`DayLifecycle`; each action has a lemma; `NextStep` collects them, and `Invariance` gives
`[](TypeOK /\ Coherent)` and the refinement at once. What requests and jobs hold on to is
stated for a set `L` of days (`CoherentOn(L)`): all of them in Attendance, where
`Coherent == CoherentOn(Keys)`, and only those of employees who are there in Staff, where a delete
takes check-ins back. The lemmas about single actions are proved for every `L`.

`JobProofs` adds `Counted(L)`, which is `RowLocks` and `ReportedOnce` of every day of `L`: a job treats
a day once, no two transactions hold one row, and a row about to be closed by an uncommitted
statement is still open. Only then does `JobCommit` add one to a count that was zero.
`RequestProofs` follows the answer `checked_in` back to the upsert that found no check-in, and shows
that it cannot happen twice for a day.

`NightlyActsAfterShift` is not true of every instance. `NightlyAfterShifts` says of the constants
that the nightly instant, on the wall clock of every office, comes after the shift and before midnight;
offices may be in different zones. Lemma `FirstNight` derives that it is then the same date at all
offices and that the shifts of that date are over at all of them. The relation is periodic,
so it carries over from one night to every other. `NightlyInv` then says that a nightly run
that has begun read its clock at such an instant, now or earlier, and that all it has selected,
planned and written to flag are days whose shifts are over: a day over stays over, whatever
becomes of rosters, of crashes and of the run's delay. That the flagged day has no check-in follows
from `Coherent`, through the WHERE of the upsert. Debug runs are excluded, because they run
at any moment of the day.

**Staff.** `NothingOfTheGone` needs `Released`: no transaction holds a statement on a row of
somebody gone. `DeleteUser` establishes it, because it waits for the locks; `Write` and `Proceed`
keep it, because they look at the foreign key; and then `JobCommit` writes only rows of those who
are there. The proof needs no types, only the fields of the records (`Shaped`).

What Attendance promises is then carried over. Steps of Staff are not steps of Attendance: `StaffSteps`
shows that each is one, or else a delete, the nightly query over active employees only
(`NightlySelectOf(j, E)`, about which the lemmas of JobProofs are proved for any set `E`), or the
statement of a job that finds its employee gone (`GoneWrite`). Each of the last three has its lemma
per property, and the rest follows from the lemmas of Attendance. The invariant `StaffInv` is the
types and `CoherentOn(Alive)`: after a delete, what a request or job still remembers of the gone may
be false, but nothing of it is written any more (`Released`). A delete takes days back, so the
lifecycle becomes `LifecycleUntilGone`, and `CheckedInStatusIsHuman` gets a case for it, which
`StaffStatusCorrect` states in full.

**Accounts.** `IdsOnce` says that ids and serials are handed out once, `UpdatesSound` that a
request in flight leaves a row its id and a device its owner and its revocation, `LoginsSound` that a
login has a serial of its own and evicts its own user's devices. From these follow
`DevicesOfLiving` and `RevokedForGood`, for any number of admins. `RosterFollowsStatus` does not
hold with two of them. With one (`OneAdmin`), `DecisionSound` says that what the admin loaded
still stands but for a resubmission, and `ResubmitSound` that a
visitor's stale resubmission makes an account pending and leaves its roster alone.

`DevicesWithinCap` is what `v_device_cap` refutes. `CapCorrect` isolates the cause: in every behaviour
of `Spec` in which no two logins of one user overlap (`LoginsInTurn`), with everything else racing,
the cap holds. The invariant `CapInv` says that a login which has counted leaves room for the
device it will add; that needs a device to evict, which is the oldest of a finite set that is
not empty (`OldestDevice`), and that nobody but a login adds an active device (`AddsNone`).

**Settings.** `OneDefault` and `DefaultHandedOver` need `OneEditor` and that what the only editor is
about to clear is all other defaults and nothing else (`DefaultInv`, `EditSound`); `IpsRemovedByRequest` needs `OneIpAdmin` and that the list of
IPs an admin has loaded is still the office's (`IpInv`, `IpSound`), whatever an editor flushes of
the office's other columns.

**Deployment.** `AuditTwice` says that at revision A the old program's text is there twice, as text
for the way back and converted for the way forth, so that no migration drops the last copy.
`RosterInv` makes `NobodyLockedOut` inductive under `OneAdmin`, for the employees that no seed writes: `Settled`
says what the status promises of the roster, and what a decision has loaded of the roster still stands,
because a resubmission was permitted by a row without one. `RequestsSound` says that a request was permitted by what it loaded and
writes what it wanted; `NothingPending` that no request or seed of the new program outlives
the way back to the legacy schema.
`LastSaveCounts` relates the admin's password to all
processes that have saved, at whatever point of their start they stand.

**Only model-checked:** liveness (`OpenDayCloses`, `MissedDayFlagged`, `WorkersComeUp`), which is out
of TLAPS's reach here. Every other property of the passing runs is a theorem. The four runs that
expect a violation need none: a counterexample settles them.

## 6. Not modelled

* Daylight saving: an office keeps its offset.
* The set-time override (DEV_MODE), which can move the clock back: every property of time would
  have to except it. What it can do in production is named under Disagreements.
* Users without a roster in Attendance: they are refused at once.
* Geometry and address parsing: a request is located or not.
* Contents of `checkin_attempts`, `heartbeats` and, but for the migration of their detail,
  `audit_logs`: nothing reads them back to decide.
* Passwords (but for which one is the admin's) and tokens.
* `reports.py`, dashboards and history (pure reads), request schemas, configuration and
  wiring, `attendance_service.py` (dead code).
* The office and the rosters the seed creates when their names are missing.
* Tables and columns that only the new program fills, and the revisions before phase 1: they are
  part of the schema Deployment starts or ends with.

## 7. Plan

Done: Shift, DayRow, DayLifecycle, Attendance, Staff, Accounts, Settings, Deployment, each with its
runs and its proofs. Next, in order:

1. what each disagreement needs to go away, as theorems in the manner of `CapCorrect`: a check-out not
   before the check-in when no heartbeat overlaps the check-in and no check-in is stamped late;
2. `StatusCorrect` and `IpsCorrect` for many admins who work on different accounts and offices;
3. the seed's office and rosters next to the editors of Settings, with `OneDefault`;
4. the time override as a fault of the clock, with the properties that survive it.
