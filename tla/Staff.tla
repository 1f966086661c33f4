------------------------------- MODULE Staff -------------------------------
(* Attendance while admins approve, disable, enable and delete the         *)
(* employees it is about (app/deps.py, app/routers/admin.py).  The actions *)
(* are those of Attendance, with what an account allows them, and the      *)
(* changes of accounts.                                                    *)
(*                                                                         *)
(* A deleted user takes its rows along.  Whoever read the user before and  *)
(* inserts a row after it is stopped by the foreign key, and whoever       *)
(* updates a row finds none.                                               *)
EXTENDS AttendanceProperties

CONSTANT Changes     \* what the admins of an instance do to accounts

ASSUME ChangesAssumption == Changes \subseteq {"admit", "disable", "delete"}

VARIABLE staff   \* staff[u]: "active", "gone", or "inactive" for any other
                 \* status: pending, rejected, disabled

staffVars == <<vars, staff>>

ActiveStaff == {u \in Users : staff[u] = "active"}
Gone(k) == staff[k[1]] = "gone"
Alive == {k \in Keys : ~Gone(k)}

StaffInit == Init /\ staff \in [Users -> {"active", "inactive"}]

-----------------------------------------------------------------------------
(* Accounts.                                                               *)

(* decide_user and enable_employee make a user active.                     *)
Admit(u) ==
  /\ "admit" \in Changes /\ staff[u] = "inactive"
  /\ staff' = [staff EXCEPT ![u] = "active"]
  /\ UNCHANGED vars

Disable(u) ==
  /\ "disable" \in Changes /\ staff[u] = "active"
  /\ staff' = [staff EXCEPT ![u] = "inactive"]
  /\ UNCHANGED vars

(* The cascade waits for the locks of the rows it takes along, and the     *)
(* delete for those who have inserted a row that refers to the user.       *)
DeleteUser(u) ==
  /\ "delete" \in Changes /\ staff[u] # "gone"
  /\ \A k \in Keys : k[1] = u => ~Locked(k)
  /\ \A r \in Requests : req[r].pc = "beat" => req[r].key[1] # u
  /\ staff' = [staff EXCEPT ![u] = "gone"]
  /\ day' = [k \in Keys |-> IF k[1] = u THEN NoRow ELSE day[k]]
  /\ UNCHANGED <<clock, roster, req, job, up, fired, faults, reports>>

-----------------------------------------------------------------------------
(* Requests.                                                               *)

(* require_active_employee.  An admin may decide a day of anybody who has  *)
(* one.                                                                    *)
Begin(r) ==
  /\ \/ \E u \in ActiveStaff, m \in Methods : Attempt(r, u, m)
     \/ \E u \in ActiveStaff, ip, inside \in BOOLEAN : Heartbeat(r, u, ip, inside)
     \/ \E k \in Keys, v \in Verdicts : Decide(r, k, v)
  /\ UNCHANGED staff

(* A request reads the account once: it goes on when the user is disabled  *)
(* meanwhile, and is refused by the database when the user is gone.        *)
Proceed(r) ==
  /\ ~Available(r)
  /\ IF Gone(req[r].key) THEN Drop(r) ELSE RequestStep(r)
  /\ UNCHANGED staff

-----------------------------------------------------------------------------
(* Scheduled jobs.                                                         *)

\* mutant: no foreign key from attendance_days to users
WriteUnreferenced(j, p) ==
  IF p.op = "close" /\ Gone(p.key)
  THEN /\ job' = [job EXCEPT ![j].plans = @ \ {p}]
       /\ UNCHANGED <<clock, roster, day, req, up, fired, faults, reports, staff>>
  ELSE JobWrite(j, p) /\ UNCHANGED staff

(* An update of a row that is gone matches nothing.  An insert violates the*)
(* foreign key: the exception ends the run and undoes its other writes.    *)
Write(j, p) ==
  IF Gone(p.key)
  THEN /\ job' = IF p.op = "close" THEN [job EXCEPT ![j].plans = @ \ {p}]
                                   ELSE [job EXCEPT ![j] = OffJob]
       /\ UNCHANGED <<clock, roster, day, req, up, fired, faults, reports, staff>>
  ELSE JobWrite(j, p) /\ UNCHANGED staff

(* The nightly query selects active employees; the idle query joins users  *)
(* of any status.                                                          *)
StaffJobStep(j) ==
  \/ /\ \/ IdleSelect(j) \/ NightlySelectOf(j, ActiveStaff)
        \/ \E e \in job[j].todo : NightlyRead(j, e) \/ NightlyRaise(j, e)
        \/ JobCommit(j) \/ DeadlockAbort(j)
     /\ UNCHANGED staff
  \/ \E p \in job[j].plans : Write(j, p)

-----------------------------------------------------------------------------
StaffNext ==
  \/ \E u \in Users : Admit(u) \/ Disable(u) \/ DeleteUser(u)
  \/ \E r \in Requests : Begin(r) \/ Proceed(r)
  \/ \E j \in Jobs : StaffJobStep(j)
  \/ /\ \/ Tick
        \/ \E u \in Users : EditRoster(u)
        \/ \E r \in Requests : NotLocated(r) \/ Drop(r)
        \/ \E s \in Schedulers : SchedulerNext(s)
        \/ \E d \in Debuggers, kind \in Kinds : DebugRun(d, kind)
        \/ \E j \in Jobs : JobFail(j)
     /\ UNCHANGED staff

StaffSpec == StaffInit /\ [][StaffNext]_staffVars

(* Clocks run, systemd restarts the scheduler, cron fires, and PostgreSQL  *)
(* and the event loop let every transaction that was begun proceed.        *)
Fairness ==
  /\ WF_staffVars(Tick /\ UNCHANGED staff)
  /\ \A r \in Requests : WF_staffVars(Proceed(r))
  /\ \A s \in Schedulers :
       /\ WF_staffVars(Restart(s) /\ UNCHANGED staff)
       /\ \A kind \in Kinds : WF_staffVars(Fire(s, kind) /\ UNCHANGED staff)
  /\ \A j \in Jobs : WF_staffVars(StaffJobStep(j))

StaffFairSpec == StaffSpec /\ Fairness

-----------------------------------------------------------------------------
(* Properties.                                                             *)

StaffTypeOK == TypeOK /\ staff \in [Users -> {"active", "inactive", "gone"}]

(* A deleted employee leaves no attendance row behind (admin.py:170), not  *)
(* even one that a request or a job, which read the employee before the    *)
(* delete, writes after it.                                                *)
NothingOfTheGone == \A k \in Keys : Gone(k) => day[k] = NoRow

(* Whoever is approved, disabled, enabled or deleted while requests and    *)
(* jobs are at work on a day, the day keeps its lifecycle: one arrival, one*)
(* departure, no proof withdrawn.  Only the delete of its user ends it.    *)
LifecycleUntilGone ==
  [][\A k \in Keys :
       \/ Entry(day'[k]) = Entry(day[k])
       \/ DL!EntryStep(Entry(day[k]), Entry(day'[k]))
       \/ Gone(k)']_staffVars

(* A checked-in day whose user goes quiet does not stay open, even if the  *)
(* user is disabled or the roster cannot be evaluated.  The bound on the   *)
(* clock must leave an idle run the time to see it.                        *)
Forgotten(k) ==
  /\ day[k].check_in # NULL /\ day[k].check_out = NULL
  /\ day[k].last_seen + IdleMinutes + IdlePeriod + Latency <= MaxTime

OpenDayCloses == \A k \in Keys : Forgotten(k) ~> ~Forgotten(k)

(* README.md:170 - a missed day becomes flagged, or at least gets a row:   *)
(* whoever is active just before the nightly instant, and still is and has *)
(* a roster that can be evaluated after it, has a row for that date.       *)
MissedDayFlagged ==
  \A k \in Keys :
    /\ staff[k[1]] = "active"
    /\ clock + DisplayTz = k[2] * DayLen + NightlyTime - 1
    ~> \/ day[k].status # "none"
       \/ staff[k[1]] # "active" \/ roster[k[1]].working_days = NULL
=============================================================================
