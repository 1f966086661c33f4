---------------------------- MODULE RequestProofs ----------------------------
(* Proofs about requests that race on a day: the double tap, and who may   *)
(* change the status of a day that somebody came to.                       *)
EXTENDS AttendanceProofs

-----------------------------------------------------------------------------
(* The double tap.                                                         *)

First(q) == q.pc = "done" /\ q.result = "checked_in"

(* Every request answered "checked_in" after the step was so before it.    *)
NoNewFirst ==
  \A r \in Requests : First(req'[r]) => req'[r] = req[r]

(* The slot of a request moves to what is no answer.                       *)
LEMMA NoAnswer ==
  ASSUME TypeOK, NEW r \in Requests, NEW q, req' = [req EXCEPT ![r] = q], q.pc # "done"
  PROVE  NoNewFirst
BY DEF NoNewFirst, First, TypeOK

LEMMA FreeNoAnswer == FreeReq.pc # "done"
BY DEF FreeReq

(* Of what a request does only ApplyPresence answers "checked_in".         *)
LEMMA OnlyApplyAnswers ==
  ASSUME TypeOK, NEW r \in Requests, RequestNext(r)
  PROVE  NoNewFirst \/ ApplyPresence(r)
<1>1. ASSUME NEW u, NEW m, Attempt(r, u, m) PROVE NoNewFirst
  <2> DEFINE q == [pc |-> "guarded", key |-> <<u, LocalDate(roster[u], clock)>>,
                   now |-> clock, shift |-> roster[u], method |-> m]
  <2>1. q.pc # "done"
    OBVIOUS
  <2>2. req' = [req EXCEPT ![r] = FreeReq] \/ req' = [req EXCEPT ![r] = q]
    BY <1>1 DEF Attempt
  <2> HIDE DEF q
  <2> QED BY NoAnswer, FreeNoAnswer, <2>1, <2>2
<1>2. ASSUME NEW u, NEW ip, NEW inside, Heartbeat(r, u, ip, inside)
      PROVE  NoNewFirst
  <2> DEFINE q == [pc |-> "beating", key |-> <<u, LocalDate(roster[u], clock)>>,
                   now |-> clock, ip |-> ip, inside |-> inside]
  <2>1. q.pc # "done"
    OBVIOUS
  <2>2. req' = [req EXCEPT ![r] = q]
    BY <1>2 DEF Heartbeat
  <2> HIDE DEF q
  <2> QED BY NoAnswer, <2>1, <2>2
<1>3. ASSUME NEW k, NEW v, Decide(r, k, v) PROVE NoNewFirst
  <2> DEFINE q == [pc |-> "decided", key |-> k, now |-> clock, verdict |-> v,
                   moved |-> day[k].status # VerdictStatus(v)]
  <2>1. q.pc # "done"
    OBVIOUS
  <2>2. req' = [req EXCEPT ![r] = q]
    BY <1>3 DEF Decide
  <2> HIDE DEF q
  <2> QED BY NoAnswer, <2>1, <2>2
<1>4. CASE Stamp(r)
  <2> DEFINE q == [pc |-> "stamped", key |-> req[r].key, shift |-> req[r].shift,
                   method |-> req[r].method, now |-> clock]
  <2>1. q.pc # "done"
    OBVIOUS
  <2>2. req' = [req EXCEPT ![r] = q]
    BY <1>4 DEF Stamp
  <2> HIDE DEF q
  <2> QED BY NoAnswer, <2>1, <2>2
<1>5. CASE HeartbeatRead(r)
  <2> DEFINE q == [pc |-> "beat", key |-> req[r].key, now |-> req[r].now,
                   upgrade |-> req[r].ip /\ day[req[r].key].method = "gps"]
  <2>1. q.pc # "done"
    OBVIOUS
  <2>2. req' = [req EXCEPT ![r] = FreeReq] \/ req' = [req EXCEPT ![r] = q]
    BY <1>5 DEF HeartbeatRead
  <2> HIDE DEF q
  <2> QED BY NoAnswer, FreeNoAnswer, <2>1, <2>2
<1>6. CASE HeartbeatCommit(r) \/ DecideCommit(r) \/ NotLocated(r) \/ Drop(r)
  BY NoAnswer, FreeNoAnswer, <1>6 DEF HeartbeatCommit, DecideCommit, NotLocated, Drop
<1> QED BY <1>1, <1>2, <1>3, <1>4, <1>5, <1>6 DEF RequestNext, RequestStep

(* Nobody else answers anybody.                                            *)
LEMMA AnswersByRequests ==
  ASSUME [Next]_vars
  PROVE  NoNewFirst \/ \E r \in Requests : RequestNext(r)
<1>1. UNCHANGED req => NoNewFirst
  BY DEF NoNewFirst
<1>2. CASE UNCHANGED vars
  BY <1>1, <1>2 DEF vars
<1>3. ASSUME NEW j \in Jobs, JobStep(j) \/ JobFail(j) PROVE UNCHANGED req
  BY <1>3
     DEF JobStep, JobFail, IdleSelect, NightlySelect, NightlySelectOf,
         NightlyRead, NightlyRaise, JobWrite, JobCommit, DeadlockAbort
<1>4. ASSUME NEW s \in Schedulers, SchedulerNext(s) PROVE UNCHANGED req
  BY <1>4 DEF SchedulerNext, Fire, Misfire, Crash, Restart
<1> QED BY <1>1, <1>2, <1>3, <1>4 DEF Next, Tick, EditRoster, DebugRun

(* A step that answers nobody.                                             *)
LEMMA QuietTap ==
  ASSUME DoubleTapOnce, NoNewFirst
  PROVE  DoubleTapOnce'
BY DEF NoNewFirst, First, DoubleTapOnce

(* The upsert answers "checked_in" only to the request that writes, whoever*)
(* knows the day.                                                          *)
LEMMA TapStep ==
  ASSUME NEW L \in SUBSET Keys, TypeOK, CoherentOn(L), DoubleTapOnce,
         NEW r \in Requests, ApplyPresence(r), req[r].key \in L
  PROVE  DoubleTapOnce'
<1>1. PICK k : k = req[r].key
  OBVIOUS
<1>2. \A q \in Requests : q # r => req'[q] = req[q]
  BY DEF ApplyPresence, TypeOK
<1>3. CASE day[k].check_in # NULL
  <2>1. ~First(req'[r])
    BY <1>1, <1>3 DEF ApplyPresence, Accepts, Finished, First, TypeOK
  <2> QED BY <1>2, <2>1 DEF DoubleTapOnce, First
<1>4. CASE day[k].check_in = NULL
  <2>1. \A q \in Requests : First(req[q]) => req[q].key # k
    <3>1. \A q \in Requests : First(req[q]) => req[q].key \in Keys
      BY ReqTypes DEF TypeOK, First
    <3> QED BY <1>1, <1>4, <3>1 DEF CoherentOn, ReqInv, First
  <2>2. req'[r].key = k
    BY <1>1, <1>4 DEF ApplyPresence, Accepts, Finished, TypeOK
  <2> QED BY <1>2, <2>1, <2>2 DEF DoubleTapOnce, First
<1> QED BY <1>3, <1>4

LEMMA DoubleTapStep ==
  ASSUME TypeOK, Coherent, DoubleTapOnce, [Next]_vars
  PROVE  DoubleTapOnce'
<1>1. ASSUME NEW r \in Requests, ApplyPresence(r) PROVE DoubleTapOnce'
  <2>1. req[r].key \in Keys
    BY <1>1, ReqTypes DEF ApplyPresence, TypeOK
  <2> QED
    BY <1>1, <2>1, TapStep DEF Coherent
<1> QED
  BY <1>1, AnswersByRequests, OnlyApplyAnswers, QuietTap

(* README.md:173-174: however many check-ins of one user race, through the *)
(* WiFi and the GPS route, one at most is told it was the one.             *)
THEOREM DoubleTapCorrect == Spec => []DoubleTapOnce
<1>1. Init => DoubleTapOnce
  BY DEF Init, DoubleTapOnce, FreeReq
<1>2. TypeOK /\ Coherent /\ DoubleTapOnce /\ [Next]_vars => DoubleTapOnce'
  BY DoubleTapStep
<1> QED BY <1>1, <1>2, Invariance, PTL DEF Spec

-----------------------------------------------------------------------------
(* Who changes the status of a day that somebody came to.                  *)

StatusKept ==
  \A k \in Keys : day[k].check_in # NULL => day'[k].status = day[k].status

(* No handler and no statement of a job changes the status of a row with a *)
(* check-in.                                                               *)
LEMMA WritesKeepStatus ==
  ASSUME NEW k, NEW row \in RowSet, RowInv(k, row), row.check_in # NULL
  PROVE  /\ EnsureOffDay(row).status = row.status
         /\ \A s, date, m, now : CheckIn(row, s, date, m, now).status = row.status
         /\ \A now, up1 : Advance(row, now, up1).status = row.status
         /\ \A p \in StmtSet : Run(row, p).status = row.status
<1>1. EnsureOffDay(row) = row
  BY DEF EnsureOffDay, RowInv
<1>2. \A s, date, m, now : CheckIn(row, s, date, m, now) = row
  BY DEF CheckIn, Accepts
<1>3. ASSUME NEW now, NEW up1 PROVE Advance(row, now, up1).status = row.status
  BY DEF Advance, RowSet
<1>4. ASSUME NEW out PROVE CloseDay(row, out).status = row.status
  BY DEF CloseDay, RowSet
<1>5. FlagDay(row) = row
  BY DEF FlagDay
<1>6. ASSUME NEW p \in StmtSet PROVE Run(row, p).status = row.status
  BY <1>1, <1>4, <1>5 DEF Run, StmtSet
<1> QED BY <1>1, <1>2, <1>3, <1>6

(* One row k is written, and its status kept if it has a check-in.         *)
LEMMA OneRowKeepsStatus ==
  ASSUME TypeOK, NEW k \in Keys, NEW next, day' = [day EXCEPT ![k] = next],
         day[k].check_in # NULL => next.status = day[k].status
  PROVE  StatusKept
BY DEF TypeOK, StatusKept

(* A human's decision is the only step that does not keep the status, and  *)
(* it marks the day as resolved.                                           *)
LEMMA StatusStep ==
  ASSUME NEW L \in SUBSET Keys, TypeOK, CoherentOn(L), [Next]_vars
  PROVE  StatusKept \/ \E r \in Requests : DecideCommit(r)
<1>1. ASSUME UNCHANGED day PROVE StatusKept
  BY <1>1 DEF StatusKept
<1>2. ASSUME NEW r \in Requests, NEW u \in Users, NEW m, Attempt(r, u, m)
      PROVE  StatusKept
  <2> DEFINE k == <<u, LocalDate(roster[u], clock)>>
  <2>1. k \in Keys /\ day[k] \in RowSet /\ RowInv(k, day[k])
    BY KeyTypes DEF TypeOK, CoherentOn
  <2>2. CASE day' = [day EXCEPT ![k] = EnsureOffDay(@)]
    BY <2>1, <2>2, WritesKeepStatus, OneRowKeepsStatus
  <2> QED BY <1>1, <1>2, <2>2 DEF Attempt
<1>3. ASSUME NEW r \in Requests, ApplyPresence(r) \/ HeartbeatCommit(r)
      PROVE  StatusKept
  <2> DEFINE q == req[r]
             k == q.key
  <2>1. q \in ReqSet /\ q.pc # "free"
    BY <1>3 DEF ApplyPresence, HeartbeatCommit, TypeOK
  <2>2. k \in Keys /\ day[k] \in RowSet /\ RowInv(k, day[k])
    BY <2>1, ReqTypes DEF TypeOK, CoherentOn
  <2>3. CASE day' = [day EXCEPT ![k] = CheckIn(@, q.shift, k[2], q.method, q.now)]
    <3>1. day[k].check_in # NULL =>
            CheckIn(day[k], q.shift, k[2], q.method, q.now).status = day[k].status
      BY <2>2, WritesKeepStatus
    <3> QED BY <2>2, <2>3, <3>1, OneRowKeepsStatus
  <2>4. CASE day' = [day EXCEPT ![k] = Advance(@, q.now, q.upgrade)]
    <3>1. day[k].check_in # NULL =>
            Advance(day[k], q.now, q.upgrade).status = day[k].status
      BY <2>2, WritesKeepStatus
    <3> QED BY <2>2, <2>4, <3>1, OneRowKeepsStatus
  <2> QED BY <1>3, <2>3, <2>4 DEF ApplyPresence, HeartbeatCommit
<1>4. ASSUME NEW j \in Jobs, JobCommit(j) PROVE StatusKept
  <2> DEFINE written(k) == {p \in job[j].held : p.key = k}
             pick(k) == CHOOSE p \in written(k) : TRUE
  <2>1. \A k \in Keys : day'[k] = IF written(k) = {} THEN day[k]
                                                    ELSE Run(day[k], pick(k))
    BY <1>4 DEF JobCommit
  <2>2. ASSUME NEW k \in Keys, written(k) # {} PROVE pick(k) \in StmtSet
    <3>1. pick(k) \in written(k)
      BY <2>2
    <3> HIDE DEF pick
    <3> QED BY <3>1 DEF TypeOK, JobSet
  <2>3. \A k \in Keys : day[k] \in RowSet /\ RowInv(k, day[k])
    BY DEF TypeOK, CoherentOn
  <2> HIDE DEF written, pick
  <2> QED BY <2>1, <2>2, <2>3, WritesKeepStatus DEF StatusKept
<1>5. ASSUME NEW r \in Requests, RequestNext(r)
      PROVE  StatusKept \/ DecideCommit(r)
  BY <1>1, <1>2, <1>3, <1>5 DEF RequestNext, RequestStep, Stamp, HeartbeatRead,
     NotLocated, Drop, Heartbeat, Decide
<1>6. ASSUME NEW j \in Jobs, JobStep(j) \/ JobFail(j) PROVE StatusKept
  BY <1>1, <1>4, <1>6
     DEF JobStep, JobFail, IdleSelect, NightlySelect, NightlySelectOf,
         NightlyRead, NightlyRaise,
     JobWrite, DeadlockAbort
<1>7. ASSUME NEW s \in Schedulers, SchedulerNext(s) PROVE StatusKept
  BY <1>1, <1>7 DEF SchedulerNext, Fire, Misfire, Crash, Restart
<1> QED BY <1>1, <1>5, <1>6, <1>7 DEF Next, Tick, EditRoster, DebugRun, vars

(* What a human decides is marked as resolved, and nothing else is touched.*)
LEMMA DecisionResolves ==
  ASSUME TypeOK, NEW r \in Requests, DecideCommit(r), NEW k \in Keys, day'[k] # day[k]
  PROVE  day'[k].resolved /\ req[r].pc = "decided"
<1> DEFINE q == req[r]
<1>1. q \in ReqSet /\ q.pc = "decided"
  BY DEF DecideCommit, TypeOK
<1>2. q.key \in Keys /\ day[q.key] \in RowSet
  BY <1>1, ReqTypes DEF TypeOK
<1>3. Decided(day[q.key], q.verdict, q.moved).resolved = TRUE
  BY <1>2 DEF Decided, RowSet
<1> QED
  BY <1>1, <1>2, <1>3 DEF DecideCommit, TypeOK

(* schemas.py:265: no job, check-in or heartbeat moves a day somebody came *)
(* to from one status to another; only an admin does.                      *)
THEOREM CheckedInStatusCorrect == Spec => CheckedInStatusIsHuman
<1> DEFINE A == \A k \in Keys :
                  /\ day[k].check_in # NULL
                  /\ day'[k].status # day[k].status
                  => day'[k].resolved /\ \E r \in Requests : req[r].pc = "decided"
<1>1. TypeOK /\ Coherent /\ [Next]_vars => [A]_vars
  <2> SUFFICES ASSUME TypeOK, Coherent, [Next]_vars PROVE A
    OBVIOUS
  <2>1. StatusKept \/ \E r \in Requests : DecideCommit(r)
    BY StatusStep DEF Coherent
  <2> QED
    BY <2>1, DecisionResolves DEF StatusKept
<1> HIDE DEF A
<1>2. CheckedInStatusIsHuman <=> [][A]_vars
  BY DEF CheckedInStatusIsHuman, A
<1> QED BY <1>1, <1>2, Invariance, PTL DEF Spec
=============================================================================
