----------------------------- MODULE Deployment -----------------------------
(* A deployment from the schema of the old program to the present one and  *)
(* back: the two migrations of phase 1 (alembic/versions), the upsert of   *)
(* the admin by which every process starts (app/bootstrap.py), the seed    *)
(* script (seed.py), and the old and the new program at work in between.   *)
(*                                                                         *)
(* "legacy" is the schema up to revision 2eb328672b4f, "A" has revision    *)
(* 7c1d9f0a2b34 and "B", the head, 9e8d7c6b5a40.  The new program reads and*)
(* writes users from A on; whatever it audits, and the days it records,    *)
(* need the tables of B (see DowngradeB).  A command that runs several     *)
(* revisions is one transaction: the same steps, with nothing in between.  *)
EXTENDS Integers, Orm

CONSTANTS
  Users,
  DemoActive, DemoPending,   \* the employees seed.py asserts
  Entries,                   \* the rows of audit_logs that are looked at
  Admins,                    \* admin requests in flight at once
  Visitors,                  \* signups in flight at once
  Workers,                   \* API processes, restarted by systemd
  Seeds,                     \* runs of seed.py
  MaxEnv,                    \* bound: values ADMIN_PASSWORD ever has
  MaxCrashes                 \* bound: processes killed

ASSUME DeploymentAssumption ==
  /\ DemoActive \cup DemoPending \subseteq Users
  /\ DemoActive \cap DemoPending = {} /\ Workers \cap Seeds = {}
  /\ Workers # {} /\ Admins \cap Visitors = {}
  /\ MaxEnv \in Nat \ {0} /\ MaxCrashes \in Nat

VARIABLES
  schema,
  user,      \* user[u]: status, and whether a roster is assigned
  audit,     \* audit[e]: who wrote the row, and the columns with its detail
  day,       \* the columns, mode and status, a row of attendance_days fills
  admin,     \* the password the admin's row holds; 0: no such row
  env,       \* the password in the environment
  proc,      \* proc[p]: where process p stands, what it has read
  tx,        \* tx[t]: what request t has loaded and is about to write
  crashes

vars == <<schema, user, audit, day, admin, env, proc, tx, crashes>>
data == <<user, audit, day>>

Processes == Workers \cup Seeds
Demo == DemoActive \cup DemoPending
Stati == {"none", "pending", "active", "rejected", "disabled"}
Nobody == [status |-> "none", roster |-> FALSE]
Unseen == [u \in Demo |-> Nobody]
Down == [pc |-> "down", env |-> 0, seen |-> Unseen]
Slots == Admins \cup Visitors
Idle == [op |-> "idle"]

Init ==
  /\ schema = "legacy"
  /\ user = [u \in Users |-> Nobody]
  /\ audit = [e \in Entries |-> [by |-> "none", detail |-> {}]]
  /\ day = {}
  /\ admin = 0 /\ env = 1
  /\ proc = [p \in Processes |-> Down]
  /\ tx = [t \in Slots |-> Idle]
  /\ crashes = 0

-----------------------------------------------------------------------------
(* The old program, one request a step.                                    *)

OldDecisions == {<<"none", "pending">>, <<"pending", "active">>,
                 <<"active", "disabled">>, <<"disabled", "active">>}

OldRequest ==
  /\ schema = "legacy"
  /\ \/ \E u \in Users, s \in Stati :
          /\ <<user[u].status, s>> \in OldDecisions
          /\ user' = [user EXCEPT ![u].status = s]
          /\ UNCHANGED <<audit, day>>
     \/ \E e \in Entries :
          /\ audit[e].by = "none"
          /\ audit' = [audit EXCEPT ![e] = [by |-> "old", detail |-> {"text"}]]
          /\ UNCHANGED <<user, day>>
     \/ \E u \in Users :
          /\ user[u].status = "active" /\ day = {}
          /\ day' = {"mode"}
          /\ UNCHANGED <<user, audit>>
  /\ UNCHANGED <<schema, admin, env, proc, tx, crashes>>

-----------------------------------------------------------------------------
(* The new program.  What it does to an account it does as in module       *)
(* Accounts, which also has what is left out here: the rosters by name, and*)
(* the deletion of an employee.                                            *)

\* mutant: enable_employee without its check of the roster
PermittedAnyEnable(op, row) ==
  CASE op \in {"approve", "reject"} -> row.status = "pending"
    [] op = "resubmit"              -> row.status = "rejected"
    [] op = "signup"                -> row = Nobody
    [] OTHER                        -> row.status # "none"

(* The guard of an operation on the row it loaded.                         *)
Permitted(op, row) ==
  CASE op \in {"approve", "reject"} -> row.status = "pending"
    [] op = "resubmit"              -> row.status = "rejected"
    [] op = "signup"                -> row = Nobody
    [] op = "enable"                -> row.roster
    [] OTHER                        -> row.status # "none"

Wanted(op, row) ==
  CASE op = "approve"              -> [status |-> "active", roster |-> TRUE]
    [] op = "reject"               -> [status |-> "rejected", roster |-> FALSE]
    [] op \in {"signup", "resubmit"} -> [status |-> "pending", roster |-> FALSE]
    [] op = "enable"               -> [row EXCEPT !.status = "active"]
    [] op = "disable"              -> [row EXCEPT !.status = "disabled"]

Decisions == {"approve", "reject", "enable", "disable"}
Applications == {"signup", "resubmit"}

(* At A a request may load a row as well, but never commits (see below).   *)
Load(t, w, op, u) ==
  /\ schema = "B" /\ proc[w].pc = "up"
  /\ tx[t] = Idle
  /\ t \in IF op \in Decisions THEN Admins ELSE Visitors
  /\ Permitted(op, user[u])
  /\ tx' = [tx EXCEPT ![t] = [op |-> op, user |-> u, worker |-> w,
                              before |-> user[u], after |-> Wanted(op, user[u])]]
  /\ UNCHANGED <<schema, data, admin, env, proc, crashes>>

(* With the change goes an audit row, which only the tables of B can take. *)
(* The unique index on email refuses a signup that comes after another.    *)
Commit(t) ==
  LET q == tx[t]
  IN  /\ q.op # "idle" /\ schema = "B"
      /\ q.op = "signup" => user[q.user] = Nobody
      /\ user' = [user EXCEPT ![q.user] = Flush(@, q.before, q.after)]
      /\ tx' = [tx EXCEPT ![t] = Idle]
      /\ UNCHANGED <<schema, audit, day, admin, env, proc, crashes>>

(* Whatever else becomes of a request.                                     *)
Rollback(t) ==
  /\ tx[t].op # "idle"
  /\ tx' = [tx EXCEPT ![t] = Idle]
  /\ UNCHANGED <<schema, data, admin, env, proc, crashes>>

RequestNext(t) ==
  \/ \E w \in Workers, op \in Decisions \cup Applications, u \in Users :
       Load(t, w, op, u)
  \/ Commit(t) \/ Rollback(t)

(* A row of the audit trail, and a check-in, which needs a roster.  Neither*)
(* reads a row that it writes.                                             *)
NewRecord ==
  /\ schema = "B" /\ \E w \in Workers : proc[w].pc = "up"
  /\ \/ \E e \in Entries :
          /\ audit[e].by = "none"
          /\ audit' = [audit EXCEPT ![e] = [by |-> "new", detail |-> {"json"}]]
          /\ UNCHANGED day
     \/ \E u \in Users :
          /\ user[u] = [status |-> "active", roster |-> TRUE] /\ day = {}
          /\ day' = {"status"}
          /\ UNCHANGED audit
  /\ UNCHANGED <<schema, user, admin, env, proc, tx, crashes>>

-----------------------------------------------------------------------------
(* Migrations.  Those that alter users, or drop a table that refers to it, *)
(* wait for the transactions that have read it.                            *)

Reading(p) == proc[p].pc \in {"insert", "update", "write"}
Quiet == /\ \A p \in Processes : ~Reading(p)
         /\ \A t \in Slots : tx[t] = Idle

\* mutant: the column stays
DroppedNothing(entry, column) == entry

Dropped(entry, column) == [entry EXCEPT !.detail = @ \ {column}]

(* Every active employee gets the default roster the revision inserts.     *)
Backfilled(row) ==
  IF row.status = "active" THEN [row EXCEPT !.roster = TRUE] ELSE row

UpgradeA ==
  /\ schema = "legacy" /\ Quiet
  /\ schema' = "A"
  /\ user' = [u \in Users |-> Backfilled(user[u])]
  /\ audit' = [e \in Entries |->
                 IF "text" \in audit[e].detail
                 THEN [audit[e] EXCEPT !.detail = @ \cup {"json"}] ELSE audit[e]]
  /\ UNCHANGED <<day, admin, env, proc, tx, crashes>>

(* The old check of users.status refuses an account that was rejected.  The*)
(* days lose their status, the audit rows of the new program their detail. *)
DowngradeA ==
  /\ schema = "A" /\ Quiet
  /\ \A u \in Users : user[u].status # "rejected"
  /\ schema' = "legacy"
  /\ user' = [u \in Users |-> [user[u] EXCEPT !.roster = FALSE]]
  /\ audit' = [e \in Entries |-> Dropped(audit[e], "json")]
  /\ day' = day \ {"status"}
  /\ UNCHANGED <<admin, env, proc, tx, crashes>>

\* mutant: the old days kept, and status left nullable
UpgradeBKeepingDays ==
  /\ schema = "A" /\ Quiet
  /\ schema' = "B"
  /\ audit' = [e \in Entries |-> Dropped(audit[e], "text")]
  /\ UNCHANGED <<user, day, admin, env, proc, tx, crashes>>

(* attendance_days is truncated, detail_json becomes detail.               *)
UpgradeB ==
  /\ schema = "A" /\ Quiet
  /\ schema' = "B"
  /\ audit' = [e \in Entries |-> Dropped(audit[e], "text")]
  /\ day' = {}
  /\ UNCHANGED <<user, admin, env, proc, tx, crashes>>

\* mutant: the text column added, but not filled
RestoredEmpty(entry) == entry

(* The text is restored from the key "legacy", which only the details have *)
(* that revision A converted.                                              *)
Restored(entry) ==
  IF entry.by = "old" /\ "json" \in entry.detail
  THEN [entry EXCEPT !.detail = @ \cup {"text"}] ELSE entry

(* Every day gets a mode, "pending", by the column's default; so does what *)
(* the new program records at A from then on, as if it had done so before. *)
DowngradeB ==
  /\ schema = "B"
  /\ schema' = "A"
  /\ audit' = [e \in Entries |-> Restored(audit[e])]
  /\ day' = IF day = {} THEN {} ELSE day \cup {"mode"}
  /\ UNCHANGED <<user, admin, env, proc, tx, crashes>>

-----------------------------------------------------------------------------
(* Processes.                                                              *)

(* .env is edited; processes read it when they start.                      *)
EditEnv ==
  /\ env < MaxEnv
  /\ env' = env + 1
  /\ UNCHANGED <<schema, user, audit, day, admin, proc, tx, crashes>>

\* mutants: an admin that is never found; one that is found and left alone
ChooseInsert == "insert"
ChooseLeave == IF admin = 0 THEN "insert" ELSE "up"

(* ensure_admin_user, after its SELECT.                                    *)
Choose == IF admin = 0 THEN "insert" ELSE "update"

(* uvicorn enters the lifespan, or the seed begins.  At the legacy schema  *)
(* the SELECT names columns that are not there, and the process dies.      *)
Boot(p) ==
  /\ proc[p].pc = "down" \/ (p \in Seeds /\ proc[p].pc = "up")
  /\ schema # "legacy"
  /\ proc' = [proc EXCEPT ![p].pc = Choose, ![p].env = env]
  /\ UNCHANGED <<schema, data, admin, env, tx, crashes>>

(* The commit.  Of two inserts the unique index on email refuses one, and  *)
(* its process dies.  The admin's row that is found always is rewritten,   *)
(* because a password has a new hash each time.                            *)
Save(p) ==
  LET refused == proc[p].pc = "insert" /\ admin # 0
  IN  /\ proc[p].pc \in {"insert", "update"}
      /\ admin' = IF refused THEN admin ELSE proc[p].env
      /\ proc' = [proc EXCEPT ![p] =
                    IF refused THEN Down
                    ELSE [@ EXCEPT !.pc = IF p \in Seeds THEN "seed" ELSE "up"]]
      /\ UNCHANGED <<schema, data, env, tx, crashes>>

(* The second transaction of the seed looks up its employees ...           *)
SeedRead(p) ==
  /\ proc[p].pc = "seed"
  /\ proc' = [proc EXCEPT ![p] = IF schema = "legacy" THEN Down
                                 ELSE [@ EXCEPT !.pc = "write",
                                                !.seen = [u \in Demo |-> user[u]]]]
  /\ UNCHANGED <<schema, data, admin, env, tx, crashes>>

Asserted(u) == IF u \in DemoActive THEN [status |-> "active", roster |-> TRUE]
                                   ELSE [status |-> "pending", roster |-> FALSE]

(* ... and creates or resets them all at once.  An insert that comes after *)
(* a signup with the same email is refused and undoes the others.          *)
SeedWrite(p) ==
  LET seen == proc[p].seen
      refused == \E u \in Demo : seen[u] = Nobody /\ user[u] # Nobody
  IN  /\ proc[p].pc = "write"
      /\ user' = IF refused THEN user
                 ELSE [u \in Users |-> IF u \in Demo
                                       THEN Flush(user[u], seen[u], Asserted(u))
                                       ELSE user[u]]
      /\ proc' = [proc EXCEPT ![p] = IF refused THEN Down
                                     ELSE [@ EXCEPT !.pc = "up", !.seen = Unseen]]
      /\ UNCHANGED <<schema, audit, day, admin, env, tx, crashes>>

(* A worker is killed, or restarted by hand, and its requests with it; a   *)
(* seed is interrupted.                                                    *)
Crash(p) ==
  /\ proc[p].pc # "down" /\ crashes < MaxCrashes
  /\ crashes' = crashes + 1
  /\ proc' = [proc EXCEPT ![p] = Down]
  /\ tx' = [t \in Slots |-> IF tx[t].op # "idle" /\ tx[t].worker = p THEN Idle
                                                                  ELSE tx[t]]
  /\ UNCHANGED <<schema, data, admin, env>>

Next ==
  \/ OldRequest \/ NewRecord \/ EditEnv
  \/ \E t \in Slots : RequestNext(t)
  \/ UpgradeA \/ UpgradeB \/ DowngradeA \/ DowngradeB
  \/ \E p \in Processes :
       Boot(p) \/ Save(p) \/ SeedRead(p) \/ SeedWrite(p) \/ Crash(p)

(* systemd starts a worker that is down again (Restart=always), and a      *)
(* process that runs goes on.  Nobody has to run a migration or a seed.    *)
Fairness == \A w \in Workers : WF_vars(Boot(w)) /\ WF_vars(Save(w))

Spec == Init /\ [][Next]_vars
FairSpec == Spec /\ Fairness

-----------------------------------------------------------------------------
(* Properties.                                                             *)

UserRow == [status : Stati, roster : BOOLEAN]
AuditRow == [by : {"none", "old", "new"}, detail : SUBSET {"text", "json"}]
TxSet ==
  {Idle} \cup [op : Decisions \cup Applications, user : Users, worker : Workers,
               before : UserRow, after : UserRow]
ProcessSet ==
  [pc : {"down", "insert", "update", "seed", "write", "up"}, env : 0..MaxEnv,
   seen : [Demo -> UserRow]]

(* The rows use only the columns, and values, of the current schema.       *)
TypeOK ==
  /\ schema \in {"legacy", "A", "B"}
  /\ user \in [Users -> UserRow]
  /\ audit \in [Entries -> AuditRow]
  /\ day \subseteq {"mode", "status"}
  /\ admin \in 0..MaxEnv /\ env \in 1..MaxEnv
  /\ proc \in [Processes -> ProcessSet]
  /\ tx \in [Slots -> TxSet]
  /\ crashes \in 0..MaxCrashes
  /\ schema = "legacy" =>
       /\ \A u \in Users : user[u].status # "rejected" /\ ~user[u].roster
       /\ \A e \in Entries : "json" \notin audit[e].detail
       /\ "status" \notin day
  /\ schema = "B" =>
       /\ \A e \in Entries : "text" \notin audit[e].detail
       /\ "mode" \notin day

(* "Never truncate an audit trail": up and down any number of times, what  *)
(* the old program recorded stays readable in the column the current schema*)
(* calls detail (revisions A and B, section 5).                            *)
AuditTextKept ==
  \A e \in Entries :
    audit[e].by = "old" =>
      (IF schema = "B" THEN "json" ELSE "text") \in audit[e].detail

(* Revision A, section 8: from the migration on no active employee is left *)
(* without a roster, whichever accounts the old program had, however often *)
(* the schema went back, with the decisions of one admin and stale signups *)
(* in flight.  It is not claimed of the employees of seed.py, who may be   *)
(* reset while an admin decides about them.                                *)
NobodyLockedOut ==
  schema # "legacy" =>
    \A u \in Users \ Demo : user[u].status = "active" => user[u].roster

(* Each program finds a value in the column of attendance_days that it     *)
(* cannot do without, also in rows that the other one wrote.               *)
DaysReadable ==
  day # {} => (IF schema = "B" THEN "status" ELSE "mode") \in day

(* bootstrap.py:12 - a change of ADMIN_PASSWORD takes effect: once every   *)
(* worker was started with it and is up, and so was every seed that was    *)
(* ever run, it is the admin's password, even if a process with the former *)
(* one was starting at the same time.                                      *)
PasswordTakesEffect ==
  (\A p \in Processes : proc[p].pc = "up" /\ proc[p].env = env) => admin = env

(* Workers that start together, next to a seed, and crash, all come up,    *)
(* unless the schema goes back.                                            *)
WorkersComeUp ==
  \A w \in Workers : schema # "legacy" ~> (proc[w].pc = "up" \/ schema = "legacy")
=============================================================================
