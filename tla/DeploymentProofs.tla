-------------------------- MODULE DeploymentProofs --------------------------
(* Proofs about Deployment, for any number of employees, audit rows,       *)
(* workers and seeds.                                                      *)
EXTENDS Deployment, TLAPS

(* What the old program audited is there twice at revision A: as text for  *)
(* the way back, converted for the way forth.                              *)
AuditTwice ==
  schema = "A" =>
    \A e \in Entries : audit[e].by = "old" => {"text", "json"} \subseteq audit[e].detail

(* Migrations to and from the legacy schema wait for whoever has read.     *)
NothingPending ==
  schema = "legacy" => /\ \A t \in Slots : tx[t] = Idle
                       /\ \A p \in Processes : proc[p].pc # "write"

(* A request was permitted by what it loaded, and writes what it wanted.   *)
RequestsSound ==
  \A t \in Slots : tx[t].op # "idle" =>
    /\ tx[t].op \in Decisions => t \in Admins
    /\ Permitted(tx[t].op, tx[t].before)
    /\ tx[t].after = Wanted(tx[t].op, tx[t].before)

(* A process that has saved the admin did so with the password it runs     *)
(* with: when all have, and none of them with a former one, it is in force.*)
Saved(p) == proc[p].pc \in {"seed", "write", "up"}
LastSaveCounts ==
  /\ \A p \in Processes : proc[p].env <= env
  /\ (\A p \in Processes : Saved(p) /\ proc[p].env = env) => admin = env

LEMMA UnseenType == Unseen \in [Demo -> UserRow]
  BY DEF Unseen, Nobody, UserRow, Stati

LEMMA TypeInit == Init => TypeOK
  BY UnseenType, DeploymentAssumption
     DEF Init, TypeOK, Down, Nobody, UserRow, AuditRow, ProcessSet, TxSet, Stati

LEMMA IdleType == Idle \in TxSet /\ Idle.op = "idle"
  BY DEF Idle, TxSet

(* A slot that is not idle holds a request, with all its fields.           *)
LEMMA Requested ==
  ASSUME NEW q \in TxSet, q.op # "idle"
  PROVE  /\ q.op \in Decisions \cup Applications /\ q.user \in Users
         /\ q.before \in UserRow /\ q.after \in UserRow
  BY DEF TxSet, Idle

(* One lemma for each kind of step.                                        *)
LEMMA TypeOldRequest == TypeOK /\ OldRequest => TypeOK'
<1> SUFFICES ASSUME TypeOK, OldRequest PROVE TypeOK'
  OBVIOUS
<1> USE DEF TypeOK
<1>1. ASSUME NEW u \in Users, NEW s \in Stati,
             <<user[u].status, s>> \in OldDecisions,
             user' = [user EXCEPT ![u].status = s], UNCHANGED <<audit, day>>
      PROVE  TypeOK'
  <2>1. s # "rejected"
    BY <1>1 DEF OldDecisions
  <2>2. user' \in [Users -> UserRow]
    BY <1>1 DEF UserRow
  <2>3. \A v \in Users : user'[v].roster = user[v].roster
                        /\ user'[v].status = IF v = u THEN s ELSE user[v].status
    BY <1>1 DEF UserRow
  <2> QED BY <1>1, <2>1, <2>2, <2>3 DEF OldRequest
<1>2. ASSUME NEW e \in Entries,
             audit' = [audit EXCEPT ![e] = [by |-> "old", detail |-> {"text"}]],
             UNCHANGED <<user, day>>
      PROVE  TypeOK'
  <2>1. audit' \in [Entries -> AuditRow]
    BY <1>2 DEF AuditRow
  <2>2. \A f \in Entries : audit'[f].detail = IF f = e THEN {"text"} ELSE audit[f].detail
    BY <1>2 DEF AuditRow
  <2> QED BY <1>2, <2>1, <2>2 DEF OldRequest
<1>3. ASSUME day' = {"mode"}, UNCHANGED <<user, audit>>
      PROVE  TypeOK'
  BY <1>3 DEF OldRequest
<1> QED BY <1>1, <1>2, <1>3 DEF OldRequest

(* A flush changes what the request or the seed changed.                   *)
LEMMA Flushed ==
  ASSUME NEW row \in UserRow, NEW before \in UserRow, NEW after \in UserRow
  PROVE  LET new == Flush(row, before, after)
         IN  /\ new \in UserRow
             /\ new.status = IF after.status = before.status THEN row.status
                                                             ELSE after.status
             /\ new.roster = IF after.roster = before.roster THEN row.roster
                                                             ELSE after.roster
  BY DEF Flush, UserRow

LEMMA WantedType ==
  ASSUME NEW op \in Decisions \cup Applications, NEW row \in UserRow
  PROVE  Wanted(op, row) \in UserRow
  BY DEF Wanted, Decisions, Applications, UserRow, Stati

LEMMA TypeNewRecord == TypeOK /\ NewRecord => TypeOK'
<1> SUFFICES ASSUME TypeOK, NewRecord PROVE TypeOK'
  OBVIOUS
<1> USE DEF TypeOK
<1>1. ASSUME NEW e \in Entries,
             audit' = [audit EXCEPT ![e] = [by |-> "new", detail |-> {"json"}]],
             UNCHANGED day
      PROVE  TypeOK'
  <2>1. audit' \in [Entries -> AuditRow]
    BY <1>1 DEF AuditRow
  <2>2. \A f \in Entries : audit'[f].detail = IF f = e THEN {"json"} ELSE audit[f].detail
    BY <1>1 DEF AuditRow
  <2> QED BY <1>1, <2>1, <2>2 DEF NewRecord
<1>2. ASSUME day' = {"status"}, UNCHANGED audit
      PROVE  TypeOK'
  BY <1>2 DEF NewRecord
<1> QED BY <1>1, <1>2 DEF NewRecord

LEMMA TypeRequests ==
  ASSUME NEW t \in Slots, TypeOK, RequestNext(t)
  PROVE  TypeOK'
<1> USE DEF TypeOK
<1>1. ASSUME NEW w \in Workers, NEW op \in Decisions \cup Applications, NEW u \in Users,
             Load(t, w, op, u)
      PROVE  TypeOK'
  <2>1. [op |-> op, user |-> u, worker |-> w, before |-> user[u],
         after |-> Wanted(op, user[u])] \in TxSet
    BY WantedType DEF TxSet
  <2>2. tx' \in [Slots -> TxSet]
    BY <1>1, <2>1 DEF Load
  <2> QED BY <1>1, <2>2 DEF Load, data
<1>2. CASE Commit(t)
  <2>1. /\ tx[t].user \in Users /\ tx[t].before \in UserRow /\ tx[t].after \in UserRow
        /\ schema = "B" /\ schema' = "B"
    BY <1>2, Requested DEF Commit
  <2>2. Flush(user[tx[t].user], tx[t].before, tx[t].after) \in UserRow
    BY <2>1, Flushed
  <2>3. user' \in [Users -> UserRow] /\ tx' \in [Slots -> TxSet]
    BY <1>2, <2>1, <2>2, IdleType DEF Commit
  <2> QED BY <1>2, <2>1, <2>3 DEF Commit
<1>3. CASE Rollback(t)
  BY <1>3, IdleType DEF Rollback, data
<1> QED BY <1>1, <1>2, <1>3 DEF RequestNext

LEMMA TypeMigrations ==
  TypeOK /\ (UpgradeA \/ UpgradeB \/ DowngradeA \/ DowngradeB) => TypeOK'
<1> SUFFICES ASSUME TypeOK, UpgradeA \/ UpgradeB \/ DowngradeA \/ DowngradeB
             PROVE  TypeOK'
  OBVIOUS
<1> USE DEF TypeOK
<1>1. CASE UpgradeA
  <2>1. user' \in [Users -> UserRow]
    BY <1>1 DEF UpgradeA, Backfilled, UserRow
  <2>2. audit' \in [Entries -> AuditRow]
    BY <1>1 DEF UpgradeA, AuditRow
  <2> QED BY <1>1, <2>1, <2>2 DEF UpgradeA
<1>2. CASE UpgradeB
  <2>1. audit' \in [Entries -> AuditRow]
    BY <1>2 DEF UpgradeB, Dropped, AuditRow
  <2>2. \A e \in Entries : audit'[e].detail = audit[e].detail \ {"text"}
    BY <1>2 DEF UpgradeB, Dropped, AuditRow
  <2> QED BY <1>2, <2>1, <2>2 DEF UpgradeB
<1>3. CASE DowngradeA
  <2>1. /\ user' \in [Users -> UserRow]
        /\ \A u \in Users : user'[u].status = user[u].status /\ ~user'[u].roster
    BY <1>3 DEF DowngradeA, UserRow
  <2>2. audit' \in [Entries -> AuditRow]
    BY <1>3 DEF DowngradeA, Dropped, AuditRow
  <2>3. \A e \in Entries : audit'[e].detail = audit[e].detail \ {"json"}
    BY <1>3 DEF DowngradeA, Dropped, AuditRow
  <2> QED BY <1>3, <2>1, <2>2, <2>3 DEF DowngradeA
<1>4. CASE DowngradeB
  <2>1. audit' \in [Entries -> AuditRow]
    BY <1>4 DEF DowngradeB, Restored, AuditRow
  <2> QED BY <1>4, <2>1 DEF DowngradeB
<1> QED BY <1>1, <1>2, <1>3, <1>4

LEMMA DownType == Down \in ProcessSet
  BY UnseenType, DeploymentAssumption DEF Down, ProcessSet

(* Boot, Save, SeedRead and Crash touch only the processes and the admin.  *)
LEMMA TypeProcesses ==
  ASSUME NEW p \in Processes, TypeOK, Boot(p) \/ Save(p) \/ SeedRead(p) \/ Crash(p)
  PROVE  TypeOK'
<1> USE DEF TypeOK
<1>0. proc[p] \in ProcessSet
  OBVIOUS
<1>1. CASE Boot(p)
  <2>1. [proc[p] EXCEPT !.pc = Choose, !.env = env] \in ProcessSet
    <3>1. Choose \in {"insert", "update"} /\ env \in 0..MaxEnv
      BY DeploymentAssumption DEF Choose
    <3> HIDE DEF TypeOK
    <3> QED BY <1>0, <3>1 DEF ProcessSet
  <2>2. proc' = [proc EXCEPT ![p] = [@ EXCEPT !.pc = Choose, !.env = env]]
    BY <1>0, <1>1 DEF Boot, ProcessSet
  <2>3. proc' \in [Processes -> ProcessSet]
    BY <2>1, <2>2
  <2> QED BY <1>1, <2>3 DEF Boot, data
<1>2. CASE Save(p)
  <2>1. proc' \in [Processes -> ProcessSet]
    <3>1. [proc[p] EXCEPT !.pc = IF p \in Seeds THEN "seed" ELSE "up"] \in ProcessSet
      BY <1>0 DEF ProcessSet
    <3> QED BY <1>2, <3>1, DownType DEF Save
  <2>2. admin' \in 0..MaxEnv
    BY <1>0, <1>2 DEF Save, ProcessSet
  <2> QED BY <1>2, <2>1, <2>2 DEF Save, data
<1>3. CASE SeedRead(p)
  <2>1. [proc[p] EXCEPT !.pc = "write", !.seen = [u \in Demo |-> user[u]]] \in ProcessSet
    BY <1>0, DeploymentAssumption DEF ProcessSet, Demo
  <2>2. proc' \in [Processes -> ProcessSet]
    BY <1>3, <2>1, DownType DEF SeedRead
  <2> QED BY <1>3, <2>2 DEF SeedRead, data
<1>4. CASE Crash(p)
  <2>1. tx' \in [Slots -> TxSet]
    BY <1>4, IdleType DEF Crash
  <2>2. proc' \in [Processes -> ProcessSet] /\ crashes' \in 0..MaxCrashes
    BY <1>4, DownType, DeploymentAssumption DEF Crash
  <2> QED BY <1>4, <2>1, <2>2 DEF Crash, data
<1> QED BY <1>1, <1>2, <1>3, <1>4

(* A seed that writes does so at a schema that has its columns.            *)
LEMMA TypeSeedWrite ==
  ASSUME NEW p \in Processes, TypeOK, NothingPending, SeedWrite(p)
  PROVE  TypeOK'
<1> USE DEF TypeOK
<1>1. proc[p] \in ProcessSet /\ proc[p].seen \in [Demo -> UserRow]
  BY DEF ProcessSet
<1>2. user' \in [Users -> UserRow]
  <2>1. ASSUME NEW u \in Demo
        PROVE  Flush(user[u], proc[p].seen[u], Asserted(u)) \in UserRow
    <3>1. u \in Users /\ Asserted(u) \in UserRow
      BY DeploymentAssumption DEF Demo, Asserted, UserRow, Stati
    <3> QED BY <1>1, <3>1, Flushed
  <2> QED BY <2>1 DEF SeedWrite
<1>3. proc' \in [Processes -> ProcessSet]
  <2>1. [proc[p] EXCEPT !.pc = "up", !.seen = Unseen] \in ProcessSet
    BY <1>1, UnseenType DEF ProcessSet
  <2> QED BY <2>1, DownType DEF SeedWrite
<1>4. schema # "legacy"
  BY DEF SeedWrite, NothingPending
<1> QED BY <1>2, <1>3, <1>4 DEF SeedWrite

(* With the type, the invariant behind all of the theorems.                *)
Inv ==
  /\ TypeOK
  /\ AuditTextKept /\ AuditTwice
  /\ NothingPending /\ RequestsSound
  /\ LastSaveCounts
  /\ DaysReadable

LEMMA InvInit == Init => Inv
<1> SUFFICES ASSUME Init PROVE Inv
  OBVIOUS
<1>1. TypeOK
  BY TypeInit
<1>2. AuditTextKept /\ AuditTwice /\ DaysReadable
  BY DEF Init, AuditTextKept, AuditTwice, DaysReadable
<1>3. NothingPending /\ RequestsSound
  BY IdleType DEF Init, NothingPending, RequestsSound, Down
<1>4. LastSaveCounts
  BY DeploymentAssumption DEF Init, LastSaveCounts, Saved, Down, Processes
<1> QED BY <1>1, <1>2, <1>3, <1>4 DEF Inv

(* No type is lost in any step.                                            *)
LEMMA TypeStep == Inv /\ [Next]_vars => TypeOK'
<1> SUFFICES ASSUME Inv, [Next]_vars PROVE TypeOK'
  OBVIOUS
<1>1. CASE OldRequest \/ NewRecord
  BY <1>1, TypeOldRequest, TypeNewRecord DEF Inv
<1>2. CASE EditEnv
  BY <1>2, DeploymentAssumption DEF EditEnv, Inv, TypeOK
<1>3. CASE UpgradeA \/ UpgradeB \/ DowngradeA \/ DowngradeB
  BY <1>3, TypeMigrations DEF Inv
<1>4. CASE \E p \in Processes : Boot(p) \/ Save(p) \/ SeedRead(p) \/ SeedWrite(p) \/ Crash(p)
  BY <1>4, TypeProcesses, TypeSeedWrite DEF Inv
<1>5. CASE \E t \in Slots : RequestNext(t)
  BY <1>5, TypeRequests DEF Inv
<1>6. CASE UNCHANGED vars
  BY <1>6 DEF vars, Inv, TypeOK
<1> QED BY <1>1, <1>2, <1>3, <1>4, <1>5, <1>6 DEF Next

(* A row of the audit trail, or of the attendance, moves with the schema.  *)
LEMMA RowsStep ==
  Inv /\ [Next]_vars => AuditTextKept' /\ AuditTwice' /\ DaysReadable'
<1> SUFFICES ASSUME Inv, [Next]_vars PROVE AuditTextKept' /\ AuditTwice' /\ DaysReadable'
  OBVIOUS
<1> USE DEF Inv, AuditTextKept, AuditTwice, DaysReadable
<1>0. audit \in [Entries -> AuditRow]
  BY DEF TypeOK
<1>1. CASE OldRequest
  <2>1. CASE UNCHANGED audit
    BY <1>1, <2>1 DEF OldRequest
  <2>2. ASSUME NEW e \in Entries,
               audit' = [audit EXCEPT ![e] = [by |-> "old", detail |-> {"text"}]]
        PROVE  AuditTextKept' /\ AuditTwice'
    BY <1>0, <1>1, <2>2 DEF OldRequest
  <2>3. DaysReadable'
    BY <1>1 DEF OldRequest
  <2> QED BY <1>1, <2>1, <2>2, <2>3 DEF OldRequest
<1>2. CASE NewRecord
  <2>1. ASSUME NEW e \in Entries,
               audit' = [audit EXCEPT ![e] = [by |-> "new", detail |-> {"json"}]]
        PROVE  AuditTextKept' /\ AuditTwice'
    BY <1>0, <1>2, <2>1 DEF NewRecord
  <2>2. CASE UNCHANGED audit
    BY <1>2, <2>2 DEF NewRecord
  <2>3. DaysReadable'
    BY <1>2 DEF NewRecord
  <2> QED BY <1>2, <2>1, <2>2, <2>3 DEF NewRecord
<1>3. CASE UpgradeA
  BY <1>0, <1>3 DEF UpgradeA, AuditRow, TypeOK
<1>4. CASE UpgradeB
  BY <1>0, <1>4 DEF UpgradeB, Dropped, AuditRow, TypeOK
<1>5. CASE DowngradeA
  BY <1>0, <1>5 DEF DowngradeA, Dropped, AuditRow, TypeOK
<1>6. CASE DowngradeB
  BY <1>0, <1>6 DEF DowngradeB, Restored, AuditRow, TypeOK
<1>7. CASE UNCHANGED <<schema, audit, day>>
  BY <1>7
<1>8. EditEnv
      \/ (\E t \in Slots : RequestNext(t))
      \/ (\E p \in Processes : Boot(p) \/ Save(p) \/ SeedRead(p) \/ SeedWrite(p)
                                     \/ Crash(p)) \/ UNCHANGED vars
      => UNCHANGED <<schema, audit, day>>
  BY DEF EditEnv, RequestNext, Load, Commit, Rollback, Boot, Save, SeedRead, SeedWrite, Crash, data, vars
<1> QED BY <1>1, <1>2, <1>3, <1>4, <1>5, <1>6, <1>7, <1>8 DEF Next

(* Nobody has read when the schema becomes, or ceases to be, the old one.  *)
LEMMA PendingStep == Inv /\ [Next]_vars => NothingPending'
<1> SUFFICES ASSUME Inv, [Next]_vars PROVE NothingPending'
  OBVIOUS
<1> USE DEF NothingPending
<1>0. NothingPending /\ proc \in [Processes -> ProcessSet]
  BY DEF Inv, TypeOK
<1>1. CASE UpgradeA \/ UpgradeB \/ DowngradeA \/ DowngradeB
  BY <1>1 DEF UpgradeA, UpgradeB, DowngradeA, DowngradeB, Quiet, Reading
<1>2. CASE OldRequest \/ NewRecord \/ EditEnv \/ UNCHANGED vars
  BY <1>0, <1>2 DEF OldRequest, NewRecord, EditEnv, vars
<1>3. CASE \E t \in Slots : RequestNext(t)
  BY <1>0, <1>3, IdleType DEF RequestNext, Load, Commit, Rollback
<1>4. ASSUME NEW p \in Processes, Boot(p) \/ Save(p) \/ SeedWrite(p) \/ Crash(p)
      PROVE  NothingPending'
  <2>1. schema' = schema /\ (tx' = tx \/ tx' = [t \in Slots |->
           IF tx[t].op # "idle" /\ tx[t].worker = p THEN Idle ELSE tx[t]])
    BY <1>4 DEF Boot, Save, SeedWrite, Crash
  <2>2. proc'[p].pc # "write" /\ \A q \in Processes : q # p => proc'[q] = proc[q]
    <3>1. CASE Boot(p) \/ Save(p) \/ Crash(p)
      BY <1>0, <3>1 DEF Boot, Save, Crash, Choose, Down, ProcessSet
    <3>2. CASE SeedWrite(p)
      BY <1>0, <3>2 DEF SeedWrite, Down, ProcessSet
    <3> QED BY <1>4, <3>1, <3>2
  <2> QED BY <1>0, <2>1, <2>2
<1>5. ASSUME NEW p \in Processes, SeedRead(p)
      PROVE  NothingPending'
  <2>1. UNCHANGED <<schema, tx>> /\ (proc'[p].pc = "write" => schema # "legacy")
    BY <1>0, <1>5 DEF SeedRead, Down, ProcessSet
  <2>2. \A q \in Processes : q # p => proc'[q] = proc[q]
    BY <1>0, <1>5 DEF SeedRead
  <2> QED BY <1>0, <2>1, <2>2
<1> QED BY <1>1, <1>2, <1>3, <1>4, <1>5 DEF Next

(* Slots change one at a time, but for those of a worker that dies.        *)
LEMMA SlotStep ==
  ASSUME Inv, [Next]_vars, NEW t \in Slots, tx'[t].op # "idle"
  PROVE  \/ tx'[t] = tx[t]
         \/ \E w \in Workers, op \in Decisions \cup Applications, u \in Users :
              Load(t, w, op, u)
<1>0. tx \in [Slots -> TxSet]
  BY DEF Inv, TypeOK
<1>1. CASE \E s \in Slots : Commit(s) \/ Rollback(s)
  BY <1>0, <1>1, IdleType DEF Commit, Rollback
<1>2. ASSUME NEW s \in Slots, NEW w \in Workers, NEW op \in Decisions \cup Applications,
             NEW u \in Users, Load(s, w, op, u), s # t
      PROVE  tx'[t] = tx[t]
  BY <1>0, <1>2 DEF Load
<1>3. CASE \E p \in Processes : Crash(p)
  BY <1>0, <1>3, IdleType DEF Crash
<1>4. CASE \E p \in Processes : Boot(p) \/ Save(p) \/ SeedRead(p) \/ SeedWrite(p)
  BY <1>4 DEF Boot, Save, SeedRead, SeedWrite
<1>5. CASE OldRequest \/ NewRecord \/ EditEnv \/ UpgradeA \/ UpgradeB \/ DowngradeA
             \/ DowngradeB \/ UNCHANGED vars
  BY <1>5 DEF OldRequest, NewRecord, EditEnv, UpgradeA, UpgradeB, DowngradeA, DowngradeB,
              vars
<1> QED BY <1>1, <1>2, <1>3, <1>4, <1>5 DEF Next, RequestNext

LEMMA SoundStep == Inv /\ [Next]_vars => RequestsSound'
<1> SUFFICES ASSUME Inv, [Next]_vars, NEW t \in Slots, tx'[t].op # "idle"
             PROVE  /\ tx'[t].op \in Decisions => t \in Admins
                    /\ Permitted(tx'[t].op, tx'[t].before)
                    /\ tx'[t].after = Wanted(tx'[t].op, tx'[t].before)
  BY DEF RequestsSound, Permitted, Wanted
<1>1. CASE tx'[t] = tx[t]
  BY <1>1 DEF Inv, RequestsSound
<1>2. ASSUME NEW w \in Workers, NEW op \in Decisions \cup Applications, NEW u \in Users,
             Load(t, w, op, u)
      PROVE  /\ tx'[t].op \in Decisions => t \in Admins
             /\ Permitted(tx'[t].op, tx'[t].before)
             /\ tx'[t].after = Wanted(tx'[t].op, tx'[t].before)
  <2>1. tx'[t] = [op |-> op, user |-> u, worker |-> w, before |-> user[u],
                  after |-> Wanted(op, user[u])]
    BY <1>2 DEF Load, Inv, TypeOK
  <2> QED BY <1>2, <2>1 DEF Load
<1> QED BY <1>1, <1>2, SlotStep

LEMMA PasswordStep == Inv /\ [Next]_vars => LastSaveCounts'
<1> SUFFICES ASSUME Inv, [Next]_vars PROVE LastSaveCounts'
  OBVIOUS
<1> USE DEF LastSaveCounts
<1>0. /\ LastSaveCounts /\ Processes # {} /\ env \in Nat
      /\ proc \in [Processes -> ProcessSet]
      /\ \A p \in Processes : proc[p].env \in Nat
  BY DeploymentAssumption DEF Inv, TypeOK, Processes, ProcessSet
<1>1. CASE UNCHANGED <<admin, env, proc>>
  BY <1>0, <1>1 DEF Saved
<1>2. CASE EditEnv
  BY <1>0, <1>2 DEF EditEnv
<1>3. ASSUME NEW p \in Processes, Boot(p) \/ Crash(p)
      PROVE  LastSaveCounts'
  <2>1. /\ UNCHANGED <<admin, env>> /\ ~Saved(p)' /\ proc'[p].env \in {0, env}
        /\ \A q \in Processes : q # p => proc'[q] = proc[q]
    BY <1>0, <1>3 DEF Boot, Crash, Choose, Down, Saved, ProcessSet, data
  <2> QED BY <1>0, <2>1
<1>4. ASSUME NEW p \in Processes, Save(p)
      PROVE  LastSaveCounts'
  <2>1. /\ env' = env /\ \A q \in Processes : q # p => proc'[q] = proc[q]
        /\ \/ proc'[p] = Down
           \/ proc'[p].env = proc[p].env /\ admin' = proc[p].env
    BY <1>0, <1>4 DEF Save, Down, ProcessSet
  <2>2. Down.env = 0 /\ Down.pc = "down"
    BY DEF Down
  <2> QED BY <1>0, <2>1, <2>2 DEF Saved
<1>5. ASSUME NEW p \in Processes, SeedRead(p) \/ SeedWrite(p)
      PROVE  LastSaveCounts'
  <2>1. /\ UNCHANGED <<admin, env>> /\ Saved(p)
        /\ \A q \in Processes : q # p => proc'[q] = proc[q]
        /\ \/ proc'[p] = Down
           \/ proc'[p].env = proc[p].env
    <3>1. /\ UNCHANGED <<admin, env>> /\ Saved(p)
          /\ \A q \in Processes : q # p => proc'[q] = proc[q]
      BY <1>0, <1>5 DEF SeedRead, SeedWrite, Saved
    <3>2. proc[p] \in ProcessSet
      BY <1>0
    <3>3. CASE SeedRead(p)
      <4>1. proc'[p] = IF schema = "legacy" THEN Down
                       ELSE [proc[p] EXCEPT !.pc = "write",
                                            !.seen = [u \in Demo |-> user[u]]]
        BY <1>0, <3>3 DEF SeedRead
      <4> QED BY <3>1, <3>2, <4>1 DEF ProcessSet
    <3>4. CASE SeedWrite(p)
      <4>1. \/ proc'[p] = Down
            \/ proc'[p] = [proc[p] EXCEPT !.pc = "up", !.seen = Unseen]
        BY <1>0, <3>4 DEF SeedWrite
      <4> QED BY <3>1, <3>2, <4>1 DEF ProcessSet
    <3> QED BY <1>5, <3>1, <3>3, <3>4
  <2>2. Down.env = 0 /\ Down.pc = "down"
    BY DEF Down
  <2> QED BY <1>0, <2>1, <2>2 DEF Saved
<1>6. OldRequest \/ NewRecord \/ UpgradeA \/ UpgradeB \/ DowngradeA \/ DowngradeB
      \/ (\E t \in Slots : RequestNext(t))
      \/ UNCHANGED vars => UNCHANGED <<admin, env, proc>>
  BY DEF OldRequest, NewRecord, UpgradeA, UpgradeB, DowngradeA, DowngradeB, RequestNext,
         Load, Commit, Rollback, vars
<1> QED BY <1>1, <1>2, <1>3, <1>4, <1>5, <1>6 DEF Next

LEMMA InvStep == Inv /\ [Next]_vars => Inv'
  BY TypeStep, RowsStep, PendingStep, SoundStep, PasswordStep DEF Inv

LEMMA Invariance == Spec => []Inv
  BY InvInit, InvStep, PTL DEF Spec

-----------------------------------------------------------------------------
(* One admin decides at a time.                                            *)
OneAdmin == \A s, t \in Admins : s = t

Settled(row) == /\ row.status = "active" => row.roster
                /\ row.status = "rejected" => ~row.roster

(* Of the employees that no seed writes: what a decision has read of the   *)
(* roster stands until it commits, for an application never touches it.    *)
RosterInv ==
  /\ schema # "legacy" => \A u \in Users \ Demo : Settled(user[u])
  /\ \A t \in Slots : tx[t].op # "idle" /\ tx[t].user \notin Demo =>
       IF tx[t].op \in Decisions THEN user[tx[t].user].roster = tx[t].before.roster
                                 ELSE ~tx[t].before.roster

LEMMA CommitSettles ==
  ASSUME Inv, RosterInv, NEW t \in Slots, Commit(t), tx[t].user \notin Demo
  PROVE  LET u == tx[t].user
         IN  /\ Settled(user'[u])
             /\ tx[t].op \in Applications => user'[u].roster = user[u].roster
<1> DEFINE q == tx[t]
           u == q.user
           row == user[u]
           new == Flush(row, q.before, q.after)
<1>1. /\ q.op \in Decisions \cup Applications /\ u \in Users
      /\ q.before \in UserRow /\ q.after \in UserRow /\ row \in UserRow
      /\ schema = "B"
  BY Requested DEF Commit, Inv, TypeOK
<1>2. /\ user'[u] = new
  BY <1>1 DEF Commit, Inv, TypeOK
<1>3. /\ new.status = IF q.after.status = q.before.status THEN row.status ELSE q.after.status
      /\ new.roster = IF q.after.roster = q.before.roster THEN row.roster ELSE q.after.roster
  BY <1>1, Flushed
<1>4. /\ Permitted(q.op, q.before) /\ q.after = Wanted(q.op, q.before)
      /\ Settled(row)
      /\ IF q.op \in Decisions THEN row.roster = q.before.roster ELSE ~q.before.roster
  BY <1>1 DEF Inv, RequestsSound, RosterInv, Commit
<1> SUFFICES Settled(new) /\ (q.op \in Applications => new.roster = row.roster)
  BY <1>2
<1> HIDE DEF new, row, q, u
<1>b. q.before.roster \in BOOLEAN /\ row.roster \in BOOLEAN
  BY <1>1 DEF UserRow
<1>5. CASE q.op = "approve"
  <2>1. q.after = [status |-> "active", roster |-> TRUE]
    BY <1>4, <1>5 DEF Wanted
  <2>2. q.after.status = "active" /\ q.after.roster = TRUE /\ row.roster = q.before.roster
    BY <1>4, <1>5, <2>1 DEF Decisions
  <2>3. new.roster = TRUE
    BY <1>b, <1>3, <2>2
  <2>4. q.before.status = "pending"
    BY <1>4, <1>5 DEF Permitted
  <2> QED BY <1>3, <1>5, <2>2, <2>3, <2>4 DEF Settled, Applications
<1>6. CASE q.op = "reject"
  <2>1. q.after = [status |-> "rejected", roster |-> FALSE]
    BY <1>4, <1>6 DEF Wanted
  <2>2. q.after.status = "rejected" /\ q.after.roster = FALSE /\ row.roster = q.before.roster
    BY <1>4, <1>6, <2>1 DEF Decisions
  <2>3. new.roster = FALSE
    BY <1>b, <1>3, <2>2
  <2>4. q.before.status = "pending"
    BY <1>4, <1>6 DEF Permitted
  <2> QED BY <1>3, <1>6, <2>2, <2>3, <2>4 DEF Settled, Applications
<1>7. CASE q.op = "enable"
  <2>1. /\ q.before.roster /\ row.roster = q.before.roster
        /\ q.after.status = "active" /\ q.after.roster = q.before.roster
    BY <1>1, <1>4, <1>7 DEF Permitted, Wanted, Decisions, UserRow
  <2> QED BY <1>3, <1>4, <1>7, <2>1 DEF Settled, Applications
<1>8. CASE q.op = "disable"
  <2>1. q.after.status = "disabled" /\ q.after.roster = q.before.roster
    BY <1>1, <1>4, <1>8 DEF Wanted, UserRow
  <2> QED BY <1>3, <1>4, <1>8, <2>1 DEF Settled, Applications
<1>9. CASE q.op \in Applications
  <2>1. /\ ~q.before.roster
        /\ q.after = [status |-> "pending", roster |-> FALSE]
        /\ q.before.status # "pending"
    BY <1>1, <1>4, <1>9 DEF Permitted, Wanted, Applications, Decisions, Nobody
  <2>2. q.after.status = "pending" /\ q.after.roster = FALSE
    BY <2>1
  <2>3. new.status = "pending" /\ (q.after.roster = q.before.roster)
    BY <1>b, <1>3, <2>1, <2>2
  <2> QED BY <1>3, <2>3 DEF Settled
<1> QED BY <1>1, <1>5, <1>6, <1>7, <1>8, <1>9 DEF Decisions

LEMMA RosterStep ==
  ASSUME OneAdmin, Inv, RosterInv, [Next]_vars
  PROVE  RosterInv'
<1> USE DEF RosterInv
<1>0. /\ user \in [Users -> UserRow] /\ tx \in [Slots -> TxSet]
      /\ schema = "legacy" => \A t \in Slots : tx[t] = Idle
      /\ Idle.op = "idle"
  BY IdleType DEF Inv, TypeOK, NothingPending
<1>1. CASE OldRequest
  <2>1. schema' = "legacy" /\ tx' = tx /\ \A t \in Slots : tx[t] = Idle
    BY <1>0, <1>1 DEF OldRequest
  <2> QED BY <1>0, <2>1
<1>2. CASE UpgradeA
  <2>1. tx' = tx /\ \A t \in Slots : tx[t] = Idle
    BY <1>2 DEF UpgradeA, Quiet
  <2>2. ASSUME NEW u \in Users PROVE Settled(user'[u])
    <3>1. /\ user'[u] = Backfilled(user[u]) /\ user[u] \in UserRow
          /\ user[u].status # "rejected"
      BY <1>0, <1>2 DEF UpgradeA, Inv, TypeOK
    <3> QED BY <3>1 DEF Backfilled, Settled, UserRow
  <2> QED BY <1>0, <2>1, <2>2
<1>3. CASE DowngradeA
  <2>1. schema' = "legacy" /\ tx' = tx /\ \A t \in Slots : tx[t] = Idle
    BY <1>3 DEF DowngradeA, Quiet
  <2> QED BY <1>0, <2>1
<1>4. CASE UpgradeB \/ DowngradeB \/ NewRecord \/ EditEnv \/ UNCHANGED vars
  <2>1. UNCHANGED <<user, tx>> /\ (schema' = "legacy" <=> schema = "legacy")
    BY <1>4 DEF UpgradeB, DowngradeB, NewRecord, EditEnv, vars
  <2> QED BY <2>1
<1>5. ASSUME NEW p \in Processes, Boot(p) \/ Save(p) \/ SeedRead(p) \/ Crash(p)
      PROVE  RosterInv'
  <2>1. UNCHANGED <<user, schema>>
        /\ \A t \in Slots : tx'[t] = tx[t] \/ tx'[t] = Idle
    BY <1>0, <1>5 DEF Boot, Save, SeedRead, Crash, data
  <2> QED BY <1>0, <2>1
<1>6. ASSUME NEW p \in Processes, SeedWrite(p)
      PROVE  RosterInv'
  <2>1. UNCHANGED <<schema, tx>> /\ \A u \in Users \ Demo : user'[u] = user[u]
    BY <1>0, <1>6 DEF SeedWrite
  <2>2. \A t \in Slots : tx[t].op # "idle" => tx[t].user \in Users
    BY <1>0, Requested
  <2> QED BY <2>1, <2>2
<1>7. ASSUME NEW t \in Slots, NEW w \in Workers, NEW op \in Decisions \cup Applications,
             NEW u \in Users, Load(t, w, op, u)
      PROVE  RosterInv'
  <2>1. /\ UNCHANGED <<user, schema>> /\ schema = "B"
        /\ tx'[t] = [op |-> op, user |-> u, worker |-> w, before |-> user[u],
                     after |-> Wanted(op, user[u])]
        /\ \A s \in Slots : s # t => tx'[s] = tx[s]
        /\ Permitted(op, user[u])
    BY <1>0, <1>7 DEF Load, data
  <2>2. op \in Applications /\ u \notin Demo => ~user[u].roster
    BY <2>1 DEF Permitted, Applications, Nobody, Settled
  <2> QED BY <2>1, <2>2
<1>8. ASSUME NEW t \in Slots, Commit(t)
      PROVE  RosterInv'
  <2>1. /\ tx[t].op \in Decisions \cup Applications /\ tx[t].user \in Users
        /\ \A v \in Users : v # tx[t].user => user'[v] = user[v]
        /\ tx'[t] = Idle /\ \A s \in Slots : s # t => tx'[s] = tx[s]
        /\ UNCHANGED schema
    BY <1>0, <1>8, Requested DEF Commit
  <2>2. \A s \in Slots : tx[s].op # "idle" => tx[s].user \in Users
    BY <1>0, Requested
  <2>3. CASE tx[t].user \in Demo
    BY <1>0, <2>1, <2>2, <2>3
  <2>4. CASE tx[t].user \notin Demo
    <3>1. /\ Settled(user'[tx[t].user])
          /\ tx[t].op \in Applications => user'[tx[t].user].roster = user[tx[t].user].roster
      BY <1>8, <2>4, CommitSettles
    <3>2. ASSUME NEW s \in Slots, s # t, tx[s].op \in Decisions
          PROVE  tx[t].op \in Applications
      BY <2>1, <3>2 DEF OneAdmin, Inv, RequestsSound, Decisions
    <3> QED BY <1>0, <2>1, <2>2, <3>1, <3>2
  <2> QED BY <2>3, <2>4
<1>9. ASSUME NEW t \in Slots, Rollback(t)
      PROVE  RosterInv'
  BY <1>0, <1>9 DEF Rollback, data
<1> QED BY <1>1, <1>2, <1>3, <1>4, <1>5, <1>6, <1>7, <1>8, <1>9 DEF Next, RequestNext

-----------------------------------------------------------------------------

(* The rows have only the columns and values of the current schema, however*)
(* often it goes up and down.                                              *)
THEOREM TypeCorrect == Spec => []TypeOK
<1>1. Inv => TypeOK
  BY DEF Inv
<1> QED BY <1>1, Invariance, PTL

(* What the old program audited stays readable.                            *)
THEOREM AuditCorrect == Spec => []AuditTextKept
<1>1. Inv => AuditTextKept
  BY DEF Inv
<1> QED BY <1>1, Invariance, PTL

(* As long as one admin decides at a time, no active employee is without a *)
(* roster, whichever migrations, seeds and stale signups come between what *)
(* a decision reads and writes; but for the employees that seeds write.    *)
THEOREM RosterCorrect ==
  ASSUME OneAdmin
  PROVE  Spec => []NobodyLockedOut
<1>1. Init => RosterInv
  BY IdleType DEF Init, RosterInv
<1>2. Inv /\ RosterInv /\ [Next]_vars => RosterInv'
  BY RosterStep
<1>3. RosterInv => NobodyLockedOut
  BY DEF RosterInv, Settled, NobodyLockedOut
<1> QED BY <1>1, <1>2, <1>3, Invariance, PTL DEF Spec

(* Each program finds its column filled.                                   *)
THEOREM DaysCorrect == Spec => []DaysReadable
<1>1. Inv => DaysReadable
  BY DEF Inv
<1> QED BY <1>1, Invariance, PTL

(* The password everybody runs with is in force.                           *)
THEOREM PasswordCorrect == Spec => []PasswordTakesEffect
<1>1. Inv => PasswordTakesEffect
  BY DEF Inv, LastSaveCounts, Saved, PasswordTakesEffect
<1> QED BY <1>1, Invariance, PTL
=============================================================================
