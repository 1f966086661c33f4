--------------------------- MODULE SettingsProofs ---------------------------
(* What the code and the column-wise updates guarantee of offices and      *)
(* rosters, for any number of them and any number of requests.             *)
EXTENDS Settings, TLAPS

OfficeCell == {Unused} \cup {There(row) : row \in OfficeRow}
RosterCell == {Unused} \cup {There(row) : row \in RosterRow}
EmployeeCell == {Unused} \cup {There(row) : row \in EmployeeRow}
TxSet ==
  {Idle} \cup OfficeWriteSet \cup RosterWriteSet \cup EmployeeWriteSet

LEMMA Cells ==
  /\ \A c \in OfficeCell : c.state = "there" => c = There(c.row) /\ c.row \in OfficeRow
  /\ \A c \in RosterCell : c.state = "there" => c = There(c.row) /\ c.row \in RosterRow
  /\ \A c \in EmployeeCell :
       c.state = "there" => c = There(c.row) /\ c.row \in EmployeeRow
  /\ \A row : There(row).state = "there" /\ There(row).row = row
  /\ \A row \in OfficeRow : There(row) \in OfficeCell
  /\ \A row \in RosterRow : There(row) \in RosterCell
  /\ \A row \in EmployeeRow : There(row) \in EmployeeCell
  /\ Unused \in OfficeCell /\ Unused \in RosterCell /\ Unused \in EmployeeCell
  /\ Unused.state = "unused"
<1>1. \A row : There(row).state = "there" /\ There(row).row = row
  BY DEF There
<1>2. Unused.state = "unused"
  BY DEF Unused
<1>3. ASSUME NEW c \in OfficeCell, c.state = "there"
      PROVE  c = There(c.row) /\ c.row \in OfficeRow
  <2>1. PICK row \in OfficeRow : c = There(row)
    BY <1>2, <1>3 DEF OfficeCell
  <2> QED
    BY <1>1, <2>1
<1>4. ASSUME NEW c \in RosterCell, c.state = "there"
      PROVE  c = There(c.row) /\ c.row \in RosterRow
  <2>1. PICK row \in RosterRow : c = There(row)
    BY <1>2, <1>4 DEF RosterCell
  <2> QED
    BY <1>1, <2>1
<1>5. ASSUME NEW c \in EmployeeCell, c.state = "there"
      PROVE  c = There(c.row) /\ c.row \in EmployeeRow
  <2>1. PICK row \in EmployeeRow : c = There(row)
    BY <1>2, <1>5 DEF EmployeeCell
  <2> QED
    BY <1>1, <2>1
<1> QED
  BY <1>1, <1>2, <1>3, <1>4, <1>5 DEF OfficeCell, RosterCell, EmployeeCell

LEMMA FlushOffice ==
  ASSUME NEW row \in OfficeRow, NEW before \in OfficeRow, NEW after \in OfficeRow
  PROVE  /\ Flush(row, before, after) \in OfficeRow
         /\ Flush(row, before, after).ips =
              IF after.ips = before.ips THEN row.ips ELSE after.ips
<1>1. DOMAIN row = {"active", "ips"}
  BY DEF OfficeRow
<1> DEFINE f == Flush(row, before, after)
<1>2. f = [c \in {"active", "ips"} |->
             IF after[c] = before[c] THEN row[c] ELSE after[c]]
  BY <1>1 DEF Flush
<1>3. f.active \in BOOLEAN
  BY <1>2 DEF OfficeRow
<1>4. f.ips \in SUBSET Ips /\ f.ips = IF after.ips = before.ips THEN row.ips ELSE after.ips
  BY <1>2 DEF OfficeRow
<1>5. f = [active |-> f.active, ips |-> f.ips]
  BY <1>2
<1> QED
  BY <1>3, <1>4, <1>5 DEF OfficeRow

LEMMA FlushRoster ==
  ASSUME NEW row \in RosterRow, NEW before \in RosterRow, NEW after \in RosterRow
  PROVE  /\ Flush(row, before, after) \in RosterRow
         /\ Flush(row, before, after).default =
              IF after.default = before.default THEN row.default ELSE after.default
<1>1. DOMAIN row = {"default", "active", "office"}
  BY DEF RosterRow
<1> DEFINE f == Flush(row, before, after)
<1>2. f = [c \in {"default", "active", "office"} |->
             IF after[c] = before[c] THEN row[c] ELSE after[c]]
  BY <1>1 DEF Flush
<1>3. f.default \in BOOLEAN
  BY <1>2 DEF RosterRow
<1>4. f.active \in BOOLEAN
  BY <1>2 DEF RosterRow
<1>5. f.office \in Offices
  BY <1>2 DEF RosterRow
<1>6. f.default = IF after.default = before.default THEN row.default ELSE after.default
  BY <1>2
<1>7. f = [default |-> f.default, active |-> f.active, office |-> f.office]
  BY <1>2
<1> QED
  BY <1>3, <1>4, <1>5, <1>6, <1>7 DEF RosterRow

LEMMA FlushEmployee ==
  ASSUME NEW row \in EmployeeRow, NEW before \in EmployeeRow,
         NEW after \in EmployeeRow
  PROVE  Flush(row, before, after) \in EmployeeRow
<1>1. DOMAIN row = {"requested", "assigned"}
  BY DEF EmployeeRow
<1> DEFINE f == Flush(row, before, after)
<1>2. f = [c \in {"requested", "assigned"} |->
             IF after[c] = before[c] THEN row[c] ELSE after[c]]
  BY <1>1 DEF Flush
<1>3. f.requested \in Rosters
  BY <1>2 DEF EmployeeRow
<1>4. f.assigned \in Rosters \cup {NULL}
  BY <1>2 DEF EmployeeRow
<1>5. f = [requested |-> f.requested, assigned |-> f.assigned]
  BY <1>2
<1> QED
  BY <1>3, <1>4, <1>5 DEF EmployeeRow

(* What the record of a request holds, by its operation.                   *)
LEMMA TxKinds ==
  ASSUME NEW q \in TxSet
  PROVE  /\ q.op \in {"add", "remove"} => /\ q.office \in Offices /\ q.ip \in Ips
                                          /\ q.before \in OfficeRow
                                          /\ q.after \in OfficeRow
         /\ q.op = "office" => /\ q.office \in Offices
                               /\ q.before \in OfficeRow /\ q.after \in OfficeRow
         /\ q.op = "delete_office" => q.office \in Offices
         /\ q.op \in {"create", "patch"} => /\ q.roster \in Rosters
                                            /\ q.before \in RosterRow
                                            /\ q.after \in RosterRow
                                            /\ q.clear \subseteq Rosters
         /\ q.op = "delete_roster" => q.roster \in Rosters
         /\ q.op \in {"signup", "employee"} => /\ q.user \in Users
                                               /\ q.after \in EmployeeRow
         /\ q.op = "employee" => q.before \in EmployeeRow
BY DEF TxSet, OfficeWriteSet, RosterWriteSet, EmployeeWriteSet, Idle

LEMMA Types ==
  ASSUME TypeOK
  PROVE  /\ office \in [Offices -> OfficeCell]
         /\ roster \in [Rosters -> RosterCell]
         /\ employee \in [Users -> EmployeeCell]
         /\ tx \in [Slots -> TxSet]
BY DEF TypeOK, OfficeCell, RosterCell, EmployeeCell, TxSet

LEMMA TypesBack ==
  ASSUME office' \in [Offices -> OfficeCell], roster' \in [Rosters -> RosterCell],
         employee' \in [Users -> EmployeeCell], tx' \in [Slots -> TxSet]
  PROVE  TypeOK'
BY DEF TypeOK, OfficeCell, RosterCell, EmployeeCell, TxSet

LEMMA IdleTx == Idle \in TxSet /\ Idle.op = "idle" /\ Idle.ids = {}
BY DEF TxSet, Idle

(* A request that only reads, or that ends without a write.                *)
LEMMA TxChange ==
  ASSUME TypeOK, NEW t \in Slots, NEW q \in TxSet, tx' = [tx EXCEPT ![t] = q],
         UNCHANGED <<office, roster, employee>>
  PROVE  TypeOK'
BY Types, TypesBack

-----------------------------------------------------------------------------
(* Loading.                                                                *)

LEMMA LoadIpStep ==
  ASSUME TypeOK, NEW t \in Slots, NEW op \in {"add", "remove"}, NEW o \in Offices,
         NEW ip \in Ips, LoadIp(t, op, o, ip)
  PROVE  TypeOK'
<1> DEFINE row == office[o].row
           after == [row EXCEPT !.ips = IF op = "add" THEN @ \cup {ip} ELSE @ \ {ip}]
           q == [op |-> op, ids |-> {o}, office |-> o, ip |-> ip,
                 before |-> row, after |-> after]
<1>1. row \in OfficeRow
  BY Types, Cells DEF LoadIp, Exists
<1>2. after \in OfficeRow
  BY <1>1 DEF OfficeRow
<1>3. q \in TxSet
  BY <1>1, <1>2 DEF TxSet, OfficeWriteSet
<1> QED
  BY <1>3, TxChange DEF LoadIp, Begin

LEMMA LoadOfficeStep ==
  ASSUME TypeOK, NEW t \in Slots, NEW o \in Offices,
         LoadOffice(t, o) \/ LoadDeleteOffice(t, o)
  PROVE  TypeOK'
<1> DEFINE row == office[o].row
           after == [row EXCEPT !.active = ~@]
           q == [op |-> "office", ids |-> {o}, office |-> o, before |-> row,
                 after |-> after]
           p == [op |-> "delete_office", ids |-> {o}, office |-> o]
<1>1. row \in OfficeRow
  BY Types, Cells DEF LoadOffice, LoadDeleteOffice, Exists
<1>2. after \in OfficeRow
  BY <1>1 DEF OfficeRow
<1>3. q \in TxSet /\ p \in TxSet
  BY <1>1, <1>2 DEF TxSet, OfficeWriteSet
<1> QED
  BY <1>3, TxChange DEF LoadOffice, LoadDeleteOffice, Begin

LEMMA RosterWriteTx ==
  ASSUME NEW op \in {"create", "patch"}, NEW r \in Rosters, NEW before \in RosterRow,
         NEW after \in RosterRow, NEW clear \in SUBSET Rosters
  PROVE  RosterWrite(op, r, before, after, clear) \in TxSet
<1>1. before.office \in Offices /\ after.office \in Offices
  BY DEF RosterRow
<1> QED
  BY <1>1 DEF RosterWrite, TxSet, RosterWriteSet

LEMMA LoadRosterStep ==
  ASSUME TypeOK, NEW t \in Slots, NEW r \in Rosters, NEW row \in RosterRow,
         NEW sent \in BOOLEAN, LoadCreate(t, r, row) \/ LoadPatch(t, r, row, sent)
  PROVE  TypeOK'
<1>1. OtherDefaults(r) \in SUBSET Rosters /\ {} \in SUBSET Rosters
  BY DEF OtherDefaults
<1>2. CASE LoadCreate(t, r, row)
  BY <1>1, <1>2, RosterWriteTx, TxChange DEF LoadCreate, Begin
<1>3. CASE LoadPatch(t, r, row, sent)
  <2>1. roster[r].row \in RosterRow
    BY <1>3, Types, Cells DEF LoadPatch, RosterExists
  <2> QED
    BY <1>1, <1>3, <2>1, RosterWriteTx, TxChange DEF LoadPatch, Begin
<1> QED
  BY <1>2, <1>3

LEMMA LoadDeleteRosterStep ==
  ASSUME TypeOK, NEW t \in Slots, NEW r \in Rosters, LoadDeleteRoster(t, r)
  PROVE  TypeOK'
<1>1. [op |-> "delete_roster", ids |-> {r}, roster |-> r] \in TxSet
  BY DEF TxSet, RosterWriteSet
<1> QED
  BY <1>1, TxChange DEF LoadDeleteRoster, Begin

LEMMA LoadSignupStep ==
  ASSUME TypeOK, NEW t \in Slots, NEW r \in Rosters, NEW u \in Users,
         LoadSignup(t, u, r)
  PROVE  TypeOK'
<1> DEFINE q == [op |-> "signup", ids |-> {u, r}, user |-> u,
                 after |-> [requested |-> r, assigned |-> NULL]]
<1>1. q \in TxSet
  BY DEF TxSet, EmployeeWriteSet, EmployeeRow
<1> QED
  BY <1>1, TxChange DEF LoadSignup, Begin

LEMMA LoadEmployeeStep ==
  ASSUME TypeOK, NEW t \in Slots, NEW u \in Users, NEW after \in EmployeeRow,
         LoadEmployee(t, u, after)
  PROVE  TypeOK'
<1> DEFINE row == employee[u].row
           decision == [row EXCEPT !.assigned = after.assigned]
           named == {IF after = decision THEN after.assigned ELSE after.requested} \ {NULL}
           q == [op |-> "employee", ids |-> {u} \cup named, user |-> u,
                 before |-> row, after |-> after]
<1>1. row \in EmployeeRow
  BY Types, Cells DEF LoadEmployee, EmployeeExists
<1>2. named \subseteq Rosters
  BY DEF EmployeeRow
<1>3. q \in TxSet
  BY <1>1, <1>2 DEF TxSet, EmployeeWriteSet
<1>4. tx' = [tx EXCEPT ![t] = q] /\ UNCHANGED <<office, roster, employee>>
  BY DEF LoadEmployee, Begin
<1> QED
  BY <1>3, <1>4, TxChange

-----------------------------------------------------------------------------
(* Writing.                                                                *)

LEMMA CreateOfficeStep ==
  ASSUME TypeOK, NEW o \in Offices, NEW row \in OfficeRow, CreateOffice(o, row)
  PROVE  TypeOK'
<1>1. office' = [office EXCEPT ![o] = There(row)] /\ UNCHANGED <<roster, employee, tx>>
  BY DEF CreateOffice
<1> QED
  BY <1>1, Types, TypesBack, Cells

LEMMA WriteOfficeStep ==
  ASSUME TypeOK, NEW t \in Slots, WriteOffice(t)
  PROVE  TypeOK'
<1> DEFINE q == tx[t]
           new == Flush(office[q.office].row, q.before, q.after)
<1>1. /\ q \in TxSet /\ q.op \in {"add", "remove", "office"} /\ Exists(q.office)
      /\ office' = [office EXCEPT ![q.office].row = new]
      /\ tx' = [tx EXCEPT ![t] = Idle] /\ UNCHANGED <<roster, employee>>
  BY Types DEF WriteOffice, End
<1>2. q.office \in Offices /\ q.before \in OfficeRow /\ q.after \in OfficeRow
  BY <1>1, TxKinds
<1>3. office[q.office] = There(office[q.office].row) /\ office[q.office].row \in OfficeRow
  BY <1>1, <1>2, Types, Cells DEF Exists
<1>4. new \in OfficeRow
  BY <1>2, <1>3, FlushOffice
<1>5. office' = [office EXCEPT ![q.office] = There(new)]
  <2>1. office[q.office] = [state |-> "there", row |-> office[q.office].row]
    BY <1>3 DEF There
  <2>2. [office[q.office] EXCEPT !.row = new] = [state |-> "there", row |-> new]
    BY <2>1
  <2>3. office' = [office EXCEPT ![q.office] = [office[q.office] EXCEPT !.row = new]]
    BY <1>1
  <2> QED
    BY <2>2, <2>3 DEF There
<1> QED
  BY <1>1, <1>4, <1>5, Types, TypesBack, Cells, IdleTx

LEMMA DeleteOfficeStep ==
  ASSUME TypeOK, NEW t \in Slots, DeleteOffice(t)
  PROVE  TypeOK'
<1>1. /\ office' = [office EXCEPT ![tx[t].office] = Unused]
      /\ tx' = [tx EXCEPT ![t] = Idle] /\ UNCHANGED <<roster, employee>>
  BY DEF DeleteOffice, End
<1> QED
  BY <1>1, Types, TypesBack, Cells, IdleTx

LEMMA WriteRosterStep ==
  ASSUME TypeOK, NEW t \in Slots, WriteRoster(t)
  PROVE  TypeOK'
<1> DEFINE q == tx[t]
           row == IF q.op = "create" THEN q.after
                  ELSE Flush(roster[q.roster].row, q.before, q.after)
<1>1. /\ q \in TxSet /\ q.op \in {"create", "patch"}
      /\ roster[q.roster].state = IF q.op = "create" THEN "unused" ELSE "there"
      /\ Exists(row.office) /\ \A x \in q.clear : RosterExists(x)
      /\ roster' = [x \in Rosters |-> IF x \in q.clear THEN Cleared(x)
                                      ELSE IF x = q.roster THEN There(row)
                                      ELSE roster[x]]
      /\ tx' = [tx EXCEPT ![t] = Idle] /\ UNCHANGED <<office, employee>>
  BY Types DEF WriteRoster, End
<1>2. /\ q.roster \in Rosters /\ q.before \in RosterRow /\ q.after \in RosterRow
      /\ q.clear \subseteq Rosters
  BY <1>1, TxKinds
<1>3. row \in RosterRow
  <2>1. CASE q.op = "create"
    BY <1>2, <2>1
  <2>2. CASE q.op = "patch"
    <3>1. roster[q.roster].row \in RosterRow
      BY <1>1, <1>2, <2>2, Types, Cells
    <3> QED
      BY <1>2, <2>2, <3>1, FlushRoster
  <2> QED
    BY <1>1, <2>1, <2>2
<1>4. ASSUME NEW x \in q.clear
      PROVE  Cleared(x) \in RosterCell
  <2>1. roster[x].row \in RosterRow
    BY <1>1, <1>2, <1>4, Types, Cells DEF RosterExists
  <2>2. [roster[x].row EXCEPT !.default = FALSE] \in RosterRow
    BY <2>1 DEF RosterRow
  <2> QED
    BY <2>2, Cells DEF Cleared
<1>5. roster' \in [Rosters -> RosterCell]
  BY <1>1, <1>2, <1>3, <1>4, Types, Cells
<1> QED
  BY <1>1, <1>5, Types, TypesBack, IdleTx

LEMMA DeleteRosterStep ==
  ASSUME TypeOK, NEW t \in Slots, DeleteRoster(t)
  PROVE  TypeOK'
<1>1. /\ roster' = [roster EXCEPT ![tx[t].roster] = Unused]
      /\ tx' = [tx EXCEPT ![t] = Idle] /\ UNCHANGED <<office, employee>>
  BY DEF DeleteRoster, End
<1> QED
  BY <1>1, Types, TypesBack, Cells, IdleTx

LEMMA WriteEmployeeStep ==
  ASSUME TypeOK, NEW t \in Slots, WriteEmployee(t)
  PROVE  TypeOK'
<1> DEFINE q == tx[t]
           row == IF q.op = "signup" THEN q.after
                  ELSE Flush(employee[q.user].row, q.before, q.after)
<1>1. /\ q \in TxSet /\ q.op \in {"signup", "employee"}
      /\ q.op = "employee" => EmployeeExists(q.user)
      /\ employee' = [employee EXCEPT ![q.user] = There(row)]
      /\ tx' = [tx EXCEPT ![t] = Idle] /\ UNCHANGED <<office, roster>>
  BY Types DEF WriteEmployee, End
<1>2. q.user \in Users /\ q.after \in EmployeeRow
  BY <1>1, TxKinds
<1>3. row \in EmployeeRow
  <2>1. CASE q.op = "signup"
    BY <1>2, <2>1
  <2>2. CASE q.op = "employee"
    <3>1. q.before \in EmployeeRow /\ employee[q.user].row \in EmployeeRow
      BY <1>1, <1>2, <2>2, TxKinds, Types, Cells DEF EmployeeExists
    <3> QED
      BY <1>2, <2>2, <3>1, FlushEmployee
  <2> QED
    BY <1>1, <2>1, <2>2
<1>4. There(row) \in EmployeeCell
  BY <1>3, Cells
<1> QED
  BY <1>1, <1>2, <1>4, Types, TypesBack, IdleTx

LEMMA DeleteEmployeeStep ==
  ASSUME TypeOK, NEW u \in Users, DeleteEmployee(u)
  PROVE  TypeOK'
<1>1. employee' = [employee EXCEPT ![u] = Unused] /\ UNCHANGED <<office, roster, tx>>
  BY DEF DeleteEmployee
<1> QED
  BY <1>1, Types, TypesBack, Cells

LEMMA InitInv == Init => TypeOK
BY IdleTx DEF Init, TypeOK, TxSet

LEMMA NextInv == TypeOK /\ [Next]_vars => TypeOK'
<1> SUFFICES ASSUME TypeOK, [Next]_vars PROVE TypeOK'
  OBVIOUS
<1>1. CASE UNCHANGED vars
  BY <1>1 DEF vars, TypeOK
<1>2. CASE \E o \in Offices, row \in OfficeRow : CreateOffice(o, row)
  BY <1>2, CreateOfficeStep
<1>3. CASE \E t \in Slots, o \in Offices :
             \/ \E op \in {"add", "remove"}, ip \in Ips : LoadIp(t, op, o, ip)
             \/ LoadOffice(t, o) \/ LoadDeleteOffice(t, o)
  BY <1>3, LoadIpStep, LoadOfficeStep
<1>4. CASE \E t \in Slots, r \in Rosters, row \in RosterRow : LoadCreate(t, r, row)
  BY <1>4, LoadRosterStep
<1>5. CASE \E t \in Slots, r \in Rosters, row \in RosterRow, sent \in BOOLEAN :
             LoadPatch(t, r, row, sent)
  BY <1>5, LoadRosterStep
<1>6. CASE \E t \in Slots, r \in Rosters : LoadDeleteRoster(t, r)
  BY <1>6, LoadDeleteRosterStep
<1>7. CASE \E t \in Slots, r \in Rosters, u \in Users : LoadSignup(t, u, r)
  BY <1>7, LoadSignupStep
<1>8. CASE \E t \in Slots : Commit(t)
  BY <1>8, WriteOfficeStep, DeleteOfficeStep, WriteRosterStep, DeleteRosterStep,
     WriteEmployeeStep DEF Commit
<1>9. CASE \E t \in Slots : Rollback(t)
  BY <1>9, TxChange, IdleTx DEF Rollback, End
<1>10. CASE \E t \in Slots, u \in Users, row \in EmployeeRow : LoadEmployee(t, u, row)
  BY <1>10, LoadEmployeeStep
<1>11. CASE \E u \in Users : DeleteEmployee(u)
  BY <1>11, DeleteEmployeeStep
<1> QED
  BY <1>1, <1>2, <1>3, <1>4, <1>5, <1>6, <1>7, <1>8, <1>9, <1>10, <1>11 DEF Next

-----------------------------------------------------------------------------
(* One admin on the rosters.  What it loaded of them is still there when it*)
(* writes.                                                                 *)
OneEditor == \A s, t \in Editors : s = t

RosterOps == {"create", "patch", "delete_roster"}

EditSound(q) ==
  /\ q.op = "patch" => roster[q.roster].row.default = q.before.default
  /\ q.after.default => OtherDefaults(q.roster) \subseteq q.clear
  /\ q.clear # {} => q.after.default
  /\ q.roster \notin q.clear

DefaultInv ==
  /\ OneDefault
  /\ \A t \in Slots : tx[t].op \in RosterOps => t \in Editors
  /\ \A t \in Slots : tx[t].op \in {"create", "patch"} => EditSound(tx[t])

LEMMA TxKeepsDefault ==
  ASSUME TypeOK, DefaultInv, NEW t \in Slots, NEW q, tx' = [tx EXCEPT ![t] = q],
         roster' = roster,
         q.op \in RosterOps => t \in Editors,
         q.op \in {"create", "patch"} => EditSound(q)
  PROVE  DefaultInv'
<1>1. \A s \in Slots : tx'[s] = IF s = t THEN q ELSE tx[s]
  BY Types
<1>2. OneDefault'
  BY DEF DefaultInv, OneDefault, IsDefault, RosterExists
<1>3. \A s \in Slots : tx'[s].op \in RosterOps => s \in Editors
  BY <1>1 DEF DefaultInv
<1>4. \A s \in Slots : tx'[s].op \in {"create", "patch"} => EditSound(tx'[s])
  BY <1>1 DEF DefaultInv
<1>5. \A s \in Slots : tx'[s].op \in {"create", "patch"} => EditSound(tx[s])'
  BY <1>4 DEF EditSound, OtherDefaults, RosterExists
<1> QED
  BY <1>2, <1>3, <1>5 DEF DefaultInv

LEMMA IdleKeepsDefault ==
  ASSUME TypeOK, DefaultInv, NEW t \in Slots, tx' = [tx EXCEPT ![t] = Idle],
         roster' = roster
  PROVE  DefaultInv'
BY TxKeepsDefault, IdleTx DEF RosterOps

LEMMA LoadCreateDefault ==
  ASSUME TypeOK, DefaultInv, NEW t \in Slots, NEW r \in Rosters, NEW row \in RosterRow,
         LoadCreate(t, r, row)
  PROVE  DefaultInv'
<1> DEFINE clear == IF row.default THEN OtherDefaults(r) ELSE {}
           q == RosterWrite("create", r, row, row, clear)
<1>1. q.op = "create" /\ q.roster = r /\ q.after = row /\ q.clear = clear
  BY DEF RosterWrite
<1>2. EditSound(q)
  BY <1>1 DEF EditSound, OtherDefaults
<1>3. t \in Editors /\ tx' = [tx EXCEPT ![t] = q] /\ roster' = roster
  BY DEF LoadCreate, Begin
<1> QED
  BY <1>2, <1>3, TxKeepsDefault

LEMMA LoadPatchDefault ==
  ASSUME TypeOK, DefaultInv, NEW t \in Slots, NEW r \in Rosters, NEW row \in RosterRow,
         NEW sent \in BOOLEAN, LoadPatch(t, r, row, sent)
  PROVE  DefaultInv'
<1> DEFINE old == roster[r].row
           clear == IF sent /\ row.default THEN OtherDefaults(r) ELSE {}
           q == RosterWrite("patch", r, old, row, clear)
<1>1. /\ q.op = "patch" /\ q.roster = r /\ q.before = old /\ q.after = row
      /\ q.clear = clear
  BY DEF RosterWrite
<1>2. ASSUME row.default
      PROVE  OtherDefaults(r) \subseteq clear
  <2>1. CASE sent
    BY <1>2, <2>1
  <2>2. CASE ~sent
    BY <1>2, <2>2 DEF LoadPatch, DefaultInv, OneDefault, IsDefault, OtherDefaults
  <2> QED
    BY <2>1, <2>2
<1>3. EditSound(q)
  BY <1>1, <1>2 DEF EditSound, OtherDefaults
<1>4. t \in Editors /\ tx' = [tx EXCEPT ![t] = q] /\ roster' = roster
  BY DEF LoadPatch, Begin
<1> QED
  BY <1>3, <1>4, TxKeepsDefault

(* After a write of the only editor, no edit is in flight.                 *)
LEMMA EditorDone ==
  ASSUME OneEditor, TypeOK, DefaultInv, NEW t \in Slots, tx[t].op \in RosterOps,
         tx' = [tx EXCEPT ![t] = Idle], OneDefault'
  PROVE  DefaultInv'
<1>1. \A s \in Slots : tx'[s] = IF s = t THEN Idle ELSE tx[s]
  BY Types
<1>2. \A s \in Slots : tx'[s].op \notin RosterOps
  BY <1>1, IdleTx DEF OneEditor, DefaultInv, RosterOps
<1> QED
  BY <1>2 DEF DefaultInv, RosterOps

LEMMA WriteRosterDefault ==
  ASSUME OneEditor, TypeOK, DefaultInv, NEW t \in Slots, WriteRoster(t)
  PROVE  DefaultInv'
<1> DEFINE q == tx[t]
           row == IF q.op = "create" THEN q.after
                  ELSE Flush(roster[q.roster].row, q.before, q.after)
<1>1. /\ q \in TxSet /\ q.op \in {"create", "patch"}
      /\ roster[q.roster].state = IF q.op = "create" THEN "unused" ELSE "there"
      /\ roster' = [x \in Rosters |-> IF x \in q.clear THEN Cleared(x)
                                      ELSE IF x = q.roster THEN There(row)
                                      ELSE roster[x]]
      /\ tx' = [tx EXCEPT ![t] = Idle]
  BY Types DEF WriteRoster, End
<1>2. /\ q.roster \in Rosters /\ q.before \in RosterRow /\ q.after \in RosterRow
      /\ q.clear \subseteq Rosters /\ EditSound(q)
  BY <1>1, TxKinds DEF DefaultInv
<1>3. row.default = q.after.default
  <2>1. CASE q.op = "create"
    BY <2>1
  <2>2. CASE q.op = "patch"
    <3>1. roster[q.roster].row \in RosterRow
      BY <1>1, <1>2, <2>2, Types, Cells
    <3> QED
      BY <1>2, <2>2, <3>1, FlushRoster DEF EditSound
  <2> QED
    BY <1>1, <2>1, <2>2
<1>4. \A x \in q.clear : ~Cleared(x).row.default
  <2>1. \A x \in q.clear : roster[x].row \in RosterRow
    BY <1>1, <1>2, Types, Cells DEF WriteRoster, RosterExists
  <2>2. \A x \in q.clear : [roster[x].row EXCEPT !.default = FALSE].default = FALSE
    BY <2>1 DEF RosterRow
  <2>3. \A x : Cleared(x).row = [roster[x].row EXCEPT !.default = FALSE]
    BY Cells DEF Cleared
  <2> QED
    BY <2>2, <2>3
<1>5. \A x \in Rosters \ {q.roster} : IsDefault(x)' => x \notin q.clear /\ IsDefault(x)
  BY <1>1, <1>4 DEF IsDefault, RosterExists
<1>6. \A x \in Rosters : x = q.roster /\ IsDefault(x)' => q.after.default
  BY <1>1, <1>2, <1>3, Cells DEF IsDefault, EditSound
<1>7. \A x, y \in Rosters :
        x # q.roster /\ IsDefault(x)' /\ y = q.roster => ~IsDefault(y)'
  BY <1>2, <1>5, <1>6 DEF EditSound, OtherDefaults, IsDefault
<1>8. OneDefault'
  BY <1>2, <1>5, <1>7 DEF DefaultInv, OneDefault
<1> QED
  BY <1>1, <1>8, EditorDone DEF RosterOps

LEMMA DeleteRosterDefault ==
  ASSUME OneEditor, TypeOK, DefaultInv, NEW t \in Slots, DeleteRoster(t)
  PROVE  DefaultInv'
<1>1. \A x \in Rosters : RosterExists(x)' => RosterExists(x) /\ roster'[x] = roster[x]
  BY Types, Cells DEF DeleteRoster, RosterExists
<1>2. OneDefault'
  BY <1>1 DEF DefaultInv, OneDefault, IsDefault
<1> QED
  BY <1>2, EditorDone DEF DeleteRoster, End, RosterOps

LEMMA NextDefault ==
  ASSUME OneEditor, TypeOK, DefaultInv, [Next]_vars
  PROVE  DefaultInv'
<1>1. CASE UNCHANGED vars \/ \E o \in Offices, row \in OfficeRow : CreateOffice(o, row)
  BY <1>1 DEF vars, CreateOffice, DefaultInv, OneDefault, IsDefault, EditSound,
              OtherDefaults, RosterExists
<1>2. ASSUME NEW t \in Slots, NEW o \in Offices, NEW op \in {"add", "remove"},
             NEW ip \in Ips, LoadIp(t, op, o, ip)
      PROVE  DefaultInv'
  BY <1>2, TxKeepsDefault DEF LoadIp, Begin, RosterOps
<1>3. ASSUME NEW t \in Slots, NEW o \in Offices,
             LoadOffice(t, o) \/ LoadDeleteOffice(t, o)
      PROVE  DefaultInv'
  BY <1>3, TxKeepsDefault DEF LoadOffice, LoadDeleteOffice, Begin, RosterOps
<1>4. CASE \E t \in Slots, r \in Rosters, row \in RosterRow : LoadCreate(t, r, row)
  BY <1>4, LoadCreateDefault
<1>5. CASE \E t \in Slots, r \in Rosters, row \in RosterRow, sent \in BOOLEAN :
             LoadPatch(t, r, row, sent)
  BY <1>5, LoadPatchDefault
<1>6. ASSUME NEW t \in Slots, NEW r \in Rosters, LoadDeleteRoster(t, r)
      PROVE  DefaultInv'
  BY <1>6, TxKeepsDefault DEF LoadDeleteRoster, Begin
<1>7. ASSUME NEW t \in Slots, NEW r \in Rosters, NEW u \in Users, LoadSignup(t, u, r)
      PROVE  DefaultInv'
  BY <1>7, TxKeepsDefault DEF LoadSignup, Begin, RosterOps
<1>8. ASSUME NEW t \in Slots, Commit(t) \/ Rollback(t)
      PROVE  DefaultInv'
  <2>1. CASE WriteRoster(t)
    BY <2>1, WriteRosterDefault
  <2>2. CASE DeleteRoster(t)
    BY <2>2, DeleteRosterDefault
  <2>3. CASE WriteOffice(t) \/ DeleteOffice(t) \/ WriteEmployee(t) \/ Rollback(t)
    BY <2>3, IdleKeepsDefault
    DEF WriteOffice, DeleteOffice, WriteEmployee, Rollback, End
  <2> QED
    BY <1>8, <2>1, <2>2, <2>3 DEF Commit
<1>9. ASSUME NEW t \in Slots, NEW u \in Users, NEW after \in EmployeeRow,
             LoadEmployee(t, u, after)
      PROVE  DefaultInv'
  BY <1>9, TxKeepsDefault DEF LoadEmployee, Begin, RosterOps
<1>10. CASE \E u \in Users : DeleteEmployee(u)
  BY <1>10 DEF DeleteEmployee, DefaultInv, OneDefault, IsDefault, EditSound,
               OtherDefaults, RosterExists
<1> QED
  BY <1>1, <1>2, <1>3, <1>4, <1>5, <1>6, <1>7, <1>8, <1>9, <1>10 DEF Next

(* Whoever gives up the last default asked for it.                         *)
HandedOver ==
  \A r \in Rosters :
    /\ IsDefault(r) /\ ~IsDefault(r)'
    /\ \A x \in Rosters : ~IsDefault(x)'
    => \E t \in Editors :
         /\ tx[t].op \in {"delete_roster", "patch"} /\ tx[t].roster = r
         /\ tx[t].op = "patch" => ~tx[t].after.default

LEMMA WriteRosterHandsOver ==
  ASSUME TypeOK, DefaultInv, NEW t \in Slots, WriteRoster(t)
  PROVE  HandedOver
<1> DEFINE q == tx[t]
           row == IF q.op = "create" THEN q.after
                  ELSE Flush(roster[q.roster].row, q.before, q.after)
<1>1. /\ q \in TxSet /\ q.op \in {"create", "patch"}
      /\ roster[q.roster].state = IF q.op = "create" THEN "unused" ELSE "there"
      /\ roster' = [x \in Rosters |-> IF x \in q.clear THEN Cleared(x)
                                      ELSE IF x = q.roster THEN There(row)
                                      ELSE roster[x]]
  BY Types DEF WriteRoster
<1>2. /\ q.roster \in Rosters /\ q.before \in RosterRow /\ q.after \in RosterRow
      /\ EditSound(q) /\ t \in Editors
  BY <1>1, TxKinds DEF DefaultInv, RosterOps
<1>3. ASSUME q.op = "create" \/ q.after.default
      PROVE  row.default = q.after.default
  <2>1. CASE q.op = "create"
    BY <2>1
  <2>2. CASE q.op = "patch"
    <3>1. roster[q.roster].row \in RosterRow
      BY <1>1, <1>2, <2>2, Types, Cells
    <3> QED
      BY <1>2, <2>2, <3>1, FlushRoster DEF EditSound
  <2> QED
    BY <1>1, <2>1, <2>2
<1>4. \A x \in Rosters : x = q.roster /\ q.after.default => IsDefault(x)'
  <2> SUFFICES ASSUME q.after.default PROVE \A x \in Rosters : x = q.roster => IsDefault(x)'
    OBVIOUS
  <2>1. \A x \in Rosters : x = q.roster => roster'[x] = There(row)
    BY <1>1, <1>2 DEF EditSound
  <2>2. row.default
    BY <1>3
  <2> HIDE DEF row
  <2> QED
    BY <2>1, <2>2, Cells DEF IsDefault, RosterExists
<1>5. ASSUME NEW r \in Rosters, IsDefault(r), ~IsDefault(r)',
             \A x \in Rosters : ~IsDefault(x)'
      PROVE  q.op = "patch" /\ q.roster = r /\ ~q.after.default
  <2>1. ~q.after.default /\ q.clear = {}
    BY <1>2, <1>4, <1>5 DEF EditSound
  <2>2. q.roster = r
    BY <1>1, <1>5, <2>1 DEF IsDefault, RosterExists
  <2>3. q.op # "create"
    BY <1>1, <1>5, <2>2 DEF IsDefault, RosterExists
  <2> QED
    BY <1>1, <2>1, <2>2, <2>3
<1> QED
  BY <1>2, <1>5 DEF HandedOver

LEMMA DeleteRosterHandsOver ==
  ASSUME TypeOK, DefaultInv, NEW t \in Slots, DeleteRoster(t)
  PROVE  HandedOver
<1>1. tx[t].op = "delete_roster" /\ t \in Editors
  BY DEF DeleteRoster, DefaultInv, RosterOps
<1>2. \A r \in Rosters : r # tx[t].roster => roster'[r] = roster[r]
  BY Types DEF DeleteRoster
<1>3. \A r \in Rosters : IsDefault(r) /\ ~IsDefault(r)' => tx[t].roster = r
  BY <1>2 DEF IsDefault, RosterExists
<1> QED
  BY <1>1, <1>3 DEF HandedOver

LEMMA NextHandsOver ==
  ASSUME TypeOK, DefaultInv, [Next]_vars
  PROVE  HandedOver
<1>1. ASSUME roster' = roster
      PROVE  HandedOver
  BY <1>1 DEF HandedOver, IsDefault, RosterExists
<1>2. ASSUME NEW t \in Slots, Commit(t) \/ Rollback(t)
      PROVE  HandedOver
  <2>1. CASE WriteRoster(t)
    BY <2>1, WriteRosterHandsOver
  <2>2. CASE DeleteRoster(t)
    BY <2>2, DeleteRosterHandsOver
  <2>3. CASE WriteOffice(t) \/ DeleteOffice(t) \/ WriteEmployee(t) \/ Rollback(t)
    BY <1>1, <2>3 DEF WriteOffice, DeleteOffice, WriteEmployee, Rollback
  <2> QED
    BY <1>2, <2>1, <2>2, <2>3 DEF Commit
<1> QED
  BY <1>1, <1>2 DEF Next, vars, CreateOffice, LoadIp, LoadOffice, LoadDeleteOffice,
    LoadCreate, LoadPatch, LoadDeleteRoster, LoadSignup, LoadEmployee, DeleteEmployee

-----------------------------------------------------------------------------
(* One admin on the IPs.  The list it loaded is still the list of that     *)
(* office, if the office is still there.                                   *)
OneIpAdmin == \A s, t \in IpAdmins : s = t

IpSound(q) ==
  /\ q.op \in {"add", "remove"} =>
       /\ q.ids = {q.office}
       /\ Exists(q.office) => office[q.office].row.ips = q.before.ips
       /\ q.after.ips = IF q.op = "add" THEN q.before.ips \cup {q.ip}
                                        ELSE q.before.ips \ {q.ip}
  /\ q.op = "office" => q.after.ips = q.before.ips

IpInv ==
  \A t \in Slots : /\ tx[t].op \in {"add", "remove"} => t \in IpAdmins
                   /\ IpSound(tx[t])

IpsKept ==
  \A o \in Offices, ip \in Ips :
    /\ Exists(o) /\ ip \in office[o].row.ips
    /\ office'[o].state = "there" /\ ip \notin office'[o].row.ips
    => \E t \in Slots : /\ tx[t].op = "remove" /\ tx[t].ip = ip
                        /\ tx[t].office = o

LEMMA TxKeepsIps ==
  ASSUME TypeOK, IpInv, NEW t \in Slots, NEW q, tx' = [tx EXCEPT ![t] = q],
         office' = office, q.op \in {"add", "remove"} => t \in IpAdmins, IpSound(q)
  PROVE  IpInv' /\ IpsKept
<1>1. \A s \in Slots : tx'[s] = IF s = t THEN q ELSE tx[s]
  BY Types
<1>2. \A s \in Slots : IpSound(tx'[s])
  BY <1>1 DEF IpInv
<1>3. \A s \in Slots : IpSound(tx[s])'
  BY <1>2 DEF IpSound, Exists
<1>4. \A s \in Slots : tx'[s].op \in {"add", "remove"} => s \in IpAdmins
  BY <1>1 DEF IpInv
<1> QED
  BY <1>3, <1>4 DEF IpInv, IpsKept

LEMMA LoadIpIps ==
  ASSUME TypeOK, IpInv, NEW t \in Slots, NEW op \in {"add", "remove"}, NEW o \in Offices,
         NEW ip \in Ips, LoadIp(t, op, o, ip)
  PROVE  IpInv' /\ IpsKept
<1> DEFINE row == office[o].row
           after == [row EXCEPT !.ips = IF op = "add" THEN @ \cup {ip} ELSE @ \ {ip}]
           q == [op |-> op, ids |-> {o}, office |-> o, ip |-> ip,
                 before |-> row, after |-> after]
<1>1. row \in OfficeRow
  BY Types, Cells DEF LoadIp, Exists
<1>2. after.ips = IF op = "add" THEN row.ips \cup {ip} ELSE row.ips \ {ip}
  BY <1>1 DEF OfficeRow
<1>3. IpSound(q)
  BY <1>2 DEF IpSound
<1>4. t \in IpAdmins /\ tx' = [tx EXCEPT ![t] = q] /\ office' = office
  BY DEF LoadIp, Begin
<1> QED
  BY <1>3, <1>4, TxKeepsIps

LEMMA LoadOfficeIps ==
  ASSUME TypeOK, IpInv, NEW t \in Slots, NEW o \in Offices, LoadOffice(t, o)
  PROVE  IpInv' /\ IpsKept
<1> DEFINE row == office[o].row
           after == [row EXCEPT !.active = ~@]
           q == [op |-> "office", ids |-> {o}, office |-> o, before |-> row,
                 after |-> after]
<1>1. row \in OfficeRow
  BY Types, Cells DEF LoadOffice, Exists
<1>2. after.ips = row.ips
  BY <1>1 DEF OfficeRow
<1>3. IpSound(q)
  BY <1>2 DEF IpSound
<1>4. tx' = [tx EXCEPT ![t] = q] /\ office' = office
  BY DEF LoadOffice, Begin
<1> QED
  BY <1>3, <1>4, TxKeepsIps

LEMMA CreateOfficeIps ==
  ASSUME TypeOK, IpInv, NEW o \in Offices, NEW row \in OfficeRow, CreateOffice(o, row)
  PROVE  IpInv' /\ IpsKept
<1>1. /\ \A x \in Offices : x # o => office'[x] = office[x]
      /\ ~Exists(o) /\ tx' = tx
  BY Types, Cells DEF CreateOffice, Exists
<1>2. ASSUME NEW s \in Slots, tx[s].op \in {"add", "remove"}
      PROVE  tx[s].office \in Offices /\ tx[s].office # o
  <2>1. tx[s].office \in Offices
    BY <1>2, Types, TxKinds
  <2> QED
    BY <1>2, <2>1 DEF IpInv, IpSound, CreateOffice, Forgotten
<1>3. \A s \in Slots : IpSound(tx[s])'
  BY <1>1, <1>2 DEF IpInv, IpSound, Exists
<1>4. IpInv'
  BY <1>1, <1>3 DEF IpInv
<1>5. IpsKept
  BY <1>1 DEF IpsKept, Exists
<1> QED
  BY <1>4, <1>5

LEMMA WriteOfficeIps ==
  ASSUME OneIpAdmin, TypeOK, IpInv, NEW t \in Slots, WriteOffice(t)
  PROVE  IpInv' /\ IpsKept
<1> DEFINE q == tx[t]
           old == office[q.office].row
           new == Flush(old, q.before, q.after)
<1>1. /\ q \in TxSet /\ q.op \in {"add", "remove", "office"} /\ Exists(q.office)
      /\ office' = [office EXCEPT ![q.office].row = new]
      /\ tx' = [tx EXCEPT ![t] = Idle]
  BY Types DEF WriteOffice, End
<1>2. /\ q.office \in Offices /\ q.before \in OfficeRow /\ q.after \in OfficeRow
      /\ IpSound(q)
  BY <1>1, TxKinds DEF IpInv
<1>3. /\ office[q.office] = [state |-> "there", row |-> old] /\ old \in OfficeRow
  BY <1>1, <1>2, Types, Cells DEF Exists, There
<1>4. new.ips = IF q.after.ips = q.before.ips THEN old.ips ELSE q.after.ips
  BY <1>2, <1>3, FlushOffice
<1>5. \A x \in Offices : /\ x # q.office => office'[x] = office[x]
                         /\ x = q.office => office'[x] = [state |-> "there", row |-> new]
  BY <1>1, <1>3, Types
<1>6. \A s \in Slots : tx'[s] = IF s = t THEN Idle ELSE tx[s]
  BY <1>1, Types
<1>7. IpsKept
  <2>1. ASSUME NEW ip \in old.ips, ip \notin new.ips
        PROVE  q.op = "remove" /\ q.ip = ip
    BY <1>1, <1>2, <1>4, <2>1 DEF IpSound
  <2> QED
    BY <1>1, <1>5, <2>1 DEF IpsKept, Exists
<1>8. ASSUME NEW s \in Slots, s # t
      PROVE  IpSound(tx[s])'
  <2>1. tx'[s] = tx[s] /\ tx[s] \in TxSet /\ IpSound(tx[s])
    BY <1>6, <1>8, Types DEF IpInv
  <2>2. CASE tx[s].op \in {"add", "remove"}
    <3>1. q.op = "office"
      BY <1>1, <1>8, <2>2 DEF IpInv, OneIpAdmin
    <3>2. new.ips = old.ips
      BY <1>2, <1>4, <3>1 DEF IpSound
    <3>3. tx[s].office \in Offices
      BY <2>1, <2>2, TxKinds
    <3>4. \A x \in Offices : office'[x].state = "there" =>
            Exists(x) /\ office'[x].row.ips = office[x].row.ips
      <4>1. office'[q.office].row = new /\ office[q.office].row = old
        BY <1>2, <1>5
      <4>2. \A x \in Offices : x # q.office => office'[x] = office[x]
        BY <1>5
      <4> QED
        BY <1>1, <3>2, <4>1, <4>2 DEF Exists
    <3> QED
      BY <2>1, <2>2, <3>3, <3>4 DEF IpSound, Exists
  <2>3. CASE tx[s].op \notin {"add", "remove"}
    BY <2>1, <2>3 DEF IpSound
  <2> QED
    BY <2>2, <2>3
<1>9. IpSound(tx[t])'
  BY <1>6, IdleTx DEF IpSound
<1>10. \A s \in Slots : tx'[s].op \in {"add", "remove"} => s \in IpAdmins
  BY <1>6, IdleTx DEF IpInv
<1> QED
  BY <1>7, <1>8, <1>9, <1>10 DEF IpInv

LEMMA DeleteOfficeIps ==
  ASSUME TypeOK, IpInv, NEW t \in Slots, DeleteOffice(t)
  PROVE  IpInv' /\ IpsKept
<1>1. \A x \in Offices : Exists(x)' => Exists(x) /\ office'[x] = office[x]
  BY Types, Cells DEF DeleteOffice, Exists
<1>2. \A s \in Slots : tx'[s] = IF s = t THEN Idle ELSE tx[s]
  BY Types DEF DeleteOffice, End
<1>3. ASSUME NEW s \in Slots
      PROVE  IpSound(tx[s])'
  <2>1. CASE s = t
    BY <1>2, <2>1, IdleTx DEF IpSound
  <2>2. CASE s # t
    <3>1. tx[s].op \in {"add", "remove"} => tx[s].office \in Offices
      BY Types, TxKinds
    <3>2. IpSound(tx[s]) /\ tx'[s] = tx[s]
      BY <1>2, <2>2 DEF IpInv
    <3> QED
      BY <1>1, <3>1, <3>2 DEF IpSound, Exists
  <2> QED
    BY <2>1, <2>2
<1>4. IpInv'
  BY <1>2, <1>3, IdleTx DEF IpInv
<1>5. IpsKept
  BY <1>1 DEF IpsKept, Exists
<1> QED
  BY <1>4, <1>5

LEMMA NextIps ==
  ASSUME OneIpAdmin, TypeOK, IpInv, [Next]_vars
  PROVE  IpInv' /\ IpsKept
<1>1. CASE UNCHANGED vars
  BY <1>1 DEF vars, IpInv, IpSound, Exists, IpsKept
<1>2. CASE \E o \in Offices, row \in OfficeRow : CreateOffice(o, row)
  BY <1>2, CreateOfficeIps
<1>3. CASE \E t \in Slots, o \in Offices, op \in {"add", "remove"}, ip \in Ips :
             LoadIp(t, op, o, ip)
  BY <1>3, LoadIpIps
<1>4. CASE \E t \in Slots, o \in Offices : LoadOffice(t, o)
  BY <1>4, LoadOfficeIps
<1>5. ASSUME NEW t \in Slots, NEW o \in Offices, LoadDeleteOffice(t, o)
      PROVE  IpInv' /\ IpsKept
  BY <1>5, TxKeepsIps DEF LoadDeleteOffice, Begin, IpSound
<1>6. ASSUME NEW t \in Slots, NEW r \in Rosters, NEW row \in RosterRow,
             NEW sent \in BOOLEAN, LoadCreate(t, r, row) \/ LoadPatch(t, r, row, sent)
      PROVE  IpInv' /\ IpsKept
  BY <1>6, TxKeepsIps DEF LoadCreate, LoadPatch, Begin, IpSound, RosterWrite
<1>7. ASSUME NEW t \in Slots, NEW r \in Rosters, LoadDeleteRoster(t, r)
      PROVE  IpInv' /\ IpsKept
  BY <1>7, TxKeepsIps DEF LoadDeleteRoster, Begin, IpSound
<1>8. ASSUME NEW t \in Slots, NEW r \in Rosters, NEW u \in Users, LoadSignup(t, u, r)
      PROVE  IpInv' /\ IpsKept
  BY <1>8, TxKeepsIps DEF LoadSignup, Begin, IpSound
<1>9. ASSUME NEW t \in Slots, Commit(t) \/ Rollback(t)
      PROVE  IpInv' /\ IpsKept
  <2>1. CASE WriteOffice(t)
    BY <2>1, WriteOfficeIps
  <2>2. CASE DeleteOffice(t)
    BY <2>2, DeleteOfficeIps
  <2>3. CASE WriteRoster(t) \/ DeleteRoster(t) \/ WriteEmployee(t) \/ Rollback(t)
    BY <2>3, TxKeepsIps, IdleTx
    DEF WriteRoster, DeleteRoster, WriteEmployee, Rollback, End, IpSound
  <2> QED
    BY <1>9, <2>1, <2>2, <2>3 DEF Commit
<1>10. ASSUME NEW t \in Slots, NEW u \in Users, NEW after \in EmployeeRow,
              LoadEmployee(t, u, after)
       PROVE  IpInv' /\ IpsKept
  BY <1>10, TxKeepsIps DEF LoadEmployee, Begin, IpSound
<1>11. CASE \E u \in Users : DeleteEmployee(u)
  BY <1>11 DEF DeleteEmployee, IpInv, IpSound, Exists, IpsKept
<1> QED
  BY <1>1, <1>2, <1>3, <1>4, <1>5, <1>6, <1>7, <1>8, <1>9, <1>10, <1>11 DEF Next

-----------------------------------------------------------------------------
(* The results.                                                            *)

(* Every row of the settings and every transaction on them keeps its type. *)
THEOREM TypeCorrect == Spec => []TypeOK
BY InitInv, NextInv, PTL DEF Spec

LEMMA InitDefault == Init => DefaultInv
<1> SUFFICES ASSUME Init PROVE DefaultInv
  OBVIOUS
<1>1. \A t \in Slots : tx[t].op = "idle"
  BY IdleTx DEF Init
<1>2. \A r \in Rosters : ~RosterExists(r)
  BY Cells DEF Init, RosterExists
<1> QED
  BY <1>1, <1>2 DEF DefaultInv, OneDefault, IsDefault, RosterOps

(* As long as one admin edits rosters at a time, _clear_other_defaults     *)
(* leaves at most one default (routers/rosters.py).                        *)
THEOREM OneDefaultCorrect ==
  ASSUME OneEditor
  PROVE  Spec => []OneDefault
<1>1. TypeOK /\ DefaultInv /\ [Next]_vars => DefaultInv'
  BY NextDefault
<1>2. DefaultInv => OneDefault
  BY DEF DefaultInv
<1> QED
  BY TypeCorrect, InitDefault, <1>1, <1>2, PTL DEF Spec

(* And it never clears the last one: the default ends without another in   *)
(* its place only where its own roster is deleted or sent as no default    *)
(* (routers/rosters.py).                                                   *)
THEOREM HandedOverCorrect ==
  ASSUME OneEditor
  PROVE  Spec => DefaultHandedOver
<1>1. TypeOK /\ DefaultInv /\ [Next]_vars => DefaultInv' /\ [HandedOver]_vars
  BY NextDefault, NextHandsOver
<1>2. DefaultHandedOver <=> [][HandedOver]_vars
  BY PTL DEF DefaultHandedOver, HandedOver
<1> QED
  BY TypeCorrect, InitDefault, <1>1, <1>2, PTL DEF Spec

(* As long as one admin edits IPs at a time, whatever the others edit of   *)
(* the office, it loses an IP only by a request to remove that IP          *)
(* (routers/offices.py).                                                   *)
THEOREM IpsCorrect ==
  ASSUME OneIpAdmin
  PROVE  Spec => IpsRemovedByRequest
<1>1. Init => IpInv
  BY IdleTx DEF Init, IpInv, IpSound
<1>2. TypeOK /\ IpInv /\ [Next]_vars => IpInv' /\ [IpsKept]_vars
  BY NextIps
<1>3. IpsRemovedByRequest <=> [][IpsKept]_vars
  BY PTL DEF IpsRemovedByRequest, IpsKept
<1> QED
  BY TypeCorrect, <1>1, <1>2, <1>3, PTL DEF Spec
=============================================================================
