------------------------------ MODULE Settings ------------------------------
(* What admins configure: offices with their public IPs and rosters        *)
(* (app/routers/offices.py, app/routers/rosters.py), and the employees who *)
(* refer to a roster (app/routers/auth.py, app/routers/admin.py).          *)
(*                                                                         *)
(* Grain.  As in Accounts: a request loads the rows it decides on in one   *)
(* step, and writes and commits in another, in which the foreign keys are  *)
(* checked.  Any request may fail between the two.                         *)
EXTENDS Integers, FiniteSets, Orm

CONSTANTS
  Offices,     \* ids of offices
  Rosters,     \* ids of rosters
  Users,       \* ids of employees
  Ips,
  IpAdmins,    \* admin requests on offices and their IPs in flight at once
  Editors,     \* admin requests on offices and rosters in flight at once
  Enrolments,  \* signups, and decisions on employees, in flight at once
  NULL

ASSUME SettingsAssumption ==
  /\ NULL \notin Rosters \cup Offices \cup Users
  /\ IpAdmins \cap Editors = {}
  /\ (IpAdmins \cup Editors) \cap Enrolments = {}

VARIABLES
  office,    \* office[o]: the offices row with id o
  roster,    \* roster[r]: the rosters row with id r
  employee,  \* employee[u]: the users row with id u; its status, which says
             \* who may be decided about or apply again, is left to Accounts
  tx         \* tx[t]: what request t has loaded and is about to write

vars == <<office, roster, employee, tx>>

Slots == IpAdmins \cup Editors \cup Enrolments
Idle == [op |-> "idle", ids |-> {}]

OfficeRow == [active : BOOLEAN, ips : SUBSET Ips]
RosterRow == [default : BOOLEAN, active : BOOLEAN, office : Offices]
EmployeeRow == [requested : Rosters, assigned : Rosters \cup {NULL}]
Unused == [state |-> "unused"]
There(row) == [state |-> "there", row |-> row]

(* The database uses an id once.  The model gives it out again when no     *)
(* request refers to it any more, and nobody could tell the difference.    *)
Forgotten(id) == \A t \in Slots : id \notin tx[t].ids

Exists(o) == office[o].state = "there"
RosterExists(r) == roster[r].state = "there"
EmployeeExists(u) == employee[u].state = "there"

(* The rows a foreign key protects from deletion.                          *)
OfficeInUse(o) == \E r \in Rosters : RosterExists(r) /\ roster[r].row.office = o
RosterInUse(r) ==
  \E u \in Users : /\ EmployeeExists(u)
                   /\ r \in {employee[u].row.requested, employee[u].row.assigned}

Init ==
  /\ office = [o \in Offices |-> Unused]
  /\ roster = [r \in Rosters |-> Unused]
  /\ employee = [u \in Users |-> Unused]
  /\ tx = [t \in Slots |-> Idle]

Begin(t, q) == tx[t] = Idle /\ tx' = [tx EXCEPT ![t] = q]
End(t) == tx' = [tx EXCEPT ![t] = Idle]

-----------------------------------------------------------------------------
(* Offices.                                                                *)

CreateOffice(o, row) ==
  /\ office[o] = Unused /\ Forgotten(o)
  /\ office' = [office EXCEPT ![o] = There(row)]
  /\ UNCHANGED <<roster, employee, tx>>

(* add_public_ip and add_current_ip do nothing with an IP that is listed;  *)
(* remove_public_ip answers 404 for one that is not.                       *)
LoadIp(t, op, o, ip) ==
  LET row == office[o].row
  IN  /\ t \in IpAdmins /\ Exists(o)
      /\ IF op = "add" THEN ip \notin row.ips ELSE ip \in row.ips
      /\ Begin(t, [op |-> op, ids |-> {o}, office |-> o, ip |-> ip,
                   before |-> row,
                   after |-> [row EXCEPT !.ips = IF op = "add" THEN @ \cup {ip}
                                                               ELSE @ \ {ip}]])
      /\ UNCHANGED <<office, roster, employee>>

(* update_office: the IPs are not among its fields.                        *)
LoadOffice(t, o) ==
  LET row == office[o].row
  IN  /\ t \in IpAdmins \cup Editors /\ Exists(o)
      /\ Begin(t, [op |-> "office", ids |-> {o}, office |-> o, before |-> row,
                   after |-> [row EXCEPT !.active = ~@]])
      /\ UNCHANGED <<office, roster, employee>>

WriteOffice(t) ==
  LET q == tx[t]
  IN  /\ q.op \in {"add", "remove", "office"}
      /\ Exists(q.office)
      /\ office' = [office EXCEPT ![q.office].row = Flush(@, q.before, q.after)]
      /\ End(t)
      /\ UNCHANGED <<roster, employee>>

LoadDeleteOffice(t, o) ==
  /\ t \in IpAdmins \cup Editors /\ Exists(o)
  /\ ~OfficeInUse(o)
  /\ Begin(t, [op |-> "delete_office", ids |-> {o}, office |-> o])
  /\ UNCHANGED <<office, roster, employee>>

DeleteOffice(t) ==
  LET q == tx[t]
  IN  /\ q.op = "delete_office"
      /\ Exists(q.office) /\ ~OfficeInUse(q.office)
      /\ office' = [office EXCEPT ![q.office] = Unused]
      /\ End(t)
      /\ UNCHANGED <<roster, employee>>

-----------------------------------------------------------------------------
(* Rosters.                                                                *)

\* mutant: an inactive roster keeps its claim to be the default
OtherActiveDefaults(r) ==
  {x \in Rosters \ {r} : /\ RosterExists(x) /\ roster[x].row.default
                         /\ roster[x].row.active}

\* mutant: keep_id forgotten
AllDefaults(r) == {x \in Rosters : RosterExists(x) /\ roster[x].row.default}

(* What _clear_other_defaults loads.                                       *)
OtherDefaults(r) ==
  {x \in Rosters \ {r} : RosterExists(x) /\ roster[x].row.default}

RosterWrite(op, r, before, after, clear) ==
  [op |-> op, ids |-> {r, before.office, after.office} \cup clear,
   roster |-> r, before |-> before, after |-> after, clear |-> clear]

(* create_roster inserts, then loads the other defaults.                   *)
LoadCreate(t, r, row) ==
  /\ t \in Editors
  /\ roster[r] = Unused /\ Forgotten(r)
  /\ Exists(row.office)
  /\ Begin(t, RosterWrite("create", r, row, row,
                          IF row.default THEN OtherDefaults(r) ELSE {}))
  /\ UNCHANGED <<office, roster, employee>>

(* update_roster: any fields.  Only a payload with is_default = true clears*)
(* the others, also when the roster is the default already.                *)
LoadPatch(t, r, row, sent) ==
  LET old == roster[r].row
  IN  /\ t \in Editors /\ RosterExists(r)
      /\ row.office # old.office => Exists(row.office)
      /\ row.default # old.default => sent
      /\ Begin(t, RosterWrite("patch", r, old, row,
                              IF sent /\ row.default THEN OtherDefaults(r) ELSE {}))
      /\ UNCHANGED <<office, roster, employee>>

\* mutant: is_default cleared to NULL, which the column forbids
ClearedToNull(x) == There([roster[x].row EXCEPT !.default = NULL])

Cleared(x) == There([roster[x].row EXCEPT !.default = FALSE])

(* The row and the defaults it takes over from, all of which must be there.*)
WriteRoster(t) ==
  LET q == tx[t]
      row == IF q.op = "create" THEN q.after
                                ELSE Flush(roster[q.roster].row, q.before, q.after)
  IN  /\ q.op \in {"create", "patch"}
      /\ roster[q.roster].state = IF q.op = "create" THEN "unused" ELSE "there"
      /\ Exists(row.office)
      /\ \A x \in q.clear : RosterExists(x)
      /\ roster' = [x \in Rosters |-> IF x \in q.clear THEN Cleared(x)
                                      ELSE IF x = q.roster THEN There(row)
                                      ELSE roster[x]]
      /\ End(t)
      /\ UNCHANGED <<office, employee>>

LoadDeleteRoster(t, r) ==
  /\ t \in Editors /\ RosterExists(r)
  /\ ~RosterInUse(r)
  /\ Begin(t, [op |-> "delete_roster", ids |-> {r}, roster |-> r])
  /\ UNCHANGED <<office, roster, employee>>

DeleteRoster(t) ==
  LET q == tx[t]
  IN  /\ q.op = "delete_roster"
      /\ RosterExists(q.roster) /\ ~RosterInUse(q.roster)
      /\ roster' = [roster EXCEPT ![q.roster] = Unused]
      /\ End(t)
      /\ UNCHANGED <<office, employee>>

-----------------------------------------------------------------------------
(* Employees.                                                              *)

(* signup of somebody new: the roster it names must be active; without one *)
(* it takes any default that is active.  Both are rosters a visitor can end*)
(* up with.                                                                *)
LoadSignup(t, u, r) ==
  /\ t \in Enrolments
  /\ employee[u] = Unused /\ Forgotten(u)
  /\ RosterExists(r) /\ roster[r].row.active
  /\ Begin(t, [op |-> "signup", ids |-> {u, r}, user |-> u,
               after |-> [requested |-> r, assigned |-> NULL]])
  /\ UNCHANGED <<office, roster, employee>>

(* A resubmission asks for an active roster and gives up the granted one,  *)
(* an approval grants an active roster, a rejection takes it away.         *)
LoadEmployee(t, u, after) ==
  LET row == employee[u].row
      decision == [row EXCEPT !.assigned = after.assigned]
      named == {IF after = decision THEN after.assigned ELSE after.requested} \ {NULL}
  IN  /\ t \in Enrolments /\ EmployeeExists(u)
      /\ after = decision \/ after.assigned = NULL
      /\ \A r \in named : RosterExists(r) /\ roster[r].row.active
      /\ Begin(t, [op |-> "employee", ids |-> {u} \cup named, user |-> u,
                   before |-> row, after |-> after])
      /\ UNCHANGED <<office, roster, employee>>

(* The foreign keys refuse a roster deleted meanwhile.                     *)
WriteEmployee(t) ==
  LET q == tx[t]
      row == IF q.op = "signup" THEN q.after
                                ELSE Flush(employee[q.user].row, q.before, q.after)
  IN  /\ q.op \in {"signup", "employee"}
      /\ q.op = "employee" => EmployeeExists(q.user)
      /\ \A r \in {row.requested, row.assigned} \ {NULL} : RosterExists(r)
      /\ employee' = [employee EXCEPT ![q.user] = There(row)]
      /\ End(t)
      /\ UNCHANGED <<office, roster>>

(* delete_employee decides nothing by what it reads.                       *)
DeleteEmployee(u) ==
  /\ EmployeeExists(u)
  /\ employee' = [employee EXCEPT ![u] = Unused]
  /\ UNCHANGED <<office, roster, tx>>

-----------------------------------------------------------------------------
(* A refused constraint, a row that is gone, or a connection lost.         *)
Rollback(t) ==
  /\ tx[t] # Idle
  /\ End(t)
  /\ UNCHANGED <<office, roster, employee>>

Commit(t) ==
  \/ WriteOffice(t) \/ DeleteOffice(t) \/ WriteRoster(t) \/ DeleteRoster(t)
  \/ WriteEmployee(t)

Next ==
  \/ \E o \in Offices, row \in OfficeRow : CreateOffice(o, row)
  \/ \E t \in Slots, o \in Offices :
       \/ \E op \in {"add", "remove"}, ip \in Ips : LoadIp(t, op, o, ip)
       \/ LoadOffice(t, o) \/ LoadDeleteOffice(t, o)
  \/ \E t \in Slots, r \in Rosters :
       \/ \E row \in RosterRow : LoadCreate(t, r, row)
       \/ \E row \in RosterRow, sent \in BOOLEAN : LoadPatch(t, r, row, sent)
       \/ LoadDeleteRoster(t, r)
       \/ \E u \in Users : LoadSignup(t, u, r)
  \/ \E t \in Slots, u \in Users, row \in EmployeeRow : LoadEmployee(t, u, row)
  \/ \E u \in Users : DeleteEmployee(u)
  \/ \E t \in Slots : Commit(t) \/ Rollback(t)

Spec == Init /\ [][Next]_vars

-----------------------------------------------------------------------------
(* Properties.                                                             *)

OfficeWriteSet ==
  [op : {"add", "remove"}, ids : SUBSET Offices, office : Offices, ip : Ips,
   before : OfficeRow, after : OfficeRow]
  \cup [op : {"office"}, ids : SUBSET Offices, office : Offices,
        before : OfficeRow, after : OfficeRow]
  \cup [op : {"delete_office"}, ids : SUBSET Offices, office : Offices]

RosterWriteSet ==
  [op : {"create", "patch"}, ids : SUBSET (Offices \cup Rosters),
   roster : Rosters, before : RosterRow, after : RosterRow, clear : SUBSET Rosters]
  \cup [op : {"delete_roster"}, ids : SUBSET Rosters, roster : Rosters]

EmployeeWriteSet ==
  [op : {"signup"}, ids : SUBSET (Users \cup Rosters), user : Users,
   after : EmployeeRow]
  \cup [op : {"employee"}, ids : SUBSET (Users \cup Rosters), user : Users,
        before : EmployeeRow, after : EmployeeRow]

TypeOK ==
  /\ office \in [Offices -> {Unused} \cup {There(row) : row \in OfficeRow}]
  /\ roster \in [Rosters -> {Unused} \cup {There(row) : row \in RosterRow}]
  /\ employee \in [Users -> {Unused} \cup {There(row) : row \in EmployeeRow}]
  /\ tx \in [Slots ->
       {Idle} \cup OfficeWriteSet \cup RosterWriteSet \cup EmployeeWriteSet]

IsDefault(r) == RosterExists(r) /\ roster[r].row.default

(* With one admin on the rosters: whichever are created, patched, switched *)
(* off and deleted, a signup that names none has at most one default to    *)
(* fall back to.                                                           *)
OneDefault == \A r, x \in Rosters : IsDefault(r) /\ IsDefault(x) => r = x

(* With one admin on the rosters: signups lose the default they fall back  *)
(* to only to another default, or by a request that deletes that very      *)
(* roster or takes its claim away.                                         *)
DefaultHandedOver ==
  [][\A r \in Rosters :
       /\ IsDefault(r) /\ ~IsDefault(r)'
       /\ \A x \in Rosters : ~IsDefault(x)'
       => \E t \in Editors :
            /\ tx[t].op \in {"delete_roster", "patch"} /\ tx[t].roster = r
            /\ tx[t].op = "patch" => ~tx[t].after.default]_vars

(* With one admin on the IPs: an office loses an IP, and with it the WiFi  *)
(* check-ins of everybody there, only by a request to remove that very IP, *)
(* whatever else of the office is edited meanwhile.                        *)
IpsRemovedByRequest ==
  [][\A o \in Offices, ip \in Ips :
       /\ Exists(o) /\ ip \in office[o].row.ips
       /\ office'[o].state = "there" /\ ip \notin office'[o].row.ips
       => \E t \in Slots : /\ tx[t].op = "remove" /\ tx[t].ip = ip
                           /\ tx[t].office = o]_vars
=============================================================================
