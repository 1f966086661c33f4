------------------------------ MODULE Accounts ------------------------------
(* Employee accounts and their devices: signup, login and the device a     *)
(* login registers (app/routers/auth.py, app/device_service.py), the guards*)
(* of a heartbeat (app/deps.py) and what an admin does to an account and to*)
(* its devices (app/routers/admin.py).                                     *)
(*                                                                         *)
(* Grain.  A request loads the rows it decides on in one step and writes   *)
(* and commits in another.  The ORM writes a column only when it differs   *)
(* from the value that was loaded (module Orm).  Any request may also fail *)
(* between the two, which rolls it back.                                   *)
EXTENDS Integers, FiniteSets, Orm

CONSTANTS
  Emails,        \* email is UNIQUE in users
  Rosters,
  Admins,        \* admin requests in flight at once
  Visitors,      \* requests of everybody else in flight at once
  DeviceCap,     \* max_devices_per_user
  MaxUsers,      \* bound: users ever created
  MaxDevices,    \* bound: devices ever registered
  NULL

ASSUME AccountsAssumption ==
  /\ NULL \notin Rosters
  /\ Admins \cap Visitors = {}
  /\ {DeviceCap, MaxUsers, MaxDevices} \subseteq Nat \ {0}

VARIABLES
  account,   \* account[e]: the users row with email e
  device,    \* device[d]: the devices row with id d, d in order of created_at
  active,    \* the rosters with active = true
  tx,        \* tx[t]: what request t has loaded and is about to write
  users,     \* ids of users handed out
  serials    \* ids of devices handed out

vars == <<account, device, active, tx, users, serials>>

Slots == Admins \cup Visitors
UserIds == 1..MaxUsers
Devices == 1..MaxDevices
Stati == {"pending", "active", "rejected", "disabled"}

NoAccount == [id |-> 0, status |-> "none", requested |-> NULL,
              assigned |-> NULL]
AccountSet == {NoAccount} \cup
  [id : UserIds, status : Stati, requested : Rosters,
   assigned : Rosters \cup {NULL}]

(* seen stands for last_seen_at: every heartbeat changes it.               *)
NoDevice == [owner |-> 0, status |-> "none", seen |-> 0]
DeviceSet == {NoDevice} \cup
  [owner : UserIds, status : {"active", "revoked"}, seen : 0..1]

Idle == [op |-> "idle"]
ActiveDevices(id) ==
  {d \in Devices : device[d].owner = id /\ device[d].status = "active"}

\* mutant: enable_employee without its check of the roster
PermittedAnyEnable(op, row) ==
  CASE op \in {"approve", "reject"} -> row.status = "pending"
    [] op = "resubmit"              -> row.status = "rejected"
    [] OTHER                        -> row.status # "none"

(* The guard of an operation on the row it loaded.                         *)
Permitted(op, row) ==
  CASE op \in {"approve", "reject"} -> row.status = "pending"
    [] op = "resubmit"              -> row.status = "rejected"
    [] op = "enable"                -> row.assigned # NULL
    [] OTHER                        -> row.status # "none"

\* mutant: an omitted roster_id stored as it came
WantedNoRequest(op, row, roster) ==
  CASE op = "approve"  -> [row EXCEPT !.status = "active", !.assigned = roster]
    [] op = "reject"   -> [row EXCEPT !.status = "rejected", !.assigned = NULL]
    [] op = "disable"  -> [row EXCEPT !.status = "disabled"]
    [] op = "enable"   -> [row EXCEPT !.status = "active"]
    [] op = "resubmit" -> [row EXCEPT !.status = "pending", !.requested = NULL,
                                      !.assigned = NULL]

(* What it assigns to the columns of the object it loaded; approved_by and *)
(* approved_at, which nothing reads to decide, are left out.               *)
Wanted(op, row, roster) ==
  CASE op = "approve"  -> [row EXCEPT !.status = "active", !.assigned = roster]
    [] op = "reject"   -> [row EXCEPT !.status = "rejected", !.assigned = NULL]
    [] op = "disable"  -> [row EXCEPT !.status = "disabled"]
    [] op = "enable"   -> [row EXCEPT !.status = "active"]
    [] op = "resubmit" -> [row EXCEPT !.status = "pending", !.requested = roster,
                                      !.assigned = NULL]

Init ==
  /\ account = [e \in Emails |-> NoAccount]
  /\ device = [d \in Devices |-> NoDevice]
  /\ active = Rosters
  /\ tx = [t \in Slots |-> Idle]
  /\ users = 0
  /\ serials = 0

-----------------------------------------------------------------------------
(* Accounts.                                                               *)

(* decide_user, disable_employee, enable_employee, and signup on an email  *)
(* whose account was rejected.  The roster an operation names is read with *)
(* the account.                                                            *)
Load(t, op, e, roster) ==
  /\ tx[t] = Idle
  /\ t \in IF op = "resubmit" THEN Visitors ELSE Admins
  /\ Permitted(op, account[e])
  /\ op \in {"approve", "resubmit"} => roster \in active
  /\ tx' = [tx EXCEPT ![t] = [op |-> op, email |-> e, before |-> account[e],
                              after |-> Wanted(op, account[e], roster)]]
  /\ UNCHANGED <<account, device, active, users, serials>>

Updates == {"approve", "reject", "disable", "enable", "resubmit"}

Update(t) ==
  LET q == tx[t]
  IN  /\ q.op \in Updates
      /\ account[q.email].id = q.before.id
      /\ account' = [account EXCEPT ![q.email] = Flush(@, q.before, q.after)]
      /\ tx' = [tx EXCEPT ![t] = Idle]
      /\ UNCHANGED <<device, active, users, serials>>

(* signup on an email without an account.                                  *)
LoadSignup(t, e, roster) ==
  /\ tx[t] = Idle /\ t \in Visitors
  /\ account[e] = NoAccount
  /\ roster \in active
  /\ tx' = [tx EXCEPT ![t] = [op |-> "signup", email |-> e, roster |-> roster]]
  /\ UNCHANGED <<account, device, active, users, serials>>

(* The unique index on email lets one of two racing inserts through.       *)
Signup(t) ==
  LET q == tx[t]
  IN  /\ q.op = "signup"
      /\ account[q.email] = NoAccount
      /\ users < MaxUsers
      /\ users' = users + 1
      /\ account' = [account EXCEPT ![q.email] =
                       [id |-> users + 1, status |-> "pending",
                        requested |-> q.roster, assigned |-> NULL]]
      /\ tx' = [tx EXCEPT ![t] = Idle]
      /\ UNCHANGED <<device, active, serials>>

LoadDelete(t, e) ==
  /\ tx[t] = Idle /\ t \in Admins
  /\ account[e] # NoAccount
  /\ tx' = [tx EXCEPT ![t] = [op |-> "delete", email |-> e, id |-> account[e].id]]
  /\ UNCHANGED <<account, device, active, users, serials>>

\* mutant: no ON DELETE CASCADE
DeleteKeepsDevices(t) ==
  LET q == tx[t]
  IN  /\ q.op = "delete"
      /\ account[q.email].id = q.id
      /\ account' = [account EXCEPT ![q.email] = NoAccount]
      /\ tx' = [tx EXCEPT ![t] = Idle]
      /\ UNCHANGED <<device, active, users, serials>>

(* ON DELETE CASCADE takes the devices along.                              *)
Delete(t) ==
  LET q == tx[t]
  IN  /\ q.op = "delete"
      /\ account[q.email].id = q.id
      /\ account' = [account EXCEPT ![q.email] = NoAccount]
      /\ device' = [d \in Devices |-> IF device[d].owner = q.id THEN NoDevice
                                                                ELSE device[d]]
      /\ tx' = [tx EXCEPT ![t] = Idle]
      /\ UNCHANGED <<active, users, serials>>

(* A roster is switched off or on.                                         *)
SwitchRoster(r) ==
  /\ active' = IF r \in active THEN active \ {r} ELSE active \cup {r}
  /\ UNCHANGED <<account, device, tx, users, serials>>

-----------------------------------------------------------------------------
(* Devices.                                                                *)

(* The device register_device revokes: the oldest, at the cap.             *)
Evict(mine) ==
  {d \in mine : Cardinality(mine) >= DeviceCap /\ \A x \in mine : d <= x}

(* A login without the token of an active device.  created_at is the start *)
(* of the transaction, so the serial is taken here.                        *)
LoadLogin(t, e) ==
  LET id == account[e].id
  IN  /\ tx[t] = Idle /\ t \in Visitors
      /\ account[e].status = "active"
      /\ serials < MaxDevices
      /\ serials' = serials + 1
      /\ tx' = [tx EXCEPT ![t] = [op |-> "login", owner |-> id,
                                  serial |-> serials + 1,
                                  evict |-> Evict(ActiveDevices(id))]]
      /\ UNCHANGED <<account, device, active, users>>

(* The foreign key refuses the device of a user deleted meanwhile.         *)
Login(t) ==
  LET q == tx[t]
  IN  /\ q.op = "login"
      /\ \E e \in Emails : account[e].id = q.owner
      /\ device' = [d \in Devices |->
                      IF d = q.serial
                      THEN [owner |-> q.owner, status |-> "active", seen |-> 0]
                      ELSE IF d \in q.evict THEN [device[d] EXCEPT !.status = "revoked"]
                      ELSE device[d]]
      /\ tx' = [tx EXCEPT ![t] = Idle]
      /\ UNCHANGED <<account, active, users, serials>>

(* revoke_device, and a request that passed get_current_device and is about*)
(* to write last_seen_at.                                                  *)
LoadDevice(t, op, d) ==
  LET row == device[d]
  IN  /\ tx[t] = Idle
      /\ \/ /\ op = "revoke" /\ t \in Admins /\ row # NoDevice
            /\ tx' = [tx EXCEPT ![t] = [op |-> op, device |-> d, before |-> row,
                                        after |-> [row EXCEPT !.status = "revoked"]]]
         \/ /\ op = "beat" /\ t \in Visitors /\ row.status = "active"
            /\ \E e \in Emails : account[e].id = row.owner
                                 /\ account[e].status = "active"
            /\ tx' = [tx EXCEPT ![t] = [op |-> op, device |-> d, before |-> row,
                                        after |-> [row EXCEPT !.seen = 1 - @]]]
      /\ UNCHANGED <<account, device, active, users, serials>>

WriteDevice(t) ==
  LET q == tx[t]
  IN  /\ q.op \in {"revoke", "beat"}
      /\ device[q.device] # NoDevice
      /\ device' = [device EXCEPT ![q.device] = Flush(@, q.before, q.after)]
      /\ tx' = [tx EXCEPT ![t] = Idle]
      /\ UNCHANGED <<account, active, users, serials>>

-----------------------------------------------------------------------------
(* A constraint of the database, a dead connection or a dead worker.       *)
Rollback(t) ==
  /\ tx[t] # Idle
  /\ tx' = [tx EXCEPT ![t] = Idle]
  /\ UNCHANGED <<account, device, active, users, serials>>

Commit(t) == Update(t) \/ Signup(t) \/ Delete(t) \/ Login(t) \/ WriteDevice(t)

Next ==
  \/ \E t \in Slots, e \in Emails, r \in Rosters :
       \/ \E op \in Updates : Load(t, op, e, r)
       \/ LoadSignup(t, e, r)
  \/ \E t \in Slots, e \in Emails : LoadDelete(t, e) \/ LoadLogin(t, e)
  \/ \E t \in Slots, d \in Devices, op \in {"revoke", "beat"} : LoadDevice(t, op, d)
  \/ \E t \in Slots : Commit(t) \/ Rollback(t)
  \/ \E r \in Rosters : SwitchRoster(r)

Spec == Init /\ [][Next]_vars

-----------------------------------------------------------------------------
(* Properties.                                                             *)

TxSet ==
  {Idle}
  \cup [op : Updates, email : Emails, before : AccountSet, after : AccountSet]
  \cup [op : {"signup"}, email : Emails, roster : Rosters]
  \cup [op : {"delete"}, email : Emails, id : UserIds]
  \cup [op : {"login"}, owner : UserIds, serial : Devices, evict : SUBSET Devices]
  \cup [op : {"revoke", "beat"}, device : Devices, before : DeviceSet,
        after : DeviceSet]

TypeOK ==
  /\ account \in [Emails -> AccountSet]
  /\ device \in [Devices -> DeviceSet]
  /\ active \subseteq Rosters
  /\ tx \in [Slots -> TxSet]
  /\ users \in 0..MaxUsers
  /\ serials \in 0..MaxDevices

(* With one admin at work: an active account always has a roster, or every *)
(* check-in of it would be refused; and a rejected one has none, or it     *)
(* could be enabled although it never was approved.                        *)
RosterFollowsStatus ==
  \A e \in Emails :
    /\ account[e].status = "active" => account[e].assigned # NULL
    /\ account[e].status = "rejected" => account[e].assigned = NULL

(* A revoked device never works again, whatever heartbeat, login or        *)
(* revocation that loaded it earlier is still in flight.                   *)
RevokedForGood ==
  [][\A d \in Devices :
       device[d].status = "revoked" => device'[d].status # "active"]_vars

(* What a deleted employee leaves behind: no device outlives its user, not *)
(* even one whose login raced with the delete, so none can ever pass for a *)
(* device of an employee who signs up with the same email later.           *)
DevicesOfLiving ==
  \A d \in Devices :
    device[d] # NoDevice => \E e \in Emails : account[e].id = device[d].owner

-----------------------------------------------------------------------------
(* What comments and docstrings say, and concurrent requests do not keep.  *)

(* admin.py:155 - enabling, like approving, never leaves an active user    *)
(* without a roster, who could not check in.                               *)
ActiveHasRoster ==
  \A e \in Emails : account[e].status = "active" => account[e].assigned # NULL

(* .env.example:51 - a device over the cap revokes the oldest, so a user   *)
(* has no more active devices than the cap.                                *)
DevicesWithinCap ==
  \A e \in Emails : Cardinality(ActiveDevices(account[e].id)) <= DeviceCap
=============================================================================
