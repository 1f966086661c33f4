--------------------------- MODULE AccountsProofs ---------------------------
(* Proofs about accounts and devices, for any number of emails, rosters and*)
(* requests in flight.                                                     *)
EXTENDS Accounts, FiniteSetTheorems, WellFoundedInduction, TLAPS

UserRow == [id : UserIds, status : Stati, requested : Rosters,
            assigned : Rosters \cup {NULL}]
DeviceRow == [owner : UserIds, status : {"active", "revoked"}, seen : 0..1]

LEMMA FlushUser ==
  ASSUME NEW row \in UserRow, NEW before \in UserRow, NEW after \in UserRow
  PROVE  /\ Flush(row, before, after) \in UserRow
         /\ after.id = before.id => Flush(row, before, after).id = row.id
         /\ Flush(row, before, after).status =
              IF after.status = before.status THEN row.status ELSE after.status
         /\ Flush(row, before, after).assigned =
              IF after.assigned = before.assigned THEN row.assigned
                                                  ELSE after.assigned
<1>1. DOMAIN row = {"id", "status", "requested", "assigned"}
  BY DEF UserRow
<1> DEFINE f == Flush(row, before, after)
<1>2. f = [c \in {"id", "status", "requested", "assigned"} |->
             IF after[c] = before[c] THEN row[c] ELSE after[c]]
  BY <1>1 DEF Flush
<1>3. /\ f.id = IF after.id = before.id THEN row.id ELSE after.id
      /\ f.status = IF after.status = before.status THEN row.status
                                                    ELSE after.status
      /\ f.assigned = IF after.assigned = before.assigned THEN row.assigned
                                                          ELSE after.assigned
      /\ f.status \in Stati
      /\ f.requested \in Rosters
      /\ f.assigned \in Rosters \cup {NULL}
  BY <1>2 DEF UserRow
<1>4. f = [id |-> f.id, status |-> f.status, requested |-> f.requested,
           assigned |-> f.assigned]
  BY <1>2
<1> QED
  BY <1>3, <1>4 DEF UserRow

LEMMA FlushDevice ==
  ASSUME NEW row \in DeviceRow, NEW before \in DeviceRow, NEW after \in DeviceRow
  PROVE  /\ Flush(row, before, after) \in DeviceRow
         /\ after.owner = before.owner => Flush(row, before, after).owner = row.owner
         /\ after.status \in {before.status, "revoked"} /\ row.status = "revoked"
            => Flush(row, before, after).status = "revoked"
<1>1. DOMAIN row = {"owner", "status", "seen"}
  BY DEF DeviceRow
<1> DEFINE f == Flush(row, before, after)
<1>2. f = [c \in {"owner", "status", "seen"} |->
             IF after[c] = before[c] THEN row[c] ELSE after[c]]
  BY <1>1 DEF Flush
<1>3. /\ f.owner = IF after.owner = before.owner THEN row.owner ELSE after.owner
      /\ f.status = IF after.status = before.status THEN row.status ELSE after.status
      /\ f.owner \in UserIds
      /\ f.status \in {"active", "revoked"}
      /\ f.seen \in 0..1
  BY <1>2 DEF DeviceRow
<1>4. f = [owner |-> f.owner, status |-> f.status, seen |-> f.seen]
  BY <1>2
<1> QED
  BY <1>3, <1>4 DEF DeviceRow

LEMMA RowSets ==
  /\ AccountSet = {NoAccount} \cup UserRow
  /\ DeviceSet = {NoDevice} \cup DeviceRow
  /\ NoAccount.id = 0 /\ NoAccount.status = "none"
  /\ NoDevice.owner = 0 /\ NoDevice.status = "none"
  /\ \A r \in UserRow : r.id \in UserIds /\ r.id # 0 /\ r # NoAccount /\ r.status # "none"
  /\ \A r \in DeviceRow : r.owner \in UserIds /\ r.owner # 0 /\ r # NoDevice
                          /\ r.status # "none"
  /\ UserIds \subseteq Nat /\ Devices \subseteq Nat
<1>1. \A r \in UserRow : r.id \in UserIds /\ r.status \in Stati
  BY DEF UserRow
<1>2. \A r \in DeviceRow : r.owner \in UserIds /\ r.status \in {"active", "revoked"}
  BY DEF DeviceRow
<1>3. UserIds \subseteq Nat \ {0} /\ Devices \subseteq Nat
  BY AccountsAssumption DEF UserIds, Devices
<1>4. AccountSet = {NoAccount} \cup UserRow /\ DeviceSet = {NoDevice} \cup DeviceRow
  BY DEF AccountSet, DeviceSet, UserRow, DeviceRow
<1>5. /\ NoAccount.id = 0 /\ NoAccount.status = "none"
      /\ NoDevice.owner = 0 /\ NoDevice.status = "none"
  BY DEF NoAccount, NoDevice
<1> QED
  BY <1>1, <1>2, <1>3, <1>4, <1>5 DEF Stati

(* What the record of a request holds, by its operation.                   *)
LEMMA TxKinds ==
  ASSUME NEW q \in TxSet
  PROVE  /\ q.op \in Updates => /\ q.email \in Emails
                                /\ q.before \in AccountSet /\ q.after \in AccountSet
         /\ q.op = "signup" => q.email \in Emails /\ q.roster \in Rosters
         /\ q.op = "delete" => q.email \in Emails /\ q.id \in UserIds
         /\ q.op = "login" => /\ q.owner \in UserIds /\ q.serial \in Devices
                              /\ q.evict \subseteq Devices
         /\ q.op \in {"revoke", "beat"} => /\ q.device \in Devices
                                           /\ q.before \in DeviceSet
                                           /\ q.after \in DeviceSet
BY DEF TxSet, Updates, Idle

-----------------------------------------------------------------------------
(* The inductive invariant.                                                *)

Living(id) == \E e \in Emails : account[e].id = id

(* Ids are handed out once.                                                *)
IdsOnce ==
  /\ \A e \in Emails : account[e].id <= users
  /\ \A e, f \in Emails :
       account[e].id = account[f].id /\ account[e].id # 0 => e = f
  /\ \A d \in Devices : device[d] # NoDevice => d <= serials

(* An update of a user or of a device is about a row that was there, and   *)
(* leaves it its id, its owner, and its revocation.                        *)
UpdateSound(q) ==
  /\ q.op \in Updates => /\ q.before \in UserRow /\ q.after \in UserRow
                         /\ q.after.id = q.before.id
  /\ q.op \in {"revoke", "beat"} =>
       /\ q.before \in DeviceRow /\ q.after \in DeviceRow
       /\ q.after.owner = q.before.owner
       /\ q.after.status \in {q.before.status, "revoked"}

UpdatesSound == \A t \in Slots : UpdateSound(tx[t])

(* A login has a serial of its own, not in use yet, and evicts a device of *)
(* its own user, as long as there is that user.                            *)
LoginsSound ==
  /\ \A t \in Slots : tx[t].op = "login" =>
       /\ tx[t].owner <= users
       /\ tx[t].serial <= serials
       /\ device[tx[t].serial] = NoDevice
       /\ Living(tx[t].owner) =>
            \A d \in tx[t].evict : device[d].owner = tx[t].owner
  /\ \A s, t \in Slots :
       tx[s].op = "login" /\ tx[t].op = "login" /\ tx[s].serial = tx[t].serial
       => s = t

Inv == TypeOK /\ IdsOnce /\ UpdatesSound /\ LoginsSound /\ DevicesOfLiving

StaysRevoked ==
  \A d \in Devices : device[d].status = "revoked" => device'[d].status # "active"

-----------------------------------------------------------------------------
(* A request that begins, or is rolled back, and is no login.              *)
LEMMA TxChange ==
  ASSUME Inv, NEW t \in Slots, NEW q \in TxSet, UpdateSound(q), q.op # "login",
         tx' = [tx EXCEPT ![t] = q],
         UNCHANGED <<account, device, active, users, serials>>
  PROVE  Inv' /\ StaysRevoked
<1>1. tx \in [Slots -> TxSet]
  BY DEF Inv, TypeOK
<1>2. \A s \in Slots : tx'[s] = IF s = t THEN q ELSE tx[s]
  BY <1>1
<1>3. TypeOK'
  BY <1>1 DEF Inv, TypeOK
<1>4. IdsOnce' /\ DevicesOfLiving' /\ StaysRevoked
  BY DEF Inv, IdsOnce, DevicesOfLiving, StaysRevoked
<1>5. UpdatesSound'
  BY <1>2 DEF Inv, UpdatesSound
<1>6. LoginsSound'
  BY <1>2 DEF Inv, LoginsSound, Living
<1> QED
  BY <1>3, <1>4, <1>5, <1>6 DEF Inv

LEMMA IdleSound == Idle \in TxSet /\ UpdateSound(Idle) /\ Idle.op = "idle"
BY DEF Idle, TxSet, UpdateSound, Updates

LEMMA RollbackStep ==
  ASSUME Inv, NEW t \in Slots, Rollback(t)
  PROVE  Inv' /\ StaysRevoked
BY TxChange, IdleSound DEF Rollback

(* What an operation assigns leaves the id alone.                          *)
LEMMA WantedRow ==
  ASSUME NEW op \in Updates, NEW row \in UserRow, NEW r \in Rosters
  PROVE  Wanted(op, row, r) \in UserRow /\ Wanted(op, row, r).id = row.id
BY DEF Wanted, Updates, UserRow, Stati

LEMMA LoadStep ==
  ASSUME Inv, NEW t \in Slots, NEW op \in Updates, NEW e \in Emails,
         NEW r \in Rosters, Load(t, op, e, r)
  PROVE  Inv' /\ StaysRevoked
<1> DEFINE q == [op |-> op, email |-> e, before |-> account[e],
                 after |-> Wanted(op, account[e], r)]
<1>1. account[e] \in AccountSet
  BY DEF Inv, TypeOK
<1>2. account[e].status # "none" \/ account[e].assigned # NULL
  BY DEF Load, Permitted, Updates
<1>3. account[e] \in UserRow
  BY <1>1, <1>2, RowSets DEF NoAccount
<1>4. q.after \in UserRow /\ q.after.id = q.before.id
  BY <1>3, WantedRow
<1>5. q \in TxSet
  BY <1>3, <1>4, RowSets DEF TxSet
<1>6. UpdateSound(q) /\ q.op # "login"
  BY <1>3, <1>4 DEF UpdateSound, Updates
<1> QED
  BY <1>5, <1>6, TxChange DEF Load

LEMMA LoadSignupStep ==
  ASSUME Inv, NEW t \in Slots, NEW e \in Emails, NEW r \in Rosters,
         LoadSignup(t, e, r)
  PROVE  Inv' /\ StaysRevoked
<1> DEFINE q == [op |-> "signup", email |-> e, roster |-> r]
<1>1. q \in TxSet /\ UpdateSound(q) /\ q.op # "login"
  BY DEF TxSet, UpdateSound, Updates
<1> QED
  BY <1>1, TxChange DEF LoadSignup

LEMMA LoadDeleteStep ==
  ASSUME Inv, NEW t \in Slots, NEW e \in Emails, LoadDelete(t, e)
  PROVE  Inv' /\ StaysRevoked
<1> DEFINE q == [op |-> "delete", email |-> e, id |-> account[e].id]
<1>1. account[e].id \in UserIds
  BY RowSets DEF LoadDelete, Inv, TypeOK
<1>2. q \in TxSet /\ UpdateSound(q) /\ q.op # "login"
  BY <1>1 DEF TxSet, UpdateSound, Updates
<1> QED
  BY <1>2, TxChange DEF LoadDelete

LEMMA LoadDeviceStep ==
  ASSUME Inv, NEW t \in Slots, NEW op \in {"revoke", "beat"}, NEW d \in Devices,
         LoadDevice(t, op, d)
  PROVE  Inv' /\ StaysRevoked
<1> DEFINE new == IF op = "revoke" THEN [device[d] EXCEPT !.status = "revoked"]
                                   ELSE [device[d] EXCEPT !.seen = 1 - @]
           q == [op |-> op, device |-> d, before |-> device[d], after |-> new]
<1>1. device[d] \in DeviceRow
  BY RowSets DEF LoadDevice, Inv, TypeOK
<1>2. /\ new \in DeviceRow /\ new.owner = device[d].owner
      /\ new.status \in {device[d].status, "revoked"}
  BY <1>1 DEF DeviceRow
<1>3. q \in TxSet
  BY <1>1, <1>2, RowSets DEF TxSet
<1>4. UpdateSound(q) /\ q.op # "login"
  BY <1>1, <1>2 DEF UpdateSound, Updates
<1>5. tx' = [tx EXCEPT ![t] = q]
  BY DEF LoadDevice
<1>6. UNCHANGED <<account, device, active, users, serials>>
  BY DEF LoadDevice
<1> QED
  BY <1>3, <1>4, <1>5, <1>6, TxChange

LEMMA SwitchStep ==
  ASSUME Inv, NEW r \in Rosters, SwitchRoster(r)
  PROVE  Inv' /\ StaysRevoked
BY DEF SwitchRoster, Inv, TypeOK, IdsOnce, UpdatesSound, LoginsSound, Living,
       DevicesOfLiving, StaysRevoked

(* The rows of a user and of its devices are found again by their id.      *)
LEMMA UpdateStep ==
  ASSUME Inv, NEW t \in Slots, Update(t)
  PROVE  Inv' /\ StaysRevoked
<1> DEFINE q == tx[t]
           new == Flush(account[q.email], q.before, q.after)
<1>1. /\ q \in TxSet /\ q.op \in Updates /\ UpdateSound(q)
      /\ account \in [Emails -> AccountSet] /\ tx \in [Slots -> TxSet]
  BY DEF Update, Inv, TypeOK, UpdatesSound
<1>2. /\ q.email \in Emails /\ q.before \in UserRow /\ q.after \in UserRow
      /\ q.after.id = q.before.id
  BY <1>1, TxKinds DEF UpdateSound
<1>3. account[q.email].id = q.before.id
  BY DEF Update
<1>4. account[q.email] \in UserRow
  BY <1>1, <1>2, <1>3, RowSets
<1>5. new \in UserRow /\ new.id = account[q.email].id
  BY <1>2, <1>4, FlushUser
<1>6. account' = [account EXCEPT ![q.email] = new]
  BY DEF Update
<1>7. account' \in [Emails -> AccountSet]
  BY <1>1, <1>5, <1>6, RowSets
<1>8. \A e \in Emails : account'[e].id = account[e].id
  BY <1>1, <1>5, <1>6
<1>9. tx' = [tx EXCEPT ![t] = Idle] /\ UNCHANGED <<device, active, users, serials>>
  BY DEF Update
<1>10. \A s \in Slots : tx'[s] = IF s = t THEN Idle ELSE tx[s]
  BY <1>1, <1>9
<1>11. TypeOK'
  BY <1>1, <1>7, <1>9, IdleSound DEF Inv, TypeOK
<1>12. IdsOnce' /\ DevicesOfLiving' /\ StaysRevoked
  BY <1>8, <1>9 DEF Inv, IdsOnce, DevicesOfLiving, StaysRevoked
<1>13. UpdatesSound'
  BY <1>10, IdleSound DEF Inv, UpdatesSound
<1>14. LoginsSound'
  BY <1>8, <1>9, <1>10, IdleSound DEF Inv, LoginsSound, Living
<1> QED
  BY <1>11, <1>12, <1>13, <1>14 DEF Inv

LEMMA SignupStep ==
  ASSUME Inv, NEW t \in Slots, Signup(t)
  PROVE  Inv' /\ StaysRevoked
<1> DEFINE q == tx[t]
           new == [id |-> users + 1, status |-> "pending",
                   requested |-> q.roster, assigned |-> NULL]
<1>1. /\ q \in TxSet /\ account \in [Emails -> AccountSet]
      /\ tx \in [Slots -> TxSet] /\ users \in 0..MaxUsers
  BY DEF Inv, TypeOK
<1>2. /\ q.op = "signup" /\ account[q.email] = NoAccount /\ users < MaxUsers
      /\ users' = users + 1
      /\ account' = [account EXCEPT ![q.email] = new]
      /\ tx' = [tx EXCEPT ![t] = Idle] /\ UNCHANGED <<device, active, serials>>
  BY DEF Signup
<1>3. q.email \in Emails /\ q.roster \in Rosters
  BY <1>1, <1>2, TxKinds
<1>4. MaxUsers \in Nat /\ users + 1 \in UserIds /\ users' \in 0..MaxUsers
  BY <1>1, <1>2, AccountsAssumption DEF UserIds
<1>5. new \in UserRow /\ new.id = users + 1
  BY <1>3, <1>4 DEF UserRow, Stati
<1>6. \A s \in Slots : tx'[s] = IF s = t THEN Idle ELSE tx[s]
  BY <1>1, <1>2
<1>7. \A e \in Emails : account'[e].id = IF e = q.email THEN users + 1
                                                        ELSE account[e].id
  BY <1>1, <1>2, <1>5
<1>8. \A e \in Emails : account[e].id \in Nat /\ account[e].id <= users
  <2>1. ASSUME NEW e \in Emails
        PROVE  account[e].id \in Nat
    <3>1. account[e] = NoAccount \/ account[e] \in UserRow
      BY <1>1, RowSets
    <3>2. CASE account[e] = NoAccount
      BY <3>2 DEF NoAccount
    <3>3. CASE account[e] \in UserRow
      BY <3>3, RowSets
    <3> QED
      BY <3>1, <3>2, <3>3
  <2> QED
    BY <2>1 DEF Inv, IdsOnce
<1>9. TypeOK'
  <2>1. account' \in [Emails -> AccountSet]
    BY <1>1, <1>2, <1>5, RowSets
  <2> QED
    BY <2>1, <1>1, <1>2, <1>4, IdleSound DEF Inv, TypeOK
<1>10. IdsOnce'
  <2>1. \A e \in Emails : account'[e].id <= users'
    BY <1>1, <1>2, <1>7, <1>8
  <2>2. \A e, f \in Emails :
          account'[e].id = account'[f].id /\ account'[e].id # 0 => e = f
    BY <1>1, <1>7, <1>8 DEF Inv, IdsOnce
  <2> QED
    BY <2>1, <2>2, <1>2 DEF Inv, IdsOnce
<1>11. UpdatesSound'
  BY <1>6, IdleSound DEF Inv, UpdatesSound
<1>12. LoginsSound'
  <2>1. ASSUME NEW s \in Slots, tx[s].op = "login", Living(tx[s].owner)'
        PROVE  Living(tx[s].owner)
    <3>1. tx[s].owner \in UserIds /\ tx[s].owner <= users
      BY <2>1, <1>1, TxKinds DEF Inv, LoginsSound
    <3>2. PICK e \in Emails : account'[e].id = tx[s].owner
      BY <2>1, <1>6, <1>2 DEF Living
    <3>3. account[e].id = tx[s].owner
      BY <3>1, <3>2, <1>1, <1>7, RowSets
    <3> QED
      BY <3>3 DEF Living
  <2>2. \A s \in Slots : tx'[s].op = "login" => s # t /\ tx'[s] = tx[s]
    BY <1>6, IdleSound
  <2>3. ASSUME NEW s \in Slots, tx'[s].op = "login"
        PROVE  /\ tx'[s].owner <= users' /\ tx'[s].serial <= serials'
               /\ device'[tx'[s].serial] = NoDevice
    <3>1. tx[s].owner \in Nat /\ tx[s].owner <= users
      BY <2>2, <2>3, <1>1, TxKinds, RowSets DEF Inv, LoginsSound
    <3> QED
      BY <2>2, <2>3, <3>1, <1>1, <1>2 DEF Inv, LoginsSound
  <2>4. ASSUME NEW s \in Slots, tx'[s].op = "login", Living(tx[s].owner)',
               NEW d \in tx'[s].evict
        PROVE  device'[d].owner = tx'[s].owner
    BY <2>1, <2>2, <2>4, <1>2 DEF Inv, LoginsSound
  <2>5. ASSUME NEW r \in Slots, NEW s \in Slots, tx'[r].op = "login",
               tx'[s].op = "login", tx'[r].serial = tx'[s].serial
        PROVE  r = s
    BY <2>2, <2>5 DEF Inv, LoginsSound
  <2> QED
    BY <2>3, <2>4, <2>5 DEF LoginsSound, Living
<1>13. DevicesOfLiving'
  <2>1. ASSUME NEW d \in Devices, device[d] # NoDevice
        PROVE  \E e \in Emails : account'[e].id = device[d].owner
    <3>1. PICK e \in Emails : account[e].id = device[d].owner
      BY <2>1 DEF Inv, DevicesOfLiving
    <3>2. device[d].owner # 0
      BY <2>1, RowSets DEF Inv, TypeOK
    <3>3. e # q.email
      BY <3>1, <3>2, <1>2, RowSets
    <3> QED
      BY <3>1, <3>3, <1>7
  <2> QED
    BY <2>1, <1>2 DEF DevicesOfLiving
<1>14. StaysRevoked
  BY <1>2 DEF StaysRevoked
<1> QED
  BY <1>9, <1>10, <1>11, <1>12, <1>13, <1>14 DEF Inv

LEMMA DeleteStep ==
  ASSUME Inv, NEW t \in Slots, Delete(t)
  PROVE  Inv' /\ StaysRevoked
<1> DEFINE q == tx[t]
<1>1. /\ q \in TxSet /\ account \in [Emails -> AccountSet]
      /\ device \in [Devices -> DeviceSet] /\ tx \in [Slots -> TxSet]
  BY DEF Inv, TypeOK
<1>2. /\ q.op = "delete" /\ account[q.email].id = q.id
      /\ account' = [account EXCEPT ![q.email] = NoAccount]
      /\ device' = [d \in Devices |-> IF device[d].owner = q.id THEN NoDevice
                                                                ELSE device[d]]
      /\ tx' = [tx EXCEPT ![t] = Idle] /\ UNCHANGED <<active, users, serials>>
  BY DEF Delete
<1>3. q.email \in Emails /\ q.id \in UserIds /\ q.id # 0
  BY <1>1, <1>2, TxKinds, AccountsAssumption DEF UserIds
<1>4. \A s \in Slots : tx'[s] = IF s = t THEN Idle ELSE tx[s]
  BY <1>1, <1>2
<1>5. \A e \in Emails : account'[e].id = IF e = q.email THEN 0 ELSE account[e].id
  BY <1>1, <1>2, RowSets
<1>6. \A d \in Devices : device'[d] \in {device[d], NoDevice}
  BY <1>2
<1>7. TypeOK'
  BY <1>1, <1>2, RowSets, IdleSound DEF Inv, TypeOK
<1>8. IdsOnce'
  <2>1. users \in Nat /\ serials \in Nat
    BY DEF Inv, TypeOK
  <2> QED
    BY <2>1, <1>2, <1>5, <1>6 DEF Inv, IdsOnce
<1>9. UpdatesSound'
  BY <1>4, IdleSound DEF Inv, UpdatesSound
<1>10. LoginsSound'
  <2>1. ASSUME NEW s \in Slots, tx[s].op = "login", Living(tx[s].owner)',
               s # t
        PROVE  Living(tx[s].owner) /\ tx[s].owner # q.id
    <3>1. tx[s].owner # 0
      BY <2>1, <1>1, TxKinds, AccountsAssumption DEF UserIds
    <3>2. PICK e \in Emails : account'[e].id = tx[s].owner
      BY <2>1, <1>4 DEF Living
    <3>3. e # q.email /\ account[e].id = tx[s].owner
      BY <3>1, <3>2, <1>5
    <3>4. account[e].id # q.id
      BY <3>1, <3>3, <1>2, <1>3 DEF Inv, IdsOnce
    <3> QED
      BY <3>3, <3>4 DEF Living
  <2>2. ASSUME NEW s \in Slots, tx[s].op = "login", s # t, Living(tx[s].owner)',
               NEW d \in tx[s].evict
        PROVE  device'[d].owner = tx[s].owner
    <3>1. d \in Devices
      BY <2>2, <1>1, TxKinds
    <3>2. device[d].owner = tx[s].owner
      BY <2>1, <2>2 DEF Inv, LoginsSound
    <3> QED
      BY <2>1, <2>2, <3>1, <3>2, <1>2
  <2>3. ASSUME NEW s \in Slots, tx[s].op = "login"
        PROVE  device'[tx[s].serial] = NoDevice
    BY <2>3, <1>1, <1>6, TxKinds DEF Inv, LoginsSound
  <2>4. \A s \in Slots : tx'[s].op = "login" => s # t /\ tx'[s] = tx[s]
    BY <1>4, IdleSound
  <2>5. ASSUME NEW s \in Slots, tx'[s].op = "login"
        PROVE  /\ tx'[s].owner <= users' /\ tx'[s].serial <= serials'
               /\ device'[tx'[s].serial] = NoDevice
    BY <2>3, <2>4, <2>5, <1>2 DEF Inv, LoginsSound
  <2>6. ASSUME NEW s \in Slots, tx'[s].op = "login", Living(tx[s].owner)',
               NEW d \in tx'[s].evict
        PROVE  device'[d].owner = tx'[s].owner
    BY <2>2, <2>4, <2>6
  <2>7. ASSUME NEW r \in Slots, NEW s \in Slots, tx'[r].op = "login",
               tx'[s].op = "login", tx'[r].serial = tx'[s].serial
        PROVE  r = s
    BY <2>4, <2>7 DEF Inv, LoginsSound
  <2> QED
    BY <2>5, <2>6, <2>7 DEF LoginsSound, Living
<1>11. DevicesOfLiving'
  <2>1. ASSUME NEW d \in Devices, device'[d] # NoDevice
        PROVE  \E e \in Emails : account'[e].id = device'[d].owner
    <3>1. device'[d] = device[d] /\ device[d].owner # q.id
      BY <2>1, <1>2
    <3>2. PICK e \in Emails : account[e].id = device[d].owner
      BY <2>1, <3>1 DEF Inv, DevicesOfLiving
    <3> QED
      BY <3>1, <3>2, <1>2, <1>5
  <2> QED
    BY <2>1 DEF DevicesOfLiving
<1>12. StaysRevoked
  BY <1>6, RowSets DEF StaysRevoked
<1> QED
  BY <1>7, <1>8, <1>9, <1>10, <1>11, <1>12 DEF Inv

LEMMA WriteDeviceStep ==
  ASSUME Inv, NEW t \in Slots, WriteDevice(t)
  PROVE  Inv' /\ StaysRevoked
<1> DEFINE q == tx[t]
           new == Flush(device[q.device], q.before, q.after)
<1>1. /\ q \in TxSet /\ q.op \in {"revoke", "beat"} /\ UpdateSound(q)
      /\ device \in [Devices -> DeviceSet] /\ tx \in [Slots -> TxSet]
  BY DEF WriteDevice, Inv, TypeOK, UpdatesSound
<1>2. /\ q.device \in Devices /\ q.before \in DeviceRow /\ q.after \in DeviceRow
      /\ q.after.owner = q.before.owner
      /\ q.after.status \in {q.before.status, "revoked"}
  BY <1>1, TxKinds DEF UpdateSound
<1>3. /\ device[q.device] # NoDevice
      /\ device' = [device EXCEPT ![q.device] = new]
      /\ tx' = [tx EXCEPT ![t] = Idle] /\ UNCHANGED <<account, active, users, serials>>
  BY DEF WriteDevice
<1>4. device[q.device] \in DeviceRow
  BY <1>1, <1>2, <1>3, RowSets
<1>5. /\ new \in DeviceRow /\ new.owner = device[q.device].owner
      /\ device[q.device].status = "revoked" => new.status = "revoked"
  BY <1>2, <1>4, FlushDevice
<1>6. device' \in [Devices -> DeviceSet]
  BY <1>1, <1>3, <1>5, RowSets
<1>7. \A d \in Devices : /\ device'[d].owner = device[d].owner
                         /\ device'[d] = NoDevice <=> device[d] = NoDevice
  BY <1>1, <1>3, <1>4, <1>5, RowSets
<1>8. \A s \in Slots : tx'[s] = IF s = t THEN Idle ELSE tx[s]
  BY <1>1, <1>3
<1>9. TypeOK'
  BY <1>1, <1>3, <1>6, IdleSound DEF Inv, TypeOK
<1>10. IdsOnce' /\ DevicesOfLiving'
  BY <1>3, <1>7 DEF Inv, IdsOnce, DevicesOfLiving
<1>11. UpdatesSound'
  BY <1>8, IdleSound DEF Inv, UpdatesSound
<1>12. LoginsSound'
  <2>1. ASSUME NEW s \in Slots, tx[s].op = "login"
        PROVE  tx[s].serial \in Devices /\ tx[s].evict \subseteq Devices
    BY <2>1, <1>1, TxKinds
  <2>2. \A s \in Slots : tx'[s].op = "login" => s # t /\ tx'[s] = tx[s]
    BY <1>8, IdleSound
  <2> QED
    BY <2>1, <2>2, <1>3, <1>7 DEF Inv, LoginsSound, Living
<1>13. StaysRevoked
  BY <1>1, <1>3, <1>5 DEF StaysRevoked
<1> QED
  BY <1>9, <1>10, <1>11, <1>12, <1>13 DEF Inv

LEMMA InitInv == Init => Inv
<1> SUFFICES ASSUME Init PROVE Inv
  OBVIOUS
<1>1. /\ \A e \in Emails : account[e].id = 0
      /\ \A d \in Devices : device[d] = NoDevice
      /\ \A t \in Slots : tx[t] = Idle
  BY RowSets DEF Init
<1>2. TypeOK
  BY RowSets, IdleSound, AccountsAssumption DEF Init, TypeOK
<1>3. IdsOnce /\ DevicesOfLiving
  BY <1>1 DEF Init, IdsOnce, DevicesOfLiving
<1>4. UpdatesSound /\ LoginsSound
  BY <1>1, IdleSound DEF UpdatesSound, LoginsSound
<1> QED
  BY <1>2, <1>3, <1>4 DEF Inv

LEMMA LoadLoginStep ==
  ASSUME Inv, NEW t \in Slots, NEW e \in Emails, LoadLogin(t, e)
  PROVE  Inv' /\ StaysRevoked
<1> DEFINE id == account[e].id
           mine == ActiveDevices(id)
           q == [op |-> "login", owner |-> id, serial |-> serials + 1,
                 evict |-> Evict(mine)]
<1>1. /\ tx \in [Slots -> TxSet] /\ account \in [Emails -> AccountSet]
      /\ serials \in 0..MaxDevices
  BY DEF Inv, TypeOK
<1>2. /\ account[e].status = "active" /\ serials < MaxDevices
      /\ serials' = serials + 1 /\ tx' = [tx EXCEPT ![t] = q]
      /\ UNCHANGED <<account, device, active, users>>
  BY DEF LoadLogin
<1>3. account[e] \in UserRow /\ id \in UserIds /\ id <= users
  BY <1>1, <1>2, RowSets DEF Inv, IdsOnce
<1>4. serials + 1 \in Devices /\ serials' \in 0..MaxDevices /\ serials \in Nat
  BY <1>1, <1>2, AccountsAssumption DEF Devices
<1>5. Evict(mine) \subseteq Devices /\ \A d \in Evict(mine) : device[d].owner = id
  BY DEF Evict, ActiveDevices
<1>6. q \in TxSet /\ UpdateSound(q)
  BY <1>3, <1>4, <1>5 DEF TxSet, UpdateSound, Updates
<1>7. \A s \in Slots : tx'[s] = IF s = t THEN q ELSE tx[s]
  BY <1>1, <1>2
<1>8. TypeOK'
  BY <1>1, <1>2, <1>4, <1>6 DEF Inv, TypeOK
<1>9. IdsOnce'
  BY <1>2, <1>4, RowSets DEF Inv, IdsOnce
<1>10. DevicesOfLiving' /\ StaysRevoked
  BY <1>2 DEF Inv, DevicesOfLiving, StaysRevoked
<1>11. UpdatesSound'
  BY <1>6, <1>7 DEF Inv, UpdatesSound
<1>12. LoginsSound'
  <2>1. \A s \in Slots : tx[s].op = "login" =>
          tx[s].serial \in Nat /\ tx[s].serial <= serials
    BY <1>1, TxKinds, RowSets DEF Inv, LoginsSound
  <2>2. device[serials + 1] = NoDevice
    BY <1>4 DEF Inv, IdsOnce
  <2>3. ASSUME NEW s \in Slots, tx'[s].op = "login"
        PROVE  /\ tx'[s].owner <= users' /\ tx'[s].serial <= serials'
               /\ device'[tx'[s].serial] = NoDevice
    <3>1. CASE s = t
      BY <3>1, <2>2, <1>2, <1>3, <1>4, <1>7
    <3>2. CASE s # t
      BY <3>2, <2>1, <2>3, <1>2, <1>4, <1>7 DEF Inv, LoginsSound
    <3> QED
      BY <3>1, <3>2
  <2>4. ASSUME NEW s \in Slots, tx'[s].op = "login", Living(tx[s].owner)',
               NEW d \in tx'[s].evict
        PROVE  device'[d].owner = tx'[s].owner
    <3>1. CASE s = t
      BY <3>1, <2>4, <1>2, <1>5, <1>7
    <3>2. CASE s # t
      BY <3>2, <2>4, <1>2, <1>7 DEF Inv, LoginsSound, Living
    <3> QED
      BY <3>1, <3>2
  <2>5. ASSUME NEW r \in Slots, NEW s \in Slots, tx'[r].op = "login",
               tx'[s].op = "login", tx'[r].serial = tx'[s].serial
        PROVE  r = s
    <3>1. CASE r # t /\ s # t
      BY <3>1, <2>5, <1>7 DEF Inv, LoginsSound
    <3>2. CASE r = t \/ s = t
      BY <3>2, <2>1, <2>5, <1>4, <1>7
    <3> QED
      BY <3>1, <3>2
  <2> QED
    BY <2>3, <2>4, <2>5 DEF LoginsSound, Living
<1> QED
  BY <1>8, <1>9, <1>10, <1>11, <1>12 DEF Inv

LEMMA LoginStep ==
  ASSUME Inv, NEW t \in Slots, Login(t)
  PROVE  Inv' /\ StaysRevoked
<1> DEFINE q == tx[t]
           new == [owner |-> q.owner, status |-> "active", seen |-> 0]
<1>1. /\ q \in TxSet /\ tx \in [Slots -> TxSet] /\ account \in [Emails -> AccountSet]
      /\ device \in [Devices -> DeviceSet] /\ serials \in 0..MaxDevices
  BY DEF Inv, TypeOK
<1>2. /\ q.op = "login" /\ Living(q.owner)
      /\ device' = [d \in Devices |->
                      IF d = q.serial THEN new
                      ELSE IF d \in q.evict THEN [device[d] EXCEPT !.status = "revoked"]
                      ELSE device[d]]
      /\ tx' = [tx EXCEPT ![t] = Idle]
      /\ UNCHANGED <<account, active, users, serials>>
  BY DEF Login, Living
<1>3. /\ q.owner \in UserIds /\ q.serial \in Devices /\ q.evict \subseteq Devices
  BY <1>1, <1>2, TxKinds
<1>4. /\ device[q.serial] = NoDevice /\ q.serial <= serials
      /\ \A d \in q.evict : device[d].owner = q.owner
  BY <1>2 DEF Inv, LoginsSound
<1>5. new \in DeviceRow /\ new.owner = q.owner
  BY <1>3 DEF DeviceRow
<1>6. ASSUME NEW d \in q.evict
      PROVE  /\ device[d] \in DeviceRow
             /\ [device[d] EXCEPT !.status = "revoked"] \in DeviceRow
             /\ [device[d] EXCEPT !.status = "revoked"].owner = device[d].owner
             /\ [device[d] EXCEPT !.status = "revoked"].status = "revoked"
  <2>1. d \in Devices /\ device[d].owner \in UserIds
    BY <1>3, <1>4, <1>6
  <2>2. 0 \notin UserIds
    BY AccountsAssumption DEF UserIds
  <2>3. device[d] \in DeviceRow
    BY <1>1, <2>1, <2>2, RowSets
  <2> QED
    BY <2>3 DEF DeviceRow
<1>7. \A s \in Slots : tx'[s] = IF s = t THEN Idle ELSE tx[s]
  BY <1>1, <1>2
<1>8. \A d \in Devices : /\ d = q.serial => device'[d] = new
                         /\ d # q.serial => device'[d].owner = device[d].owner
                         /\ d # q.serial => (device'[d] = NoDevice <=> device[d] = NoDevice)
                         /\ device[d].status = "revoked" => device'[d].status # "active"
  <2>1. device[q.serial].status = "none"
    BY <1>4, RowSets
  <2> QED
    BY <2>1, <1>1, <1>2, <1>6, RowSets
<1>9. device' \in [Devices -> DeviceSet]
  BY <1>1, <1>2, <1>5, <1>6, RowSets
<1>10. TypeOK'
  BY <1>1, <1>2, <1>9, IdleSound DEF Inv, TypeOK
<1>11. IdsOnce'
  <2>1. \A d \in Devices : device'[d] # NoDevice => d <= serials
    BY <1>4, <1>8 DEF Inv, IdsOnce
  <2> QED
    BY <2>1, <1>2 DEF Inv, IdsOnce
<1>12. DevicesOfLiving'
  <2>1. ASSUME NEW d \in Devices, device'[d] # NoDevice
        PROVE  \E e \in Emails : account[e].id = device'[d].owner
    <3>1. CASE d = q.serial
      BY <3>1, <1>2, <1>5, <1>8 DEF Living
    <3>2. CASE d # q.serial
      BY <3>2, <2>1, <1>8 DEF Inv, DevicesOfLiving
    <3> QED
      BY <3>1, <3>2
  <2> QED
    BY <2>1, <1>2 DEF DevicesOfLiving
<1>13. UpdatesSound'
  BY <1>7, IdleSound DEF Inv, UpdatesSound
<1>14. LoginsSound'
  <2>1. \A s \in Slots : tx'[s].op = "login" => s # t /\ tx'[s] = tx[s]
    BY <1>7, IdleSound
  <2>2. ASSUME NEW s \in Slots, tx[s].op = "login", s # t
        PROVE  /\ tx[s].serial # q.serial /\ tx[s].serial \in Devices
               /\ tx[s].evict \subseteq Devices /\ tx[s].owner # 0
               /\ device[tx[s].serial] = NoDevice
    BY <2>2, <1>1, <1>2, TxKinds DEF Inv, LoginsSound, UserIds
  <2>3. ASSUME NEW s \in Slots, tx'[s].op = "login"
        PROVE  /\ tx'[s].owner <= users' /\ tx'[s].serial <= serials'
               /\ device'[tx'[s].serial] = NoDevice
    BY <2>1, <2>2, <2>3, <1>2, <1>8 DEF Inv, LoginsSound
  <2>4. ASSUME NEW s \in Slots, tx'[s].op = "login", Living(tx[s].owner)',
               NEW d \in tx'[s].evict
        PROVE  device'[d].owner = tx'[s].owner
    <3>1. s # t /\ tx'[s] = tx[s] /\ d \in Devices /\ tx[s].owner # 0
      BY <2>1, <2>2, <2>4
    <3>2. device[d].owner = tx[s].owner
      BY <2>4, <3>1, <1>2 DEF Inv, LoginsSound, Living
    <3>3. d # q.serial
      BY <3>1, <3>2, <1>4, RowSets
    <3> QED
      BY <3>1, <3>2, <3>3, <1>8
  <2>5. ASSUME NEW r \in Slots, NEW s \in Slots, tx'[r].op = "login",
               tx'[s].op = "login", tx'[r].serial = tx'[s].serial
        PROVE  r = s
    BY <2>1, <2>5 DEF Inv, LoginsSound
  <2> QED
    BY <2>3, <2>4, <2>5 DEF LoginsSound, Living
<1>15. StaysRevoked
  BY <1>8 DEF StaysRevoked
<1> QED
  BY <1>10, <1>11, <1>12, <1>13, <1>14, <1>15 DEF Inv

LEMMA NextStep ==
  ASSUME Inv, [Next]_vars
  PROVE  Inv' /\ StaysRevoked
<1>1. CASE UNCHANGED vars
  BY <1>1 DEF vars, Inv, TypeOK, IdsOnce, UpdatesSound, LoginsSound, Living,
              DevicesOfLiving, StaysRevoked
<1>2. CASE \E t \in Slots, e \in Emails, r \in Rosters :
             \/ \E op \in Updates : Load(t, op, e, r)
             \/ LoadSignup(t, e, r)
  BY <1>2, LoadStep, LoadSignupStep
<1>3. CASE \E t \in Slots, e \in Emails : LoadDelete(t, e) \/ LoadLogin(t, e)
  BY <1>3, LoadDeleteStep, LoadLoginStep
<1>4. CASE \E t \in Slots, d \in Devices, op \in {"revoke", "beat"} :
             LoadDevice(t, op, d)
  BY <1>4, LoadDeviceStep
<1>5. CASE \E t \in Slots : Commit(t) \/ Rollback(t)
  BY <1>5, UpdateStep, SignupStep, DeleteStep, LoginStep, WriteDeviceStep,
     RollbackStep DEF Commit
<1>6. CASE \E r \in Rosters : SwitchRoster(r)
  BY <1>6, SwitchStep
<1> QED
  BY <1>1, <1>2, <1>3, <1>4, <1>5, <1>6 DEF Next

LEMMA Invariance == Spec => []Inv
<1>1. Inv /\ [Next]_vars => Inv'
  BY NextStep
<1> QED
  BY InitInv, <1>1, PTL DEF Spec

-----------------------------------------------------------------------------
(* The results.                                                            *)

(* Every row and every transaction of accounts and devices keeps its type, *)
(* for any number of emails, rosters and concurrent requests.              *)
THEOREM TypeCorrect == Spec => []TypeOK
<1>1. Inv => TypeOK
  BY DEF Inv
<1> QED
  BY Invariance, <1>1, PTL

(* No device outlives its user (the foreign key of models.py and a login   *)
(* that races with the delete).                                            *)
THEOREM LivingCorrect == Spec => []DevicesOfLiving
<1>1. Inv => DevicesOfLiving
  BY DEF Inv
<1> QED
  BY Invariance, <1>1, PTL

(* No request in flight brings a revoked device back (admin.py, revoke, and*)
(* deps.py, which writes last_seen_at to a device it loaded before).       *)
THEOREM RevokedCorrect == Spec => RevokedForGood
<1>1. Inv /\ [Next]_vars => [StaysRevoked]_vars
  BY NextStep
<1>2. RevokedForGood <=> [][StaysRevoked]_vars
  BY PTL DEF RevokedForGood, StaysRevoked
<1> QED
  BY Invariance, <1>1, <1>2, PTL DEF Spec

-----------------------------------------------------------------------------
(* One admin at work.  An update an admin has loaded is still about the    *)
(* row that is there: nobody else deletes it, gives it another roster, or a*)
(* status other than pending.                                              *)
OneAdmin == \A s, t \in Admins : s = t

DecisionSound(q) ==
  LET row == account[q.email]
  IN  /\ row.id = q.before.id /\ row.assigned = q.before.assigned
      /\ row.status \in {q.before.status, "pending"}
      /\ CASE q.op = "approve" -> /\ q.before.status = "pending"
                                  /\ q.after.status = "active"
                                  /\ q.after.assigned # NULL
           [] q.op = "reject"  -> /\ q.before.status = "pending"
                                  /\ q.after.status = "rejected"
                                  /\ q.after.assigned = NULL
           [] q.op = "disable" -> /\ q.after.status = "disabled"
                                  /\ q.after.assigned = q.before.assigned
           [] q.op = "enable"  -> /\ q.after.status = "active"
                                  /\ q.after.assigned = q.before.assigned
                                  /\ q.before.assigned # NULL
           [] OTHER            -> FALSE

ResubmitSound(q) ==
  /\ q.op = "resubmit"
  /\ q.before.status = "rejected" /\ q.after.status = "pending"
  /\ q.before.assigned = NULL /\ q.after.assigned = NULL

RosterInv ==
  /\ RosterFollowsStatus
  /\ \A t \in Admins : tx[t].op \in Updates => DecisionSound(tx[t])
  /\ \A t \in Visitors : tx[t].op \in Updates => ResubmitSound(tx[t])
  /\ \A t \in Visitors : tx[t].op # "delete"

(* A request that begins, or ends without having changed an account.       *)
LEMMA TxKeepsRoster ==
  ASSUME Inv, RosterInv, NEW t \in Slots, NEW q,
         tx' = [tx EXCEPT ![t] = q], account' = account,
         q.op \in Updates => IF t \in Admins THEN DecisionSound(q)
                                             ELSE ResubmitSound(q),
         t \in Admins \/ q.op # "delete"
  PROVE  RosterInv'
<1>1. \A s \in Slots : tx'[s] = IF s = t THEN q ELSE tx[s]
  BY DEF Inv, TypeOK
<1>2. RosterFollowsStatus'
  BY DEF RosterInv, RosterFollowsStatus
<1>3. \A s \in Admins : tx'[s].op \in Updates => DecisionSound(tx'[s])
  BY <1>1 DEF RosterInv, Slots
<1>4. \A s \in Admins : tx'[s].op \in Updates => DecisionSound(tx[s])'
  BY <1>3 DEF DecisionSound
<1>5. \A s \in Visitors : tx'[s].op \in Updates => ResubmitSound(tx[s])'
  BY <1>1, AccountsAssumption DEF RosterInv, Slots, ResubmitSound
<1>6. \A s \in Visitors : tx'[s].op # "delete"
  BY <1>1, AccountsAssumption DEF RosterInv, Slots
<1> QED
  BY <1>2, <1>4, <1>5, <1>6 DEF RosterInv

LEMMA IdleKeepsRoster ==
  ASSUME Inv, RosterInv, NEW t \in Slots, tx' = [tx EXCEPT ![t] = Idle],
         account' = account
  PROVE  RosterInv'
BY TxKeepsRoster, IdleSound DEF Updates

LEMMA LoadRoster ==
  ASSUME Inv, RosterInv, NEW t \in Slots, NEW op \in Updates, NEW e \in Emails,
         NEW r \in Rosters, Load(t, op, e, r)
  PROVE  RosterInv'
<1> DEFINE row == account[e]
           q == [op |-> op, email |-> e, before |-> row,
                 after |-> Wanted(op, row, r)]
<1>1. row \in UserRow
  <2>1. row \in AccountSet
    BY DEF Inv, TypeOK
  <2>2. row.status # "none" \/ row.assigned # NULL
    BY DEF Load, Permitted, Updates
  <2> QED
    BY <2>1, <2>2, RowSets DEF NoAccount
<1>2. row.status = "rejected" => row.assigned = NULL
  BY DEF RosterInv, RosterFollowsStatus
<1>3. r # NULL
  BY AccountsAssumption
<1>4. CASE op = "approve"
  BY <1>1, <1>3, <1>4, AccountsAssumption, TxKeepsRoster
  DEF Load, Permitted, Wanted, DecisionSound, UserRow
<1>5. CASE op = "reject"
  BY <1>1, <1>5, AccountsAssumption, TxKeepsRoster
  DEF Load, Permitted, Wanted, DecisionSound, UserRow
<1>6. CASE op = "disable"
  <2>1. Wanted(op, row, r) = [row EXCEPT !.status = "disabled"]
    BY <1>6 DEF Wanted
  <2>2. DecisionSound(q)
    BY <1>1, <1>6, <2>1 DEF DecisionSound, UserRow
  <2>3. t \in Admins /\ tx' = [tx EXCEPT ![t] = q] /\ account' = account
    BY <1>6 DEF Load
  <2> QED
    BY <1>6, <2>2, <2>3, TxKeepsRoster
<1>7. CASE op = "enable"
  BY <1>1, <1>7, AccountsAssumption, TxKeepsRoster
  DEF Load, Permitted, Wanted, DecisionSound, UserRow
<1>8. CASE op = "resubmit"
  BY <1>1, <1>2, <1>8, AccountsAssumption, TxKeepsRoster
  DEF Load, Permitted, Wanted, ResubmitSound, UserRow
<1> QED
  BY <1>4, <1>5, <1>6, <1>7, <1>8 DEF Updates

LEMMA UpdateRoster ==
  ASSUME OneAdmin, Inv, RosterInv, NEW t \in Slots, Update(t)
  PROVE  RosterInv'
<1> DEFINE q == tx[t]
           row == account[q.email]
           new == Flush(row, q.before, q.after)
<1>1. /\ q \in TxSet /\ q.op \in Updates /\ UpdateSound(q)
      /\ account \in [Emails -> AccountSet] /\ tx \in [Slots -> TxSet]
  BY DEF Update, Inv, TypeOK, UpdatesSound
<1>2. /\ q.email \in Emails /\ q.before \in UserRow /\ q.after \in UserRow
      /\ q.after.id = q.before.id
  BY <1>1, TxKinds DEF UpdateSound
<1>3. /\ row.id = q.before.id
      /\ account' = [account EXCEPT ![q.email] = new]
      /\ tx' = [tx EXCEPT ![t] = Idle]
  BY DEF Update
<1>4. row \in UserRow
  BY <1>1, <1>2, <1>3, RowSets
<1>5. /\ new \in UserRow /\ new.id = row.id
      /\ new.status = IF q.after.status = q.before.status THEN row.status
                                                         ELSE q.after.status
      /\ new.assigned = IF q.after.assigned = q.before.assigned THEN row.assigned
                                                               ELSE q.after.assigned
  BY <1>2, <1>4, FlushUser
<1>6. \A s \in Slots : tx'[s] = IF s = t THEN Idle ELSE tx[s]
  BY <1>1, <1>3
<1>7. \A e \in Emails : account'[e] = IF e = q.email THEN new ELSE account[e]
  BY <1>1, <1>3
<1>8. /\ row.status = "active" => row.assigned # NULL
      /\ row.status = "rejected" => row.assigned = NULL
  BY <1>2 DEF RosterInv, RosterFollowsStatus
<1>9. CASE t \in Admins
  <2>1. DecisionSound(q)
    BY <1>1, <1>9 DEF RosterInv
  <2>2. /\ new.status = "active" => new.assigned # NULL
        /\ new.status = "rejected" => new.assigned = NULL
    BY <2>1, <1>1, <1>5, <1>8 DEF DecisionSound, Updates
  <2>3. RosterFollowsStatus'
    BY <2>2, <1>7 DEF RosterInv, RosterFollowsStatus
  <2>4. \A s \in Admins : tx'[s].op \notin Updates
    BY <1>6, <1>9, IdleSound DEF OneAdmin, Slots, Updates
  <2>5. \A s \in Visitors : tx'[s].op \in Updates => ResubmitSound(tx[s])'
    BY <1>6, <1>9, AccountsAssumption DEF RosterInv, Slots, ResubmitSound
  <2>6. \A s \in Visitors : tx'[s].op # "delete"
    BY <1>6, IdleSound DEF RosterInv, Slots
  <2> QED
    BY <2>3, <2>4, <2>5, <2>6 DEF RosterInv
<1>10. CASE t \in Visitors
  <2>1. ResubmitSound(q)
    BY <1>1, <1>10 DEF RosterInv
  <2>2. new.status = "pending" /\ new.assigned = row.assigned
    BY <2>1, <1>5 DEF ResubmitSound
  <2>3. RosterFollowsStatus'
    BY <2>2, <1>7 DEF RosterInv, RosterFollowsStatus
  <2>4. ASSUME NEW s \in Admins, tx'[s].op \in Updates
        PROVE  DecisionSound(tx[s])'
    <3>1. s # t /\ tx'[s] = tx[s] /\ tx[s] \in TxSet
      BY <1>1, <1>6, <1>10, AccountsAssumption DEF Slots
    <3>2. DecisionSound(tx[s]) /\ tx[s].email \in Emails
      BY <2>4, <3>1, TxKinds DEF RosterInv
    <3>3. \/ account'[tx[s].email] = account[tx[s].email]
          \/ /\ account'[tx[s].email].id = account[tx[s].email].id
             /\ account'[tx[s].email].assigned = account[tx[s].email].assigned
             /\ account'[tx[s].email].status = "pending"
      BY <3>2, <2>2, <1>5, <1>7
    <3> QED
      BY <3>1, <3>2, <3>3 DEF DecisionSound
  <2>5. \A s \in Visitors : tx'[s].op \in Updates => ResubmitSound(tx[s])'
    BY <1>6, IdleSound DEF RosterInv, Slots, ResubmitSound, Updates
  <2>6. \A s \in Visitors : tx'[s].op # "delete"
    BY <1>6, IdleSound DEF RosterInv, Slots
  <2> QED
    BY <2>3, <2>4, <2>5, <2>6 DEF RosterInv
<1> QED
  BY <1>9, <1>10 DEF Slots

(* A signup and a delete replace whole rows; no decision is about them.    *)
LEMMA ReplaceRoster ==
  ASSUME Inv, RosterInv, NEW t \in Slots, NEW e \in Emails, NEW new,
         new.status \notin {"active", "rejected"},
         account' = [account EXCEPT ![e] = new],
         tx' = [tx EXCEPT ![t] = Idle],
         \A s \in Admins : s # t /\ tx[s].op \in Updates => tx[s].email # e
  PROVE  RosterInv'
<1>1. \A s \in Slots : tx'[s] = IF s = t THEN Idle ELSE tx[s]
  BY DEF Inv, TypeOK
<1>2. \A f \in Emails : account'[f] = IF f = e THEN new ELSE account[f]
  BY DEF Inv, TypeOK
<1>3. RosterFollowsStatus'
  BY <1>2 DEF RosterInv, RosterFollowsStatus
<1>4. ASSUME NEW s \in Admins, tx'[s].op \in Updates
      PROVE  DecisionSound(tx[s])'
  <2>1. s # t /\ tx'[s] = tx[s] /\ tx[s] \in TxSet
    BY <1>1, <1>4, IdleSound DEF Inv, TypeOK, Slots, Updates
  <2>2. DecisionSound(tx[s]) /\ tx[s].email \in Emails /\ tx[s].email # e
    BY <2>1, <1>4, TxKinds DEF RosterInv
  <2> QED
    BY <2>1, <2>2, <1>2 DEF DecisionSound
<1>5. \A s \in Visitors : tx'[s].op \in Updates => ResubmitSound(tx[s])'
  BY <1>1, IdleSound DEF RosterInv, Slots, ResubmitSound, Updates
<1>6. \A s \in Visitors : tx'[s].op # "delete"
  BY <1>1, IdleSound DEF RosterInv, Slots
<1> QED
  BY <1>3, <1>4, <1>5, <1>6 DEF RosterInv

LEMMA SignupRoster ==
  ASSUME Inv, RosterInv, NEW t \in Slots, Signup(t)
  PROVE  RosterInv'
<1> DEFINE e == tx[t].email
           new == [id |-> users + 1, status |-> "pending",
                   requested |-> tx[t].roster, assigned |-> NULL]
<1>1. tx[t] \in TxSet /\ tx[t].op = "signup"
  BY DEF Signup, Inv, TypeOK
<1>2. e \in Emails
  BY <1>1, TxKinds
<1>3. ASSUME NEW s \in Admins, tx[s].op \in Updates
      PROVE  tx[s].email # e
  <2>1. account[tx[s].email].id = tx[s].before.id
    BY <1>3 DEF RosterInv, DecisionSound
  <2>2. tx[s].before \in UserRow
    BY <1>3 DEF Inv, UpdatesSound, UpdateSound, Slots
  <2>3. account[e].id = 0
    BY RowSets DEF Signup
  <2> QED
    BY <2>1, <2>2, <2>3, RowSets
<1>4. /\ account' = [account EXCEPT ![e] = new]
      /\ tx' = [tx EXCEPT ![t] = Idle] /\ new.status = "pending"
  BY DEF Signup
<1>5. new.status \notin {"active", "rejected"}
  BY <1>4
<1> HIDE DEF e, new
<1> QED
  BY <1>2, <1>3, <1>4, <1>5, ReplaceRoster

LEMMA DeleteRoster ==
  ASSUME OneAdmin, Inv, RosterInv, NEW t \in Slots, Delete(t)
  PROVE  RosterInv'
<1>1. tx[t] \in TxSet /\ tx[t].op = "delete"
  BY DEF Delete, Inv, TypeOK
<1>2. tx[t].email \in Emails
  BY <1>1, TxKinds
<1>3. /\ account' = [account EXCEPT ![tx[t].email] = NoAccount]
      /\ tx' = [tx EXCEPT ![t] = Idle]
  BY DEF Delete
<1>4. t \in Admins
  BY <1>1 DEF RosterInv, Slots
<1>5. \A s \in Admins : s = t
  BY <1>4 DEF OneAdmin
<1>6. NoAccount.status \notin {"active", "rejected"}
  BY RowSets
<1> QED
  BY <1>2, <1>3, <1>5, <1>6, ReplaceRoster

LEMMA NextRoster ==
  ASSUME OneAdmin, Inv, RosterInv, [Next]_vars
  PROVE  RosterInv'
<1>1. CASE UNCHANGED vars
  BY <1>1 DEF vars, RosterInv, RosterFollowsStatus, DecisionSound, ResubmitSound
<1>2. CASE \E t \in Slots, e \in Emails, r \in Rosters, op \in Updates :
             Load(t, op, e, r)
  BY <1>2, LoadRoster
<1>3. ASSUME NEW t \in Slots, NEW e \in Emails, NEW r \in Rosters,
             LoadSignup(t, e, r)
      PROVE  RosterInv'
  BY <1>3, TxKeepsRoster DEF LoadSignup, Updates
<1>4. ASSUME NEW t \in Slots, NEW e \in Emails, LoadDelete(t, e)
      PROVE  RosterInv'
  BY <1>4, TxKeepsRoster DEF LoadDelete, Updates
<1>5. ASSUME NEW t \in Slots, NEW e \in Emails, LoadLogin(t, e)
      PROVE  RosterInv'
  BY <1>5, TxKeepsRoster DEF LoadLogin, Updates
<1>6. ASSUME NEW t \in Slots, NEW d \in Devices, NEW op \in {"revoke", "beat"},
             LoadDevice(t, op, d)
      PROVE  RosterInv'
  <2>1. CASE op = "revoke"
    BY <1>6, <2>1, TxKeepsRoster DEF LoadDevice, Updates
  <2>2. CASE op = "beat"
    BY <1>6, <2>2, TxKeepsRoster DEF LoadDevice, Updates
  <2> QED
    BY <2>1, <2>2
<1>7. ASSUME NEW t \in Slots, Commit(t) \/ Rollback(t)
      PROVE  RosterInv'
  <2>1. CASE Update(t)
    BY <2>1, UpdateRoster
  <2>2. CASE Signup(t)
    BY <2>2, SignupRoster
  <2>3. CASE Delete(t)
    BY <2>3, DeleteRoster
  <2>4. CASE Login(t) \/ WriteDevice(t) \/ Rollback(t)
    BY <2>4, IdleKeepsRoster DEF Login, WriteDevice, Rollback
  <2> QED
    BY <1>7, <2>1, <2>2, <2>3, <2>4 DEF Commit
<1>8. CASE \E r \in Rosters : SwitchRoster(r)
  BY <1>8 DEF SwitchRoster, RosterInv, RosterFollowsStatus, DecisionSound,
              ResubmitSound
<1> QED
  BY <1>1, <1>2, <1>3, <1>4, <1>5, <1>6, <1>7, <1>8 DEF Next

(* As long as one admin decides at a time, an active employee has a roster,*)
(* which admin.py:155 takes for granted, and a rejected one has none,      *)
(* whatever resubmissions, signups and logins are in flight.               *)
THEOREM StatusCorrect ==
  ASSUME OneAdmin
  PROVE  Spec => []RosterFollowsStatus
<1>1. Init => RosterInv
  <2> SUFFICES ASSUME Init PROVE RosterInv
    OBVIOUS
  <2>1. \A t \in Slots : tx[t].op = "idle"
    BY IdleSound DEF Init
  <2>2. \A e \in Emails : account[e].status = "none"
    BY RowSets DEF Init
  <2> QED
    BY <2>1, <2>2 DEF RosterInv, RosterFollowsStatus, Slots, Updates
<1>2. Inv /\ RosterInv /\ [Next]_vars => RosterInv'
  BY NextRoster
<1>3. RosterInv => RosterFollowsStatus
  BY DEF RosterInv
<1> QED
  BY Invariance, <1>1, <1>2, <1>3, PTL DEF Spec

-----------------------------------------------------------------------------
(* The cap on devices.  Two logins of one user that overlap may both evict *)
(* the same device, or none; one login at a time keeps the cap.            *)
LoginsInTurn ==
  \A s, t \in Slots :
    tx[s].op = "login" /\ tx[t].op = "login" /\ tx[s].owner = tx[t].owner => s = t

(* A login leaves room for the device it adds.                             *)
CapInv ==
  /\ \A id \in UserIds : Cardinality(ActiveDevices(id)) <= DeviceCap
  /\ \A t \in Slots : tx[t].op = "login" =>
       Cardinality(ActiveDevices(tx[t].owner) \ tx[t].evict) < DeviceCap

LEMMA FiniteDevices ==
  ASSUME NEW S \in SUBSET Devices
  PROVE  IsFiniteSet(S) /\ Cardinality(S) \in Nat
<1>1. IsFiniteSet(Devices)
  BY AccountsAssumption, FS_Interval DEF Devices
<1> QED
  BY <1>1, FS_Subset, FS_CardinalityType

LEMMA FewerDevices ==
  ASSUME NEW T \in SUBSET Devices, NEW S \in SUBSET T
  PROVE  Cardinality(S) <= Cardinality(T)
BY FiniteDevices, FS_Subset

LEMMA OldestDevice ==
  ASSUME NEW S \in SUBSET Devices, S # {}
  PROVE  \E d \in S : \A x \in S : d <= x
<1>1. S \in SUBSET Nat
  BY AccountsAssumption DEF Devices
<1>2. \E d \in S : \A x \in S : ~(<<x, d>> \in OpToRel(<, Nat))
  BY <1>1, NatLessThanWellFounded, WFMin
<1>3. \A x, d \in Nat : x < d => <<x, d>> \in OpToRel(<, Nat)
  BY DEF OpToRel
<1>4. PICK d \in S : \A x \in S : ~(x < d)
  BY <1>1, <1>2, <1>3
<1> QED
  BY <1>1, <1>4

(* register_device revokes the oldest device of a user who is at the cap.  *)
LEMMA EvictMakesRoom ==
  ASSUME NEW mine \in SUBSET Devices, Cardinality(mine) <= DeviceCap
  PROVE  Cardinality(mine \ Evict(mine)) < DeviceCap
<1>1. /\ DeviceCap \in Nat \ {0} /\ IsFiniteSet(mine) /\ Cardinality(mine) \in Nat
  BY AccountsAssumption, FiniteDevices
<1>2. Cardinality(mine \ Evict(mine)) <= Cardinality(mine)
      /\ Cardinality(mine \ Evict(mine)) \in Nat
  BY FewerDevices, FiniteDevices
<1>3. CASE Cardinality(mine) < DeviceCap
  BY <1>1, <1>2, <1>3
<1>4. CASE Cardinality(mine) = DeviceCap
  <2>1. mine # {}
    BY <1>1, <1>4, FS_EmptySet
  <2>2. PICK d \in mine : \A x \in mine : d <= x
    BY <2>1, OldestDevice
  <2>3. d \in Evict(mine)
    BY <1>1, <1>4, <2>2 DEF Evict
  <2>4. Cardinality(mine \ {d}) = Cardinality(mine) - 1
    BY <1>1, FS_RemoveElement
  <2>5. Cardinality(mine \ Evict(mine)) <= Cardinality(mine \ {d})
    <3>1. mine \ Evict(mine) \in SUBSET (mine \ {d}) /\ mine \ {d} \in SUBSET Devices
      BY <2>3
    <3> QED
      BY <3>1, FewerDevices
  <2> QED
    BY <1>1, <1>2, <1>4, <2>4, <2>5
<1> QED
  BY <1>1, <1>3, <1>4

(* A step that activates no device and begins no login.                    *)
AddsNone ==
  /\ \A d \in Devices :
       device'[d].status = "active" =>
         device[d].status = "active" /\ device'[d].owner = device[d].owner
  /\ \A t \in Slots : tx'[t].op = "login" => tx'[t] = tx[t]

LEMMA AddsNoneKeepsCap ==
  ASSUME Inv, CapInv, AddsNone
  PROVE  CapInv'
<1> DEFINE After(id) ==
      {d \in Devices : device'[d].owner = id /\ device'[d].status = "active"}
<1>1. /\ DeviceCap \in Nat
      /\ \A id : /\ After(id) \in SUBSET ActiveDevices(id)
                /\ ActiveDevices(id) \in SUBSET Devices
  BY AccountsAssumption DEF AddsNone, ActiveDevices
<1> HIDE DEF After
<1>2. ASSUME NEW id \in UserIds PROVE Cardinality(After(id)) <= DeviceCap
  <2>1. Cardinality(After(id)) <= Cardinality(ActiveDevices(id))
    BY <1>1, FewerDevices
  <2>2. Cardinality(After(id)) \in Nat /\ Cardinality(ActiveDevices(id)) \in Nat
    BY <1>1, FiniteDevices
  <2> QED
    BY <1>1, <2>1, <2>2 DEF CapInv
<1>3. ASSUME NEW t \in Slots, tx'[t].op = "login"
      PROVE  Cardinality(After(tx'[t].owner) \ tx'[t].evict) < DeviceCap
  <2>1. PICK q : q = tx[t]
    OBVIOUS
  <2>2. tx'[t] = q /\ q.op = "login"
    BY <1>3, <2>1 DEF AddsNone
  <2>3. PICK S : S = ActiveDevices(q.owner) \ q.evict
    OBVIOUS
  <2>4. PICK T : T = After(q.owner) \ q.evict
    OBVIOUS
  <2>5. S \in SUBSET Devices /\ T \in SUBSET S
    BY <1>1, <2>3, <2>4
  <2>6. Cardinality(T) <= Cardinality(S)
    BY <2>5, FewerDevices
  <2>7. Cardinality(T) \in Nat /\ Cardinality(S) \in Nat
    BY <2>5, FiniteDevices
  <2>8. Cardinality(S) < DeviceCap
    BY <2>1, <2>2, <2>3 DEF CapInv
  <2> QED
    BY <1>1, <2>2, <2>4, <2>6, <2>7, <2>8
<1> QED
  BY <1>2, <1>3 DEF CapInv, ActiveDevices, After

(* All other steps than the two of a login.                                *)
LEMMA OthersAddNone ==
  ASSUME Inv, [Next]_vars,
         ~\E t \in Slots : Login(t) \/ \E e \in Emails : LoadLogin(t, e)
  PROVE  AddsNone
<1>1. /\ tx \in [Slots -> TxSet] /\ device \in [Devices -> DeviceSet]
      /\ \A d \in Devices : device[d] \in DeviceRow \/ device[d] = NoDevice
  BY RowSets DEF Inv, TypeOK
<1>2. ASSUME UNCHANGED device,
             \/ UNCHANGED tx
             \/ \E t \in Slots : \E q : tx' = [tx EXCEPT ![t] = q] /\ q.op # "login"
      PROVE  AddsNone
  BY <1>1, <1>2 DEF AddsNone
<1>3. ASSUME NEW t \in Slots, NEW e \in Emails, NEW r,
             \/ \E op \in Updates : Load(t, op, e, r)
             \/ LoadSignup(t, e, r)
             \/ LoadDelete(t, e)
      PROVE  AddsNone
  <2>1. ASSUME NEW op \in Updates, Load(t, op, e, r) PROVE AddsNone
    <3>1. PICK q : /\ q = [op |-> op, email |-> e, before |-> account[e],
                           after |-> Wanted(op, account[e], r)]
                   /\ tx' = [tx EXCEPT ![t] = q] /\ UNCHANGED device
      BY <2>1 DEF Load
    <3>2. q.op # "login"
      BY <3>1 DEF Updates
    <3> QED
      BY <1>2, <3>1, <3>2
  <2>2. CASE LoadSignup(t, e, r)
    <3>1. PICK q : /\ q = [op |-> "signup", email |-> e, roster |-> r]
                   /\ tx' = [tx EXCEPT ![t] = q] /\ UNCHANGED device
      BY <2>2 DEF LoadSignup
    <3>2. q.op # "login"
      BY <3>1
    <3> QED
      BY <1>2, <3>1, <3>2
  <2>3. CASE LoadDelete(t, e)
    <3>1. PICK q : /\ q = [op |-> "delete", email |-> e, id |-> account[e].id]
                   /\ tx' = [tx EXCEPT ![t] = q] /\ UNCHANGED device
      BY <2>3 DEF LoadDelete
    <3>2. q.op # "login"
      BY <3>1
    <3> QED
      BY <1>2, <3>1, <3>2
  <2> QED
    BY <1>3, <2>1, <2>2, <2>3
<1>4. ASSUME NEW t \in Slots, NEW d \in Devices, NEW op \in {"revoke", "beat"},
             LoadDevice(t, op, d)
      PROVE  AddsNone
  <2>1. PICK q : q.op = op /\ tx' = [tx EXCEPT ![t] = q] /\ UNCHANGED device
    BY <1>4 DEF LoadDevice
  <2> QED
    BY <1>2, <2>1
<1>5. ASSUME NEW t \in Slots, Update(t) \/ Signup(t) \/ Rollback(t)
      PROVE  AddsNone
  BY <1>2, <1>5, IdleSound DEF Update, Signup, Rollback
<1>6. ASSUME NEW t \in Slots, Delete(t) PROVE AddsNone
  BY <1>1, <1>6, IdleSound, RowSets DEF Delete, AddsNone, NoDevice
<1>7. ASSUME NEW t \in Slots, WriteDevice(t) PROVE AddsNone
  <2>1. PICK q : q = tx[t]
    OBVIOUS
  <2>2. PICK new : new = Flush(device[q.device], q.before, q.after)
    OBVIOUS
  <2>3. /\ q \in TxSet /\ q.op \in {"revoke", "beat"} /\ UpdateSound(q)
        /\ device[q.device] # NoDevice /\ device' = [device EXCEPT ![q.device] = new]
        /\ tx' = [tx EXCEPT ![t] = Idle]
    BY <1>1, <1>7, <2>1, <2>2 DEF WriteDevice, Inv, UpdatesSound
  <2>4. /\ q.device \in Devices /\ q.before \in DeviceRow /\ q.after \in DeviceRow
        /\ q.after.owner = q.before.owner
        /\ q.after.status \in {q.before.status, "revoked"}
    BY <2>3, TxKinds DEF UpdateSound
  <2>5. device[q.device] \in DeviceRow
    BY <1>1, <2>3, <2>4
  <2>6. /\ new.owner = device[q.device].owner
        /\ device[q.device].status = "revoked" => new.status = "revoked"
    BY <2>2, <2>4, <2>5, FlushDevice
  <2>7. device[q.device].status \in {"active", "revoked"}
    BY <2>5 DEF DeviceRow
  <2> QED
    BY <1>1, <2>3, <2>4, <2>6, <2>7, IdleSound DEF AddsNone
<1>8. CASE UNCHANGED vars \/ \E r \in Rosters : SwitchRoster(r)
  BY <1>2, <1>8 DEF vars, SwitchRoster
<1> QED
  BY <1>3, <1>4, <1>5, <1>6, <1>7, <1>8 DEF Next, Commit

(* A login is loaded while its user is within the cap.                     *)
LEMMA LoadLoginKeepsCap ==
  ASSUME Inv, CapInv, NEW t \in Slots, NEW e \in Emails, LoadLogin(t, e)
  PROVE  CapInv'
<1>1. PICK id : id = account[e].id
  OBVIOUS
<1>2. PICK mine : mine = ActiveDevices(id)
  OBVIOUS
<1>3. PICK q : q = [op |-> "login", owner |-> id, serial |-> serials + 1,
                    evict |-> Evict(mine)]
  OBVIOUS
<1>4. /\ account[e].status = "active" /\ tx' = [tx EXCEPT ![t] = q]
      /\ UNCHANGED device
  BY <1>1, <1>2, <1>3 DEF LoadLogin
<1>5. id \in UserIds
  BY <1>1, <1>4, RowSets DEF Inv, TypeOK
<1>6. mine \in SUBSET Devices /\ Cardinality(mine) <= DeviceCap
  BY <1>2, <1>5 DEF ActiveDevices, CapInv
<1>7. Cardinality(ActiveDevices(q.owner) \ q.evict) < DeviceCap
  BY <1>2, <1>3, <1>6, EvictMakesRoom
<1>8. \A s \in Slots : tx'[s] = IF s = t THEN q ELSE tx[s]
  BY <1>4 DEF Inv, TypeOK
<1> QED
  <2>1. \A i : ActiveDevices(i)' = ActiveDevices(i)
    BY <1>4 DEF ActiveDevices
  <2>2. ASSUME NEW s \in Slots, tx'[s].op = "login"
        PROVE  Cardinality(ActiveDevices(tx'[s].owner) \ tx'[s].evict) < DeviceCap
    BY <1>7, <1>8, <2>2 DEF CapInv
  <2> QED
    BY <1>4, <2>2 DEF CapInv, ActiveDevices

(* It adds one device to those its user has left.                          *)
LEMMA LoginKeepsCap ==
  ASSUME Inv, CapInv, LoginsInTurn, NEW t \in Slots, Login(t)
  PROVE  CapInv'
<1> DEFINE After(id) ==
      {d \in Devices : device'[d].owner = id /\ device'[d].status = "active"}
<1>1. PICK q : q = tx[t]
  OBVIOUS
<1>2. /\ q.op = "login" /\ tx' = [tx EXCEPT ![t] = Idle]
      /\ device' = [d \in Devices |->
                      IF d = q.serial
                      THEN [owner |-> q.owner, status |-> "active", seen |-> 0]
                      ELSE IF d \in q.evict THEN [device[d] EXCEPT !.status = "revoked"]
                      ELSE device[d]]
      /\ Living(q.owner)
  BY <1>1 DEF Login, Living
<1>3. /\ q.owner \in UserIds /\ q.serial \in Devices /\ q.evict \subseteq Devices
      /\ device[q.serial] = NoDevice
      /\ \A d \in q.evict : device[d].owner = q.owner
  BY <1>1, <1>2, TxKinds DEF Inv, TypeOK, LoginsSound
<1>4. ASSUME NEW d \in q.evict
      PROVE  /\ [device[d] EXCEPT !.status = "revoked"].owner = q.owner
             /\ [device[d] EXCEPT !.status = "revoked"].status # "active"
  <2>1. d \in Devices /\ device[d].owner \in UserIds /\ 0 \notin UserIds
    BY <1>3, AccountsAssumption DEF UserIds
  <2>2. device[d] \in DeviceRow
    BY <2>1, RowSets DEF Inv, TypeOK
  <2> QED
    BY <1>3, <2>2 DEF DeviceRow
<1>5. \A d \in Devices :
        /\ d = q.serial => device'[d].owner = q.owner /\ device'[d].status = "active"
        /\ d # q.serial /\ d \in q.evict =>
              device'[d].owner = q.owner /\ device'[d].status # "active"
        /\ d # q.serial /\ d \notin q.evict => device'[d] = device[d]
  BY <1>2, <1>4
<1>6. After(q.owner) \subseteq (ActiveDevices(q.owner) \ q.evict) \cup {q.serial}
  BY <1>5 DEF ActiveDevices
<1>7. ASSUME NEW id, id # q.owner PROVE After(id) \in SUBSET ActiveDevices(id)
  BY <1>5, <1>7 DEF ActiveDevices
<1>8. \A s \in Slots : tx'[s].op = "login" => tx'[s] = tx[s] /\ tx[s].owner # q.owner
  BY <1>1, <1>2, IdleSound DEF Inv, TypeOK, LoginsInTurn
<1>9. /\ DeviceCap \in Nat
      /\ \A id : After(id) \in SUBSET Devices /\ ActiveDevices(id) \in SUBSET Devices
  BY AccountsAssumption DEF ActiveDevices
<1> HIDE DEF After
<1>10. Cardinality(After(q.owner)) <= DeviceCap
  <2>1. PICK S : S = ActiveDevices(q.owner) \ q.evict
    OBVIOUS
  <2>2. S \in SUBSET Devices /\ S \cup {q.serial} \in SUBSET Devices
    BY <1>3, <1>9, <2>1
  <2>3. Cardinality(S) < DeviceCap
    BY <1>1, <1>2, <2>1 DEF CapInv
  <2>4. IsFiniteSet(S) /\ Cardinality(S) \in Nat
    BY <2>2, FiniteDevices
  <2>5. Cardinality(S \cup {q.serial}) <= Cardinality(S) + 1
    BY <2>4, FS_AddElement
  <2>6. Cardinality(After(q.owner)) <= Cardinality(S \cup {q.serial})
    BY <1>6, <2>1, <2>2, FewerDevices
  <2>7. /\ Cardinality(After(q.owner)) \in Nat
        /\ Cardinality(S \cup {q.serial}) \in Nat
    BY <1>9, <2>2, FiniteDevices
  <2> QED
    BY <1>9, <2>3, <2>4, <2>5, <2>6, <2>7
<1>11. ASSUME NEW id \in UserIds, id # q.owner
       PROVE  Cardinality(After(id)) <= DeviceCap
  <2>1. Cardinality(After(id)) <= Cardinality(ActiveDevices(id))
    BY <1>7, <1>9, <1>11, FewerDevices
  <2>2. Cardinality(After(id)) \in Nat /\ Cardinality(ActiveDevices(id)) \in Nat
    BY <1>9, FiniteDevices
  <2> QED
    BY <1>9, <2>1, <2>2 DEF CapInv
<1>12. ASSUME NEW s \in Slots, tx'[s].op = "login"
       PROVE  Cardinality(After(tx'[s].owner) \ tx'[s].evict) < DeviceCap
  <2>1. PICK p : p = tx[s]
    OBVIOUS
  <2>2. tx'[s] = p /\ p.op = "login" /\ p.owner # q.owner
    BY <1>8, <1>12, <2>1
  <2>3. PICK S : S = ActiveDevices(p.owner) \ p.evict
    OBVIOUS
  <2>4. PICK T : T = After(p.owner) \ p.evict
    OBVIOUS
  <2>5. S \in SUBSET Devices /\ T \in SUBSET S
    BY <1>7, <1>9, <2>2, <2>3, <2>4
  <2>6. Cardinality(T) <= Cardinality(S)
    BY <2>5, FewerDevices
  <2>7. Cardinality(T) \in Nat /\ Cardinality(S) \in Nat
    BY <2>5, FiniteDevices
  <2>8. Cardinality(S) < DeviceCap
    BY <2>1, <2>2, <2>3 DEF CapInv
  <2> QED
    BY <1>9, <2>2, <2>4, <2>6, <2>7, <2>8
<1> QED
  BY <1>10, <1>11, <1>12 DEF CapInv, ActiveDevices, After

(* .env.example:51: as long as the logins of a user do not overlap, nobody *)
(* has more active devices than the cap, whatever else admins and other    *)
(* requests do to accounts and devices meanwhile.                          *)
THEOREM CapCorrect == Spec /\ []LoginsInTurn => []DevicesWithinCap
<1>1. Inv /\ CapInv /\ LoginsInTurn /\ [Next]_vars => CapInv'
  BY OthersAddNone, AddsNoneKeepsCap, LoadLoginKeepsCap, LoginKeepsCap
<1>2. Init => CapInv
  <2> SUFFICES ASSUME Init PROVE CapInv
    OBVIOUS
  <2>1. \A id \in UserIds : ActiveDevices(id) = {}
    BY DEF Init, ActiveDevices, NoDevice
  <2>2. \A t \in Slots : tx[t].op # "login"
    BY IdleSound DEF Init
  <2> QED
    BY <2>1, <2>2, FS_EmptySet, AccountsAssumption DEF CapInv
<1>3. Inv /\ CapInv => DevicesWithinCap
  <2> SUFFICES ASSUME Inv, CapInv, NEW e \in Emails
               PROVE  Cardinality(ActiveDevices(account[e].id)) <= DeviceCap
    BY DEF DevicesWithinCap
  <2>1. CASE account[e].id \in UserIds
    BY <2>1 DEF CapInv
  <2>2. CASE account[e] = NoAccount
    <3>1. \A d \in Devices : device[d].owner = 0 => device[d].status # "active"
      BY RowSets, AccountsAssumption DEF Inv, TypeOK, UserIds
    <3>2. ActiveDevices(account[e].id) = {}
      BY <2>2, <3>1 DEF ActiveDevices, NoAccount
    <3> QED
      BY <3>2, FS_EmptySet, AccountsAssumption
  <2> QED
    BY <2>1, <2>2, RowSets DEF Inv, TypeOK
<1> QED
  BY <1>1, <1>2, <1>3, Invariance, PTL DEF Spec
=============================================================================
