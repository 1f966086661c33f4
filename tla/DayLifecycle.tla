---------------------------- MODULE DayLifecycle ----------------------------
(* What the attendance system promises about a day, whatever races on it:  *)
(* a user arrives once, is checked out once and after arriving, and the    *)
(* proof of the arrival is only ever strengthened.  Neither instant is     *)
(* rewritten or taken back.  One step may move several days, because a     *)
(* scheduled job commits all it did at once.                               *)
CONSTANTS
  Keys,        \* the days, one per user and office-local date
  Instants,    \* what check-in and check-out may be
  NULL

VARIABLE entry   \* entry[k]: the arrival, the departure and the proof of k

NoEntry == [in |-> NULL, out |-> NULL, proof |-> NULL]

Init == entry = [k \in Keys |-> NoEntry]

Arrived(e, f) ==
  /\ e = NoEntry
  /\ f = [in |-> f.in, out |-> NULL, proof |-> f.proof]
  /\ f.in \in Instants
  /\ f.proof \in {"gps_pending", "verified"}

CheckedOut(e, f) ==
  /\ e.in # NULL
  /\ e.out = NULL
  /\ f = [e EXCEPT !.out = f.out]
  /\ f.out \in Instants

Verified(e, f) ==
  /\ e.proof = "gps_pending"
  /\ f = [e EXCEPT !.proof = "verified"]

EntryStep(e, f) == Arrived(e, f) \/ CheckedOut(e, f) \/ Verified(e, f)

Next ==
  /\ entry' = [k \in Keys |-> entry'[k]]
  /\ \A k \in Keys : entry'[k] = entry[k] \/ EntryStep(entry[k], entry'[k])

Spec == Init /\ [][Next]_entry
=============================================================================
