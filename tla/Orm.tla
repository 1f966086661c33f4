-------------------------------- MODULE Orm --------------------------------
(* How a request's session writes back an object it has loaded and changed.*)

\* mutant: every column written, as a merge of the loaded row would
FlushAll(row, before, after) == after

(* UPDATE of the columns that differ from what was loaded.  row is what the*)
(* statement finds, which another request may have changed since.          *)
Flush(row, before, after) ==
  [c \in DOMAIN row |-> IF after[c] = before[c] THEN row[c] ELSE after[c]]
=============================================================================
