----------------------------- MODULE MCSettings -----------------------------
(* Small instances of Settings.                                            *)
EXTENDS Settings, TLC

IdSymmetry == Permutations(Rosters) \cup Permutations(Ips)
=============================================================================
