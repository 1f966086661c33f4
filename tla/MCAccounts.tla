----------------------------- MODULE MCAccounts -----------------------------
(* Small instances of Accounts: one email, whose account may be deleted and*)
(* created again.                                                          *)
EXTENDS Accounts, TLC

VisitorSymmetry == Permutations(Visitors)
AdminSymmetry == Permutations(Admins)
=============================================================================
