---------------------------- MODULE MCDeployment ----------------------------
(* A small instance of Deployment: one employee seed.py knows, and one it  *)
(* does not; the old program may have had both.                            *)
EXTENDS Deployment

CONSTANTS aisha, omar

People == {aisha, omar}
=============================================================================
