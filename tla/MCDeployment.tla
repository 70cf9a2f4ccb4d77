---------------------------- MODULE MCDeployment ----------------------------
(* A small instance of Deployment for TLC: two changes, each with a         *)
(* migration, so that one pull may bring both.                              *)
EXTENDS Deployment

MCMigrating == {1, 2}
MCWhen == [c \in Commits |-> 10 + c]
=============================================================================
