--------------------------- MODULE MCAttackTasks ---------------------------
(* The attack on one domain by a few workers, over a few runs. *)
EXTENDS AttackTasks, TLC

CONSTANTS Runs

MCRun == 1..Runs
MCSymmetry == Permutations(Worker)
=============================================================================
