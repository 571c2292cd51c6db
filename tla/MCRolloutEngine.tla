-------------------------- MODULE MCRolloutEngine --------------------------
(* Instances of RolloutEngine for TLC.  Job identities are interchangeable *)
(* in the safety runs: no definition orders or names them.                 *)
EXTENDS RolloutEngine, TLC

JobSymmetry == Permutations(Jobs)
=============================================================================
