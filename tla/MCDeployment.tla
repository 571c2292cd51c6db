--------------------------- MODULE MCDeployment ---------------------------
(* Instances of Deployment for TLC: one service, one Agent.                *)
EXTENDS Deployment, TLC

OneService == [t \in Targets |-> CHOOSE s \in Services : TRUE]

(* Bound: a third job only beside two succeeded deployments of the target: *)
(* two known-goods, and a rollback or a deployment that follows them.      *)
ThirdJobFollowsSuccess ==
  LET used == {j \in Jobs : Exists(j) \/ drafts[j] # None}
      Deployed(j) == /\ Exists(j) /\ Resolved(j)
                     /\ jobs[j].result.state = "succeeded"
                     /\ jobs[j].intent.op = "apply"
                     /\ jobs[j].intent.target \notin PreviewTargets
  IN Cardinality(used) > 2 =>
       \E j \in used : \A k \in used \ {j} : Deployed(k)

JobSymmetry == Permutations(Jobs)
=============================================================================
