----------------------- MODULE MCDeploymentRegistry -----------------------
(* Instances of DeploymentRegistry for TLC: every target is one of the     *)
(* environments of a single service.                                       *)
EXTENDS DeploymentRegistry, TLC

OneService == [t \in Targets |-> CHOOSE s \in Services : TRUE]

JobSymmetry == Permutations(Jobs)

JobNodeSymmetry == Permutations(Jobs) \cup Permutations(Nodes)

(* Bound of the third job: it comes after two deployments that succeeded   *)
(* on one node, which is what a rollback of the second one needs.          *)
Used == {j \in Jobs : jobs[j] # None \/ drafts[j] # None}

NodeOf(j) == IF jobs[j] # None THEN jobs[j].node ELSE drafts[j].node

SucceededApply(j) ==
  /\ jobs[j] # None
  /\ jobs[j].intent.op = "apply"
  /\ jobs[j].result # None
  /\ jobs[j].result.state = "succeeded"

ThirdJobFollowsSuccess ==
  \/ Cardinality(Used) <= 2
  \/ /\ retired = {}
     /\ Cardinality({NodeOf(j) : j \in Used}) = 1
     /\ \E j \in Used : \A k \in Used \ {j} : SucceededApply(k)
=============================================================================
