------------------------- MODULE MCDeploymentLive -------------------------
(* The instance of Deployment for the liveness properties, with a history  *)
(* variable that remembers which rollbacks waited out their deadline: the  *)
(* outcome of such a rollback is written with the context whose deadline   *)
(* has just passed, so it is not recorded (rollbackFailed of the engine).  *)
EXTENDS MCDeployment

VARIABLE overran   \* history: rollouts whose rollback outlasted its deadline

liveVars == <<deploymentVars, overran>>

LiveInit == DeploymentInit /\ overran = {}

LiveNext ==
  /\ DeploymentNext
  /\ overran' = IF RollbackTimesOut THEN overran \cup {eng.job} ELSE overran

LiveSpec == LiveInit /\ [][LiveNext]_liveVars /\ DeploymentFairness

(* ReconcilePending and redelivery: a rollout the log holds is driven to a *)
(* terminal state over crashes, store errors and recovery passes that stop *)
(* at the first failure.  What is not promised, because the code does not  *)
(* keep it: that a rollback whose readiness wait uses up its deadline ends *)
(* (rollout_engine.go:332).                                                *)
EveryRolloutEnds ==
  \A j \in Jobs : Active(j) ~> Terminal(j) \/ j \in overran
=============================================================================
