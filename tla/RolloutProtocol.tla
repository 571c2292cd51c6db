-------------------------- MODULE RolloutProtocol --------------------------
(***************************************************************************)
(* The vocabulary Cloud and Agent share: the contract package              *)
(* contracts/go/deploymentv1.  A deployment job, the rollout it asks for   *)
(* and the known-good snapshot that rollout leaves when it succeeds carry  *)
(* one identity each, derived from one another (buildRolloutIntent hashes  *)
(* the job id into the rollout id, the engine names the snapshot after the *)
(* rollout), so a single element of Jobs stands for all three.             *)
(***************************************************************************)
EXTENDS Naturals, FiniteSets

CONSTANTS
  Jobs,             \* deployment job ids
  Targets,          \* runtime targets: project/environment/runtime/service
  PreviewTargets,   \* the targets that are preview namespaces
  None,             \* the empty string of an optional reference
  Partial           \* a runtime left between two snapshots

ASSUME ProtocolAssumption ==
  /\ IsFiniteSet(Jobs)
  /\ PreviewTargets \subseteq Targets
  /\ None \notin Jobs
  /\ Partial \notin Jobs
  /\ None # Partial

----------------------------------------------------------------------------
RolloutStates ==
  {"prepared", "applying", "waiting", "succeeded", "failed",
   "rolling_back", "rolled_back", "rollback_failed", "cleaned"}

CleanupOperations == {"preview_cleanup", "first_deploy_cleanup"}

Operations == {"apply", "rollback"} \cup CleanupOperations

KnownGoodRefs == Jobs \cup {None}

(* Canonicalize: which references an intent of each operation may carry.   *)
Canonical(i) ==
  /\ i.op = "apply" => i.expected = None
  /\ i.op = "rollback" => i.previous # None /\ i.expected # None
  /\ i.op \in CleanupOperations => i.previous = None /\ i.expected = None
  /\ i.op = "preview_cleanup" => i.target \in PreviewTargets
  /\ i.op = "first_deploy_cleanup" => i.target \notin PreviewTargets

RawIntents ==
  [op: Operations, target: Targets, previous: KnownGoodRefs,
   expected: KnownGoodRefs]

Intents == {i \in RawIntents : Canonical(i)}

(* The known-good reference the Agent's current pointer must still equal   *)
(* before the rollout may begin.                                           *)
ExpectedCurrent(i) == IF i.op = "rollback" THEN i.expected ELSE i.previous

----------------------------------------------------------------------------
(* The state machine of one rollout.                                       *)
AllowedTransitions ==
  [s \in RolloutStates |->
     CASE s = "prepared"     -> {"applying", "rolling_back", "failed"}
       [] s = "applying"     -> {"waiting", "failed"}
       [] s = "waiting"      -> {"succeeded", "cleaned", "failed"}
       [] s = "failed"       -> {"rolling_back"}
       [] s = "rolling_back" -> {"rolled_back", "rollback_failed"}
       [] OTHER              -> {}]

CanTransitionRollout(from, to) == to \in AllowedTransitions[from]

(* The states a path of transitions leads to from s: the least set that    *)
(* holds the successors of s and those of its own members.                 *)
Closed(C) == \A t \in C : AllowedTransitions[t] \subseteq C

Descendants ==
  [s \in RolloutStates |->
     {t \in RolloutStates :
        \A C \in SUBSET RolloutStates :
          AllowedTransitions[s] \subseteq C /\ Closed(C) => t \in C}]

(* Faulty variant: only a report of every single state may be completed.   *)
CanCompleteInOneStep(from, to) == from = to \/ CanTransitionRollout(from, to)

CanCompleteRollout(from, to) == from = to \/ to \in Descendants[from]

IsTerminalRolloutState(s) ==
  s \in {"succeeded", "rolled_back", "rollback_failed", "cleaned"}

RolloutMutationObserved(s) == s \notin {"prepared", "cleaned"}
=============================================================================
