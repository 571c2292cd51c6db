----------------------------- MODULE MCDelivery -----------------------------
(* Builds and deployment runs for TLC: one run, with either two            *)
(* applications and one attempt or one application and two attempts, and   *)
(* beside it the build jobs, and the keys and tokens believed for a while. *)
(* The models share no state; `part` says which of them moves in a         *)
(* behaviour, so the states to check are the sum of theirs.                *)
EXTENDS DeploymentWorkflow, TLC

CONSTANTS
  BuildRequests, BuildAttempts, Strategies, MaxRebinds,
  SigningKeys, TTL, Life, MaxTime

ASSUME DeliveryAssumption ==
  /\ MaxRebinds \in Nat
  /\ TTL \in Nat \ {0} /\ MaxTime \in Nat \ {0}
  /\ Life \in Nat /\ Life > 1   \* in minutes: an hour, in the code

VARIABLES
  part,
  job, attempt, dispatch, runner, source, records,
  kind, now, endedAt, keys, pats, token, flight, call, failures

buildVars == <<job, attempt, dispatch, runner, source, records>>
verificationVars ==
  <<kind, now, endedAt, keys, pats, token, flight, call, failures>>
deliveryVars == <<part, workflowVars, buildVars, verificationVars>>

Builds == INSTANCE BuildJobs WITH BuildKeys <- BuildRequests,
                                  Attempts <- BuildAttempts
Beliefs ==
  INSTANCE Verification WITH Keys <- SigningKeys, Callers <- Workers,
                             MaxFailures <- 1

(* The variables of the models that do not move.                           *)
Unused == "unused"
NoWorkflow ==
  /\ run = Unused /\ lease = Unused /\ worker = Unused
  /\ cancelling = Unused /\ head = Unused /\ facts = Unused
  /\ preflight = Unused /\ known = Unused /\ surprises = Unused
  /\ build = Unused /\ deploy = Unused
NoBuilds ==
  /\ job = Unused /\ attempt = Unused /\ dispatch = Unused
  /\ runner = Unused /\ source = Unused /\ records = Unused

NoBeliefs ==
  /\ kind = Unused /\ now = Unused /\ endedAt = Unused /\ keys = Unused
  /\ pats = Unused /\ token = Unused /\ flight = Unused /\ call = Unused
  /\ failures = Unused

DeliveryInit ==
  \/ part = "workflow" /\ Init /\ NoBuilds /\ NoBeliefs
  \/ part = "builds" /\ Builds!Init /\ NoWorkflow /\ NoBeliefs
  \/ part = "verification" /\ Beliefs!Init /\ NoWorkflow /\ NoBuilds

WorkflowMoves ==
  part = "workflow" /\ UNCHANGED <<part, buildVars, verificationVars>>
BuildsMove ==
  part = "builds" /\ UNCHANGED <<part, workflowVars, verificationVars>>
BeliefsMove ==
  part = "verification" /\ UNCHANGED <<part, workflowVars, buildVars>>

DeliveryNext ==
  \/ WorkflowMoves /\ Requests
  \/ WorkflowMoves /\ Controllers
  \/ WorkflowMoves /\ Surprises
  \/ WorkflowMoves /\ Authorities
  \/ BuildsMove /\ Builds!Poll
  \/ BuildsMove /\ Builds!DispatchSteps
  \/ BuildsMove /\ Builds!RunnerSteps
  \/ BuildsMove /\ Builds!Faults
  \/ BuildsMove /\ Builds!Clients
  \/ BeliefsMove /\ Beliefs!KeySteps
  \/ BeliefsMove /\ Beliefs!PATSteps
  \/ BeliefsMove /\ Beliefs!TokenSteps
  \/ BeliefsMove /\ Beliefs!OutsideSteps

DeliverySpec == DeliveryInit /\ [][DeliveryNext]_deliveryVars

SmallShapes == {[apps |-> 2, attempts |-> 1], [apps |-> 1, attempts |-> 2]}

(* Three applications whose builds succeed, for DeliveryRollbackGap.       *)
ThreeApps == {[apps |-> 3, attempts |-> 1]}
BuiltAtOnce ==
  /\ part = "workflow" /\ ~cancelling
  /\ run.state \notin {"stale", "failed", "cancelled"}
  /\ \A k \in BuildKeys : build[k].status \in {"absent", "active", "succeeded"}
DeliverySymmetry ==
  Permutations(Workers) \cup Permutations(BuildAttempts)
    \cup Permutations(SigningKeys)

(* Each property includes the types of the rows it is about.               *)

(* A run's jobs belong to the plan that was approved.                      *)
RunDeploysWhatWasApproved ==
  part = "workflow" => WorkflowTypeOK /\ DeploysWhatWasApproved

(* What a finished run says is so.                                         *)
RunEndsTruthfully == part = "workflow" => FinishedRunIsTrue

(* A rolled back run leaves no application on what it deployed.            *)
RollbackIsComplete == part = "workflow" => RolledBackIsRestored

(* A finished run is never brought back by a controller that executed a    *)
(* step of an earlier revision, and a stale one only goes on by a new      *)
(* analysis (Save's revision check).                                       *)
RunsStayFinished ==
  [][part = "workflow" =>
       /\ run.state \in TerminalStates \ {"stale"} => run' = run
       /\ run.state = "stale" => run'.state \in Draft \cup {"stale"}]_deliveryVars

(* A build record is a succeeded job's, and a job has at most one attempt  *)
(* under way.                                                              *)
BuildsAreAccountedFor ==
  part = "builds" =>
    /\ Builds!BuildTypeOK
    /\ Builds!RecordsAreSucceededJobs /\ Builds!OneLiveAttempt

(* No key, PAT or token is believed for longer than its time.              *)
NothingOutlivesItsEnd ==
  part = "verification" => Beliefs!NothingOutlivesItsEnd
=============================================================================
