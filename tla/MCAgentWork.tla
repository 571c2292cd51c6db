---------------------------- MODULE MCAgentWork ----------------------------
(* What Agents do for Cloud and for people, deployments apart, side by     *)
(* side: the lifecycle of managed resources, their backups and restores,   *)
(* the cutover from one to another, approved actions, the nodes, and the   *)
(* secrets of workloads.                                                   *)
(* The models share no state; `part` says which of them moves in a         *)
(* behaviour, so the states to check are the sum of theirs.                *)
EXTENDS Naturals, TLC

CONSTANTS
  ResourceTypes, Bindings, Clients, MaxSpecs, MaxPlans, MaxLeases,
  MaxRequests, MaxFaults,
  BackupIds, RestoreIds, MaxContents, MaxChanges, MaxTokens, MaxUpsets,
  Reviews, Rollbacks, Finalizations, MaxRevisions,
  Targets, Devices, MaxVersions, MaxFailures,
  Nodes, Servers, Jobs, MaxAttempts, MaxPosts, MaxAccidents,
  Codes, MaxSecrets

(* "none" is no node's name, "free" no action's, and "server" no           *)
(* binding's; the ids of cutovers, of rollbacks and of finalizations       *)
(* differ.                                                                 *)
ASSUME AgentWorkAssumption ==
  /\ "none" \notin Nodes /\ "free" \notin RestoreIds
  /\ "server" \notin Bindings
  /\ Clients \cap Rollbacks = {} /\ Clients \cap Finalizations = {}
  /\ Rollbacks \cap Finalizations = {}
  /\ MaxAttempts \in Nat \ {0} /\ MaxFailures \in Nat /\ MaxLeases \in Nat
  /\ MaxPlans \in Nat

VARIABLES
  part,
  row, binding, secret, cluster, retained, request, agent, report, budget,
  source, target, backup, object, review, restore, worker, delayed, tally,
  config, data, restoring, cutoverReview, probe, cutover, rollback,
  finalization, call, outcome, posted, spent,
  action, lock, device, keychain, expired, workload, execution, recovery,
  mutations, failures,
  node, agentRow, runtime, job, beat, runner, objects, accidents,
  code, attempts, seedMemory, seedStored, seedHeld, secretStored, running,
  rolling, restarts, generated, asked, accepted, troubles

resourceVars ==
  <<row, binding, secret, cluster, retained, request, agent, report, budget>>
backupVars ==
  <<source, target, backup, object, review, restore, worker, delayed, tally>>
cutoverVars ==
  <<config, data, restoring, cutoverReview, probe, cutover, rollback,
    finalization, call, outcome, posted, spent>>
actionPlaneVars ==
  <<action, lock, device, keychain, expired, workload, execution, recovery,
    mutations, failures>>
nodeVars == <<node, agentRow, runtime, job, beat, runner, objects, accidents>>
secretVars ==
  <<code, attempts, seedMemory, seedStored, seedHeld, secretStored, running,
    rolling, restarts, generated, asked, accepted, troubles>>
agentWorkVars ==
  <<part, resourceVars, backupVars, cutoverVars, actionPlaneVars, nodeVars,
    secretVars>>

Resources == INSTANCE ManagedResources
Copies == INSTANCE Backups WITH ReviewIds <- Clients
Switch ==
  INSTANCE Cutover WITH Cutovers <- Clients, MaxPosted <- 1,
                        review <- cutoverReview
Approved ==
  INSTANCE ActionPlane WITH Actions <- RestoreIds, Calls <- Clients,
                            call <- execution
Machines ==
  INSTANCE NodeLifecycle WITH Agents <- Clients, agent <- agentRow,
                              cluster <- objects
Secrets ==
  INSTANCE SecretAccess WITH Calls <- Clients, Limit <- 2, MaxMishaps <- 1,
                             request <- asked

(* Either every node registers and nothing goes wrong, or only the servers *)
(* do and accidents happen.                                                *)
NodeParts == {"nodes", "servers"}

(* The variables of the models that do not move.                           *)
Unused == "unused"
NoResources ==
  /\ row = Unused /\ binding = Unused /\ secret = Unused
  /\ cluster = Unused /\ retained = Unused /\ request = Unused
  /\ agent = Unused /\ report = Unused /\ budget = Unused
NoCopies ==
  /\ source = Unused /\ target = Unused /\ backup = Unused
  /\ object = Unused /\ review = Unused /\ restore = Unused
  /\ worker = Unused /\ delayed = Unused /\ tally = Unused
NoSwitch ==
  /\ config = Unused /\ data = Unused /\ restoring = Unused
  /\ cutoverReview = Unused /\ probe = Unused /\ cutover = Unused
  /\ rollback = Unused /\ finalization = Unused /\ call = Unused
  /\ outcome = Unused /\ posted = Unused /\ spent = Unused
NoActions ==
  /\ action = Unused /\ lock = Unused /\ device = Unused
  /\ keychain = Unused /\ expired = Unused /\ workload = Unused
  /\ execution = Unused /\ recovery = Unused /\ mutations = Unused
  /\ failures = Unused
NoNodes ==
  /\ node = Unused /\ agentRow = Unused /\ runtime = Unused
  /\ job = Unused /\ beat = Unused /\ runner = Unused
  /\ objects = Unused /\ accidents = Unused
NoSecrets ==
  /\ code = Unused /\ attempts = Unused /\ seedMemory = Unused
  /\ seedStored = Unused /\ seedHeld = Unused /\ secretStored = Unused
  /\ running = Unused /\ rolling = Unused /\ restarts = Unused
  /\ generated = Unused /\ asked = Unused
  /\ accepted = Unused /\ troubles = Unused

AgentWorkInit ==
  \/ /\ part = "resources"
     /\ Resources!Init /\ NoCopies /\ NoSwitch /\ NoActions
     /\ NoNodes /\ NoSecrets
  \/ /\ part = "backups"
     /\ Copies!Init /\ NoResources /\ NoSwitch /\ NoActions
     /\ NoNodes /\ NoSecrets
  \/ /\ part = "cutover"
     /\ Switch!Init /\ NoResources /\ NoCopies /\ NoActions
     /\ NoNodes /\ NoSecrets
  \/ /\ part = "actions"
     /\ Approved!Init /\ NoResources /\ NoCopies /\ NoSwitch
     /\ NoNodes /\ NoSecrets
  \/ /\ part \in NodeParts
     /\ Machines!Init /\ NoResources /\ NoCopies /\ NoSwitch
     /\ NoActions /\ NoSecrets
  \/ /\ part = "secrets"
     /\ Secrets!Init /\ NoResources /\ NoCopies /\ NoSwitch
     /\ NoActions /\ NoNodes

ResourcesMove ==
  /\ part = "resources"
  /\ UNCHANGED <<part, backupVars, cutoverVars, actionPlaneVars,
                 nodeVars, secretVars>>
CopiesMove ==
  /\ part = "backups"
  /\ UNCHANGED <<part, resourceVars, cutoverVars, actionPlaneVars,
                 nodeVars, secretVars>>
SwitchMoves ==
  /\ part = "cutover"
  /\ UNCHANGED <<part, resourceVars, backupVars, actionPlaneVars,
                 nodeVars, secretVars>>
ActionsMove ==
  /\ part = "actions"
  /\ UNCHANGED <<part, resourceVars, backupVars, cutoverVars,
                 nodeVars, secretVars>>
NodesMove ==
  /\ part \in NodeParts
  /\ UNCHANGED <<part, resourceVars, backupVars, cutoverVars,
                 actionPlaneVars, secretVars>>
SecretsMove ==
  /\ part = "secrets"
  /\ UNCHANGED <<part, resourceVars, backupVars, cutoverVars,
                 actionPlaneVars, nodeVars>>

AgentWorkNext ==
  \/ ResourcesMove /\ Resources!Requests
  \/ ResourcesMove /\ Resources!AgentSteps
  \/ ResourcesMove /\ Resources!StorageSteps
  \/ CopiesMove /\ Copies!Surroundings
  \/ CopiesMove /\ Copies!BackupSteps
  \/ CopiesMove /\ Copies!RestoreSteps
  \/ CopiesMove /\ Copies!ReportSteps
  \/ SwitchMoves /\ Switch!Requests
  \/ SwitchMoves /\ Switch!CloudSteps
  \/ SwitchMoves /\ Switch!AgentSteps
  \/ SwitchMoves /\ Switch!Others
  \/ ActionsMove /\ Approved!People
  \/ ActionsMove /\ \E c \in Clients : Approved!ExecuteSteps(c)
  \/ ActionsMove /\ Approved!RecoverySteps
  \/ ActionsMove /\ Approved!Others
  \/ NodesMove /\ part = "nodes" /\ Machines!Next /\ UNCHANGED accidents
  \/ /\ NodesMove /\ part = "servers" /\ Machines!Next
     /\ \A n \in Nodes \ Servers : node'[n] = node[n]
  \/ SecretsMove /\ Secrets!CodeSteps
  \/ SecretsMove /\ Secrets!AgentSteps

AgentWorkSpec == AgentWorkInit /\ [][AgentWorkNext]_agentWorkVars

(* Requests and the ids they choose are interchangeable; clients stand for *)
(* ids, calls or Agent rows in the parts that have no client of their own, *)
(* and ids of restores for actions.                                        *)
AgentWorkSymmetry ==
  Permutations(Clients) \cup Permutations(RestoreIds) \cup Permutations(Codes)

(* Each property includes the types of the rows it is about.               *)

(* A resource Cloud shows as ready runs the spec its row holds, and the    *)
(* database's login roles follow the bindings.                             *)
ResourcesAreFactual ==
  part = "resources" =>
    /\ Resources!ResourceTypeOK
    /\ Resources!ReadyIsFactual
    /\ Resources!RolesFollowBindings

(* A volume is given up only by a destroy request.                         *)
VolumeOnlyDestroyedOnRequest ==
  part = "resources" => Resources!VolumeOnlyDestroyedOnRequest

(* The object of a succeeded backup holds what its checksum says, and the  *)
(* target of restores is loaded at most once, with the right content.      *)
CopiesAreFaithful ==
  part = "backups" =>
    /\ Copies!BackupTypeOK
    /\ Copies!SucceededBackupIsIntact /\ Copies!RestoreIsFaithful

(* A cutover replaces exactly the configuration that was reviewed, and the *)
(* source's binding is revoked only for a cutover that succeeded.          *)
CutoverIsAsReviewed ==
  part = "cutover" =>
    /\ Switch!CutoverTypeOK
    /\ Switch!SwitchedFromReviewed /\ Switch!RevokedForSucceededCutover

(* An approved action mutates its workload at most once, under its lock.   *)
MutatedOnceAsApproved ==
  part = "actions" =>
    Approved!ActionTypeOK /\ Approved!MutatedOnceAsApproved

(* A removed node is gone and its Agents are locked out.                   *)
RemovedIsLockedOut ==
  part \in NodeParts =>
    Machines!NodeLifecycleTypeOK /\ Machines!RemovedIsLockedOut

(* A one-time code lets one call through, and a rotation that was answered *)
(* runs.                                                                   *)
SecretsHonoured ==
  part = "secrets" => Secrets!CodesWorkOnce /\ Secrets!RotatedIsRunning
=============================================================================
