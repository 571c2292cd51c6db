------------------------- MODULE ManagedResources -------------------------
(***************************************************************************)
(* One managed resource: its row, bindings, credentials and retained       *)
(* storage in Cloud (cloud/internal/resource), and the Agent that applies  *)
(* it to the cluster (agent/internal/svcatalog).  A request of a user      *)
(* reads the row, checks it and later writes it back with Store.Update,    *)
(* which is unconditional: other requests and the Agent's report may come  *)
(* between.  The Agent polls one lease at a time; its report is a handler  *)
(* that reads and then writes under the lease token.  A refused request    *)
(* changes nothing and is not a step (that includes the refusals of        *)
(* hasActiveOperation while a backup or restore runs).                     *)
(***************************************************************************)
EXTENDS Naturals

CONSTANTS
  ResourceTypes,  \* among "postgres", "kafka", "redis" and "nats"
  Bindings,       \* bindings applications may create to the resource
  Clients,        \* concurrent requests
  MaxSpecs,       \* bound: revisions of the managed spec
  MaxPlans,       \* bound: revisions of the topology plan
  MaxLeases,      \* bound: leases of the resource
  MaxRequests,    \* bound: requests that start
  MaxFaults       \* bound: crashes, lost reports and failed cluster calls

VARIABLES
  row,        \* resources
  binding,    \* resource_bindings: lifecycle
  secret,     \* credentials: "server" and the bindings' own
  cluster,    \* the workload's spec, login roles and volume
  retained,   \* retained_storages
  request,    \* where each request is, and the row it will write
  agent,      \* the lease the Agent works on and its result
  report,     \* the report handler: the rows it read and has still to write
  budget      \* requests and faults so far

resourceVars ==
  <<row, binding, secret, cluster, retained, request, agent, report, budget>>

value == row.value
ResourceType == row.type
managedCredentialRequired == ResourceType \in {"postgres", "kafka", "redis"}
managedStorageRequired == ResourceType \in {"postgres", "kafka"}

NoSpec == [managed |-> 0, plan |-> 0]
NoRow == [present |-> FALSE, lifecycle |-> "absent", managed |-> 0,
          runtime |-> NoSpec, evidence |-> NoSpec]
NoLease == [token |-> 0, expired |-> FALSE, next |-> 1]
NoRequest == [op |-> "idle", value |-> NoRow, of |-> "none"]
NoWork == [phase |-> "idle", action |-> "none", spec |-> NoSpec, token |-> 0,
           ops |-> [b \in Bindings |-> "none"], status |-> "none",
           done |-> {}]
NoReport == [phase |-> "idle", value |-> NoRow,
             rows |-> [b \in Bindings |-> "absent"], left |-> {}]

Init ==
  /\ \E t \in ResourceTypes :
       row = [type |-> t, value |-> NoRow, lease |-> NoLease]
  /\ binding = [b \in Bindings |-> "absent"]
  /\ secret = {}
  /\ cluster = [workload |-> NoSpec, roles |-> {}, volume |-> "none"]
  /\ retained = [state |-> "none", reviewed |-> FALSE, token |-> FALSE]
  /\ request = [c \in Clients |-> NoRequest]
  /\ agent = NoWork
  /\ report = NoReport
  /\ budget = [requests |-> 0, faults |-> 0]

Start(c) == request[c] = NoRequest /\ budget.requests < MaxRequests
Charge == budget' = [budget EXCEPT !.requests = @ + 1]
Fault == /\ budget.faults < MaxFaults
         /\ budget' = [budget EXCEPT !.faults = @ + 1]

(* Store.Update writes the whole value and leaves the lease alone.         *)
StoreUpdate(v) == row' = [row EXCEPT !.value = v]

(* The row a request will write when its Store call runs.                  *)
Read(c, op, v, of) ==
  request' = [request EXCEPT ![c] = [op |-> op, value |-> v, of |-> of]]

(* The handlers of resource_api: a request starts with the row as it is.   *)
handleResourceAPI(c) == Start(c) /\ value.present /\ Charge

----------------------------------------------------------------------------
(* Requests on the resource *)

(* Service.Create and the insert: a managed service starts unplaced.       *)
Create(c) ==
  /\ Start(c) /\ Charge
  /\ value = NoRow /\ row.lease = NoLease /\ retained.state = "none"
  /\ row' = [row EXCEPT !.value =
       [NoRow EXCEPT !.present = TRUE, !.lifecycle = "unplaced",
                     !.managed = 1]]
  /\ UNCHANGED <<binding, secret, cluster, retained, request, agent, report>>

(* compileManaged: the spec is fixed by the managed spec and the plan.     *)
compileManaged(v, plan) == [managed |-> v.managed, plan |-> plan]

factualReady(v) == v.runtime # NoSpec /\ v.evidence = v.runtime

(* Service.Update: a placed resource is compiled again and planned; its    *)
(* lifecycle is not consulted.                                             *)
UpdatedValue ==
  LET v == [value EXCEPT !.managed = @ + 1]
  IN IF v.runtime = NoSpec THEN [v EXCEPT !.lifecycle = "unplaced"]
     ELSE [v EXCEPT !.runtime = compileManaged(v, v.runtime.plan),
                    !.evidence = NoSpec, !.lifecycle = "planned"]

Update(c) ==
  /\ handleResourceAPI(c)
  /\ value.managed < MaxSpecs
  /\ Read(c, "update", UpdatedValue, "none")
  /\ UNCHANGED <<row, binding, secret, cluster, retained, agent, report>>

(* Service.DeleteIntent: refused while a binding row exists.               *)
BindingsBlockDelete ==
  ResourceType \in {"postgres", "kafka"} /\
  \E b \in Bindings : binding[b] # "absent"

DeleteIntent(c) ==
  /\ handleResourceAPI(c)
  /\ ~BindingsBlockDelete
  /\ Read(c, IF value.runtime = NoSpec THEN "remove" ELSE "delete",
          [value EXCEPT !.lifecycle = "deleting"], "none")
  /\ UNCHANGED <<row, binding, secret, cluster, retained, agent, report>>

(* Service.ReconcileTopology on this resource: the credential is ensured   *)
(* and the row read in one pass; the same spec is retried only when failed.*)
ReconcileTopology(c, plan) ==
  /\ handleResourceAPI(c)
  /\ value.lifecycle # "deleting"
  /\ plan >= value.runtime.plan /\ plan \in 1..MaxPlans
  /\ LET spec == compileManaged(value, plan)
     IN \/ /\ value.runtime = spec
           /\ value.lifecycle = "failed"
           /\ Read(c, "reconcile", [value EXCEPT !.lifecycle = "planned"],
                   "none")
        \/ /\ value.runtime # spec
           /\ Read(c, "reconcile",
                   [value EXCEPT !.runtime = spec, !.evidence = NoSpec,
                                 !.lifecycle = "planned"], "none")
  /\ secret' = secret \cup
       (IF managedCredentialRequired THEN {"server"} ELSE {})
  /\ UNCHANGED <<row, binding, cluster, retained, agent, report>>

(* PostgresStore.Update: the row as it was read, with its changes.         *)
Write(c) ==
  /\ request[c].op \in {"update", "delete", "reconcile", "planned"}
  /\ IF value.present THEN StoreUpdate(request[c].value) ELSE UNCHANGED row
  /\ request' = [request EXCEPT ![c] = NoRequest]
  /\ UNCHANGED <<binding, secret, cluster, retained, agent, report, budget>>

(* PostgresStore.Delete: unconditional; binding rows go with it.           *)
Remove(c) ==
  /\ request[c].op = "remove"
  /\ row' = [row EXCEPT !.value = NoRow, !.lease.token = 0]
  /\ binding' = [b \in Bindings |-> "absent"]
  /\ request' = [request EXCEPT ![c] = NoRequest]
  /\ UNCHANGED <<secret, cluster, retained, agent, report, budget>>

(* Cloud stops while a request is under way.                               *)
CrashRequest(c) ==
  /\ Fault
  /\ request[c] # NoRequest
  /\ request' = [request EXCEPT ![c] = NoRequest]
  /\ UNCHANGED <<row, binding, secret, cluster, retained, agent, report>>

----------------------------------------------------------------------------
(* Requests on bindings *)

(* Service.CreateBinding up to the insert: a storage resource must be      *)
(* factually ready.  The same idempotency key names the same binding.      *)
CreateBinding(c, b) ==
  /\ handleResourceAPI(c)
  /\ managedStorageRequired =>
       value.lifecycle # "deleting" /\ factualReady(value)
  /\ Read(c, "insert", [value EXCEPT !.lifecycle = "planned"], b)
  /\ UNCHANGED <<row, binding, secret, cluster, retained, agent, report>>

(* PostgresStore.CreateBinding: a replayed key finds its row again; the    *)
(* foreign key needs the resource.                                         *)
StoreCreateBinding(c) ==
  LET b == request[c].of
  IN /\ request[c].op = "insert"
     /\ binding' = IF value.present /\ binding[b] = "absent"
                     THEN [binding EXCEPT ![b] =
                             IF ResourceType = "postgres"
                               THEN "provisioning" ELSE "ready"]
                     ELSE binding
     /\ request' = [request EXCEPT ![c] =
          IF value.present /\ ResourceType = "postgres"
            THEN [request[c] EXCEPT !.op = "ensure"] ELSE NoRequest]
     /\ UNCHANGED <<row, secret, cluster, retained, agent, report, budget>>

(* EnsureBinding, then the target is written back as planned unless the    *)
(* stored binding was ready.                                               *)
EnsureBinding(c) ==
  LET b == request[c].of
  IN /\ request[c].op = "ensure"
     /\ secret' = secret \cup {b}
     /\ request' = [request EXCEPT ![c] =
          IF binding[b] = "ready" THEN NoRequest
                                  ELSE [request[c] EXCEPT !.op = "planned"]]
     /\ UNCHANGED <<row, binding, cluster, retained, agent, report, budget>>

(* Service.DeleteBinding up to its first write.                            *)
DeleteBinding(c, b) ==
  /\ handleResourceAPI(c)
  /\ binding[b] # "absent"
  /\ Read(c, "unbind", [value EXCEPT !.lifecycle = "planned"], b)
  /\ UNCHANGED <<row, binding, secret, cluster, retained, agent, report>>

(* Faulty variant: the row goes at once, before the role is revoked.       *)
StoreUpdateBindingAtOnce(c) ==
  LET b == request[c].of
  IN /\ request[c].op = "unbind"
     /\ binding' = [binding EXCEPT ![b] = "absent"]
     /\ request' = [request EXCEPT ![c] = NoRequest]
     /\ UNCHANGED <<row, secret, cluster, retained, agent, report, budget>>

(* UpdateBinding to deleting, or the row's removal where there is no role. *)
StoreUpdateBinding(c) ==
  LET b == request[c].of
      exists == binding[b] # "absent"
  IN /\ request[c].op = "unbind"
     /\ binding' = [binding EXCEPT ![b] =
          IF ResourceType = "postgres" /\ exists THEN "deleting"
                                                 ELSE "absent"]
     /\ request' = [request EXCEPT ![c] =
          IF ResourceType = "postgres" /\ exists
            THEN [request[c] EXCEPT !.op = "planned"] ELSE NoRequest]
     /\ UNCHANGED <<row, secret, cluster, retained, agent, report, budget>>

----------------------------------------------------------------------------
(* The Agent *)

Claimable ==
  /\ value.present /\ value.runtime # NoSpec
  /\ value.lifecycle \in {"planned", "provisioning", "deleting"}
  /\ row.lease.token = 0 \/ row.lease.expired

(* PostgresStore.ClaimManaged *)
ClaimManaged ==
  row' = [row EXCEPT
            !.value.lifecycle = IF value.lifecycle = "deleting"
                                  THEN "deleting" ELSE "provisioning",
            !.lease = [token |-> row.lease.next, expired |-> FALSE,
                       next |-> row.lease.next + 1]]

(* postgresBindingOperations: revoke what is being deleted, ensure the     *)
(* rest; a missing credential is an error.                                 *)
postgresBindingOperations ==
  [b \in Bindings |->
     CASE ResourceType # "postgres" \/ binding[b] = "absent" -> "none"
       [] ResourceType = "postgres" /\ binding[b] = "deleting" -> "revoke"
       [] OTHER -> "ensure"]

CredentialsComplete ==
  /\ managedCredentialRequired => "server" \in secret
  /\ \A b \in Bindings : postgresBindingOperations[b] = "ensure" => b \in secret

(* LeaseManaged: an error after the claim keeps the lease until it expires.*)
LeaseManaged ==
  /\ agent = NoWork /\ report = NoReport
  /\ Claimable /\ row.lease.next <= MaxLeases
  /\ ClaimManaged
  /\ LET delete == value.lifecycle = "deleting"
     IN agent' = IF delete \/ CredentialsComplete
                   THEN [NoWork EXCEPT !.phase = "working",
                           !.action = IF delete THEN "delete" ELSE "apply",
                           !.spec = value.runtime, !.token = row.lease.next,
                           !.ops = IF delete THEN NoWork.ops
                                             ELSE postgresBindingOperations]
                   ELSE NoWork
  /\ UNCHANGED <<binding, secret, cluster, retained, request, report, budget>>

Finish(status, done) ==
  agent' = [agent EXCEPT !.phase = "reporting", !.status = status,
                         !.done = done]

Asked == {b \in Bindings : agent.ops[b] # "none"}

(* reconcilePostgresBindings: the roles after the operations in done       *)
(* succeeded; a failed one may have taken effect or not.                   *)
reconcilePostgresBindings(done, half) ==
  (cluster.roles
     \cup {b \in done \cup half : agent.ops[b] = "ensure"})
   \ {b \in done \cup half : agent.ops[b] = "revoke"}

(* ManagedResourceReconciler.apply and the binding operations: a failed    *)
(* apply may have replaced the workload.                                   *)
Apply ==
  /\ agent.phase = "working" /\ agent.action = "apply"
  /\ \/ \E done \in SUBSET Asked : \E half \in SUBSET (Asked \ done) :
          /\ cluster' = [workload |-> agent.spec,
                         roles |-> reconcilePostgresBindings(done, half),
                         volume |-> IF managedStorageRequired
                                      THEN "bound" ELSE "none"]
          /\ Finish("ready", done)
          /\ IF done = Asked THEN UNCHANGED budget ELSE Fault
     \/ /\ Fault
        /\ \E replaced \in BOOLEAN :
             cluster' = IF replaced
                          THEN [cluster EXCEPT !.workload = agent.spec,
                                  !.volume = IF managedStorageRequired
                                               THEN "bound" ELSE "none"]
                          ELSE cluster
        /\ Finish("failed", {})
  /\ UNCHANGED <<row, binding, secret, retained, request, report>>

(* ManagedResourceReconciler.delete: the volume stays and must be there.   *)
Delete ==
  /\ agent.phase = "working" /\ agent.action = "delete"
  /\ \/ /\ managedStorageRequired => cluster.volume = "bound"
        /\ cluster' = [cluster EXCEPT !.workload = NoSpec]
        /\ Finish("deleted", {})
        /\ UNCHANGED budget
     \/ /\ managedStorageRequired /\ cluster.volume # "bound"
        /\ Finish("failed", {})
        /\ UNCHANGED <<cluster, budget>>
     \/ /\ Fault
        /\ \E gone \in BOOLEAN :
             cluster' = IF gone THEN [cluster EXCEPT !.workload = NoSpec]
                                ELSE cluster
        /\ Finish("failed", {})
  /\ UNCHANGED <<row, binding, secret, retained, request, report>>

(* The Agent restarts, or three reports fail: the lease stays.             *)
DropWork ==
  /\ Fault
  /\ agent # NoWork /\ report = NoReport
  /\ agent' = NoWork
  /\ UNCHANGED <<row, binding, secret, cluster, retained, request, report>>

LeaseExpires ==
  /\ row.lease.token # 0 /\ ~row.lease.expired
  /\ agent.token # row.lease.token
  /\ \A c \in Clients : request[c] = NoRequest
  /\ row' = [row EXCEPT !.lease.expired = TRUE]
  /\ UNCHANGED <<binding, secret, cluster, retained, request, agent, report,
                 budget>>

----------------------------------------------------------------------------
(* CompleteManaged *)

(* The report handler reads the row; a stale token is refused.             *)
CompleteManaged ==
  /\ agent.phase = "reporting" /\ report = NoReport
  /\ IF value.present /\ row.lease.token = agent.token
       THEN /\ report' = [NoReport EXCEPT !.phase = "read", !.value = value]
            /\ UNCHANGED agent
       ELSE agent' = NoWork /\ UNCHANGED report
  /\ UNCHANGED <<row, binding, secret, cluster, retained, request, budget>>

(* The lifecycles the result may give the row that was read: "degraded"    *)
(* when the evidence, which a failure may have too, shows another image.   *)
CompletedLifecycles ==
  IF agent.status = "ready" /\ report.value.runtime = agent.spec THEN {"ready"}
  ELSE {"degraded", IF agent.status = "failed" THEN "failed" ELSE "unknown"}

(* completePostgresBindings lists the bindings once ...                    *)
Answered(b) ==
  ResourceType = "postgres" /\ agent.status = "ready" /\ agent.ops[b] # "none"
Revoked == {b \in agent.done : agent.ops[b] = "revoke"}

completePostgresBindings ==
  /\ report.phase = "read" /\ agent.status # "deleted"
  /\ report' = [report EXCEPT
       !.phase = "listed", !.rows = binding,
       !.left = {b \in Bindings : binding[b] # "absent" /\ Answered(b)}]
  /\ UNCHANGED <<row, binding, secret, cluster, retained, request, agent, budget>>

(* ... and writes the rows back one by one, as it read them but for the    *)
(* lifecycle.  A row that has gone is an error that ends the handler.      *)
ReportedLifecycle(b) ==
  IF b \in agent.done THEN IF b \in Revoked THEN "absent" ELSE "ready"
  ELSE IF report.rows[b] = "deleting" THEN "deleting" ELSE "failed"

UpdateReported(b) ==
  /\ b \in report.left
  /\ secret' = secret \ (Revoked \cap {b})
  /\ IF binding[b] = "absent"
       THEN report' = NoReport /\ UNCHANGED binding
       ELSE /\ binding' = [binding EXCEPT ![b] = ReportedLifecycle(b)]
            /\ report' = [report EXCEPT !.left = @ \ {b}]
  /\ UNCHANGED <<row, cluster, retained, request, agent, budget>>

(* Some binding was not reported, or reported as failed.                   *)
RetryBindings ==
  ResourceType = "postgres" /\
  \E b \in Bindings :
    \/ report.rows[b] \notin {"absent", "ready"} /\ ~Answered(b)
    \/ report.rows[b] # "absent" /\ Answered(b) /\ b \notin agent.done

(* UpdateClaimed: the row that was read, under the token.                  *)
CompleteApply ==
  /\ report.phase = "listed" /\ report.left = {}
  /\ \E lifecycle \in IF RetryBindings THEN {"planned"} ELSE CompletedLifecycles :
       row' = IF row.lease.token = agent.token
                THEN [row EXCEPT
                        !.lease.token = 0,
                        !.value = [report.value EXCEPT
                          !.evidence = IF agent.status = "ready"
                                         THEN agent.spec ELSE NoSpec,
                          !.lifecycle = lifecycle]]
                ELSE row
  /\ agent' = NoWork /\ report' = NoReport
  /\ UNCHANGED <<binding, secret, cluster, retained, request, budget>>

(* Cloud stops during the report, perhaps after a credential was deleted   *)
(* and before its row was; the Agent still has the result to report.       *)
CrashReport ==
  /\ Fault
  /\ report # NoReport
  /\ \E deleted \in {{}} \cup {{b} : b \in Revoked \cap report.left}
                   \cup IF agent.status = "deleted" THEN {{"server"}} ELSE {} :
       secret' = secret \ deleted
  /\ report' = NoReport
  /\ UNCHANGED <<row, binding, cluster, retained, request, agent>>

(* retainedStorageFromDeletion: the evidence must be about this spec.      *)
retainedStorageFromDeletion == report.value.runtime = agent.spec

(* The credential goes first, then the row and, with storage, a record of  *)
(* the volume in the same transaction.                                     *)
CompleteDelete ==
  /\ report.phase = "read" /\ agent.status = "deleted"
  /\ secret' = secret \ {"server"}
  /\ IF row.lease.token = agent.token /\ value.present
        /\ (managedStorageRequired => retainedStorageFromDeletion)
       THEN /\ row' = [row EXCEPT !.value = NoRow, !.lease.token = 0]
            /\ binding' = [b \in Bindings |-> "absent"]
            /\ retained' = IF managedStorageRequired
                             THEN [retained EXCEPT !.state = "retained"]
                             ELSE retained
       ELSE UNCHANGED <<row, binding, retained>>
  /\ agent' = NoWork /\ report' = NoReport
  /\ UNCHANGED <<cluster, request, budget>>

----------------------------------------------------------------------------
(* Retained storage *)

Reviewable == {"retained", "destroy_failed", "unknown"}

ReviewRetainedStorageDestroy ==
  /\ retained.state \in Reviewable
  /\ retained' = [retained EXCEPT !.reviewed = ~value.present]
  /\ UNCHANGED <<row, binding, secret, cluster, request, agent, report, budget>>

(* The review token is spent by the request; the references are checked    *)
(* again in its transaction.                                               *)
RequestRetainedStorageDestroy ==
  /\ budget.requests < MaxRequests /\ Charge
  /\ retained.state \in Reviewable /\ retained.reviewed
  /\ ~value.present /\ \A b \in Bindings : binding[b] = "absent"
  /\ retained' = [retained EXCEPT !.state = "destroying", !.reviewed = FALSE]
  /\ UNCHANGED <<row, binding, secret, cluster, request, agent, report>>

LeaseRetainedStorageDestroy ==
  /\ agent = NoWork
  /\ retained.state = "destroying" /\ ~retained.token
  /\ retained' = [retained EXCEPT !.token = TRUE]
  /\ agent' = [NoWork EXCEPT !.phase = "working", !.action = "destroy"]
  /\ UNCHANGED <<row, binding, secret, cluster, request, report, budget>>

(* destroyRetainedStorage: the claim is deleted and the volume must be     *)
(* seen to go; a timeout or a failed look leaves it releasing.             *)
DestroyRetainedStorage ==
  /\ agent.phase = "working" /\ agent.action = "destroy"
  /\ \/ /\ cluster' = [cluster EXCEPT !.volume = "gone"]
        /\ Finish("destroyed", {})
        /\ UNCHANGED budget
     \/ /\ Fault
        /\ \E v \in {cluster.volume, "releasing"}, s \in {"failed", "unknown"} :
             cluster' = [cluster EXCEPT !.volume = v] /\ Finish(s, {})
  /\ UNCHANGED <<row, binding, secret, retained, request, report>>

(* Faulty variant: every answer counts as a destruction.                   *)
CompleteDestroyUnseen ==
  /\ agent.phase = "reporting" /\ agent.action = "destroy"
  /\ retained' = [retained EXCEPT !.token = FALSE, !.state = "destroyed"]
  /\ agent' = NoWork
  /\ UNCHANGED <<row, binding, secret, cluster, request, report, budget>>

CompleteRetainedStorageDestroy ==
  /\ agent.phase = "reporting" /\ agent.action = "destroy"
  /\ retained' = [retained EXCEPT !.token = FALSE,
       !.state = CASE agent.status = "destroyed" -> "destroyed"
                   [] agent.status = "failed" -> "destroy_failed"
                   [] OTHER -> "unknown"]
  /\ agent' = NoWork
  /\ UNCHANGED <<row, binding, secret, cluster, request, report, budget>>

RetainedLeaseExpires ==
  /\ retained.token /\ agent = NoWork
  /\ retained' = [retained EXCEPT !.token = FALSE]
  /\ UNCHANGED <<row, binding, secret, cluster, request, agent, report, budget>>

----------------------------------------------------------------------------
Requests ==
  \E c \in Clients :
    \/ Create(c) \/ Update(c) \/ DeleteIntent(c)
    \/ \E plan \in 1..MaxPlans : ReconcileTopology(c, plan)
    \/ \E b \in Bindings : CreateBinding(c, b) \/ DeleteBinding(c, b)
    \/ Write(c) \/ Remove(c) \/ CrashRequest(c)
    \/ StoreCreateBinding(c) \/ EnsureBinding(c) \/ StoreUpdateBinding(c)

AgentSteps ==
  \/ LeaseManaged \/ Apply \/ Delete \/ DropWork \/ LeaseExpires
  \/ agent.action # "destroy" /\ CompleteManaged
  \/ completePostgresBindings \/ CompleteApply \/ CompleteDelete \/ CrashReport
  \/ \E b \in Bindings : UpdateReported(b)

StorageSteps ==
  \/ ReviewRetainedStorageDestroy \/ RequestRetainedStorageDestroy
  \/ LeaseRetainedStorageDestroy \/ DestroyRetainedStorage
  \/ CompleteRetainedStorageDestroy \/ RetainedLeaseExpires

Next == Requests \/ AgentSteps \/ StorageSteps

Spec == Init /\ [][Next]_resourceVars

----------------------------------------------------------------------------
(* The row, the bindings and the cluster hold values the code writes.      *)
ResourceTypeOK ==
  /\ value.lifecycle \in {"absent", "unplaced", "planned", "provisioning",
                          "ready", "degraded", "failed", "unknown", "deleting"}
  /\ value.present <=> value.lifecycle # "absent"
  /\ binding \in [Bindings -> {"absent", "provisioning", "ready", "failed",
                               "deleting"}]
  /\ secret \subseteq Bindings \cup {"server"}
  /\ cluster.volume \in {"none", "bound", "releasing", "gone"}
  /\ retained.state \in {"none", "destroying", "destroyed"} \cup Reviewable

(* A resource Cloud shows as ready runs the spec its row holds, whatever   *)
(* requests overwrote the row while the Agent was applying.                *)
ReadyIsFactual ==
  value.lifecycle = "ready" => cluster.workload = value.runtime

(* The database's roles follow the bindings: a ready binding has its       *)
(* credential and a role that can log in, and while the database runs only *)
(* bindings that still have a row can log in, since a row leaves only      *)
(* after its role was revoked (CompleteManaged, DeleteBinding).            *)
RolesFollowBindings ==
  /\ ResourceType = "postgres" =>
       \A b \in Bindings :
         binding[b] = "ready" => b \in secret /\ b \in cluster.roles
  /\ cluster.workload # NoSpec /\ value.present =>
       \A b \in cluster.roles : binding[b] # "absent"

(* The volume of a deleted resource is only ever given up by a destroy     *)
(* request, and a storage shown as destroyed is gone.                      *)
VolumeOnlyDestroyedOnRequest ==
  /\ cluster.volume \in {"releasing", "gone"} =>
       retained.state \in {"destroying", "destroy_failed", "unknown",
                           "destroyed"}
  /\ retained.state = "destroyed" => cluster.volume = "gone"
=============================================================================
