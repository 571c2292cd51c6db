------------------------------ MODULE Cutover ------------------------------
(***************************************************************************)
(* Moving an application from a source PostgreSQL resource to a restored   *)
(* target one (cloud/internal/cutover): a review the Agent probes, the     *)
(* Apply request that switches the application's DATABASE binding and      *)
(* starts a deployment, the Rollback that switches back, and the Finalize  *)
(* that revokes the source's binding.  Requests run concurrently, each as  *)
(* a sequence of database transactions with other requests in between, and *)
(* stop anywhere when Cloud does.                                          *)
(***************************************************************************)
EXTENDS Naturals, FiniteSets

CONSTANTS
  Reviews,        \* cutover reviews
  Cutovers,       \* application cutovers, one per idempotency key
  Rollbacks,      \* cutover rollbacks
  Finalizations,  \* cutover finalizations
  MaxRevisions,   \* bound: revisions of the application's configuration
  MaxChanges,     \* bound: changes of the resources by others
  MaxLeases,      \* bound: leases of a review
  MaxUpsets,      \* bound: crashes, failed steps and expired leases
  MaxPosted       \* bound: results being completed at one time

VARIABLES
  config,       \* the application's configuration: revision, DATABASE binding
  data,         \* source and target: binding, resource readiness, spec
  restoring,    \* a restore into the source or the target is active
  review,       \* application_cutover_reviews
  probe,        \* the review the Agent works on, with its lease
  cutover,      \* application_cutovers
  rollback,     \* application_cutover_rollbacks
  finalization, \* application_cutover_finalizations
  call,         \* how far the request that owns a row has come
  outcome,      \* the deployment a cutover or a rollback started
  posted,       \* results whose row Cloud has read and not yet written
  spent         \* changes and upsets so far

cutoverVars ==
  <<config, data, restoring, review, probe, cutover, rollback, finalization,
    call, outcome, posted, spent>>

Ops == Cutovers \cup Rollbacks \cup Finalizations
Sides == {"source", "target"}
ActiveStates == {"applying", "deploying"}
ActiveFinal == {"validating", "revoking"}

NoReview == [state |-> "absent", rev |-> 0, specs |-> [s \in Sides |-> 0],
             token |-> 0, expired |-> FALSE]
NoRow == [state |-> "absent", of |-> "none", result |-> 0]
Idle == [step |-> "idle", of |-> "none", rev |-> 0]

Init ==
  /\ config = [rev |-> 1, db |-> "source"]
  /\ data = [s \in Sides |-> [binding |-> "ready", ready |-> TRUE, spec |-> 1]]
  /\ restoring = FALSE
  /\ review = [v \in Reviews |-> NoReview]
  /\ probe = [of |-> "none", token |-> 0, status |-> "none"]
  /\ cutover = [c \in Cutovers |-> NoRow]
  /\ rollback = [r \in Rollbacks |-> NoRow]
  /\ finalization = [f \in Finalizations |-> NoRow]
  /\ call = [o \in Ops |-> Idle]
  /\ outcome = [o \in Ops |-> "none"]
  /\ posted = {}
  /\ spent = [changes |-> 0, upsets |-> 0]

Change == /\ spent.changes < MaxChanges
          /\ spent' = [spent EXCEPT !.changes = @ + 1]
Upset == /\ spent.upsets < MaxUpsets
         /\ spent' = [spent EXCEPT !.upsets = @ + 1]

resolveSource == data["source"].binding = "ready" /\ data["source"].ready
resolveTarget == data["target"].binding = "ready" /\ data["target"].ready
SpecsNow == [s \in Sides |-> data[s].spec]

----------------------------------------------------------------------------
(* Reviews *)

hasConflictingOperations == restoring

CreateReview(v) ==
  /\ review[v].state = "absent"
  /\ resolveSource /\ resolveTarget
  /\ ~hasConflictingOperations
  /\ review' = [review EXCEPT ![v] = [NoReview EXCEPT
                 !.state = "queued", !.rev = config.rev, !.specs = SpecsNow]]
  /\ UNCHANGED <<config, data, restoring, probe, cutover, rollback,
                 finalization, call, outcome, posted, spent>>

ClaimReview(v) ==
  review[v].state = "queued" \/ (review[v].state = "leased" /\ review[v].expired)

(* The claim is committed before the authorities of the lease are read: a  *)
(* binding that is gone fails the review it was just claimed for.          *)
LeaseReview(v) ==
  LET token == review[v].token + 1 IN
  /\ probe.of = "none"
  /\ ClaimReview(v)
  /\ token <= MaxLeases
  /\ IF \E s \in Sides : data[s].binding = "gone"
       THEN /\ review' = [review EXCEPT ![v].state = "failed",
                          ![v].token = token, ![v].expired = FALSE]
            /\ UNCHANGED probe
       ELSE /\ review' = [review EXCEPT ![v].state = "leased",
                          ![v].token = token, ![v].expired = FALSE]
            /\ probe' = [of |-> v, token |-> token, status |-> "leased"]
  /\ UNCHANGED <<config, data, restoring, cutover, rollback, finalization,
                 call, outcome, posted, spent>>

ping(side) == data[side].binding \in {"ready", "deleting"}

(* The Agent connects to both databases with the bindings' credentials.    *)
ExecuteReview ==
  /\ probe.status = "leased"
  /\ \/ /\ ping("source") /\ ping("target")
        /\ probe' = [probe EXCEPT !.status = "succeeded"]
        /\ UNCHANGED spent
     \/ /\ IF ping("source") /\ ping("target") THEN Upset ELSE UNCHANGED spent
        /\ probe' = [probe EXCEPT !.status = "failed"]
  /\ UNCHANGED <<config, data, restoring, review, cutover, rollback,
                 finalization, call, outcome, posted>>

UpdateReviewClaimed(v, token) == review[v].token = token

CompleteReview ==
  LET v == probe.of IN
  /\ probe.status \in {"succeeded", "failed"}
  /\ review' = IF review[v].state = "leased"
                  /\ UpdateReviewClaimed(v, probe.token)
                 THEN [review EXCEPT ![v].state = probe.status,
                                     ![v].expired = FALSE]
                 ELSE review
  /\ probe' = [of |-> "none", token |-> 0, status |-> "none"]
  /\ UNCHANGED <<config, data, restoring, cutover, rollback, finalization,
                 call, outcome, posted, spent>>

ReviewLeaseExpires(v) ==
  /\ review[v].state = "leased" /\ ~review[v].expired
  /\ Upset
  /\ review' = [review EXCEPT ![v].expired = TRUE]
  /\ UNCHANGED <<config, data, restoring, probe, cutover, rollback,
                 finalization, call, outcome, posted>>

AgentStops ==
  /\ probe.of # "none"
  /\ Upset
  /\ probe' = [of |-> "none", token |-> 0, status |-> "none"]
  /\ UNCHANGED <<config, data, restoring, review, cutover, rollback,
                 finalization, call, outcome, posted>>

----------------------------------------------------------------------------
(* The rows.  A trigger refuses every change of a succeeded row, and the   *)
(* caller sees an error.                                                   *)

(* Faulty variant: the table has no such trigger.                          *)
SucceededMutable(table, id) == FALSE

SucceededImmutable(table, id) == table[id].state = "succeeded"

Update(table, id, row) ==
  IF SucceededImmutable(table, id) THEN table ELSE [table EXCEPT ![id] = row]
Returns(id) == call' = [call EXCEPT ![id] = Idle]
Reaches(id, step) == call' = [call EXCEPT ![id].step = step]

HasActive == \E v \in Reviews : review[v].state \in {"queued", "leased"}
HasActiveCutover == \E c \in Cutovers : cutover[c].state \in ActiveStates
HasActiveRollback == \E r \in Rollbacks : rollback[r].state \in ActiveStates
HasActiveFinalization ==
  \E f \in Finalizations : finalization[f].state \in ActiveFinal
IsCutoverFinalized(c) ==
  \E f \in Finalizations : finalization[f].of = c
                           /\ finalization[f].state = "succeeded"

(* Compare-and-set on the revision the request read.                       *)
ApplyServiceConfiguration(rev, db) ==
  /\ config.rev = rev
  /\ config' = [rev |-> rev + 1, db |-> db]

StartImmutableDeployment(id) ==
  /\ \A o \in Ops : outcome[o] # "running"
  /\ outcome' = [outcome EXCEPT ![id] = "running"]

----------------------------------------------------------------------------
(* Apply *)

(* The insert's transaction looks for an active cutover first, under a     *)
(* lock on its own key only.                                               *)
BeginApply(c, v) ==
  /\ cutover[c].state = "absent" /\ call[c] = Idle
  /\ review[v].state = "succeeded"
  /\ ~HasActiveCutover
  /\ call' = [call EXCEPT ![c] = [step |-> "insert", of |-> v, rev |-> 0]]
  /\ UNCHANGED <<config, data, restoring, review, probe, cutover, rollback,
                 finalization, outcome, posted, spent>>

CreateCutover(c) ==
  /\ c \in Cutovers /\ call[c].step = "insert"
  /\ cutover' = [cutover EXCEPT ![c] = [NoRow EXCEPT !.state = "applying",
                                                     !.of = call[c].of]]
  /\ Reaches(c, "validate")
  /\ UNCHANGED <<config, data, restoring, review, probe, rollback,
                 finalization, outcome, posted, spent>>

ValidateStale(v) ==
  /\ resolveSource /\ resolveTarget
  /\ config.rev = review[v].rev
  /\ SpecsNow = review[v].specs

ValidateStaleReview(c) ==
  /\ c \in Cutovers /\ call[c].step = "validate"
  /\ IF ValidateStale(call[c].of)
       THEN /\ call' = [call EXCEPT ![c].step = "switch", ![c].rev = config.rev]
            /\ UNCHANGED cutover
       ELSE /\ cutover' = Update(cutover, c, [cutover[c] EXCEPT !.state = "failed"])
            /\ Returns(c)
  /\ UNCHANGED <<config, data, restoring, review, probe, rollback,
                 finalization, outcome, posted, spent>>

SwitchToTarget(c) ==
  /\ c \in Cutovers /\ call[c].step = "switch"
  /\ \/ /\ ApplyServiceConfiguration(call[c].rev, "target")
        /\ Reaches(c, "deploy")
        /\ UNCHANGED cutover
     \/ /\ config.rev # call[c].rev
        /\ cutover' = Update(cutover, c, [cutover[c] EXCEPT !.state = "failed"])
        /\ Returns(c)
        /\ UNCHANGED config
  /\ UNCHANGED <<data, restoring, review, probe, rollback, finalization,
                 outcome, posted, spent>>

DeployTarget(c) ==
  /\ c \in Cutovers /\ call[c].step = "deploy"
  /\ \/ /\ StartImmutableDeployment(c)
        /\ Reaches(c, "record")
        /\ UNCHANGED cutover
     \/ /\ \E o \in Ops : outcome[o] = "running"
        /\ cutover' = Update(cutover, c, [cutover[c] EXCEPT
                        !.state = "failed", !.result = call[c].rev + 1])
        /\ Returns(c)
        /\ UNCHANGED outcome
  /\ UNCHANGED <<config, data, restoring, review, probe, rollback,
                 finalization, spent, posted>>

RecordCutover(c) ==
  /\ c \in Cutovers /\ call[c].step = "record"
  /\ cutover' = Update(cutover, c, [cutover[c] EXCEPT
                  !.state = "deploying", !.result = call[c].rev + 1])
  /\ Returns(c)
  /\ UNCHANGED <<config, data, restoring, review, probe, rollback,
                 finalization, outcome, posted, spent>>

----------------------------------------------------------------------------
(* Rollback *)

Eligible(c) ==
  \/ cutover[c].state = "succeeded"
  \/ cutover[c].state = "failed" /\ cutover[c].result > 0

BeginRollback(r, c) ==
  /\ rollback[r].state = "absent" /\ call[r] = Idle
  /\ ~HasActiveCutover
  /\ Eligible(c)
  /\ ~IsCutoverFinalized(c)
  /\ ~HasActiveRollback
  /\ call' = [call EXCEPT ![r] = [step |-> "insert", of |-> c, rev |-> 0]]
  /\ UNCHANGED <<config, data, restoring, review, probe, cutover, rollback,
                 finalization, outcome, posted, spent>>

CreateRollback(r) ==
  /\ r \in Rollbacks /\ call[r].step = "insert"
  /\ rollback' = [rollback EXCEPT ![r] = [NoRow EXCEPT !.state = "applying",
                                                       !.of = call[r].of]]
  /\ Reaches(r, "validate")
  /\ UNCHANGED <<config, data, restoring, review, probe, cutover,
                 finalization, outcome, posted, spent>>

ValidateRollback(r) ==
  /\ r \in Rollbacks /\ call[r].step = "validate"
  /\ IF config.db = "target" /\ resolveSource
       THEN /\ call' = [call EXCEPT ![r].step = "switch", ![r].rev = config.rev]
            /\ UNCHANGED rollback
       ELSE /\ rollback' = Update(rollback, r,
                                  [rollback[r] EXCEPT !.state = "failed"])
            /\ Returns(r)
  /\ UNCHANGED <<config, data, restoring, review, probe, cutover,
                 finalization, outcome, posted, spent>>

SwitchToSource(r) ==
  /\ r \in Rollbacks /\ call[r].step = "switch"
  /\ \/ /\ ApplyServiceConfiguration(call[r].rev, "source")
        /\ Reaches(r, "deploy")
        /\ UNCHANGED rollback
     \/ /\ config.rev # call[r].rev
        /\ rollback' = Update(rollback, r,
                              [rollback[r] EXCEPT !.state = "failed"])
        /\ Returns(r)
        /\ UNCHANGED config
  /\ UNCHANGED <<data, restoring, review, probe, cutover, finalization,
                 outcome, posted, spent>>

DeploySource(r) ==
  /\ r \in Rollbacks /\ call[r].step = "deploy"
  /\ \/ /\ StartImmutableDeployment(r)
        /\ Reaches(r, "record")
        /\ UNCHANGED rollback
     \/ /\ \E o \in Ops : outcome[o] = "running"
        /\ rollback' = Update(rollback, r, [rollback[r] EXCEPT
                         !.state = "failed", !.result = call[r].rev + 1])
        /\ Returns(r)
        /\ UNCHANGED outcome
  /\ UNCHANGED <<config, data, restoring, review, probe, cutover,
                 finalization, spent, posted>>

RecordRollback(r) ==
  /\ r \in Rollbacks /\ call[r].step = "record"
  /\ rollback' = Update(rollback, r, [rollback[r] EXCEPT
                   !.state = "deploying", !.result = call[r].rev + 1])
  /\ Returns(r)
  /\ UNCHANGED <<config, data, restoring, review, probe, cutover,
                 finalization, outcome, posted, spent>>

----------------------------------------------------------------------------
(* Finalize *)

RolledBack(c) == \E r \in Rollbacks : rollback[r].of = c
                                      /\ rollback[r].state = "succeeded"

Finalize(f, c) ==
  /\ finalization[f].state = "absent" /\ call[f] = Idle
  /\ cutover[c].state = "succeeded"
  /\ ~IsCutoverFinalized(c)
  /\ ~HasActive /\ ~HasActiveCutover /\ ~HasActiveRollback
  /\ ~HasActiveFinalization
  /\ ~RolledBack(c)
  /\ config.db = "target"
  /\ resolveTarget
  /\ call' = [call EXCEPT ![f] = [step |-> "insert", of |-> c, rev |-> 0]]
  /\ UNCHANGED <<config, data, restoring, review, probe, cutover, rollback,
                 finalization, outcome, posted, spent>>

CreateFinalization(f) ==
  /\ f \in Finalizations /\ call[f].step = "insert"
  /\ finalization' = [finalization EXCEPT ![f] =
                       [NoRow EXCEPT !.state = "validating", !.of = call[f].of]]
  /\ Reaches(f, "revoke")
  /\ UNCHANGED <<config, data, restoring, review, probe, cutover, rollback,
                 outcome, posted, spent>>

MarkRevoking(f) ==
  /\ f \in Finalizations /\ call[f].step = "revoke"
  /\ finalization' = Update(finalization, f,
                            [finalization[f] EXCEPT !.state = "revoking"])
  /\ Reaches(f, "delete")
  /\ UNCHANGED <<config, data, restoring, review, probe, cutover, rollback,
                 outcome, posted, spent>>

(* DeleteBinding reads the binding and its resource and leaves the binding *)
(* deleting; a row that is gone is an error ...                            *)
DeleteBinding(f) ==
  /\ f \in Finalizations /\ call[f].step = "delete"
  /\ IF data["source"].binding # "gone"
       THEN /\ data' = [data EXCEPT !["source"].binding = "deleting"]
            /\ call' = [call EXCEPT ![f].step = "plan",
                                    ![f].rev = data["source"].spec]
            /\ UNCHANGED finalization
       ELSE /\ finalization' = Update(finalization, f,
                 [finalization[f] EXCEPT !.state = "failed"])
            /\ Returns(f)
            /\ UNCHANGED data
  /\ UNCHANGED <<config, restoring, review, probe, cutover, rollback, outcome,
                 posted, spent>>

(* ... and writes the resource back as it was read, planned again.         *)
PlanSource(f) ==
  /\ f \in Finalizations /\ call[f].step = "plan"
  /\ data' = [data EXCEPT !["source"].ready = FALSE,
                          !["source"].spec = call[f].rev]
  /\ Reaches(f, "seal")
  /\ UNCHANGED <<config, restoring, review, probe, cutover, rollback,
                 finalization, outcome, posted, spent>>

SealFinalization(f) ==
  /\ f \in Finalizations /\ call[f].step = "seal"
  /\ finalization' = Update(finalization, f,
                            [finalization[f] EXCEPT !.state = "succeeded"])
  /\ Returns(f)
  /\ UNCHANGED <<config, data, restoring, review, probe, cutover, rollback,
                 outcome, posted, spent>>

----------------------------------------------------------------------------
(* Results.  Cloud takes what any Agent of the node posts, at any time,    *)
(* more than once and late; nothing in this repository posts them, so what *)
(* is posted is an assumption: "failed" whenever there is a row to fail,   *)
(* "succeeded" only of what did succeed, the deployment or, for a          *)
(* finalization, the revocation of the source's role.                      *)

Row(o) ==
  IF o \in Cutovers THEN cutover[o]
  ELSE IF o \in Rollbacks THEN rollback[o] ELSE finalization[o]
Happened(o) ==
  IF o \in Finalizations THEN data["source"].binding = "gone"
                         ELSE outcome[o] = "succeeded"

(* CompleteCutover, CompleteRollback and CompleteFinalization read the row *)
(* and stop if it has succeeded ...                                        *)
ReadRow(o, status) ==
  /\ Row(o).state \notin {"absent", "succeeded"}
  /\ \/ status = "succeeded" /\ Happened(o) /\ UNCHANGED spent
     \/ status = "failed" /\ outcome[o] = "failed" /\ UNCHANGED spent
     \/ status = "failed" /\ outcome[o] # "failed" /\ Upset
  /\ Cardinality(posted) < MaxPosted
  /\ posted' = posted \cup
       {[of |-> o, status |-> status, result |-> Row(o).result]}
  /\ UNCHANGED <<config, data, restoring, review, probe, cutover, rollback,
                 finalization, call, outcome>>

(* ... and write all of it back as they read it, with the new state: the   *)
(* request that owns the row may have written it in between.               *)
Completed(table, p) ==
  Update(table, p.of, [table[p.of] EXCEPT !.state = p.status,
                                          !.result = p.result])

CompleteCutover(p) ==
  /\ p.of \in Cutovers /\ cutover' = Completed(cutover, p)
  /\ posted' = posted \ {p}
  /\ UNCHANGED <<config, data, restoring, review, probe, rollback,
                 finalization, call, outcome, spent>>

CompleteRollback(p) ==
  /\ p.of \in Rollbacks /\ rollback' = Completed(rollback, p)
  /\ posted' = posted \ {p}
  /\ UNCHANGED <<config, data, restoring, review, probe, cutover,
                 finalization, call, outcome, spent>>

CompleteFinalization(p) ==
  /\ p.of \in Finalizations
  /\ finalization' = Completed(finalization, p)
  /\ posted' = posted \ {p}
  /\ UNCHANGED <<config, data, restoring, review, probe, cutover, rollback,
                 call, outcome, spent>>

----------------------------------------------------------------------------
(* Around them *)

(* Cloud stops: the request is gone, its row stays as it is.               *)
CloudStops(o) ==
  /\ call[o] # Idle
  /\ Upset
  /\ Returns(o)
  /\ UNCHANGED <<config, data, restoring, review, probe, cutover, rollback,
                 finalization, outcome, posted>>

DeploymentEnds(o) ==
  /\ outcome[o] = "running"
  /\ \/ outcome' = [outcome EXCEPT ![o] = "succeeded"]
     \/ outcome' = [outcome EXCEPT ![o] = "failed"]
  /\ UNCHANGED <<config, data, restoring, review, probe, cutover, rollback,
                 finalization, call, spent, posted>>

Configure ==
  /\ Change
  /\ config.rev < MaxRevisions
  /\ config' = [config EXCEPT !.rev = @ + 1]
  /\ UNCHANGED <<data, restoring, review, probe, cutover, rollback,
                 finalization, call, outcome, posted>>

ChangeResource(s) ==
  /\ Change
  /\ data' = [data EXCEPT ![s].spec = @ + 1, ![s].ready = FALSE]
  /\ UNCHANGED <<config, restoring, review, probe, cutover, rollback,
                 finalization, call, outcome, posted>>

(* The Agent reconciles a resource: it is ready again, and the role of a   *)
(* binding that was being deleted is revoked.                              *)
Reconcile(s) ==
  /\ ~data[s].ready
  /\ data' = [data EXCEPT ![s].ready = TRUE,
               ![s].binding = IF @ = "deleting" THEN "gone" ELSE @]
  /\ UNCHANGED <<config, restoring, review, probe, cutover, rollback,
                 finalization, call, outcome, posted, spent>>

Restore ==
  /\ \/ restoring /\ UNCHANGED spent
     \/ ~restoring /\ Change
  /\ restoring' = ~restoring
  /\ UNCHANGED <<config, data, review, probe, cutover, rollback,
                 finalization, call, outcome, posted>>

Requests ==
  \/ \E v \in Reviews : CreateReview(v)
  \/ \E c \in Cutovers : \E v \in Reviews : BeginApply(c, v)
  \/ \E r \in Rollbacks : \E c \in Cutovers : BeginRollback(r, c)
  \/ \E f \in Finalizations : \E c \in Cutovers : Finalize(f, c)

CloudSteps ==
  \E o \in Ops :
    \/ CreateCutover(o) \/ ValidateStaleReview(o) \/ SwitchToTarget(o)
    \/ DeployTarget(o) \/ RecordCutover(o)
    \/ CreateRollback(o) \/ ValidateRollback(o) \/ SwitchToSource(o)
    \/ DeploySource(o) \/ RecordRollback(o)
    \/ CreateFinalization(o) \/ MarkRevoking(o) \/ DeleteBinding(o)
    \/ PlanSource(o) \/ SealFinalization(o)
    \/ CloudStops(o)

AgentSteps ==
  \/ \E v \in Reviews : LeaseReview(v) \/ ReviewLeaseExpires(v)
  \/ ExecuteReview \/ CompleteReview \/ AgentStops
  \/ \E o \in Ops :
       \/ \E status \in {"succeeded", "failed"} : ReadRow(o, status)
       \/ DeploymentEnds(o)
  \/ \E p \in posted :
       CompleteCutover(p) \/ CompleteRollback(p) \/ CompleteFinalization(p)

Others ==
  \/ Configure \/ Restore
  \/ \E s \in Sides : ChangeResource(s) \/ Reconcile(s)

Next == Requests \/ CloudSteps \/ AgentSteps \/ Others
Spec == Init /\ [][Next]_cutoverVars

----------------------------------------------------------------------------
(* Properties *)

(* Every row, call and lease stays in its range, and a review's token      *)
(* never passes the number of leases.                                      *)
CutoverTypeOK ==
  /\ config.rev \in Nat \ {0}
  /\ config.db \in Sides
  /\ \A s \in Sides : data[s].binding \in {"ready", "deleting", "gone"}
  /\ \A v \in Reviews :
       /\ review[v].state \in {"absent", "queued", "leased", "succeeded",
                               "failed"}
       /\ review[v].token \in 0 .. MaxLeases
  /\ \A c \in Cutovers : cutover[c].state \in
       {"absent", "applying", "deploying", "succeeded", "failed"}
  /\ \A r \in Rollbacks : rollback[r].state \in
       {"absent", "applying", "deploying", "succeeded", "failed"}
  /\ \A f \in Finalizations : finalization[f].state \in
       {"absent", "validating", "revoking", "succeeded", "failed"}

(* The configuration a cutover replaced is exactly the one its review saw, *)
(* and a review is spent by one cutover, whatever was configured meanwhile *)
(* and although two Apply requests may both pass the check for an active   *)
(* cutover (cutover/service.go Apply, ApplyServiceConfiguration's compare- *)
(* and-set).                                                               *)
SwitchedFromReviewed ==
  \A c, d \in Cutovers :
    cutover[c].result > 0 =>
      /\ cutover[c].result = review[cutover[c].of].rev + 1
      /\ cutover[d].result = cutover[c].result => c = d

(* The source's binding is revoked only for a cutover that still counts as *)
(* succeeded and whose deployment on the target really succeeded: neither  *)
(* Apply's own late write nor a second result takes a success back         *)
(* (cutover/service.go Finalize, the succeeded-immutable triggers).        *)
RevokedForSucceededCutover ==
  /\ \A f \in Finalizations : finalization[f].of # "none" =>
       /\ cutover[finalization[f].of].state = "succeeded"
       /\ outcome[finalization[f].of] = "succeeded"
  /\ data["source"].binding # "ready" =>
       \E f \in Finalizations : finalization[f].state
                                  \in {"revoking", "succeeded", "failed"}

(* Once a finalization has succeeded the application is not configured     *)
(* with the binding it revoked (cutover/service.go Rollback: "rollback     *)
(* window is closed").                                                     *)
FinalizedStaysOnTarget ==
  (\E f \in Finalizations : finalization[f].state = "succeeded")
    => config.db = "target"
=============================================================================
