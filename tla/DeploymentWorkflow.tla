------------------------ MODULE DeploymentWorkflow ------------------------
(***************************************************************************)
(* One DeploymentRun of Cloud: the record that clients edit and approve    *)
(* (deploymentworkflow.Service), the controllers of several Cloud          *)
(* processes that lease it and execute its next step                       *)
(* (deploymentworkflow.Controller), and what a step does to the            *)
(* authorities it drives (webhookrelay.deploymentWorkflowExecutor): plan   *)
(* facts, build jobs and deployment jobs.  A step works on the copy of the *)
(* run that came with the lease; its result is saved only if the run's     *)
(* revision is still the one of that copy.                                 *)
(***************************************************************************)
EXTENDS Naturals, FiniteSets, FiniteSetsExt

CONSTANTS
  Shapes,        \* plans an analysis or an edit may yield: [apps, attempts],
                 \* the number of applications and FailurePolicy.MaxAttempts
  MaxApps,       \* bounds on those two
  MaxAttempts,
  KnownGoods,    \* which applications may have a known good at the start
  Workers,       \* Cloud processes that run the controller
  Commits,       \* commits the selected ref may resolve to
  MaxApprovals,  \* bound: how often the run is approved
  MaxPlans,      \* bound: how often it is analyzed or edited
  MaxSurprises   \* bound: pushes, changes of facts, lost leases and crashes

ASSUME WorkflowAssumption ==
  /\ MaxApps \in Nat /\ MaxAttempts \in 1..5
  /\ Shapes \subseteq [apps: 1..MaxApps, attempts: 1..MaxAttempts]
  /\ Commits \subseteq Nat \ {0} /\ Commits # {}
  /\ KnownGoods \subseteq SUBSET (1..MaxApps) /\ "none" \notin Workers
  /\ MaxApprovals \in Nat /\ MaxPlans \in Nat /\ MaxSurprises \in Nat

VARIABLES
  run,        \* the deployment_runs row
  lease,      \* its lease_owner, or "none"
  worker,     \* what each controller holds: pc, copy of the run, fresh
  cancelling, \* a cancel request that has stopped the jobs it saw
  head,       \* the commit the selected ref resolves to
  facts,      \* resources, topology and policies: who changed them
  preflight,  \* what a preflight evaluates to now
  known,      \* applications with a known-good deployment
  surprises,  \* how many of these have happened
  build,      \* build jobs by idempotency key
  deploy      \* deployment jobs by idempotency key

workflowVars == <<run, lease, worker, cancelling, head, facts, preflight,
                  known, surprises, build, deploy>>

Apps == 1..MaxApps
Attempts == 1..MaxAttempts
Approvals == 1..MaxApprovals
Draft == {"analyzing", "awaiting_input", "awaiting_approval"}
RunnableStates == {"provisioning", "building", "preflighting", "deploying",
                   "verifying", "rolling_back", "cleaning_up"}
TerminalStates == {"succeeded", "stale", "failed", "rolled_back", "cancelled"}
States == Draft \cup RunnableStates \cup TerminalStates
            \cup {"awaiting_warning_acknowledgement"}

NoFailure == [step |-> "none", retryable |-> FALSE]
NoFacts == [plans |-> {}, drifts |-> MaxSurprises + 1]
NoRefs == [facts |-> NoFacts, builds |-> {}, records |-> {}, jobs |-> {}]

(* Keys of the jobs a step asks for: workflowExecutionKey joins the time   *)
(* of the approval with the application and, for builds, the attempt.      *)
BuildKeys == Approvals \X Apps \X Attempts
JobKeys == Approvals \X Apps \X {"apply", "rollback", "cleanup"}
NoBuild == [status |-> "absent", commit |-> 0]
NoDeploy == [status |-> "absent", commit |-> 0, prior |-> FALSE, retried |-> 0]
BuildActive(b) == b.status = "active"
Settled(status) == status \in {"succeeded", "failed", "exhausted", "cancelled"}

(* Service.Create: a run begins in analysis, with no plan.                 *)
Create ==
  [state |-> "analyzing", plan |-> 0, apps |-> 0, max |-> 0, commit |-> 0,
   authority |-> NoFacts,
   approval |-> 0, approved |-> 0, basis |-> NoFacts, approvals |-> 0,
   attempt |-> 0, failure |-> NoFailure, refs |-> NoRefs, pre |-> "none"]

Idle == [pc |-> "idle", run |-> Create, fresh |-> FALSE]

Init ==
  /\ run = Create
  /\ lease = "none"
  /\ worker = [w \in Workers |-> Idle]
  /\ cancelling = FALSE
  /\ head = Min(Commits)
  /\ facts = [plans |-> {}, drifts |-> 0]
  /\ preflight = "clean"
  /\ known \in KnownGoods
  /\ surprises = 0
  /\ build = [k \in BuildKeys |-> NoBuild]
  /\ deploy = [k \in JobKeys |-> NoDeploy]

Outside == <<head, facts, preflight, known, surprises>>
Jobs == <<build, deploy>>

(* A copy whose revision is no longer the run's: its result, if the step   *)
(* has one already, can only be dropped.                                   *)
Outdated(x) ==
  [x EXCEPT !.fresh = FALSE, !.run = IF x.pc = "executed" THEN Create ELSE @]

(* PostgresStore.Save by the request that just read the run: every copy a  *)
(* controller still holds now has an old revision.                         *)
Save(r) ==
  /\ run' = r
  /\ worker' = [w \in Workers |-> Outdated(worker[w])]
  /\ UNCHANGED lease

(***************************************************************************)
(* Requests.                                                               *)
(***************************************************************************)
(* The authority a plan is bound to: everything the executor compares.     *)
currentWorkflowAuthority == facts

(* Every plan has a hash of its own; plans are numbered.                   *)
HashPlan(r) == r.plan + 1

(* reconcileDraftIssues: open questions decide what the draft waits for.   *)
reconcileDraftIssues == {"awaiting_input", "awaiting_approval"}

(* analyzeDeploymentRun and SetAnalysis: the ref is resolved, the facts    *)
(* are read and everything of an earlier approval is dropped.  A request   *)
(* that names the scope to analyze keeps the commit the run already has.   *)
(* The shape is any: an earlier edit may have set the attempts, and the    *)
(* failure policy survives the analysis.                                   *)
SetAnalysis ==
  /\ run.state \in Draft \cup {"stale"}
  /\ run.plan < MaxPlans
  /\ \E state \in reconcileDraftIssues, shape \in Shapes,
        commit \in {head, run.commit} \ {0} :
       Save([Create EXCEPT !.state = state, !.plan = HashPlan(run),
               !.apps = shape.apps, !.max = shape.attempts,
               !.commit = commit, !.authority = currentWorkflowAuthority,
               !.approvals = run.approvals])
  /\ UNCHANGED <<cancelling, Outside, Jobs>>

(* UpdatePlan: a draft edited under its own hash gets a new one; the       *)
(* source commit and the authority stay.                                   *)
UpdatePlan ==
  /\ run.state \in reconcileDraftIssues
  /\ run.plan < MaxPlans
  /\ \E state \in reconcileDraftIssues, shape \in Shapes :
       Save([run EXCEPT !.state = state, !.plan = HashPlan(run), !.pre = "none",
               !.apps = shape.apps, !.max = shape.attempts])
  /\ UNCHANGED <<cancelling, Outside, Jobs>>

(* markStale: the approval is withdrawn, references to jobs are kept.      *)
markStale(r) ==
  [r EXCEPT !.state = "stale", !.approval = 0, !.approved = 0,
     !.basis = NoFacts,
     !.failure = [step |-> r.state, retryable |-> FALSE]]

(* The approve handler compares the plan's facts, the resolved commit      *)
(* included, with the current ones.                                        *)
Approve ==
  /\ run.state = "awaiting_approval"
  /\ run.approvals < MaxApprovals
  /\ IF run.authority = currentWorkflowAuthority /\ run.commit = head
     THEN Save([run EXCEPT !.state = "provisioning", !.attempt = @ + 1,
                  !.approval = run.approvals + 1, !.approved = run.plan,
                  !.approvals = @ + 1, !.basis = facts,
                  !.failure = NoFailure])
     ELSE Save(markStale(run))
  /\ UNCHANGED <<cancelling, Outside, Jobs>>

(* A workload secret of the plan changed: approve answers by invalidating. *)
Invalidate ==
  /\ run.state \notin TerminalStates
  /\ Save(markStale(run))
  /\ UNCHANGED <<cancelling, Outside, Jobs>>

Acknowledge ==
  /\ run.state = "awaiting_warning_acknowledgement"
  /\ Save([run EXCEPT !.state = "deploying"])
  /\ UNCHANGED <<cancelling, Outside, Jobs>>

(* Service.Retry has no action here: it refuses unless attempts are left,  *)
(* and StepFailed makes a run failed and retryable only when none are.     *)

(* CancelDeployment stops a job that no Agent has had.  A job that an      *)
(* Agent holds, or that was queued again after its leases ran out, cannot  *)
(* be cancelled.                                                           *)
Stoppable(jobs, keys) ==
  {k \in keys : jobs[k].status = "queued" /\ jobs[k].retried = 0}
CancelUnsafe(jobs, keys) ==
  \E k \in keys : \/ jobs[k].status = "active"
                  \/ jobs[k].status = "queued" /\ jobs[k].retried > 0

(* The loop over the references ends at the first job it cannot cancel.    *)
(* They are in the order of their random ids, so any of the others may     *)
(* have been stopped by then: the tables that may result.                  *)
cancelWorkflowDeployments(jobs, keys) ==
  {[k \in JobKeys |->
      IF k \in stopped THEN [jobs[k] EXCEPT !.status = "cancelled"] ELSE jobs[k]] :
    stopped \in IF CancelUnsafe(jobs, keys) THEN SUBSET Stoppable(jobs, keys)
                ELSE {Stoppable(jobs, keys)}}

cancelBuilds(keys) ==
  [k \in BuildKeys |->
     IF k \in keys /\ BuildActive(build[k])
     THEN [build[k] EXCEPT !.status = "cancelled"] ELSE build[k]]

(* The cancel handler first stops the jobs the run refers to ...           *)
CancelJobs ==
  /\ ~cancelling
  /\ run.state \notin TerminalStates
  /\ build' = cancelBuilds(run.refs.builds)
  /\ deploy' \in cancelWorkflowDeployments(deploy, run.refs.jobs)
  /\ cancelling' = ~CancelUnsafe(deploy, run.refs.jobs)
  /\ UNCHANGED <<run, lease, worker, Outside>>

(* ... and then reads the run again and cancels what it finds.             *)
Cancel ==
  /\ cancelling
  /\ cancelling' = FALSE
  /\ IF run.state \in TerminalStates
     THEN UNCHANGED <<run, lease, worker>>
     ELSE Save([run EXCEPT !.state = "cancelled"])
  /\ UNCHANGED <<Outside, Jobs>>

(***************************************************************************)
(* What a step makes of its copy r of the run (Controller.process).        *)
(***************************************************************************)
StepStale(r) == markStale(r)

StepFailed(r, retryable) ==
  IF retryable /\ r.attempt < r.max
  THEN [r EXCEPT !.attempt = @ + 1, !.failure = NoFailure]
  ELSE [r EXCEPT !.state = "failed",
          !.failure = [step |-> r.state, retryable |-> retryable]]

StepCompensates(r, state) ==
  [r EXCEPT !.state = state,
     !.failure = [step |-> r.state, retryable |-> FALSE]]

(* The step hands its result to the controller, which will save it.        *)
Returns(w, r) ==
  worker' = [worker EXCEPT ![w].pc = "executed", ![w].run = r]

(* provision: resources and topology are made to match the plan, which     *)
(* changes the facts the first time, and applications are configured.      *)
(* Until the resources are Ready the step is pending; either way the       *)
(* checkpoints of the result name the new facts.                           *)
ensureTopology(r) == [facts EXCEPT !.plans = @ \cup {r.approved}]
ensureConfigurations(r, made) == [r EXCEPT !.refs.facts = made]

provision(w, r) ==
  LET made == ensureTopology(r)
      seen == ensureConfigurations(r, made)
  IN
  /\ facts' = made
  /\ \/ Returns(w, seen)
     \/ Returns(w, StepFailed(seen, TRUE))
     \/ Returns(w, [seen EXCEPT !.state = "building"])
  /\ UNCHANGED <<head, preflight, known, surprises, Jobs>>

PlanApps(r) == 1..r.apps

(* build: jobs are created and dispatched in application order up to the   *)
(* first that has failed or has built another commit.  An error on the     *)
(* way loses the references of the jobs created before it.                 *)
buildKey(r, a) == <<r.approval, a, r.attempt>>

ensureBuilds(r, upto, commit) ==
  [k \in BuildKeys |->
     IF build[k] = NoBuild /\ \E a \in 1..upto : k = buildKey(r, a)
     THEN [status |-> "active", commit |-> commit] ELSE build[k]]

(* Faulty variant: the commit of a finished build is not compared.         *)
BuildStopsOnFailure(r) ==
  {a \in PlanApps(r) :
     build[buildKey(r, a)].status \in {"failed", "infrastructure", "cancelled"}}

BuildStops(r) ==
  {a \in PlanApps(r) :
     LET b == build[buildKey(r, a)] IN
       \/ b.status \in {"failed", "infrastructure", "cancelled"}
       \/ b.status = "succeeded" /\ b.commit # r.commit}

buildRefs(r) ==
  LET mine == {buildKey(r, a) : a \in PlanApps(r)}
      done == {k \in mine : build[k].status = "succeeded"}
  IN [r.refs EXCEPT
        !.builds = IF r.attempt > 1 THEN mine ELSE @ \cup mine,
        !.records = IF r.attempt > 1 THEN done ELSE @ \cup done]

(* Each job resolves the ref again: a push during the step, which may be   *)
(* undone as quickly, decides what the new jobs build.  Whether a failure  *)
(* stops the other jobs is the plan's FailFast, which is not kept in the   *)
(* run: either may be set.                                                 *)
BuildStep(w, r) ==
  \E commit \in Commits :
  /\ surprises' = surprises + (IF commit = head THEN 0 ELSE 1)
  /\ surprises' <= MaxSurprises
  /\ \/ \E a \in PlanApps(r) :              \* create or dispatch failed
          /\ build' = ensureBuilds(r, a - 1, commit)
          /\ Returns(w, StepFailed(r, TRUE))
          /\ UNCHANGED deploy
     \/ /\ BuildStops(r) = {}
        /\ build' = ensureBuilds(r, r.apps, commit)
        /\ Returns(w, [r EXCEPT !.refs = buildRefs(r),
             !.state = IF Cardinality(buildRefs(r).records) = r.apps
                       THEN "preflighting" ELSE @])
        /\ UNCHANGED deploy
     \/ /\ BuildStops(r) # {}
        /\ LET a == Min(BuildStops(r))
               b == build[buildKey(r, a)]
           IN IF b.status = "succeeded"
              THEN /\ Returns(w, StepStale(r))
                   /\ build' = ensureBuilds(r, a - 1, commit)
                   /\ UNCHANGED deploy
              ELSE /\ \/ UNCHANGED Jobs
                      \/ /\ build' = cancelBuilds(r.refs.builds
                                        \cup {buildKey(r, x) : x \in 1..a})
                         /\ deploy' \in cancelWorkflowDeployments(deploy, r.refs.jobs)
                   /\ Returns(w, StepFailed(r, b.status = "infrastructure"))
  /\ UNCHANGED <<head, facts, preflight, known>>

(* preflight: a blocked result ends the run, warnings wait for a person.   *)
preflightStep(w, r) ==
  /\ \/ Returns(w, StepFailed(r, TRUE))
     \/ /\ preflight = "blocked"
        /\ Returns(w, [r EXCEPT !.pre = preflight, !.state = "failed",
             !.failure = [step |-> r.state, retryable |-> FALSE]])
     \/ /\ preflight # "blocked"
        /\ Returns(w, [r EXCEPT !.pre = preflight,
             !.state = IF preflight = "clean" THEN "deploying"
                       ELSE "awaiting_warning_acknowledgement"])
  /\ UNCHANGED <<Outside, Jobs>>

(* deploy: the preflight must still be the reviewed one.  After the first  *)
(* attempt, a job the run refers to that ran out of leases is queued again *)
(* once in each attempt (the key of the retry names it); a job that an     *)
(* Agent reported failed cannot be, and that refusal is a retryable error. *)
applyKey(r, a) == <<r.approval, a, "apply">>
Eligible(k) == deploy[k].status = "succeeded" /\ deploy[k].prior

recordCommit(r, a) ==
  build[CHOOSE k \in r.refs.records : k[2] = a].commit

Retryable(r, k) ==
  /\ r.attempt > 1 /\ k \in r.refs.jobs
  /\ deploy[k].status = "exhausted"
  /\ deploy[k].retried < r.attempt

ensureApplies(r, upto) ==
  [k \in JobKeys |->
     IF ~ \E a \in 1..upto : k = applyKey(r, a) THEN deploy[k]
     ELSE IF deploy[k] = NoDeploy
     THEN [status |-> "queued", commit |-> recordCommit(r, k[2]),
           prior |-> k[2] \in known, retried |-> 0]
     ELSE IF Retryable(r, k)
     THEN [deploy[k] EXCEPT !.status = "queued", !.retried = r.attempt]
     ELSE deploy[k]]

DeployStops(r) ==
  {a \in PlanApps(r) : ensureApplies(r, r.apps)[applyKey(r, a)].status
                  \in {"failed", "exhausted", "cancelled"}}

RetryRefused(r, a) ==
  /\ r.attempt > 1 /\ applyKey(r, a) \in r.refs.jobs
  /\ deploy[applyKey(r, a)].status = "failed"
  /\ deploy[applyKey(r, a)].retried < r.attempt

(* RollbackKnownGood is the plan's too: without it a run with something to *)
(* return to a known good just fails.                                      *)
deployStep(w, r) ==
  \/ /\ preflight # r.pre
     /\ Returns(w, StepStale(r))
     /\ UNCHANGED <<Outside, Jobs>>
  \/ \E a \in PlanApps(r) :                        \* preview or start refused
       /\ preflight = r.pre
       /\ \A x \in 1..(a - 1) : x \notin DeployStops(r)
       /\ deploy' = ensureApplies(r, a - 1)
       /\ Returns(w, StepFailed(r, TRUE))
       /\ UNCHANGED <<Outside, build>>
  \/ /\ preflight = r.pre
     /\ DeployStops(r) = {}
     /\ deploy' = ensureApplies(r, r.apps)
     /\ Returns(w, [r EXCEPT
          !.refs.jobs = @ \cup {applyKey(r, a) : a \in PlanApps(r)},
          !.state = IF \A a \in PlanApps(r) : deploy[applyKey(r, a)].status = "succeeded"
                    THEN "verifying" ELSE @])
     /\ UNCHANGED <<Outside, build>>
  \/ /\ preflight = r.pre
     /\ DeployStops(r) # {}
     /\ LET a == Min(DeployStops(r))
            seen == r.refs.jobs \cup {applyKey(r, x) : x \in 1..a}
            back == \E x \in 1..(a - 1) : Eligible(applyKey(r, x))
            next == [r EXCEPT !.refs.jobs = seen]
            made == ensureApplies(r, a)
            unsafe == CancelUnsafe(made, seen)
            first == ~deploy[applyKey(r, a)].prior
        IN /\ ~RetryRefused(r, a)
           /\ deploy' \in cancelWorkflowDeployments(made, seen)
           /\ \/ unsafe /\ Returns(w, StepFailed(r, FALSE))
              \/ ~unsafe /\ back /\ Returns(w, StepCompensates(next, "rolling_back"))
              \/ ~unsafe /\ ~back /\ first /\ Returns(w, StepCompensates(next, "cleaning_up"))
              \/ ~unsafe /\ (back \/ ~first) /\ Returns(w, StepFailed(next, FALSE))
           /\ UNCHANGED <<Outside, build>>

(* verify: every application has a succeeded deployment and build record;  *)
(* required dependencies may not verify yet, or an image may differ.       *)
verify(w, r) ==
  LET deployed == \A a \in PlanApps(r) : deploy[applyKey(r, a)].status = "succeeded"
  IN
  /\ \/ Returns(w, StepFailed(r, TRUE))
     \/ deployed /\ Returns(w, StepFailed(r, FALSE))
     \/ deployed /\ Returns(w, [r EXCEPT !.state = "succeeded"])
  /\ UNCHANGED <<Outside, Jobs>>

(* rollback and cleanupFirstDeploy: one job for each apply of the run that *)
(* can, respectively cannot, return to a known good, created in order.     *)
Compensate(w, r, kind, sources, refused, done) ==
  LET key(a) == <<r.approval, a, kind>>
      start(upto) ==
        [k \in JobKeys |->
           IF deploy[k] = NoDeploy /\ \E a \in sources : a <= upto /\ k = key(a)
           THEN [NoDeploy EXCEPT !.status = "queued", !.commit = r.commit]
           ELSE deploy[k]]
      stops == {a \in sources :
                  deploy[key(a)].status \in {"failed", "exhausted", "cancelled"}}
      next == [r EXCEPT !.refs.jobs = @ \cup {key(a) : a \in sources}]
  IN
  \/ \E a \in sources :
       /\ deploy[key(a)] = NoDeploy
       /\ \A x \in sources : x < a => x \notin stops \cup refused
       /\ deploy' = start(a - 1)
       /\ Returns(w, StepFailed(r, TRUE))
  \/ /\ stops # {}
     /\ \A x \in refused : x > Min(stops)
     /\ deploy' = start(Min(stops))
     /\ Returns(w, StepFailed(r, FALSE))
  \/ /\ stops = {} /\ refused = {}
     /\ deploy' = start(r.apps)
     /\ Returns(w,
          IF \A a \in sources : deploy[key(a)].status = done
          THEN [next EXCEPT !.state = IF kind = "rollback" THEN "rolled_back"
                                      ELSE "failed"]
          ELSE next)

(* Faulty variant: a rollback that was queued is taken for one that ended. *)
rollbackWithoutWaiting(w, r) ==
  LET sources == {a \in PlanApps(r) : applyKey(r, a) \in r.refs.jobs
                               /\ Eligible(applyKey(r, a))}
  IN /\ Compensate(w, r, "rollback", sources, {}, "queued")
     /\ UNCHANGED <<Outside, build>>

rollback(w, r) ==
  LET sources == {a \in PlanApps(r) : applyKey(r, a) \in r.refs.jobs
                               /\ Eligible(applyKey(r, a))}
  IN /\ Compensate(w, r, "rollback", sources, {}, "rolled_back")
     /\ UNCHANGED <<Outside, build>>

cleanupFirstDeploy(w, r) ==
  LET sources == {a \in PlanApps(r) : applyKey(r, a) \in r.refs.jobs
                               /\ ~Eligible(applyKey(r, a))}
      refused == {a \in sources : deploy[applyKey(r, a)].prior
                    \/ deploy[applyKey(r, a)].status = "succeeded"}
  IN /\ Compensate(w, r, "cleanup", sources, refused, "succeeded")
     /\ UNCHANGED <<Outside, build>>

(***************************************************************************)
(* Controllers.                                                            *)
(***************************************************************************)
(* RunOnce: a run in a runnable state is leased and read.                  *)
AcquireLease(w) ==
  /\ worker[w].pc = "idle"
  /\ run.state \in RunnableStates
  /\ lease \in {"none", w}
  /\ lease' = w
  /\ worker' = [worker EXCEPT ![w] = [pc |-> "leased", run |-> run, fresh |-> TRUE]]
  /\ UNCHANGED <<run, cancelling, Outside, Jobs>>

(* checkpointStale, and before the first checkpoint the approved facts.    *)
factsStale(r) ==
  IF r.state = "provisioning" /\ r.refs.facts = NoFacts
  THEN r.basis # facts
  ELSE r.refs.facts # facts

Execute(w) ==
  LET r == worker[w].run IN
  /\ worker[w].pc = "leased"
  /\ \/ /\ Returns(w, StepFailed(r, TRUE))  \* an authority is unavailable
        /\ UNCHANGED <<Outside, Jobs>>
     \/ /\ head # r.commit \/ factsStale(r)
        /\ Returns(w, StepStale(r))
        /\ UNCHANGED <<Outside, Jobs>>
     \/ /\ head = r.commit /\ ~factsStale(r)
        /\ CASE r.state = "provisioning" -> provision(w, r)
             [] r.state = "building" -> BuildStep(w, r)
             [] r.state = "preflighting" -> preflightStep(w, r)
             [] r.state = "deploying" -> deployStep(w, r)
             [] r.state = "verifying" -> verify(w, r)
             [] r.state = "rolling_back" -> rollback(w, r)
             [] r.state = "cleaning_up" -> cleanupFirstDeploy(w, r)
  /\ UNCHANGED <<run, lease, cancelling>>

(* Faulty variant: the revision the step was read at is not compared.      *)
SaveAnyResult(w) ==
  LET r == worker[w].run IN
  /\ worker[w].pc = "executed"
  /\ run' = r
  /\ lease' = IF lease = w THEN "none" ELSE lease
  /\ worker' = [x \in Workers |->
       IF x = w THEN Idle
       ELSE IF r = run THEN worker[x] ELSE Outdated(worker[x])]
  /\ UNCHANGED <<cancelling, Outside, Jobs>>

(* The result is saved under the revision of the copy and the lease is     *)
(* released; a newer revision, or a renewal that found the lease lost,     *)
(* drops the result instead.                                               *)
SaveResult(w) ==
  LET r == worker[w].run IN
  /\ worker[w].pc = "executed" /\ worker[w].fresh
  /\ run' = r
  /\ lease' = IF lease = w THEN "none" ELSE lease
  /\ worker' = [x \in Workers |->
       IF x = w THEN Idle
       ELSE IF r = run THEN worker[x] ELSE Outdated(worker[x])]
  /\ UNCHANGED <<cancelling, Outside, Jobs>>

DropResult(w) ==
  /\ worker[w].pc = "executed"
  /\ ~worker[w].fresh \/ lease # w
  /\ lease' = IF lease = w THEN "none" ELSE lease
  /\ worker' = [worker EXCEPT ![w] = Idle]
  /\ UNCHANGED <<run, cancelling, Outside, Jobs>>

(* The lease runs out under a controller that stalls; or the process dies. *)
LeaseExpires ==
  /\ lease # "none"
  /\ lease' = "none"
  /\ UNCHANGED <<run, worker, cancelling, head, facts, preflight, known, Jobs>>
Crash(w) ==
  /\ worker[w].pc # "idle"
  /\ worker' = [worker EXCEPT ![w] = Idle]
  /\ UNCHANGED <<run, lease, cancelling, head, facts, preflight, known, Jobs>>

(***************************************************************************)
(* The authorities a run depends on, and their own progress.               *)
(***************************************************************************)
Push ==
  /\ head' \in Commits \ {head}
  /\ UNCHANGED <<run, lease, worker, cancelling, facts, preflight, known, Jobs>>
Drift ==
  /\ facts' = [facts EXCEPT !.drifts = @ + 1]
  /\ UNCHANGED <<run, lease, worker, cancelling, head, preflight, known, Jobs>>
PreflightChanges ==
  /\ preflight' \in {"clean", "warnings", "blocked"} \ {preflight}
  /\ UNCHANGED <<run, lease, worker, cancelling, head, facts, known, Jobs>>

(* A build job ends as BuildJobs says, with infrastructure failures the    *)
(* ones retryableBuildFailure knows.                                       *)
BuildEnds(k) ==
  /\ BuildActive(build[k])
  /\ \E status \in {"succeeded", "failed", "infrastructure"} :
       build' = [build EXCEPT ![k].status = status]
  /\ UNCHANGED <<run, lease, worker, cancelling, Outside, deploy>>

(* A deployment job goes as DeploymentRegistry says: leased by an Agent,   *)
(* then reported, or exhausted by leases that nobody answered.             *)
Outcomes(k) ==
  CASE k[3] = "apply" ->
         {"succeeded", "failed", "exhausted"}
           \cup IF deploy[k].prior THEN {"rolled_back", "rollback_failed"} ELSE {}
    [] k[3] = "rollback" -> {"rolled_back", "failed", "exhausted"}
    [] OTHER -> {"cleaned", "failed", "exhausted"}

DeployLeased(k) ==
  /\ deploy[k].status = "queued"
  /\ deploy' = [deploy EXCEPT ![k].status = "active"]
  /\ UNCHANGED <<run, lease, worker, cancelling, Outside, build>>
DeployEnds(k) ==
  /\ deploy[k].status = "active"
  /\ \E status \in Outcomes(k) :
       /\ deploy' = [deploy EXCEPT ![k].status = status]
       /\ known' = IF k[3] = "apply" /\ status = "succeeded"
                   THEN known \cup {k[2]} ELSE known
  /\ UNCHANGED <<run, lease, worker, cancelling, head, facts, preflight,
                 surprises, build>>

Requests ==
  SetAnalysis \/ UpdatePlan \/ Approve \/ Invalidate \/ Acknowledge
    \/ CancelJobs \/ Cancel
Controllers ==
  \E w \in Workers :
    AcquireLease(w) \/ Execute(w) \/ SaveResult(w) \/ DropResult(w)
Surprises ==
  /\ surprises < MaxSurprises
  /\ surprises' = surprises + 1
  /\ \/ LeaseExpires \/ Push \/ Drift \/ PreflightChanges
     \/ \E w \in Workers : Crash(w)
Authorities ==
  \/ \E k \in BuildKeys : BuildEnds(k)
  \/ \E k \in JobKeys : DeployLeased(k) \/ DeployEnds(k)

Next == Requests \/ Controllers \/ Surprises \/ Authorities

Spec == Init /\ [][Next]_workflowVars

-----------------------------------------------------------------------------
FactsType == [plans: SUBSET (0..MaxPlans), drifts: 0..(MaxSurprises + 1)]
RefsType == [facts: FactsType, builds: SUBSET BuildKeys, records: SUBSET BuildKeys,
             jobs: SUBSET JobKeys]
RunType ==
  [state: States, plan: 0..MaxPlans, apps: {0} \cup Apps,
   max: {0} \cup Attempts, commit: Commits \cup {0},
   authority: FactsType, approval: 0..MaxApprovals, approved: 0..MaxPlans,
   basis: FactsType, approvals: 0..MaxApprovals, attempt: 0..MaxAttempts,
   failure: [step: States \cup {"none"}, retryable: BOOLEAN],
   refs: RefsType, pre: {"none", "clean", "warnings", "blocked"}]

WorkflowTypeOK ==
  /\ run \in RunType
  /\ lease \in Workers \cup {"none"}
  /\ worker \in [Workers -> [pc: {"idle", "leased", "executed"},
                             run: RunType, fresh: BOOLEAN]]
  /\ cancelling \in BOOLEAN
  /\ head \in Commits
  /\ facts \in FactsType
  /\ preflight \in {"clean", "warnings", "blocked"}
  /\ known \subseteq Apps
  /\ surprises \in 0..MaxSurprises
  /\ build \in [BuildKeys ->
       [status: {"absent", "active", "succeeded", "failed", "infrastructure",
                 "cancelled"}, commit: Commits \cup {0}]]
  /\ deploy \in [JobKeys ->
       [status: {"absent", "queued", "active", "succeeded", "failed",
                 "exhausted", "cancelled", "rolled_back", "rollback_failed",
                 "cleaned"}, commit: Commits \cup {0}, prior: BOOLEAN,
        retried: 0..MaxAttempts]]

(* What runs is what was approved: a run past approval holds an approval   *)
(* of exactly its plan, and the applications deployed under that approval  *)
(* are built from the commit that was reviewed, whatever was pushed while  *)
(* jobs were created (Execute, BuildJobs.Create, build).                   *)
DeploysWhatWasApproved ==
  /\ run.state \in RunnableStates \cup {"awaiting_warning_acknowledgement",
                                        "succeeded", "rolled_back"}
       => run.approval > 0 /\ run.approved = run.plan
  /\ \A k \in JobKeys :
       k[1] = run.approval /\ k[3] = "apply" /\ deploy[k] # NoDeploy
         => deploy[k].commit = run.commit

(* A succeeded run has every application deployed, and a rolled back run   *)
(* has every deployment it refers to that replaced a known good returned   *)
(* to it, also when steps were repeated, lost or run by a controller       *)
(* without a lease (deploy, verify, rollback).                             *)
FinishedRunIsTrue ==
  /\ run.state = "succeeded" =>
       \A a \in PlanApps(run) : deploy[applyKey(run, a)].status = "succeeded"
  /\ run.state = "rolled_back" =>
       \A a \in PlanApps(run) :
         applyKey(run, a) \in run.refs.jobs /\ Eligible(applyKey(run, a)) =>
           deploy[<<run.approval, a, "rollback">>].status = "rolled_back"

(* What the event of a rolled back run says, "Known-good deployment        *)
(* restored.": no application of the run stays on the version it deployed  *)
(* over a known good.  It does not hold: a deploy step whose result was    *)
(* lost leaves jobs the run does not refer to (deploy, rollback).          *)
RolledBackIsRestored ==
  run.state = "rolled_back" =>
    \A a \in PlanApps(run) :
      Eligible(applyKey(run, a)) =>
        deploy[<<run.approval, a, "rollback">>].status = "rolled_back"
=============================================================================
