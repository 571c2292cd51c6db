---------------------------- MODULE Deployment ----------------------------
(***************************************************************************)
(* Cloud and one Agent together: the registry leases jobs, the Agent's     *)
(* runner (agent/internal/cloudrunner) executes each lease through the     *)
(* rollout engine, sends progress best effort and posts the result.        *)
(* Requests and replies can be lost, leases can lapse under a running      *)
(* rollout and the Agent can die at any step.                              *)
(***************************************************************************)
EXTENDS RolloutEngine, DeploymentRegistry

CONSTANTS
  MaxLosses,       \* bound: lost requests or replies and untimely lapses
  SecretsMayFail   \* may secret delivery fail before the engine is called?

ASSUME DeploymentAssumption ==
  /\ MaxLosses \in Nat
  /\ SecretsMayFail \in BOOLEAN
  /\ \E n \in Nodes : Nodes = {n}

VARIABLES
  run,      \* the runner's lease in hand (volatile)
  beat,     \* the progress copy the lease heartbeat has in flight
  losses,   \* losses so far
  unread    \* history: jobs failed for their secrets, their record unread

deploymentVars == <<engineVars, registryVars, run, beat, losses, unread>>

Node == CHOOSE n \in Nodes : TRUE

ReconcileAttempts == 2   \* rolloutReconcileAttempts
ResultPosts       == 3   \* tries of handleLease

(* pc: idle - polling; lease - a lease arrived; call - about to call the   *)
(* engine; engine - inside ReconcileRollout; report - posting the result;  *)
(* stopping - the process context is cancelled.  unsent: a transition whose *)
(* progress callback has not run; emitted: the heartbeat has a copy.       *)
Runs ==
  [pc: {"idle", "lease", "call", "engine", "report", "stopping"},
   job: KnownGoodRefs, token: Nat, calls: 0..ReconcileAttempts,
   posts: 0..ResultPosts, unsent: BOOLEAN, emitted: BOOLEAN,
   result: Results \cup {None}]

Beats == [job: Jobs, token: Nat, state: RolloutStates, materialized: BOOLEAN]

Idle ==
  [pc |-> "idle", job |-> None, token |-> 0, calls |-> 0, posts |-> 0,
   unsent |-> FALSE, emitted |-> FALSE, result |-> None]

Lose == losses < MaxLosses /\ losses' = losses + 1

Reporting(result) ==
  [run EXCEPT !.pc = "report", !.emitted = FALSE, !.result = result]

----------------------------------------------------------------------------
(* preMutationResult: nothing was mutated, the previous known-good runs.   *)
PreMutationResult(j) ==
  [state |-> "failed", phase |-> "pre_mutation",
   known |-> jobs[j].intent.previous, materialized |-> TRUE]

(* Faulty variant: every failed record is reported as a preflight failure. *)
ResultFailedIsPreflight(j) ==
  [state |-> wal[j].state,
   phase |-> CASE wal[j].error = "none" -> "none"
               [] wal[j].state = "failed" -> "pre_mutation"
               [] OTHER -> "post_mutation",
   known |-> CASE wal[j].state = "succeeded" -> j
               [] wal[j].state \in {"rolled_back", "failed"} -> Previous(j)
               [] OTHER -> None,
   materialized |-> wal[j].materialized \/ wal[j].state = "failed"]

(* resultFromRollout, for a terminal record.                               *)
ResultFromRollout(j) ==
  LET w     == wal[j]
      phase == CASE w.error = "none" -> "none"
                 [] w.error = "cancelled" /\ w.state = "failed" -> "pre_mutation"
                 [] OTHER -> "post_mutation"
  IN  [state |-> w.state, phase |-> phase,
       known |-> CASE w.state = "succeeded" -> j
                   [] w.state = "rolled_back" \/ phase = "pre_mutation" -> Previous(j)
                   [] OTHER -> None,
       materialized |-> w.materialized \/ phase = "pre_mutation"]

(* emitRolloutProgress follows every transition but a cancellation, the    *)
(* start of a cleanup and its failure.                                     *)
Emits(j) ==
  /\ wal'[j] # wal[j]
  /\ wal'[j].error # "cancelled"
  /\ wal'[j].intent.op \in CleanupOperations =>
       wal'[j].state \notin {"prepared", "failed"}

----------------------------------------------------------------------------
(* jobLoop.  A lease whose reply is lost is leased all the same; so is one *)
(* the poll handler fails to complete with secret materials.               *)
PollJob(j) ==
  /\ eng.pc = "idle"
  /\ run.pc = "idle"
  /\ LeaseDeployment(Node, j)
  /\ \/ /\ run' = [Idle EXCEPT !.pc = "lease", !.job = j, !.token = jobs'[j].attempts]
        /\ UNCHANGED losses
     \/ Lose /\ UNCHANGED run
  /\ UNCHANGED <<engineVars, beat, unread>>

PollNothing ==
  /\ eng.pc = "idle"
  /\ run.pc = "idle"
  /\ ExpireDeploymentLeases(Node)
  /\ UNCHANGED <<engineVars, run, beat, losses, unread>>

(* executeRollout delivers the secrets of the job before it looks at the   *)
(* rollout log; when that fails the job is reported as never started.      *)
SecretsFail ==
  /\ SecretsMayFail
  /\ run.pc = "lease"
  /\ run' = Reporting(PreMutationResult(run.job))
  /\ unread' = IF Recorded(run.job) THEN unread \cup {run.job} ELSE unread
  /\ UNCHANGED <<engineVars, registryVars, beat, losses>>

CallEngine ==
  /\ run.pc \in {"lease", "call"}
  /\ ReconcileRollout(run.job, jobs[run.job].intent)
  /\ run' = [run EXCEPT !.pc = "engine", !.calls = @ + 1,
                        !.unsent = Emits(run.job)]
  /\ UNCHANGED <<registryVars, beat, losses, unread>>

(* The engine at work; it waits for the progress callback to return.  A    *)
(* rollout cancelled before its first mutation belongs to a process that   *)
(* is shutting down, whose calls to Cloud fail.                            *)
RunRollout ==
  /\ run.pc = "engine"
  /\ ~run.unsent
  /\ RolloutStep \/ StoreError
  /\ run' = [run EXCEPT !.unsent = Emits(run.job),
               !.pc = IF /\ wal'[run.job] # wal[run.job]
                         /\ wal'[run.job].error = "cancelled"
                        THEN "stopping" ELSE @]
  /\ UNCHANGED <<registryVars, beat, losses, unread>>

SendProgress ==
  /\ run.unsent
  /\ run' = [run EXCEPT !.unsent = FALSE, !.emitted = TRUE]
  /\ LET j == run.job
     IN  \/ /\ ProgressImmutableDeployment(j, run.token, wal[j].state, wal[j].materialized)
            /\ UNCHANGED losses
         \/ /\ ~(HoldsLease(j, run.token) /\ ValidProgress(j, wal[j].state, wal[j].materialized))
            /\ UNCHANGED <<registryVars, losses>>
         \/ Lose /\ UNCHANGED registryVars
  /\ UNCHANGED <<engineVars, beat, unread>>

(* Faulty variant: the heartbeat reports an apply before the log has it.   *)
CopyOptimistic ==
  /\ beat = None
  /\ run.pc = "engine"
  /\ run.emitted
  /\ ~run.unsent
  /\ eng.pc \in {"running", "applied"}
  /\ beat' = [job |-> run.job, token |-> run.token, materialized |-> TRUE,
              state |-> IF wal[run.job].state = "applying" THEN "waiting"
                                                           ELSE wal[run.job].state]
  /\ UNCHANGED <<engineVars, registryVars, run, losses, unread>>

(* The lease heartbeat re-sends the latest progress, one copy at a time;   *)
(* the engine goes on meanwhile and the copy may arrive after newer ones.  *)
CopyLatest ==
  /\ beat = None
  /\ run.pc = "engine"
  /\ run.emitted
  /\ ~run.unsent
  /\ eng.pc \in {"running", "applied"}
  /\ beat' = [job |-> run.job, token |-> run.token, state |-> wal[run.job].state,
              materialized |-> wal[run.job].materialized]
  /\ UNCHANGED <<engineVars, registryVars, run, losses, unread>>

HeartbeatArrives ==
  /\ beat # None
  /\ \/ ProgressImmutableDeployment(beat.job, beat.token, beat.state, beat.materialized)
     \/ /\ ~(/\ HoldsLease(beat.job, beat.token)
             /\ ValidProgress(beat.job, beat.state, beat.materialized))
        /\ UNCHANGED registryVars
  /\ beat' = None
  /\ UNCHANGED <<engineVars, run, losses, unread>>

EngineReturns ==
  /\ run.pc = "engine"
  /\ ~run.unsent
  /\ eng.pc = "returned"
  /\ run' = CASE eng.out = "record"  -> Reporting(ResultFromRollout(run.job))
              [] eng.out = "refused" -> Reporting(PreMutationResult(run.job))
              [] eng.out = "error" /\ run.calls < ReconcileAttempts -> [run EXCEPT !.pc = "call"]
              [] OTHER -> Idle
  /\ eng' = At("idle")
  /\ UNCHANGED <<wal, snapshots, current, runtime, clock, faults>>
  /\ UNCHANGED <<registryVars, beat, losses, unread>>

(* handleLease: up to three posts; the first that Cloud acknowledges ends  *)
(* it, a rejection is retried like a lost request.                         *)
TryAgain ==
  IF run.posts + 1 < ResultPosts THEN [run EXCEPT !.posts = @ + 1] ELSE Idle

Accepts(j, token, r) ==
  HoldsLease(j, token) /\ LeaseActive(j) /\ ValidResult(j, r)

PostResult ==
  /\ run.pc = "report"
  /\ \/ /\ CompleteDeployment(run.job, run.token, run.result)
        /\ \/ run' = Idle /\ UNCHANGED losses
           \/ run' = TryAgain /\ Lose
     \/ /\ Resolved(run.job) /\ jobs[run.job].result = run.result
        /\ run' = Idle
        /\ UNCHANGED <<registryVars, losses>>
     \/ /\ ~Accepts(run.job, run.token, run.result)
        /\ jobs[run.job].result # run.result
        /\ run' = TryAgain
        /\ UNCHANGED <<registryVars, losses>>
     \/ /\ run' = TryAgain
        /\ Lose
        /\ UNCHANGED registryVars
  /\ UNCHANGED <<engineVars, beat, unread>>

----------------------------------------------------------------------------
(* The Agent process.                                                      *)
AgentCrash ==
  /\ Crash
  /\ run' = Idle
  /\ UNCHANGED <<registryVars, beat, losses, unread>>

Shutdown ==
  /\ run.pc = "stopping"
  /\ eng' = At("down")
  /\ run' = Idle
  /\ UNCHANGED <<wal, snapshots, current, runtime, clock, faults>>
  /\ UNCHANGED <<registryVars, beat, losses, unread>>

(* Opening the store and ReconcilePending, which reports no progress.      *)
Recover ==
  /\ BootStep \/ (eng.boot /\ (RolloutStep \/ StoreError))
  /\ UNCHANGED <<registryVars, run, beat, losses, unread>>

----------------------------------------------------------------------------
(* Cloud.                                                                  *)
ClientRequest ==
  /\ \/ \E j \in Jobs, t \in Targets : ReadKnownGood(j, t, Node)
     \/ \E j \in Jobs : StartImmutableDeployment(j)
     \/ \E j, source \in Jobs : RollbackDeployment(j, source)
     \/ \E j, base \in Jobs, op \in CleanupOperations : StartCleanupJob(j, base, op)
     \/ \E j \in Jobs : CancelDeployment(j)
     \/ \E j \in Jobs : RetryDeployment(j)
  /\ UNCHANGED <<engineVars, run, beat, losses, unread>>

(* The lease of a job the Agent does not hold lapses in time; while it     *)
(* works on the job the heartbeat renews it, unless the link is down.      *)
LeaseTimesOut(j) ==
  /\ LeaseElapses(j)
  /\ IF run.job = j /\ run.token = jobs[j].attempts THEN Lose ELSE UNCHANGED losses
  /\ UNCHANGED <<engineVars, run, beat, unread>>

BackoffEnds(j) ==
  /\ BackoffPasses(j)
  /\ UNCHANGED <<engineVars, run, beat, losses, unread>>

DeploymentInit ==
  /\ EngineInit
  /\ RegistryInit
  /\ run = Idle
  /\ beat = None
  /\ losses = 0
  /\ unread = {}

AgentStep ==
  \/ \E j \in Jobs : PollJob(j)
  \/ PollNothing
  \/ SecretsFail
  \/ CallEngine
  \/ RunRollout
  \/ SendProgress
  \/ EngineReturns
  \/ PostResult
  \/ Shutdown
  \/ Recover

Heartbeat == CopyLatest \/ HeartbeatArrives

CloudTime == \E j \in Jobs : LeaseTimesOut(j) \/ BackoffEnds(j)

DeploymentNext ==
  AgentStep \/ Heartbeat \/ AgentCrash \/ ClientRequest \/ CloudTime

DeploymentSpec == DeploymentInit /\ [][DeploymentNext]_deploymentVars

(* The runner's loop is always scheduled and time passes.                  *)
DeploymentFairness ==
  /\ WF_deploymentVars(AgentStep)
  /\ \A j \in Jobs : WF_deploymentVars(LeaseTimesOut(j)) /\ WF_deploymentVars(BackoffEnds(j))

----------------------------------------------------------------------------
(* What the accepted result of a job says is what the Agent's log says, and *)
(* "nothing was mutated" is said only of a rollout that never left         *)
(* prepared.                                                               *)
Truthful(j) ==
  IF jobs[j].result.phase = "pre_mutation"
    THEN Recorded(j) => wal[j].error = "cancelled"
    ELSE Terminal(j) /\ wal[j].state = jobs[j].result.state

(* current_state.md promises that a partial mutation cannot be reported as *)
(* the previous known-good still running.  A failed secret delivery does.  *)
TruthfulResult == \A j \in Jobs : Exists(j) /\ Resolved(j) => Truthful(j)

(* Cloud believed a preflight failure that was reported for want of        *)
(* secrets while the log had a record of the rollout.                      *)
Misled(j) ==
  /\ j \in unread
  /\ Exists(j)
  /\ Resolved(j)
  /\ jobs[j].result.phase = "pre_mutation"

(* executeRollout and CompleteDeployment: that is the only way to an       *)
(* untruthful result.  Through lost calls, lapsed leases, crashes and      *)
(* redelivery every other accepted result is what the log says.            *)
TruthfulUnlessUnread ==
  \A j \in Jobs : Exists(j) /\ Resolved(j) => Truthful(j) \/ Misled(j)

(* LatestKnownGood and BeginRollout: Cloud's reference and the Agent's     *)
(* pointer agree whenever no rollout of the target is unresolved, so the   *)
(* deployment created next will not be refused as stale.  A target is      *)
(* excepted once a failed secret delivery misled Cloud about one of its    *)
(* rollouts: the Agent may still drive that rollout to its end, as         *)
(* TruthfulResult shows, and the pointer goes where Cloud does not follow. *)
KnownGoodAgrees ==
  \A t \in Targets \ PreviewTargets :
    \/ \E j \in Jobs : OwnsService(j) /\ Mutating(j) /\ jobs[j].intent.target = t
    \/ \E j \in Jobs : Misled(j) /\ jobs[j].intent.target = t
    \/ LatestKnownGood(t, Node) = current[t]

(* Cloud's view of a running rollout lags the log but never leads it: the  *)
(* progress it accepted is a state the rollout has been through, whatever  *)
(* reports were lost, re-sent by the heartbeat or overtaken.               *)
CloudNeverAhead ==
  \A j \in Jobs : Exists(j) /\ ~Resolved(j) =>
    IF Recorded(j) THEN CanCompleteRollout(jobs[j].rstate, wal[j].state)
                   ELSE jobs[j].rstate = "prepared"

(* A factual result is being posted under a live lease.                    *)
Posting ==
  /\ run.pc = "report"
  /\ HoldsLease(run.job, run.token)
  /\ run.result.phase = "pre_mutation" /\ Recorded(run.job) =>
       wal[run.job].error = "cancelled"

(* However many progress reports were lost, a rollout that ended well can  *)
(* be reported: validateRolloutResult accepts it from any earlier state.   *)
GoodResultIsAccepted ==
  Posting /\ run.result.state \in {"succeeded", "rolled_back", "cleaned"} =>
    Accepts(run.job, run.token, run.result)
=============================================================================
