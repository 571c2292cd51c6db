------------------------ MODULE DeploymentRegistry ------------------------
(***************************************************************************)
(* Cloud's deployment queue (cloud/internal/registry, PostgresService):    *)
(* durable jobs leased to Agents, one lock row per service, and the        *)
(* terminal results from which the next deployment's known-good reference  *)
(* is read.  Each action is one transaction of the store, except the start *)
(* of a deployment, whose transaction reads the known-good reference       *)
(* before it waits for the service lock and so takes two steps.            *)
(***************************************************************************)
EXTENDS RolloutProtocol

CONSTANTS
  Services,          \* service ids: the keys of service_deployment_locks
  ServiceOf,         \* the service a runtime target belongs to
  Nodes,             \* (node, Agent) pairs a job can be bound to
  MaxAttempts,       \* defaultDeploymentMaxAttempts (3 in the code)
  AttemptBound,      \* bound: leases of one job in one behaviour
  CleanupRequests,   \* which cleanup operations clients ask for
  MaxRetired         \* bound: nodes an operator marks offline

ASSUME RegistryAssumption ==
  /\ ServiceOf \in [Targets -> Services]
  /\ None \notin Nodes
  /\ MaxAttempts \in Nat \ {0}
  /\ AttemptBound \in Nat
  /\ CleanupRequests \subseteq CleanupOperations
  /\ MaxRetired \in Nat

VARIABLES
  jobs,      \* table deployment_jobs, None before insertDeployment
  lock,      \* table service_deployment_locks: the holder of each service
  drafts,    \* deployments being created: known-good read, lock not yet held
  retired,   \* nodes under OPERATOR_CONFIRMED_TARGET_RESET, agent revoked
  tick       \* the next finished_at stamp

registryVars == <<jobs, lock, drafts, retired, tick>>

JobStatus == RolloutStates \cup {"queued", "leased", "cancelled"}

(* What a terminal report says: its state, the phase of its failure, the   *)
(* known-good it claims to run and whether every resource has an identity. *)
Results ==
  [state: RolloutStates, phase: {"none", "pre_mutation", "post_mutation"},
   known: KnownGoodRefs, materialized: BOOLEAN]

(* A lease token is fresh for every lease, so the attempt it was issued    *)
(* for identifies it.                                                      *)
JobRecords ==
  [intent: Intents, node: Nodes, status: JobStatus, rstate: RolloutStates,
   result: Results \cup {None}, attempts: Nat, max: Nat,
   lease: {"none", "live", "expired"}, backoff: BOOLEAN, exhausted: BOOLEAN,
   doneAt: Nat]

Drafts ==
  [target: Targets, node: Nodes, previous: KnownGoodRefs]

(* The empty reference stands for a missing row as well.                   *)
ASSUME RowAssumption ==
  None \notin Results /\ None \notin JobRecords /\ None \notin Drafts

----------------------------------------------------------------------------
Exists(j)   == jobs[j] # None
Service(j)  == ServiceOf[jobs[j].intent.target]
Resolved(j) == jobs[j].result # None

SafelyCancelled(j) ==
  /\ jobs[j].status = "cancelled"
  /\ jobs[j].attempts = 0
  /\ jobs[j].rstate = "prepared"

(* canonicalDeploymentOwnsService: an unresolved rollout keeps its service *)
(* whatever became of its lease, unless its target was reset.              *)
OwnsService(j) ==
  /\ Exists(j)
  /\ ~Resolved(j)
  /\ ~SafelyCancelled(j)
  /\ jobs[j].node \notin retired

(* Faulty variant: a job whose lease lapsed no longer owns its service.    *)
ServiceIsFreeOfLeases(s, j) ==
  \A k \in Jobs \ {j} :
    OwnsService(k) /\ jobs[k].lease = "live" => Service(k) # s

(* acquireDeploymentLock, under the advisory lock of the service.          *)
ServiceIsFree(s, j) ==
  \A k \in Jobs \ {j} : OwnsService(k) => Service(k) # s

(* Faulty variant: the row is deleted whoever holds it.                    *)
ReleaseAnyHolder(s, j) == [lock EXCEPT ![s] = None]

Release(s, j) == [lock EXCEPT ![s] = IF @ = j THEN None ELSE @]

(* Faulty variant: a completed rollback leaves no known-good reference.    *)
SucceededCandidates(t, n) ==
  {j \in Jobs :
     /\ t \notin PreviewTargets
     /\ Exists(j)
     /\ Resolved(j)
     /\ jobs[j].intent.target = t
     /\ jobs[j].node = n
     /\ jobs[j].result.state = "succeeded"}

(* latestPostgresKnownGood: the newest succeeded or rolled-back result of  *)
(* the target on this node; a preview never counts.                        *)
KnownGoodCandidates(t, n) ==
  {j \in Jobs :
     /\ t \notin PreviewTargets
     /\ Exists(j)
     /\ Resolved(j)
     /\ jobs[j].intent.target = t
     /\ jobs[j].node = n
     /\ jobs[j].result.state \in {"succeeded", "rolled_back"}}

(* Faulty variant: the oldest result instead of the newest.                *)
OldestKnownGood(t, n) ==
  LET candidates == KnownGoodCandidates(t, n)
  IN  IF candidates = {}
        THEN None
        ELSE jobs[CHOOSE j \in candidates :
                    \A k \in candidates : jobs[j].doneAt <= jobs[k].doneAt].result.known

LatestKnownGood(t, n) ==
  LET candidates == KnownGoodCandidates(t, n)
  IN  IF candidates = {}
        THEN None
        ELSE jobs[CHOOSE j \in candidates :
                    \A k \in candidates : jobs[k].doneAt <= jobs[j].doneAt].result.known

----------------------------------------------------------------------------
(* Job creation.                                                           *)
NewJob(i, n) ==
  [intent |-> i, node |-> n, status |-> "queued", rstate |-> "prepared",
   result |-> None, attempts |-> 0, max |-> MaxAttempts, lease |-> "none",
   backoff |-> FALSE, exhausted |-> FALSE, doneAt |-> 0]

Insert(j, i, n) == jobs' = [jobs EXCEPT ![j] = NewJob(i, n)]

(* StartImmutableDeployment until it waits for the service lock.           *)
ReadKnownGood(j, t, n) ==
  /\ ~Exists(j)
  /\ drafts[j] = None
  /\ n \notin retired
  /\ drafts' = [drafts EXCEPT ![j] =
                  [target |-> t, node |-> n, previous |-> LatestKnownGood(t, n)]]
  /\ UNCHANGED <<jobs, lock, retired, tick>>

(* ... and from there to its commit, or to its rollback when the service   *)
(* is owned or the target is gone.                                         *)
StartImmutableDeployment(j) ==
  /\ drafts[j] # None
  /\ LET d == drafts[j]
         s == ServiceOf[d.target]
         i == [op |-> "apply", target |-> d.target, previous |-> d.previous,
               expected |-> None]
     IN  IF ServiceIsFree(s, j) /\ d.node \notin retired
           THEN Insert(j, i, d.node) /\ lock' = [lock EXCEPT ![s] = j]
           ELSE UNCHANGED <<jobs, lock>>
  /\ drafts' = [drafts EXCEPT ![j] = None]
  /\ UNCHANGED <<retired, tick>>

RollbackEligible(j) ==
  /\ Exists(j)
  /\ Resolved(j)
  /\ jobs[j].result.state = "succeeded"
  /\ jobs[j].result.known # None
  /\ jobs[j].intent.previous # None

RollbackDeployment(j, source) ==
  /\ ~Exists(j)
  /\ drafts[j] = None
  /\ RollbackEligible(source)
  /\ ServiceIsFree(Service(source), j)
  /\ Insert(j, [op |-> "rollback", target |-> jobs[source].intent.target,
                previous |-> jobs[source].intent.previous,
                expected |-> jobs[source].result.known],
            jobs[source].node)
  /\ lock' = [lock EXCEPT ![Service(source)] = j]
  /\ UNCHANGED <<drafts, retired, tick>>

(* StartPreviewCleanup and StartFirstDeployCleanup insert the job without  *)
(* taking the lock and whether or not the base deployment is resolved.     *)
CleanupAllowed(base, op) ==
  LET b == jobs[base]
  IN  IF op = "preview_cleanup"
        THEN b.intent.target \in PreviewTargets
        ELSE /\ b.intent.target \notin PreviewTargets
             /\ b.intent.previous = None
             /\ Resolved(base) => b.result.known = None

StartCleanupJob(j, base, op) ==
  /\ op \in CleanupRequests
  /\ ~Exists(j)
  /\ drafts[j] = None
  /\ Exists(base)
  /\ CleanupAllowed(base, op)
  /\ Insert(j, [op |-> op, target |-> jobs[base].intent.target,
                previous |-> None, expected |-> None],
            jobs[base].node)
  /\ UNCHANGED <<lock, drafts, retired, tick>>

----------------------------------------------------------------------------
(* Leases.                                                                 *)
LeaseActive(j) ==
  jobs[j].status \in {"leased", "applying", "prepared", "waiting", "failed", "rolling_back"}

LeaseLapsed(j) == Exists(j) /\ jobs[j].lease = "expired" /\ LeaseActive(j)

(* expireDeploymentLeases renews the lock row of each lapsed job; a row    *)
(* held by another job fails the transaction it runs in, the poll.         *)
ExpiryBlocked ==
  \E j \in Jobs :
    /\ LeaseLapsed(j)
    /\ \/ lock[Service(j)] \notin {None, j}
       \/ \E k \in Jobs \ {j} : LeaseLapsed(k) /\ Service(k) = Service(j)

(* Faulty variants: exhausted jobs get the status of the retired legacy    *)
(* mode; the attempt window is not enforced.                               *)
AfterExpiryDeadLetter(j) ==
  IF LeaseLapsed(j)
    THEN [jobs[j] EXCEPT !.status = "dead_letter", !.lease = "none"]
    ELSE jobs[j]

AfterExpiryWithoutWindow(j) ==
  IF LeaseLapsed(j)
    THEN [jobs[j] EXCEPT !.status = "queued", !.lease = "none", !.backoff = TRUE]
    ELSE jobs[j]

AfterExpiry(j) ==
  IF ~LeaseLapsed(j)
    THEN jobs[j]
    ELSE IF jobs[j].attempts >= jobs[j].max
           THEN [jobs[j] EXCEPT !.status = "failed", !.lease = "none",
                                !.backoff = FALSE, !.exhausted = TRUE]
           ELSE [jobs[j] EXCEPT !.lease = "none", !.backoff = TRUE,
                   !.status = IF jobs[j].intent.op = "rollback" THEN "rolling_back" ELSE "queued"]

(* Faulty variant: a lapsed lease gives its lock row back.                 *)
LocksReleasedByExpiry ==
  [s \in Services |->
     IF \E j \in Jobs : LeaseLapsed(j) /\ Service(j) = s THEN None ELSE lock[s]]

LocksAfterExpiry ==
  [s \in Services |->
     IF \E j \in Jobs : LeaseLapsed(j) /\ Service(j) = s
       THEN CHOOSE j \in Jobs : LeaseLapsed(j) /\ Service(j) = s
       ELSE lock[s]]

(* Faulty variant: a job that reported failed is up for the next poll.     *)
LeasableAfterFailure(n) ==
  {j \in Jobs :
     /\ Exists(j)
     /\ jobs[j].node = n
     /\ ~Resolved(j)
     /\ AfterExpiry(j).status \in {"queued", "rolling_back", "failed"}
     /\ ~AfterExpiry(j).backoff}

(* LeaseDeployment's queue: no test of the lease, the attempt window or    *)
(* the lock row.                                                           *)
Leasable(n) ==
  {j \in Jobs :
     /\ Exists(j)
     /\ jobs[j].node = n
     /\ AfterExpiry(j).status \in {"queued", "rolling_back"}
     /\ ~AfterExpiry(j).backoff}

(* The oldest of them, but FOR UPDATE SKIP LOCKED passes over rows another *)
(* transaction has locked, so it may be any.                               *)
LeaseDeployment(n, j) ==
  /\ n \notin retired
  /\ ~ExpiryBlocked
  /\ j \in Leasable(n)
  /\ jobs[j].attempts < AttemptBound
  /\ jobs' = [k \in Jobs |->
                IF k = j
                  THEN [AfterExpiry(j) EXCEPT !.status = "leased", !.lease = "live",
                                              !.attempts = @ + 1, !.backoff = FALSE]
                  ELSE AfterExpiry(k)]
  /\ lock' = LocksAfterExpiry
  /\ UNCHANGED <<drafts, retired, tick>>

(* A poll that only expires leases: no row is leasable, or all are locked. *)
ExpireDeploymentLeases(n) ==
  /\ n \notin retired
  /\ ~ExpiryBlocked
  /\ \E j \in Jobs : LeaseLapsed(j)
  /\ jobs' = [j \in Jobs |-> AfterExpiry(j)]
  /\ lock' = LocksAfterExpiry
  /\ UNCHANGED <<drafts, retired, tick>>

(* Time.                                                                   *)
LeaseElapses(j) ==
  /\ Exists(j)
  /\ jobs[j].lease = "live"
  /\ jobs' = [jobs EXCEPT ![j].lease = "expired"]
  /\ UNCHANGED <<lock, drafts, retired, tick>>

BackoffPasses(j) ==
  /\ Exists(j)
  /\ jobs[j].backoff
  /\ jobs' = [jobs EXCEPT ![j].backoff = FALSE]
  /\ UNCHANGED <<lock, drafts, retired, tick>>

----------------------------------------------------------------------------
(* Reports.                                                                *)
HoldsLease(j, token) ==
  /\ Exists(j)
  /\ ~Resolved(j)
  /\ jobs[j].lease = "live"
  /\ jobs[j].attempts = token

ValidProgress(j, state, materialized) ==
  /\ materialized \/ state \in {"prepared", "applying"}
  /\ state = jobs[j].rstate \/ CanTransitionRollout(jobs[j].rstate, state)

ProgressImmutableDeployment(j, token, state, materialized) ==
  /\ HoldsLease(j, token)
  /\ ValidProgress(j, state, materialized)
  /\ jobs' = [jobs EXCEPT ![j].rstate = state,
                ![j].status = IF IsTerminalRolloutState(state) THEN @ ELSE state]
  /\ UNCHANGED <<lock, drafts, retired, tick>>

ValidResult(j, r) ==
  LET i == jobs[j].intent
  IN  /\ r.materialized
      /\ CanCompleteRollout(jobs[j].rstate, r.state)
      /\ \/ r.state = "succeeded" /\ r.phase = "none" /\ r.known # None
         \/ /\ r.state = "cleaned"
            /\ i.op \in CleanupOperations /\ r.phase = "none" /\ r.known = None
         \/ /\ r.state = "rolled_back"
            /\ r.known = i.previous /\ r.known # None /\ r.phase # "pre_mutation"
         \/ r.state = "rollback_failed" /\ r.phase = "post_mutation" /\ r.known = None
         \/ /\ r.state = "failed" /\ r.phase = "pre_mutation"
            /\ ~RolloutMutationObserved(jobs[j].rstate) /\ r.known = i.previous
         \/ /\ r.state = "failed" /\ r.phase = "post_mutation"
            /\ RolloutMutationObserved(jobs[j].rstate)
            /\ i.previous = None /\ r.known = None

CompleteDeployment(j, token, r) ==
  /\ HoldsLease(j, token)
  /\ LeaseActive(j)
  /\ ValidResult(j, r)
  /\ jobs' = [jobs EXCEPT ![j] =
                [@ EXCEPT !.status = r.state, !.rstate = r.state, !.result = r,
                          !.lease = "none", !.backoff = FALSE,
                          !.exhausted = FALSE, !.doneAt = tick]]
  /\ tick' = tick + 1
  /\ lock' = Release(Service(j), j)
  /\ UNCHANGED <<drafts, retired>>

----------------------------------------------------------------------------
(* Operator requests.                                                      *)
(* Faulty variant: any queued job may be cancelled, a requeued one too.    *)
CancelAnyQueued(j) ==
  /\ Exists(j)
  /\ ~Resolved(j)
  /\ jobs[j].status = "queued"
  /\ jobs' = [jobs EXCEPT ![j].status = "cancelled", ![j].lease = "none",
                          ![j].backoff = FALSE]
  /\ lock' = Release(Service(j), j)
  /\ UNCHANGED <<drafts, retired, tick>>

CancelDeployment(j) ==
  /\ Exists(j)
  /\ ~Resolved(j)
  /\ jobs[j].status = "queued"
  /\ jobs[j].attempts = 0
  /\ jobs[j].rstate = "prepared"
  /\ jobs' = [jobs EXCEPT ![j].status = "cancelled", ![j].lease = "none",
                          ![j].backoff = FALSE]
  /\ lock' = Release(Service(j), j)
  /\ UNCHANGED <<drafts, retired, tick>>

(* Faulty variant: a job that failed may be retried in place.              *)
RetryAnyFailure(j) ==
  /\ Exists(j)
  /\ jobs[j].status = "failed"
  /\ ServiceIsFree(Service(j), j)
  /\ jobs[j].attempts + MaxAttempts <= AttemptBound
  /\ jobs' = [jobs EXCEPT ![j].status = "queued", ![j].lease = "none",
                ![j].max = jobs[j].attempts + MaxAttempts]
  /\ lock' = [lock EXCEPT ![Service(j)] = j]
  /\ UNCHANGED <<drafts, retired, tick>>

RetryDeployment(j) ==
  /\ Exists(j)
  /\ jobs[j].node \notin retired
  /\ jobs[j].status = "failed"
  /\ ~Resolved(j)
  /\ jobs[j].exhausted
  /\ ServiceIsFree(Service(j), j)
  /\ jobs[j].attempts + MaxAttempts <= AttemptBound
  /\ jobs' = [jobs EXCEPT ![j].status = "queued", ![j].lease = "none",
                ![j].backoff = FALSE, ![j].exhausted = FALSE,
                ![j].max = jobs[j].attempts + MaxAttempts]
  /\ lock' = [lock EXCEPT ![Service(j)] = j]
  /\ UNCHANGED <<drafts, retired, tick>>

MarkNodeOffline(n) ==
  /\ n \notin retired
  /\ Cardinality(retired) < MaxRetired
  /\ retired' = retired \cup {n}
  /\ UNCHANGED <<jobs, lock, drafts, tick>>

----------------------------------------------------------------------------
RegistryInit ==
  /\ jobs = [j \in Jobs |-> None]
  /\ lock = [s \in Services |-> None]
  /\ drafts = [j \in Jobs |-> None]
  /\ retired = {}
  /\ tick = 1

(* What clients and operators ask of Cloud.                                *)
Request ==
  \/ \E j \in Jobs, t \in Targets, n \in Nodes : ReadKnownGood(j, t, n)
  \/ \E j \in Jobs : StartImmutableDeployment(j)
  \/ \E j, source \in Jobs : RollbackDeployment(j, source)
  \/ \E j, base \in Jobs, op \in CleanupOperations : StartCleanupJob(j, base, op)
  \/ \E j \in Jobs : CancelDeployment(j)
  \/ \E j \in Jobs : RetryDeployment(j)
  \/ \E n \in Nodes : MarkNodeOffline(n)

TimePasses == \E j \in Jobs : LeaseElapses(j) \/ BackoffPasses(j)

Poll == \E n \in Nodes :
          \/ \E j \in Jobs : LeaseDeployment(n, j)
          \/ ExpireDeploymentLeases(n)

(* The registry on its own: an Agent may report any state at any time,     *)
(* with the token of any attempt.  The snapshots it names are the job's    *)
(* own and the previous one.                                               *)
ReportableResults(j) ==
  {r \in Results : r.known \in {None, j, jobs[j].intent.previous}}

Report ==
  \E j \in Jobs, token \in 1..AttemptBound :
    /\ HoldsLease(j, token)
    /\ \/ \E state \in RolloutStates, m \in BOOLEAN :
            ProgressImmutableDeployment(j, token, state, m)
       \/ \E r \in ReportableResults(j) : CompleteDeployment(j, token, r)

RegistryNext == Request \/ TimePasses \/ Poll \/ Report

RegistrySpec == RegistryInit /\ [][RegistryNext]_registryVars

----------------------------------------------------------------------------
(* Types of the tables.                                                    *)
RegistryTypeOK ==
  /\ jobs \in [Jobs -> JobRecords \cup {None}]
  /\ lock \in [Services -> KnownGoodRefs]
  /\ drafts \in [Jobs -> Drafts \cup {None}]
  /\ retired \subseteq Nodes
  /\ tick \in Nat \ {0}

Mutating(j) == jobs[j].intent.op \notin CleanupOperations

(* acquireDeploymentLock: at any time one unresolved rollout at most may   *)
(* change a service, across lease expiry, exhausted attempts, cancels,     *)
(* retries in place and the reset of a target, whose old rollout stays     *)
(* unresolved while the replacement runs on another node.                  *)
SoleOwner ==
  \A j, k \in Jobs :
    /\ OwnsService(j) /\ Mutating(j)
    /\ OwnsService(k) /\ Mutating(k)
    /\ Service(j) = Service(k)
    => j = k

(* The lock row and the jobs agree: the rollout that owns a service holds  *)
(* its row in service_deployment_locks, so renewing a lapsed lease never   *)
(* finds the row of the owner taken away.                                  *)
OwnerHoldsRow ==
  \A j \in Jobs : OwnsService(j) /\ Mutating(j) => lock[Service(j)] = j

(* CancelDeployment is safe: a cancelled job was never handed to an Agent  *)
(* and never will be, so nothing it asked for can reach a cluster.         *)
CancelledNeverRuns ==
  \A j \in Jobs : Exists(j) /\ jobs[j].status = "cancelled" =>
    jobs[j].attempts = 0 /\ jobs[j].lease = "none" /\ ~Resolved(j)

(* No poll fails on the lock row of a lapsed lease (expireDeploymentLeases *)
(* would return DEPLOYMENT_LOCKED to every Agent of the project).          *)
ExpiryNeverBlocked == ~ExpiryBlocked

(* The terminal result is final: once accepted, no late report, poll,      *)
(* lease expiry, retry or cancellation changes anything of the job.        *)
TerminalResultIsFinal ==
  [][\A j \in Jobs : Exists(j) /\ Resolved(j) => jobs'[j] = jobs[j]]_registryVars

(* No poll hands out a job whose lease is live, so at most one Agent loop  *)
(* works on it: the attempt count moves only while no lease is live or the *)
(* job reported rolling_back, a status the queue leases in any case.       *)
NoLeaseTheft ==
  [][\A j \in Jobs :
       /\ Exists(j)
       /\ jobs[j].lease = "live"
       /\ jobs[j].status # "rolling_back"
       => jobs'[j].attempts = jobs[j].attempts]_registryVars

(* No job is forgotten: whatever Agents report or fail to report, a job    *)
(* leaves the queue, resolved, cancelled or out of attempts.               *)
Settled(j) ==
  Resolved(j) \/ jobs[j].exhausted \/ jobs[j].status = "cancelled"

EveryJobSettles ==
  \A j \in Jobs : Exists(j) ~> (Exists(j) /\ Settled(j))
=============================================================================
