# Opsi in TLA+

Opsi builds applications from GitHub and deploys them to customers' clusters.
**Cloud** (a Go service over PostgreSQL) keeps the queues and the records; an
**Agent** on each customer node polls it, drives Kubernetes and reports back; the
**CLI**, the UI and the MCP server are clients. This directory models what Cloud
and Agents do to durable state: the parts of the system where leases, crashes,
lost messages, concurrent requests and rollbacks meet.

## 1. Inventory

| Component | State | Operations | Interacts with | Module |
|---|---|---|---|---|
| rollout protocol (`contracts/go/deploymentv1`) | none | canonical intents, transition relation, completion and mutation predicates | used by Cloud and Agent | `RolloutProtocol` |
| rollout engine (`agent/internal/deploy`) | SQLite: rollouts (a write-ahead log), known-good snapshots, one pointer per runtime target; the cluster | reconcile, resume, roll back, clean up, repair at open, recover at start | called by the runner; changes Kubernetes | `RolloutEngine` |
| runner (`agent/internal/cloudrunner`) | the lease in hand, latest progress (volatile) | poll, deliver secrets, call the engine, progress callback, heartbeat, post result | Cloud over HTTP, engine by call | `Deployment` |
| deployment registry (`cloud/internal/registry`) | PostgreSQL: jobs, service lock rows, nodes, agents | start, rollback, cleanup, lease, expire, progress, complete, cancel, retry, target reset | relay server, workflow | `DeploymentRegistry` |
| relay server (`cloud/internal/webhookrelay`) | none of its own | HTTP handlers, preview expiry | registry, Agents, clients | `DeploymentRegistry`, `Deployment` |
| deployment workflow (`deploymentworkflow`, `webhookrelay`) | a run with its plan, refs and lease | analyze, edit, approve, cancel, execute a step, compensate | registry, build jobs | `DeploymentWorkflow` |
| build jobs and executor (`buildjob`, `opsi-build-executor`) | jobs, dispatch attempts, immutable records | create, dispatch, claim, complete, cancel | workflow, GitHub Actions | `BuildJobs` |
| managed resources (`resource`, `svcatalog`) | rows, bindings, credentials, retained storage; the workload | create, update, bind, delete, lease, apply, complete, destroy | Agents, configuration | `ManagedResources` |
| backup and restore (`backup`, `restore`) | operation rows, reviews; object store, databases | create, review, lease, dump, upload, inspect, load, complete | resources, Agents | `Backups` |
| cutover (`cutover`) | reviews, cutovers, rollbacks, finalizations | review, apply, roll back, finalize | configuration, registry, Agents | `Cutover` |
| action plane, device approval (`actionplane`, `actiondevice`, CLI) | proposals, grants, an execution ledger, target locks, devices | preflight, approve, execute, recover | CLI, Agent, Kubernetes | `ActionPlane` |
| nodes and their lifecycle (`registry`, `nodelifecycle`) | nodes, Agent rows, lifecycle jobs | register, rotate, revoke, heartbeat, drain, remove | Agents, kubectl | `NodeLifecycle` |
| workload secrets and one-time codes (`otp`, `secret`) | codes, seeds, secrets | request, verify, reveal, rotate | CLI, Agent | `SecretAccess` |
| service configuration (`registry`, `webhookrelay`) | revisions, proposal reviews, bindings | apply, review, realize, compile | resources, deployments | `ServiceConfiguration` |
| bootstrap (`registry`, `bootstrapworker`) | sessions, credentials, tokens, host keys; the host | lease, checkpoint, retry, register | registry, SSH | `Bootstrap` |
| GitHub source (`webhookrelay`, `registry`) | installations, repositories, claims, bindings, a replay store | webhook, claim, release, bind | GitHub, builds | `GitHubSource` |
| authentication (`webhookrelay`, `registry`, CLI) | identities, memberships, PATs, logins under way; the keychain | log in, redeem, rotate, log out | GitHub, CLI | `Access` |
| verification caches (`githuboidc`, `auth`, `githubapp`) | keys, PATs and tokens believed for a while | verify, refresh | GitHub, Cloud | `Verification` |
| policy, topology, hostname, source analysis, agent server, telemetry, incidents, CLI/UI/MCP | mostly derived data | pure decisions, I/O, presentation | clients | (none) |

What is hard:

* **crashes** between any two durable writes, and between a write and the
  cluster change it announces;
* **lost requests and replies** in both directions, results posted again,
  progress sent best effort and again by a heartbeat beside the engine;
* **leases** that lapse under running work, so that two attempts overlap;
* **references that age**: state is read, checked, and used after other requests
  came between (known-good snapshots, rows written back whole, checks before an
  insert, bindings listed before a compile);
* **ownership** that must outlive leases and attempts and yet end;
* **compensation** of work that is only partly known;
* **one use only**: codes, grants, webhooks, builds, approvals, restores.

Correctness in one sentence each. Engine: the known-good pointer names a stored,
verified snapshot and, when the last rollout ended well, the one that runs.
Registry: at most one unresolved rollout may change a service, and what is
resolved stays resolved. Deployment: what Cloud records is what the Agent did.
Workflow: what is built and deployed is what was approved, and a finished run
says the truth for ever. Builds: a record is earned by one succeeded job.
Resources: "ready" is about the spec in the row, logins follow bindings, a volume
dies only by request. Copies: what is restored is what was backed up, once.
Cutover: it replaces the configuration that was reviewed. Actions: an approval
mutates once, under its lock. Nodes: removed is gone and locked out. Secrets: a
code works once and an answered rotation runs. Configuration: a review or key
changes it once, and no application is given another's binding. Bootstrap: what
a session says of its host is so. GitHub: each delivery applies once. Access: a
login ends in one PAT, and the keychain's PAT works.

## 2. Modules

```
RolloutProtocol             shared vocabulary, no state
  |- RolloutEngine          the Agent's store, engine and cluster
  |    |- KnownGood         what the pointer promises (abstract, refined)
  |    `- MCRolloutEngine, RolloutEngine_proofs, KnownGood_proofs
  |- DeploymentRegistry     Cloud's queue and lock rows
  |    `- MCDeploymentRegistry, DeploymentRegistry_proofs
  `- Deployment             engine + registry + runner + network
       `- MCDeployment, MCDeploymentLive, Deployment_proofs
MCDelivery                  DeploymentWorkflow | BuildJobs | Verification
  `- DeploymentWorkflow_proofs, Delivery_proofs
MCAgentWork                 ManagedResources | Backups | Cutover | ActionPlane
  |                         | NodeLifecycle (parts nodes and servers) | SecretAccess
  `- AgentWork_proofs
MCControlPlane              ServiceConfiguration | Bootstrap (parts one session
  |                         | and two sessions) | GitHubSource | Access
  `- ControlPlane_proofs
```

The modules below a `|` share no state in the models: each stands for its
component with its neighbours reduced to what they answer. They are put side by
side as *parts*: the variable `part` says which of them moves in a behaviour, the
variables of the others keep the value `Unused`, and each property is conditional
on its part. The states of a run are the sum of those of its parts, not the
product, and a theorem about the composed specification is one about the part.
In these compositions a property includes the types of the rows it speaks of.

### RolloutProtocol
`rollout.go`. A job's id determines its rollout's id, and the snapshot a success
leaves is named after the rollout; one element of `Jobs` stands for all three.
`AllowedTransitions` is the `switch` of `CanTransitionRollout`;
`CanCompleteRollout` is its reachability: `Descendants(s)` is the least set that
contains `s` and is `Closed` under the relation.

### RolloutEngine
| Variable | Code |
|---|---|
| `wal` | table `rollouts`: intent, state, `terminal_at`, last error, whether all observed resources have identities |
| `snapshots`, `current` | tables `known_good_snapshots`, `known_good_current` |
| `runtime` | what the cluster runs per target: a snapshot, nothing, or `Partial` |
| `clock` | order of `terminal_at` / `verified_at` stamps |
| `eng` | where the engine's goroutine is (volatile), and the open repair transaction |
| `faults` | crashes and store errors so far (bound) |

One action is one store transaction or one visible change of the cluster.
`ReconcileRollout` is the entry of both deployments and cleanups: refuse (id
conflict, target busy, stale reference), fail preflight, begin, or resume.
`StartApply` ... `RecordCleaned` are the branches of `resumeRollout`,
`resumeRollback` and `resumeCleanup` in their order. `MutateSome` is the loop
over objects in `ApplyRollout` stopping half way. `OpenStore`, `RepairPointer`,
`StartPending` are `OpenSQLiteStore` with `reconcileHistoricalRollbacks` (one
record of its scan per step, committed at the end) and `ReconcilePending`.
`RollbackTimesOut` is the readiness deadline of a rollback, whose expired context
is also the one `rollbackFailed` writes with.

Run on its own (`EngineSpec`), the engine is handed any intent of the shape Cloud
issues, in any order, stale or repeated, with colliding ids. The shape includes
that an explicit rollback carries the references of the deployment it undoes
(`IssuedByCloud`); the composition produces them from `RollbackDeployment` instead.

### KnownGood
The abstract specification of the pointer: a target has a chain of snapshots,
`Deploy` puts one on top of the good one, `Undo` goes one step down. No log, no
cluster, no crash. `RolloutEngine` refines it (`ImplementsKnownGood`) with the
pointer table as `good`, the succeeded rollouts as `promoted` and the previous
reference of each as `below`.

### DeploymentRegistry
| Variable | Code |
|---|---|
| `jobs` | table `deployment_jobs`: intent, node, status, rollout state, terminal result, attempts and window, lease, backoff, exhausted (`MAX_ATTEMPTS`), created/finished order |
| `lock` | table `service_deployment_locks` |
| `drafts` | `StartImmutableDeployment` between its read of the known-good and the service lock |
| `retired` | nodes under a confirmed target reset |

The PostgreSQL store is the reference; each action is one transaction, except
`StartImmutableDeployment`, which reads before it blocks on the advisory lock of the
service and is two steps (`ReadKnownGood`, then the rest). A poll is
`expireDeploymentLeases` followed by the selection of `LeaseDeployment`, in one step;
it does nothing at all when `ExpiryBlocked`. Any leasable job may be the one selected:
`FOR UPDATE SKIP LOCKED` passes over older ones that another transaction holds. The
lease token is identified by the attempt it was issued for. On its own
(`RegistrySpec`) the registry faces Agents that report any state and any result the
contract can express.

### Deployment
Extends both and adds the runner: `run` (the lease in hand), `beat` (a heartbeat copy
in flight), `losses`, and a history variable `unread`: the jobs that were reported as
never started for want of secrets while the log had a record of them (`executeRollout`
delivers secrets before it looks at the log). `RunRollout` lets the engine move only
when the progress callback of its last transition has returned (the callback is
synchronous); the heartbeat is asynchronous. `PostResult` has the four outcomes of a
post: accepted (reply lost or not), exact replay, rejected, lost. Recovery (`Recover`)
sends no progress. One node, as in one Agent process (`DeploymentAssumption`).
`MCDeploymentLive` adds `overran`, a history of the rollouts whose rollback outlasted
its deadline.

### DeploymentWorkflow
| Variable | Code |
|---|---|
| `run`, `lease` | the `deployment_runs` row: state, step, revision, plan version, approved plan and commit, facts, references to build and deployment jobs; `lease_owner` |
| `worker` | a controller (`Controller.RunOnce`): idle, executing or saving, with the copy of the run that came with its lease |
| `cancelling` | a cancel request between the jobs it stops and the row it writes |
| `head`, `facts`, `preflight`, `known` | what the steps read elsewhere: the ref's commit, the plan's facts, the preflight, known-good deployments |
| `build`, `deploy` | build and deployment jobs by idempotency key (run, plan, application, attempt) |

`SetAnalysis` ... `Cancel` are the service's requests, `AcquireLease`, `Execute`
and `SaveResult` the controller's. `Execute` is one step of
`deploymentWorkflowExecutor`: it may change the authorities and yields a new copy;
`SaveResult` writes the copy only if the row's revision is still that of the
copy, otherwise `DropResult`. A step that dies after it created jobs leaves them
behind without a reference: that is how rollback and reality can part. `BuildEnds`,
`DeployLeased`, `DeployEnds` are what the authorities do meanwhile. The `Retry` of
a failed run is not reachable: no failure of the executor leaves the run in the
state the request asks for. A cancel, by a person or by a failing step, stops at
the first deployment job it cannot cancel (one an Agent holds, or one that was
leased and queued again); as the loop goes over random ids, any part of the others
may have been stopped by then. `FailFast` and `RollbackKnownGood` are in the plan,
not in the run, so a step may meet either. An analysis that names its scope again
may keep the commit of the run instead of the head. A simplification: the deploy
step meets applications in the order of their numbers, where the code pairs the
plan's deployments with the sorted references.

### BuildJobs
`job` (`build_jobs`), `attempt` (`build_executor_attempts`), `dispatch` (a Cloud
process in `Dispatch`, between its transactions), `runner` (the GitHub Actions
run of an attempt), `source` (the service binding in force), `records`.
`ReserveDispatch`, `DispatchWorkflow`, `CompleteDispatch` are the three parts of a
dispatch, with `RejectDispatch` and `CrashDispatch` beside them; `ClaimDispatch`
... `FailRunner` the runner's calls; `LeaseExpires`, `ExpireUnclaimedDispatch`,
`RunnerStops` the faults.

### Verification
Three caches with a clock of minutes; `kind` says which of them a behaviour is
about, as they share nothing. `keys` is `jwksCache` with its single refresher,
`pats` the Agent's `HTTPAuthVerifier.cache`, `token` and `flight` the installation
token and the shared request for the next one.

### ManagedResources
`row`, `binding`, `secret`, `retained` are Cloud's tables; `cluster` is the
workload's spec, login roles and volume; `request` holds each user request
between its read and its unconditional `Store.Update`; `agent` is the lease the
Agent works on and `report` the completion handler. `Apply` reconciles object,
roles and volume. `CompleteManaged` decides by the row read and the token whether
the report counts; the handler then lists the bindings and writes them one after
the other as it read them (`UpdateReported`), and the row last (`CompleteApply`,
`CompleteDelete`); it may stop in between (`CrashReport`), and requests may change
bindings and row meanwhile. A result whose evidence shows another image makes the
row "degraded".

### Backups
`backup`, `review`, `restore` are Cloud's rows, `object` the object store,
`source` and `target` the databases, `worker` the lease in hand with its result,
`delayed` a report the Agent gave up on that may still arrive. `Dump`, `Upload`,
`Inspect`, `Fetch`, `Load` follow the commands on the node; `Report` is the
completion handler under the lease token. The resources themselves change beside
this: `BeginSourceUpdate`, `BeginTargetUpdate` and `WriteResource` are the two
halves of a user's update.

### Cutover
One row per request (`cutover`, `rollback`, `finalization`) and `call`, how far
the request that owns it has come: `BeginApply`, `CreateCutover`, `ValidateStale`,
`SwitchToTarget`, `DeployTarget`, `RecordCutover`, and the like for the two others.
Each is one transaction, with `CloudStops` possible between any two; a finalization
marks itself revoking, deletes the binding and has the source planned again in
three (`MarkRevoking`, `DeleteBinding`, `PlanSource`). `config` is the
application's configuration, `data` the two resources with their bindings. The
result of a cutover, rollback or finalization is read and written back whole in two
steps (`ReadRow`, `CompleteCutover` and its likes; `posted` holds what was read).
Who posts it is not in this repository, and Cloud takes it from any Agent that may
post for the node; the model assumes that "succeeded" is said only of what did
succeed, and lets "failed" be said of anything.

### ActionPlane
`action` and `lock` are the Agent's SQLite ledger, `device` and `keychain` the two
sides of device approval, `workload` the factual version of a target, `call` the
`Execute` calls under way, `recovery` the recovery pass and `mutations` a history
variable. `Load`, `Replay`, `Expired`, `ResolveDevice`, `Reserve`, `Recheck`,
`Begin`, `Mutate`, `Finish` are the segments of `Execute` between its store
transactions; `CheckRecord` and `CompleteRecord` those of the recovery loop.

### NodeLifecycle
`node`, `agent`, `runtime`, `job` are Cloud's tables (the request for a job is in
`job` before its insert), `beat` a heartbeat between authorization and record,
`runner` the Agent of a node, `cluster` its object in Kubernetes. `CheckRequest`
and `InsertJob`, `AuthorizePoll` and `LeaseNodeLifecycle`, `AuthorizeResult` and
`CompleteNodeLifecycle` are the statement pairs of Cloud; `VerifyPresent` ...
`VerifyRemoved` the kubectl commands, of which a failed one may have had its
effect. A heartbeat that was authorized before a removal writes the node's status
after it, so the property speaks of a node that is stored as removed and, for a
completed removal, of its target. The status of a project is a cache computed
again when read and is left out; the test that a healthy server remains is no
guard, since a request may override it with `force`.

### SecretAccess
`code` and `attempts` are Cloud's one-time codes, `seedMemory` / `seedStored` /
`seedHeld` the authenticator's seed in the Agent's memory, its Kubernetes Secret
and the person's device, `secretStored` / `running` the workload's secret and the
one it started with, `rolling` a restart under way. `VerifyStoredOTP` reads a code
and `MarkUsed` takes it. `RotatePut` stores the new secret, also when it answers
with an error; `RolloutRestart` and `RolloutStatus` are the two commands of the
restart with `PodsRestart`, the cluster's part, between them. `restarts` is the
setting `RolloutRestartOnRotate`, without which nothing is restarted.

### ServiceConfiguration
`log` is every revision of every application, `lock` the row lock, `sent` and
`stored` the idempotency keys, `review` the proposal reviews, `binding` and `down`
resources and their bindings, `runtime` what the last deployment was given, `call`
the requests with what they read. A request is a sequence of statements
(`LockService`, `CommitConfiguration`, ...), and compiling a runtime lists bindings
first and materializes them later.

### Bootstrap
`session`, `vault`, `token`, `node`, `agents`, `trust`, `probe`, `beats` are
Cloud's tables, `worker` the worker processes, `host` the machine. A lease begins
with `Recover`, which ends what lapsed; `StartStep`, `RunStep`, `CheckpointStep`
are one step of the plan around its side effect; `Exchange` and `RegisterAgent`
the new Agent; `FinishBootstrapSessionForLease` the end. Progress is best effort: a
report that fails without the loss of the lease is ignored. A worker may fail
before the first step, at any command, and after the Agent's identity was stored on
the host. A repeated request stores the credential again with a registration
token nobody has been given.

### GitHubSource
`github` and `sent` are GitHub; `replay` and `handler` Cloud's in-memory replay
store and webhook requests; `recorded`, `installation`, `repository`, `link`,
`claim`, `binding` its rows; `flow` the installation claims of people; `applied`
and `answered` histories. `Receive`, `RecordGitHubWebhookEvent`, `CompleteDelivery`
are one webhook. An installation claim takes a snapshot of GitHub when the person
comes back from it and writes that, row by row, later (`ClaimFails` between any
two), beside the webhooks. There is one installation, so the conflict of two
(`ErrGitHubEventConflict`) is left out.

### Access
`identity`, `members`, `owner`, `pat` are rows, `login` the logins in Cloud's
memory, `keychain` and `command` the workstation, `issued` and `givenUp`
histories. A login goes through state, grant and selection token; `RotatePAT`,
`RotateStore`, `RotateRevoke` are one rotation. `opsi login` puts the PAT of its file
into the keychain at any time, whatever is there; a revocation that fails is ignored
by rotation and logout. A PAT that a person brings back after it was replaced counts
as given up by the person.

## 3. Runs

| Run | Question | States |
|---|---|---|
| `RolloutEngine` | do log, pointer and cluster agree over stale and repeated intents, pruning, rollbacks, repair and a crash? | 2.1e5 |
| `DeploymentRegistry` | do ownership, lock rows, leases and results hold whatever Agents report, with cleanups and a target reset? | 5.2e5 |
| `Deployment` | is Cloud's record what the Agent did, with cleanups, secrets that fail, one fault and one loss? | 1.6e6 |
| `DeploymentLive` | does every rollout end, unless its rollback overran, and every job leave the queue? | 1.1e5 |
| `Delivery` | do runs, builds and believed keys say the truth under two controllers, lapsed leases and crashes? | 2.3e6 |
| `AgentWork` | resources, copies, cutover, actions, nodes and secrets, with concurrent requests, lost and late reports, crashes | 2.5e6 |
| `ControlPlane` | configuration, bootstrap, GitHub and logins, with concurrent requests, redelivery and restarts | 1.9e6 |
| five counterexamples | see below | |

**Bounds of the deployment runs.** Four jobs on one target are the least with
which pruning can meet a rollback: two successes fill `KeepLimit = 2`, a third
prunes, a fourth rolls back. Three jobs let an explicit rollback exist at all (its
source needs a predecessor); `ThirdJobFollowsSuccess` admits the third beside two
deployments that succeeded (in the registry, all three on one node and without a
reset), where the interesting cases are. One fault at any step reaches
each crash window; one loss reaches each lost request, reply or lapsed lease, and
the composed run combines the two. `MaxAttempts` is 2 instead of 3,
`AttemptBound` caps leases (the code's window renews for ever), `KeepLimit` is 2
instead of 32. Job ids are a symmetry set in the safety runs: nothing orders or
names them. Job ids are used once, so the registry and the composition stop when
they are used up and do not check deadlock; the engine on its own does. The
registry has two nodes, which are interchangeable: one is reset and the replacement
runs on the other. In the composed runs secrets may fail to be delivered at any
lease. The liveness run has two jobs, no cleanup and no loss, and rollbacks that
may outlast their deadline.

**Bounds of the parts.** They stop when their ids, revisions or faults are used up, so
deadlock is not checked. `Delivery`: one run of two applications with one attempt or
one application with two (`SmallShapes`), two controllers, two plans, one surprise;
two build jobs with two attempts and one rebind; two keys, a belief of one minute and
tokens of three (`TTL`, `Life`, `MaxTime`), one failed request. `AgentWork`: a
resource of either family with one binding, two specs, four leases, six requests, two
of them at once, one fault; one backup and two restores with a late report; two
cutovers, one rollback, one finalization; two actions on one target with two
concurrent calls; the nodes n1 and n2 without accidents or the server n1 with two; two
codes for two calls. `ControlPlane`: two applications with one route and build-time
dependencies on each other, one key and one review; bootstrap either as one session of
two steps under two workers with two attempts and a mishap, or as two sessions of one
host, at work side by side or one after the other, each leased once and without
mishaps, the first over SSH (`HostBounds`); one repository with two deliveries and two
handlers; two GitHub accounts, one login, two commands, three PATs. In each part the
smallest size with two actors in each other's way was taken, and one mishap, which may
come anywhere.

**Fairness** (`DeploymentFairness` in `LiveSpec` of `MCDeploymentLive`, used by every
property with eventualities). Weak fairness of the Agent's loop, which the code runs
until its context ends and systemd restarts; weak fairness of lease expiry and of
backoff, which are clocks. No fairness for clients, operators or the heartbeat. That a
rollout is delivered again after a fault is not assumed: it follows from expiry,
requeueing and polling. It holds for as many faults as the attempt window tolerates;
beyond it an operator's retry is needed, which nobody is obliged to make. Cleanups are
excluded: see `RegistryCleanupWedge`. `EveryRolloutEnds` excepts the rollouts in
`overran`: a rollback whose readiness wait uses up its deadline is written with the
context that has just expired (`agent/internal/deploy/rollout_engine.go:332`), so its
end is not recorded. Its job in Cloud is settled all the same (`EveryJobSettles` has
no exception).

**What the properties say.** `KnownGoodRuns` and `PointerFollowsRuntime` tie the
pointer to the cluster; `CurrentIsVerified` and `PreviousStaysAvailable` to the
snapshots; `OneActivePerTarget` and `TerminalIsImmutable` are the log's;
`ImplementsKnownGood` is the refinement of the abstract chain. `SoleOwner` and
`OwnerHoldsRow` are the service lock, `CancelledNeverRuns`, `TerminalResultIsFinal`
and `NoLeaseTheft` the life of a job. `TruthfulUnlessUnread`, `KnownGoodAgrees`,
`CloudNeverAhead` and `GoodResultIsAccepted` relate Cloud to Agent. A job that failed
for its secrets while the Agent had a record of it (`Misled`) is the one exception of
the first two; `TruthfulResult`, without the exception, is what the documents promise
and is refuted below. `RunDeploysWhatWasApproved` says the jobs of a run belong to the
approved plan and commit, `RunEndsTruthfully` that a succeeded run has deployed every
application and that a rolled back run has returned those jobs it refers to that
replaced a known good; it promises nothing of the jobs of a failed run.
`RunsStayFinished` says that no late controller brings a finished run back.
`BootstrapIsFactual` ties the identity a host carries to its completed session only if
no other session registered an Agent: of two that are installed side by side the later
identity stays. The properties of the other parts are the sentences of section 1. Each
has a faulty variant of the code, kept beside the definition it changes, that breaks
it.

### Where code and documents disagree
Five runs end in a counterexample; `PROJECT.json` quotes the text each refutes.

* `DeploymentSecretsRetry`: a re-leased job fails at secret delivery and is
  reported as pre-mutation although its rollout mutated.
* `RegistryCleanupWedge`: the lapsed lease of a cleanup, which holds no lock,
  makes every poll of the project fail.
* `CutoverFinalizeRace`: a rollback that passed its checks before the finalization
  began switches the application back to the binding the finalization revokes.
* `ActionRejectedAfterMutation`: an executing action that is retried after its
  challenge expired ends as rejected although it mutated.
* `DeliveryRollbackGap`: three applications; the step that deployed them loses its
  result, the middle one fails, and the step that resumes rolls back only the jobs
  it has met: the last application stays on what it deployed although the run ends
  as rolled back. One controller and known-good deployments for the first and third
  are enough (`ThreeApps`, `BuiltAtOnce` shorten the way). It is the case in which
  `FinishedRunIsTrue`, about the jobs a run *refers to*, holds and
  `RolledBackIsRestored`, about all jobs, does not.

Seen while modelling, without a run of their own: with a target reset
`ExpiryNeverBlocked` fails without cleanups too (the reset job lapses after its
replacement took the row); a job that reports `rolling_back` is leased again under
its live lease and past its attempt window (the exemption in `NoLeaseTheft`); a
failed result whose resources were never created is not accepted on any attempt; a
rollback that waits until its deadline is never recorded as failed; the cleanup
step of a run waits for a job to be "succeeded" while finished cleanups are
"cleaned"; a bootstrap session run by a command that comes to `retry_wait` is
never selected by the queue (`cloud/internal/registry/postgres.go:1047`); two sessions of
one host that both pass the test for an active one, made before the transaction that
inserts them (`cloud/internal/registry/postgres.go:805`), can be installed side by
side by two workers, and the later registration then replaces the identity of a
completed one (`cloud/internal/bootstrapworker/install_assets.go:633`); and the
apply of dependencies drops the error of its configuration write
(`cloud/internal/webhookrelay/registry_api.go:1180`), so that a dependency can be
answered as realized although its link
(`docs/application_dependency_contract.md:26`) was not stored (no property is about
that link: what is applied is still what was reviewed).

## 4. Proofs

For every value of the constants: any finite set of jobs, any targets, sessions,
callers and bounds. The assumptions are named in the modules that declare the
constants: `ProtocolAssumption`, `EngineAssumption`, `WalAssumption`,
`RegistryAssumption`, `RowAssumption` (finitely many jobs, distinct model values,
`KeepLimit >= 1`), `DeploymentAssumption` (one Agent), `WorkflowAssumption` (bounds
are numbers, plans are within them), `DeliveryAssumption` (a token lives longer than
the minute it is given up before its end), `ControlPlaneAssumption` ("none" is
nobody's name, keys and reviews are told apart, callers and sessions are finitely many
and sessions numbered, the host has a key, bounds are numbers), `AgentWorkAssumption`
("none", "free" and "server", which stand for nobody, a free lock and the superuser,
name no action, device or binding; reviews, rollbacks and finalizations have ids of
their own; bounds are numbers).

`RolloutEngine_proofs` proves `EngineTypes`, `OneActive`, `CurrentVerified`,
`WayBackStays` and `TerminalImmutable`. None of the invariants is inductive
alone: `EngineInv` adds that a snapshot row belongs to a succeeded rollout, that
the pointer names a stored snapshot, that the open repair transaction holds only
such pointers, and the types of the engine's call. The heart is
`CommitKeepsStore`: a success prunes while no other unfinished rollout of the
target exists (`OneActivePerTarget`), and unfinished rollouts of other targets
keep their snapshots because pruning is per target. Steps that touch only
volatile state go through `StoreStutters` and `CallStutters`.

`KnownGood_proofs` proves the refinement (`EngineImplementsChain`),
`PointerIsFactual` and `KnownGoodIsWhatRuns`. The first two follow from
`EngineInv /\ HistoryInv /\ RepairIdle`. The point is that the repair at every
start replays *all* finished rollbacks: it is harmless only if no pointer ever
comes back to a snapshot that an explicit rollback left. `HistoryInv` says so
through the set `Undone` of those snapshots: references lead to succeeded rollouts
of the same target (`ReferencesInv`), the pointer does not move under an
unfinished rollout (`ActiveInv`), and whatever succeeded on top of the current or
of an undone snapshot is itself undone (`ChainInv`), so that what was not undone
is one chain ending in the pointer. `RepairIdle` adds that the open repair
transaction equals the pointers. `KnownGoodRuns` (theorem `KnownGoodIsWhatRuns`) needs
`RuntimeInv`: what each unfinished state of the log, and each place the engine's
goroutine may be in, implies about the cluster.

`DeploymentRegistry_proofs` proves `RegistryTypes`, `OwnerHoldsItsRow`,
`SoleOwnership`, `CancelIsSafe`, `ResultIsFinal` and `LeaseIsKept`.
`OwnerHoldsRow` is what makes `SoleOwner` inductive: two owners would hold one
row. `RegistryInv` adds what the columns of one job say of each other (`JobInv`)
and that a job being created has a fresh id. Lease expiry is the hard step:
`LocksRenewed` shows that when no poll is blocked, renewing the rows of all
lapsed jobs at once gives every owner its own.

`Deployment_proofs` composes the two. Each step of the composition is a step of
the engine, of the registry, or of the runner alone, so that `EngineInv`,
`HistoryInv` and `RegistryInv` carry over (`DeploymentIsRegistry` states the
registry's half as an implementation). `DeployInv` and `LinkInv` then relate a job
in Cloud to the log record of the Agent: a job that was never leased is not in the
log, what Cloud was last told is a state the log has been in, a terminal job is a
terminal record, and the newest good result of a target is its pointer. Four
theorems follow: `ResultIsTruthful`, `CloudFollowsTheLog`, `GoodResultAccepted`,
`ReferencesAgree`. None has a hypothesis about secrets or losses. Secrets that fail to
be delivered to a re-leased job refute `TruthfulResult` (the run
`DeploymentSecretsRetry`); `unread` remembers such jobs, the links between Cloud and
log are stated for the others, and the theorems show that this is the only way in
which Cloud is told something untrue and its references leave the Agent's.

`DeploymentWorkflow_proofs` proves the three properties of a run. All of them have
to be said of *every copy* of the run a controller may hold, since a lapsed lease
leaves an old copy at work: `WorkflowInv` states of the row and of each copy that
its jobs belong to its plan and commit, and of a copy that it `Follows` the row or
is `Older` than it, in which case it will be dropped (`ApprovedIsDeployed`,
`FinishedRunsStay`). For `FinishedRunsAreTrue` the runs that are rolled back are
the hard ones: a rollback is decided by one execution, carried out over several,
and other copies' deploy steps may still be under way. `RollInv` carries the
argument that no such step gets past the application that stopped the deploy
step: that one has ended for good, the jobs before it ended and may not be tried
again, so the references of a rolling-back run keep describing the jobs they name.
The attempt to prove the same of all jobs failed at the application *after* the one
that failed, which is how the three-application counterexample
`DeliveryRollbackGap` was found.

`Delivery_proofs` proves `RecordsAreEarned` (a record is made in the same
transaction as the success of its one live attempt; the invariant says which
states of dispatch and runner go with which states of job and attempt) and
`BeliefsEndInTime` (what is stored was asked for at a time at most one `TTL` ago).

`ControlPlane_proofs` proves `KeychainStaysGood`, `WebhooksApplyOnce` and
`ReviewedIsApplied`. The first needs that every PAT under way (in a login's
answer, a command, the keychain) belongs to one user and is not yet revoked by the
command that will replace it (`AccessInv`); the second that an event is in at most
one handler's transaction and in the table when it was applied; the third that the
revisions a key or a review made are found in the log (`AppliedOnceAsReviewed`)
and what a compile read is still its own application's.
`SessionsAreFactual` rests on `BootInv`. A session's row promises little by itself: a
worker that lost its lease goes on for a while, so `InstallerInv` says for each place
of a worker what the machine has already completed, and that a job that will end as
"completed" has seen its Agent ready. The lease of a session is a token no other row,
token or worker holds, which exists because there are more tokens than holders
(`TokenIsFresh`, by counting). Attempts are bounded by `AttemptsPaid`: a session that
met another host key is leased once more than `MaxAttempts` allows, and each such
lease is owed to a change of the key. Sessions of one host may be at work at once:
what a worker relies on are the steps the host has completed *for its session*, which
another session does not undo; only the identity is shared, and the property says of
it what stays true. `HostIsFactual` is the theorem of the bootstrap model itself,
without the bounds of the composition.

`AgentWork_proofs` proves the seven properties of `MCAgentWork`, each from the
inductive invariant of its part. `ActionsInv`: an approved or executing record holds
its target's lock, a call that has begun has consumed the nonce, has not mutated yet
and is the only one to have begun its action (`ActionsMutateOnce`). `SwitchInv`: a
request knows the reviewed revision from its check on, what it has made belongs to
one cutover and is not newer than the configuration, finalizations are of cutovers
that succeeded (`CutoversAreAsReviewed`). `NodesInv`: what each point of a runner's
program implies about its job and the cluster's object (`RemovedNodesAreLockedOut`).
`SecretsInv`: the running, stored and generated versions come in that order, and what
a call may say of them (`SecretsAreHonoured`). `CopiesInv` says what each lease and
each report *stands for*: the object that a dump still the row's was uploaded to, or a
target that was loaded once; a delayed report is older than the work under way, whose
backup is its own (`CopiesStayFaithful`). `ResourcesInv` is the largest: no request
ever writes a row that claims to be ready, while the Agent works on a resource its row
is not ready, each operation of the Agent on a role fits what the binding has become
since the plan was made, what it reports is what it did, and storage is destroyed
only in the state "destroying" (`ResourcesStayFactual`, `VolumesAreKept`).

**Only model-checked.** `EveryRolloutEnds` and `EveryJobSettles`, since liveness
under fairness and ENABLED are out of the prover's reach. Every other property of the
passing runs is stated by a theorem.

## 5. Not modelled

Inside the modelled components: hashes, sizes and wire formats; idempotency-key
replays where they return the existing row; `StartExposureRollout` (the
read-then-lock shape of `StartImmutableDeployment`); the retired legacy mode; the
clearing of pointers that lack legacy evidence; the 64-record page of
`ReconcilePending`, whose order is left open; the event tables and their caps;
authority re-validation at the first lease of a job; re-registration of a reset
node; the contents of plans, drafts and specs beyond what the properties tell
apart; signatures, encryption and roles. The cause of a context's cancellation is
a free choice.

Left out as components: deployment policy and topology (pure decisions), public
hostnames and Cloudflare (calls to an external service), source analysis (data
processing), the Agent's local server, relay, telemetry and incidents (collection
and presentation; no state the rest depends on), storage plumbing, configuration
and disaster recovery (I/O), CLI, MCP server and UI except where they keep state
(keychain, devices). Cloud's in-memory registry, used by tests and development,
is not modelled: PostgreSQL is what runs. `PROJECT.json` repeats the reasons.

## 6. Plan

1. *(done)* protocol, engine, registry, composition; the abstract `KnownGood`.
2. *(done)* workflow, builds, resources, copies, cutover, actions, nodes, secrets,
   configuration, bootstrap, GitHub source, logins, caches.
3. *(done)* proofs of the engine, registry, composition, workflow, builds, caches,
   configuration, GitHub source, logins, bootstrap, resources, copies, cutover,
   actions, nodes and secrets.
4. *(done)* secrets that fail and rollbacks that overrun inside the passing runs,
   the reset with its replacement on a second node, sessions of one host side by side,
   read-then-write results of resources and cutovers.
5. Next: authority of a single job at its first lease; deployment policy and the
   detector of source analysis.
