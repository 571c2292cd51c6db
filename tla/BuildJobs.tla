---------------------------- MODULE BuildJobs ----------------------------
(***************************************************************************)
(* Build jobs of one application: Cloud's durable jobs and dispatch        *)
(* attempts (cloud/internal/buildjob, PostgresStore), the GitHub Actions   *)
(* run that a dispatch starts, and the runner that claims it, builds and   *)
(* reports (cloud/cmd/opsi-build-executor).  Every action of Cloud is one  *)
(* transaction; Dispatch spans two of them with a call to GitHub between,  *)
(* so a crash of Cloud can leave it half done.                             *)
(***************************************************************************)
EXTENDS Naturals

CONSTANTS
  BuildKeys,    \* idempotency keys clients and the workflow create jobs with
  Attempts,     \* dispatch attempt ids
  Strategies,   \* build strategies a source binding may request
  MaxRebinds    \* bound: how often the source binding is replaced

VARIABLES
  job,       \* build_jobs, keyed by idempotency key
  attempt,   \* build_executor_attempts
  dispatch,  \* where the Cloud process that dispatches an attempt is
  runner,    \* where the GitHub Actions run of an attempt is
  source,    \* the active github_service_bindings row and the repository
  records    \* build_records, as <<job, binding revision, strategy>>

buildVars == <<job, attempt, dispatch, runner, source, records>>

Terminal == {"succeeded", "failed", "cancelled"}
ActiveAttempt == {"dispatching", "dispatched", "claimed"}
NoJob == [status |-> "absent", binding |-> 0, strategy |-> "none"]
NoAttempt == [of |-> "none", state |-> "absent", lease |-> "none"]

(* The application's source: binding revision, requested strategy, whether *)
(* an explicit Dockerfile path is set, and how many canonical Dockerfiles  *)
(* the resolved commit holds.                                              *)
Sources ==
  [binding: 1..(MaxRebinds + 1), strategy: Strategies,
   path: BOOLEAN, files: 0..2]

(* validateSource: a Dockerfile strategy must name its file.               *)
validateSource(s) == s.strategy = "dockerfile" => s.path

(* resolveStrategy: "none" where the service refuses to create a job.      *)
resolveStrategy(s) ==
  CASE s.strategy = "buildpack" -> "buildpack"
    [] s.strategy # "buildpack" /\ s.path ->
         IF s.files > 0 THEN "dockerfile" ELSE "none"
    [] OTHER -> <<"buildpack", "dockerfile", "none">>[s.files + 1]

Init ==
  /\ job = [k \in BuildKeys |-> NoJob]
  /\ attempt = [a \in Attempts |-> NoAttempt]
  /\ dispatch = [a \in Attempts |-> "idle"]
  /\ runner = [a \in Attempts |-> "none"]
  /\ source \in {s \in Sources : s.binding = 1}
  /\ records = {}

(* Service.Create and the insert under ON CONFLICT DO NOTHING: a replayed  *)
(* key returns the job it created.                                         *)
Create(k) ==
  /\ job[k] = NoJob
  /\ validateSource(source)
  /\ resolveStrategy(source) # "none"
  /\ job' = [job EXCEPT ![k] =
       [status |-> "ready", binding |-> source.binding,
        strategy |-> resolveStrategy(source)]]
  /\ UNCHANGED <<attempt, dispatch, runner, source, records>>

(* ReserveDispatch: the job is locked, ready and has no active attempt.    *)
validateDispatchableJob(k) ==
  job[k].status = "ready" /\ job[k].strategy \in {"dockerfile", "buildpack"}

(* Faulty variant: an attempt that is still under way does not count.      *)
ReserveDispatchAgain(k, a) ==
  /\ attempt[a] = NoAttempt
  /\ validateDispatchableJob(k)
  /\ attempt' = [attempt EXCEPT ![a] =
       [of |-> k, state |-> "dispatching", lease |-> "none"]]
  /\ dispatch' = [dispatch EXCEPT ![a] = "calling"]
  /\ UNCHANGED <<job, runner, source, records>>

ReserveDispatch(k, a) ==
  /\ attempt[a] = NoAttempt
  /\ validateDispatchableJob(k)
  /\ \A b \in Attempts :
       attempt[b].of = k => attempt[b].state \notin ActiveAttempt
  /\ attempt' = [attempt EXCEPT ![a] =
       [of |-> k, state |-> "dispatching", lease |-> "none"]]
  /\ dispatch' = [dispatch EXCEPT ![a] = "calling"]
  /\ UNCHANGED <<job, runner, source, records>>

(* GitHub answers the workflow dispatch: accepted, or refused (a refusal   *)
(* read by Cloud may also be a lost answer to an accepted dispatch).       *)
DispatchWorkflow(a) ==
  /\ dispatch[a] = "calling"
  /\ \E ok, started \in BOOLEAN :
       /\ ok => started
       /\ dispatch' = [dispatch EXCEPT ![a] = IF ok THEN "accepted"
                                                     ELSE "refused"]
       /\ runner' = [runner EXCEPT ![a] = IF started THEN "queued" ELSE @]
  /\ UNCHANGED <<job, attempt, source, records>>

CompleteDispatch(a) ==
  /\ dispatch[a] = "accepted"
  /\ dispatch' = [dispatch EXCEPT ![a] = "done"]
  /\ attempt' = [attempt EXCEPT ![a].state =
       IF @ = "dispatching" THEN "dispatched" ELSE @]
  /\ UNCHANGED <<job, runner, source, records>>

RejectDispatch(a) ==
  /\ dispatch[a] = "refused"
  /\ dispatch' = [dispatch EXCEPT ![a] = "done"]
  /\ attempt' = [attempt EXCEPT ![a].state =
       IF @ = "dispatching" THEN "dispatch_rejected" ELSE @]
  /\ UNCHANGED <<job, runner, source, records>>

(* The Cloud process stops while its dispatch is under way.                *)
CrashDispatch(a) ==
  /\ dispatch[a] \in {"calling", "accepted", "refused"}
  /\ dispatch' = [dispatch EXCEPT ![a] = "done"]
  /\ UNCHANGED <<job, attempt, runner, source, records>>

(* A dispatch that no runner claimed for runnerClaimTimeout fails its job. *)
(* The controller calls it on every poll; that the deadline has passed is  *)
(* a free choice.                                                          *)
ExpireUnclaimedDispatch(k) ==
  /\ job[k].status = "ready"
  /\ \E a \in Attempts :
       /\ attempt[a].of = k /\ attempt[a].state = "dispatched"
       /\ attempt' = [attempt EXCEPT ![a].state = "dispatch_rejected"]
  /\ job' = [job EXCEPT ![k].status = "failed"]
  /\ UNCHANGED <<dispatch, runner, source, records>>

(* ClaimDispatch: the run of a dispatched attempt takes the job and a      *)
(* lease that is never renewed; the answer with its token may be lost.     *)
ClaimDispatch(a) ==
  LET k == attempt[a].of IN
  /\ runner[a] = "queued"
  /\ attempt[a].state = "dispatched"
  /\ job[k].status = "ready"
  /\ job' = [job EXCEPT ![k].status = "running"]
  /\ attempt' = [attempt EXCEPT ![a].state = "claimed", ![a].lease = "live"]
  /\ \E answer \in {"claimed", "gone"} :
       runner' = [runner EXCEPT ![a] = answer]
  /\ UNCHANGED <<dispatch, source, records>>

(* The run stops: its claim was refused, the machine died, or GitHub's own *)
(* time limit ended it.                                                    *)
RunnerStops(a) ==
  /\ runner[a] \notin {"none", "gone"}
  /\ runner' = [runner EXCEPT ![a] = "gone"]
  /\ UNCHANGED <<job, attempt, dispatch, source, records>>

LeaseExpires(a) ==
  /\ attempt[a].lease = "live"
  /\ attempt' = [attempt EXCEPT ![a].lease = "expired"]
  /\ UNCHANGED <<job, dispatch, runner, source, records>>

(* GetRunnerJob: what a runner's token still opens.                        *)
GetRunnerJob(a) ==
  /\ attempt[a].lease = "live"
  /\ attempt[a].state = "claimed"
  /\ job[attempt[a].of].status = "running"

sourceMatchesSnapshot(k) == source.binding = job[k].binding

(* The runner reads its Build Spec and asks for source access; without a   *)
(* grant it reports the failure, with one it builds and publishes.         *)
FetchSource(a) ==
  /\ runner[a] = "claimed"
  /\ GetRunnerJob(a)
  /\ runner' = [runner EXCEPT ![a] =
       IF sourceMatchesSnapshot(attempt[a].of) THEN "building"
       ELSE "broken"]
  /\ UNCHANGED <<job, attempt, dispatch, source, records>>

Execute(a) ==
  /\ runner[a] = "building"
  /\ \E result \in {"built", "broken"} :
       runner' = [runner EXCEPT ![a] = result]
  /\ UNCHANGED <<job, attempt, dispatch, source, records>>

(* CompleteRunner: lease, job, strategy and source binding must all still  *)
(* be the ones of the claim; the record, the job and the attempt are       *)
(* written together.  A refused result ends the run.                       *)
CompleteRunner(a) ==
  LET k == attempt[a].of
      accepted == GetRunnerJob(a) /\ sourceMatchesSnapshot(k)
  IN
  /\ runner[a] = "built"
  /\ runner' = [runner EXCEPT ![a] = "gone"]
  /\ IF accepted
     THEN /\ records' = records \cup {<<k, source.binding, job[k].strategy>>}
          /\ job' = [job EXCEPT ![k].status = "succeeded"]
          /\ attempt' = [attempt EXCEPT ![a].state = "succeeded"]
     ELSE UNCHANGED <<records, job, attempt>>
  /\ UNCHANGED <<dispatch, source>>

FailRunner(a) ==
  LET k == attempt[a].of IN
  /\ runner[a] = "broken"
  /\ runner' = [runner EXCEPT ![a] = "gone"]
  /\ IF GetRunnerJob(a)
     THEN /\ job' = [job EXCEPT ![k].status = "failed"]
          /\ attempt' = [attempt EXCEPT ![a].state = "failed"]
     ELSE UNCHANGED <<job, attempt>>
  /\ UNCHANGED <<dispatch, source, records>>

(* Cancel: a terminal job is left alone; otherwise the job and its active  *)
(* attempt end together and the lease token is erased.                     *)
Cancel(k) ==
  /\ job[k].status \notin Terminal \cup {"absent"}
  /\ job' = [job EXCEPT ![k].status = "cancelled"]
  /\ attempt' = [a \in Attempts |->
       IF attempt[a].of = k /\ attempt[a].state \in ActiveAttempt
       THEN [attempt[a] EXCEPT !.state = "cancelled", !.lease = "none"]
       ELSE attempt[a]]
  /\ UNCHANGED <<dispatch, runner, source, records>>

(* The source binding of the application is replaced.                      *)
Rebind ==
  /\ source.binding <= MaxRebinds
  /\ \E s \in Sources : s.binding = source.binding + 1 /\ source' = s
  /\ UNCHANGED <<job, attempt, dispatch, runner, records>>

Poll ==
  \/ \E k \in BuildKeys : Create(k) \/ ExpireUnclaimedDispatch(k)
  \/ \E k \in BuildKeys, a \in Attempts : ReserveDispatch(k, a)
DispatchSteps ==
  \E a \in Attempts :
    DispatchWorkflow(a) \/ CompleteDispatch(a) \/ RejectDispatch(a)
RunnerSteps ==
  \E a \in Attempts :
    ClaimDispatch(a) \/ FetchSource(a) \/ Execute(a)
      \/ CompleteRunner(a) \/ FailRunner(a)
Faults ==
  \E a \in Attempts : CrashDispatch(a) \/ RunnerStops(a) \/ LeaseExpires(a)
Clients == Rebind \/ \E k \in BuildKeys : Cancel(k)

Next == Poll \/ DispatchSteps \/ RunnerSteps \/ Faults \/ Clients

Spec == Init /\ [][Next]_buildVars

-----------------------------------------------------------------------------
BuildTypeOK ==
  /\ job \in [BuildKeys ->
       [status: Terminal \cup {"absent", "ready", "running"},
        binding: 0..(MaxRebinds + 1),
        strategy: {"none", "dockerfile", "buildpack"}]]
  /\ attempt \in [Attempts ->
       [of: BuildKeys \cup {"none"},
        state: ActiveAttempt \cup Terminal \cup {"absent", "dispatch_rejected"},
        lease: {"none", "live", "expired"}]]
  /\ dispatch \in [Attempts -> {"idle", "calling", "accepted", "refused", "done"}]
  /\ runner \in [Attempts ->
       {"none", "queued", "claimed", "building", "built", "broken", "gone"}]
  /\ source \in Sources
  /\ records \subseteq (BuildKeys \X (1..(MaxRebinds + 1))
                          \X {"dockerfile", "buildpack"})

(* A build record exists exactly for the jobs that succeeded, one each,    *)
(* and it was built from the job's own source binding with the job's own   *)
(* strategy: no late, repeated or cancelled run leaves a record behind     *)
(* (CompleteRunner, Cancel).                                               *)
RecordsAreSucceededJobs ==
  records = {<<k, job[k].binding, job[k].strategy>> :
               k \in {x \in BuildKeys : job[x].status = "succeeded"}}

(* A job has at most one attempt that may still run; a running job has     *)
(* exactly one, claimed, and a finished job none (ReserveDispatch,         *)
(* ClaimDispatch, Cancel).                                                 *)
OneLiveAttempt ==
  \A k \in BuildKeys :
    LET live == {a \in Attempts :
                   attempt[a].of = k /\ attempt[a].state \in ActiveAttempt}
    IN /\ \A a, b \in live : a = b
       /\ job[k].status = "running" <=> \E a \in live : attempt[a].state = "claimed"
       /\ job[k].status \in Terminal => live = {}
=============================================================================
