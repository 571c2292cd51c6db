--------------------- MODULE DeploymentWorkflow_proofs ---------------------
(***************************************************************************)
(* Proofs about deployment runs: what a run deploys, what its end says and *)
(* what a finished run may still become, for any number of controllers,    *)
(* applications, attempts, commits and approvals, also when steps are      *)
(* repeated, lost, or taken by a controller whose lease ran out.           *)
(***************************************************************************)
EXTENDS MCDelivery, FiniteSetTheorems, WellFoundedInduction, TLAPS

----------------------------------------------------------------------------
(* The inductive invariant.  A copy of the run that a controller holds may *)
(* be older than the run, so what a step relies on is stated of any copy r *)
(* and of the job tables b and d.                                          *)

Working == RunnableStates \cup {"awaiting_warning_acknowledgement"}
BuildRow ==
  [status: {"absent", "active", "succeeded", "failed", "infrastructure", "cancelled"},
   commit: Commits \cup {0}]
DeployRow ==
  [status: {"absent", "queued", "active", "succeeded", "failed", "exhausted",
            "cancelled", "rolled_back", "rollback_failed", "cleaned"},
   commit: Commits \cup {0}, prior: BOOLEAN, retried: 0..MaxAttempts]
CopyRow == [pc: {"idle", "leased", "executed"}, run: RunType, fresh: BOOLEAN]

OutsideInv ==
  /\ lease \in Workers \cup {"none"} /\ cancelling \in BOOLEAN /\ head \in Commits
  /\ facts \in FactsType /\ facts.drifts <= surprises
  /\ preflight \in {"clean", "warnings", "blocked"} /\ known \subseteq Apps
  /\ surprises \in 0..MaxSurprises

(* Every record a copy refers to is a succeeded build, and once a copy is  *)
(* past the build step they are one for each application, of its commit.   *)
WithRecords(r, b) ==
  /\ \A k \in r.refs.records : b[k].status = "succeeded"
  /\ r.state \in Working /\ r.attempt = 1 =>
       r.refs.records \subseteq {buildKey(r, a) : a \in PlanApps(r)}
  /\ r.state \in {"preflighting", "awaiting_warning_acknowledgement", "deploying"} =>
       /\ \A k \in r.refs.records : b[k].commit = r.commit
       /\ \A a \in PlanApps(r) : \E k \in r.refs.records : k[2] = a

RunInv(r, b, d) ==
  /\ r.state \in Working \cup {"succeeded", "rolled_back"} =>
       r.approval > 0 /\ r.approved = r.plan
  /\ r.state \in Draft => r.approval = 0 /\ r.attempt = 0 /\ r.refs = NoRefs
  /\ r.state \in Working => r.attempt >= 1
  /\ r.approval <= r.approvals
  /\ WithRecords(r, b)
  /\ \A k \in r.refs.jobs : d[k].status # "absent"
  /\ r.state = "succeeded" =>
       \A a \in PlanApps(r) : d[applyKey(r, a)].status = "succeeded"

(* What a step may make of the copy r.                                     *)
Follows(r, e) ==
  /\ r.state \in RunnableStates /\ e.approvals = r.approvals
  /\ \/ e.state = "stale" /\ e.approval = 0
     \/ /\ e.state \notin Draft \cup {"stale"}
        /\ e.approval = r.approval /\ e.apps = r.apps /\ e.commit = r.commit
        /\ e.attempt >= r.attempt /\ r.refs.jobs \subseteq e.refs.jobs

(* A copy of an approval still in force knows no more than the run.        *)
Older(q, r) ==
  /\ q.state \in RunnableStates /\ q.approvals <= r.approvals
  /\ q.approval = r.approval =>
       /\ q.apps = r.apps /\ q.commit = r.commit
       /\ q.attempt <= r.attempt /\ q.refs.jobs \subseteq r.refs.jobs

CopyInv(c, r) ==
  /\ c.pc = "leased" => Older(c.run, r) /\ (c.fresh => c.run = r)
  /\ c.pc = "executed" /\ c.fresh => Follows(r, c.run)

JobsInv(r, b, d) ==
  /\ b \in [BuildKeys -> BuildRow] /\ d \in [JobKeys -> DeployRow]
  /\ \A k \in JobKeys :
       /\ d[k].status = "absent" => d[k] = NoDeploy
       /\ d[k].status # "absent" => k[1] <= r.approvals
       /\ d[k].status # "absent" /\ k[1] = r.approval /\ k[3] = "apply"
            => d[k].commit = r.commit

WorkflowInv ==
  /\ OutsideInv /\ JobsInv(run, build, deploy)
  /\ run \in RunType /\ RunInv(run, build, deploy)
  /\ worker \in [Workers -> CopyRow]
  /\ \A w \in Workers :
       RunInv(worker[w].run, build, deploy) /\ CopyInv(worker[w], run)
WorkflowHolds == part = "workflow" => WorkflowInv

----------------------------------------------------------------------------
(* A rollback begins when an application stopped the deploy step: the jobs *)
(* before it have ended, those the run refers to have ended too, and no    *)
(* copy that still deploys under the approval can start any of them again. *)

Ended(j) == j.status \notin {"absent", "queued", "active"}

Retries(q, k, d) ==
  /\ q.state = "deploying" /\ q.approval = k[1] /\ k \in q.refs.jobs
  /\ q.attempt > 1 /\ d[k].status = "exhausted" /\ d[k].retried < q.attempt

(* The copies of the run that may still take a step.                       *)
Deployers == {run} \cup {worker[w].run : w \in {x \in Workers : worker[x].pc = "leased"}}

StoppedAt(p, a, d, others) ==
  /\ d[applyKey(p, a)].status \in {"failed", "exhausted", "cancelled"}
  /\ \A q \in others : ~Retries(q, applyKey(p, a), d)
  /\ \A x \in 1..(a - 1) :
       Ended(d[applyKey(p, x)]) /\ d[applyKey(p, x)].status # "exhausted"
  /\ \A x \in PlanApps(p) :
       applyKey(p, x) \in p.refs.jobs => Ended(d[applyKey(p, x)])

Rolling == {"rolling_back", "rolled_back"}
RollInv(p, d, others) ==
  /\ p.state \in Rolling => \E a \in PlanApps(p) : StoppedAt(p, a, d, others)
  /\ p.state = "rolled_back" =>
       \A a \in PlanApps(p) :
         /\ applyKey(p, a) \in p.refs.jobs
         /\ d[applyKey(p, a)].status = "succeeded" /\ d[applyKey(p, a)].prior
         => d[<<p.approval, a, "rollback">>].status = "rolled_back"

RollbackInv ==
  /\ RollInv(run, deploy, Deployers)
  /\ \A w \in Workers : worker[w].pc = "executed" /\ worker[w].fresh =>
       RollInv(worker[w].run, deploy, Deployers)
RollbackHolds == part = "workflow" => RollbackInv

----------------------------------------------------------------------------
(* Sets of numbers                                                         *)

LEMMA MinIs ==
  ASSUME NEW S, S \subseteq Nat, S # {}
  PROVE  Min(S) \in S /\ \A x \in S : Min(S) <= x
<1>1. PICK m \in S : \A y \in S : ~ (<<y, m>> \in OpToRel(<, Nat))
  BY NatLessThanWellFounded, WFMin
<1>2. ASSUME NEW y \in S PROVE m <= y
  <2>1. m \in Nat /\ y \in Nat
    OBVIOUS
  <2>2. ~(y < m)
    BY <1>1, <2>1 DEF OpToRel
  <2> QED BY <2>1, <2>2
<1> QED BY <1>1, <1>2 DEF Min

(* As many records as applications are a record for each of them.          *)
KeysOf(p, n, t) == {<<p, a, t>> : a \in 1..n}

LEMMA AllBuilt ==
  ASSUME NEW n \in Nat, NEW p, NEW t, NEW done,
         done \subseteq KeysOf(p, n, t), Cardinality(done) = n
  PROVE  done = KeysOf(p, n, t)
<1> DEFINE mine == {<<p, a, t>> : a \in 1..n}
           f == [a \in 1..n |-> <<p, a, t>>]
<1>1. IsFiniteSet(1..n) /\ Cardinality(1..n) = n
  BY FS_Interval
<1>2. f \in Bijection(1..n, mine)
  <2>1. f \in [1..n -> mine]
    OBVIOUS
  <2>2. f \in Injection(1..n, mine)
    BY <2>1 DEF Injection, IsInjective
  <2>3. f \in Surjection(1..n, mine)
    BY <2>1 DEF Surjection
  <2> QED BY <2>2, <2>3 DEF Bijection
<1>3. IsFiniteSet(mine) /\ Cardinality(mine) = n
  <2>1. ExistsBijection(1..n, mine)
    BY <1>2 DEF ExistsBijection
  <2> QED BY <1>1, <2>1, FS_Bijection
<1> QED BY <1>3, FS_Subset DEF KeysOf

(* Keys                                                                    *)
LEMMA KeysAre ==
  ASSUME NEW r \in RunType
  PROVE  /\ PlanApps(r) \subseteq Apps /\ PlanApps(r) = 1..r.apps /\ r.apps \in Nat
         /\ r.approval > 0 =>
              \A a \in Apps : applyKey(r, a) \in JobKeys
         /\ r.approval > 0 /\ r.attempt >= 1 =>
              \A a \in PlanApps(r) : buildKey(r, a) \in BuildKeys
<1>1. /\ r.apps \in {0} \cup Apps /\ r.approval \in 0..MaxApprovals
      /\ r.attempt \in 0..MaxAttempts
  BY DEF RunType
<1>2. MaxApps \in Nat /\ MaxAttempts \in Nat /\ MaxApprovals \in Nat
  BY WorkflowAssumption
<1>3. r.apps \in Nat /\ \A a \in 1..r.apps : a \in Apps
  BY <1>1, <1>2 DEF Apps
<1>4. r.approval > 0 => r.approval \in Approvals
  BY <1>1, <1>2 DEF Approvals
<1>5. r.attempt >= 1 => r.attempt \in Attempts
  BY <1>1, <1>2 DEF Attempts
<1> QED BY <1>3, <1>4, <1>5 DEF PlanApps, applyKey, buildKey, JobKeys, BuildKeys

----------------------------------------------------------------------------
(* What a step makes of its copy                                           *)

SamePlan(r, e) ==
  /\ e.approval = r.approval /\ e.approved = r.approved /\ e.plan = r.plan
  /\ e.apps = r.apps /\ e.commit = r.commit /\ e.approvals = r.approvals

LEMMA StaleIs ==
  ASSUME NEW r \in RunType
  PROVE  /\ markStale(r) \in RunType /\ markStale(r).state = "stale"
         /\ markStale(r).approval = 0 /\ markStale(r).refs = r.refs
         /\ markStale(r).approvals = r.approvals
<1> DEFINE f == [step |-> r.state, retryable |-> FALSE]
           e == [r EXCEPT !.state = "stale", !.approval = 0, !.approved = 0,
                          !.basis = NoFacts, !.failure = f]
<1>1. /\ f \in [step: States \cup {"none"}, retryable: BOOLEAN]
      /\ 0 \in 0..MaxApprovals /\ 0 \in 0..MaxPlans /\ "stale" \in States
      /\ NoFacts \in FactsType
  BY WorkflowAssumption DEF RunType, States, TerminalStates, NoFacts, FactsType
<1> HIDE DEF f
<1>2. /\ e \in RunType /\ e.state = "stale" /\ e.approval = 0 /\ e.refs = r.refs
      /\ e.approvals = r.approvals
  BY <1>1 DEF RunType
<1> QED BY <1>2 DEF markStale, f

(* A copy that goes on in state s at attempt n with failure f and refs x.  *)
Going(r, s, n, f, x) ==
  [r EXCEPT !.state = s, !.attempt = n, !.failure = f, !.refs = x]

LEMMA GoesOn ==
  ASSUME NEW r \in RunType, NEW s \in States, NEW n \in 0..MaxAttempts,
         NEW f \in [step: States \cup {"none"}, retryable: BOOLEAN], NEW x \in RefsType
  PROVE  LET e == Going(r, s, n, f, x) IN
         /\ e \in RunType /\ SamePlan(r, e)
         /\ e.state = s /\ e.attempt = n /\ e.refs = x /\ e.pre = r.pre
BY DEF RunType, SamePlan, Going

LEMMA FailureTyped ==
  ASSUME NEW s \in States, NEW x \in BOOLEAN
  PROVE  /\ [step |-> s, retryable |-> x] \in [step: States \cup {"none"}, retryable: BOOLEAN]
         /\ NoFailure \in [step: States \cup {"none"}, retryable: BOOLEAN]
         /\ RunnableStates \cup TerminalStates \cup Draft \subseteq States
         /\ Working \subseteq States
BY DEF NoFailure, States, Working

LEMMA FieldsTyped ==
  ASSUME NEW r \in RunType
  PROVE  /\ r.state \in States /\ r.attempt \in 0..MaxAttempts /\ r.refs \in RefsType
         /\ r.failure \in [step: States \cup {"none"}, retryable: BOOLEAN]
         /\ r.approval \in Nat /\ r.approvals \in Nat /\ r.attempt \in Nat
         /\ r.max \in 0..MaxAttempts /\ r.plan \in Nat /\ r.refs.jobs \subseteq JobKeys
         /\ r.refs.records \subseteq BuildKeys /\ r.refs.builds \subseteq BuildKeys
         /\ r.refs.facts \in FactsType /\ r.commit \in Commits \cup {0}
<1>1. MaxAttempts \in Nat /\ MaxApprovals \in Nat /\ MaxPlans \in Nat
  BY WorkflowAssumption
<1>2. /\ r.refs \in RefsType /\ r.max \in {0} \cup Attempts /\ r.state \in States
      /\ r.failure \in [step: States \cup {"none"}, retryable: BOOLEAN]
      /\ r.approval \in 0..MaxApprovals /\ r.approvals \in 0..MaxApprovals
      /\ r.attempt \in 0..MaxAttempts /\ r.plan \in 0..MaxPlans
      /\ r.commit \in Commits \cup {0}
  BY DEF RunType
<1> QED BY <1>1, <1>2 DEF RefsType, Attempts

LEMMA FailedIs ==
  ASSUME NEW r \in RunType, NEW x \in BOOLEAN
  PROVE  LET e == StepFailed(r, x) IN
         /\ e \in RunType /\ SamePlan(r, e) /\ e.refs = r.refs
         /\ \/ e.state = r.state /\ e.attempt = r.attempt + 1
            \/ e.state = "failed" /\ e.attempt = r.attempt
<1>1. CASE x /\ r.attempt < r.max
  <2> DEFINE n == r.attempt + 1
             e == [r EXCEPT !.attempt = n, !.failure = NoFailure]
             g == Going(r, r.state, n, NoFailure, r.refs)
  <2>1. StepFailed(r, x) = e
    BY <1>1 DEF StepFailed
  <2>2. n \in 0..MaxAttempts
    BY <1>1, FieldsTyped, WorkflowAssumption
  <2> HIDE DEF n
  <2>3. e = g
    BY DEF RunType, Going
  <2>4. g \in RunType /\ SamePlan(r, g) /\ g.state = r.state /\ g.attempt = n
        /\ g.refs = r.refs
    <3>1. /\ r.state \in States /\ n \in 0..MaxAttempts /\ r.refs \in RefsType
          /\ NoFailure \in [step: States \cup {"none"}, retryable: BOOLEAN]
      BY <2>2, FieldsTyped, FailureTyped
    <3> QED BY <3>1, GoesOn
  <2> QED BY <2>1, <2>3, <2>4 DEF n
<1>2. CASE ~(x /\ r.attempt < r.max)
  <2> DEFINE f == [step |-> r.state, retryable |-> x]
             e == [r EXCEPT !.state = "failed", !.failure = f]
             g == Going(r, "failed", r.attempt, f, r.refs)
  <2>1. StepFailed(r, x) = e
    BY <1>2 DEF StepFailed
  <2>2. "failed" \in States /\ f \in [step: States \cup {"none"}, retryable: BOOLEAN]
    BY FieldsTyped, FailureTyped DEF States, TerminalStates
  <2> HIDE DEF f
  <2>3. e = g
    BY DEF RunType, Going
  <2>4. g \in RunType /\ SamePlan(r, g) /\ g.state = "failed" /\ g.attempt = r.attempt
        /\ g.refs = r.refs
    <3>1. r.attempt \in 0..MaxAttempts /\ r.refs \in RefsType
      BY FieldsTyped
    <3> QED BY <2>2, <3>1, GoesOn
  <2> QED BY <2>1, <2>3, <2>4
<1> QED BY <1>1, <1>2

LEMMA CompensatesIs ==
  ASSUME NEW r \in RunType, NEW s \in {"rolling_back", "cleaning_up"}
  PROVE  LET e == StepCompensates(r, s) IN
         /\ e \in RunType /\ SamePlan(r, e) /\ e.refs = r.refs
         /\ e.state = s /\ e.attempt = r.attempt
<1> DEFINE f == [step |-> r.state, retryable |-> FALSE]
           e == [r EXCEPT !.state = s, !.failure = f]
           g == Going(r, s, r.attempt, f, r.refs)
<1>1. s \in States /\ f \in [step: States \cup {"none"}, retryable: BOOLEAN]
  BY FieldsTyped, FailureTyped DEF States, RunnableStates
<1> HIDE DEF f
<1>2. e = g
  BY DEF RunType, Going
<1>3. /\ g \in RunType /\ SamePlan(r, g) /\ g.state = s /\ g.attempt = r.attempt
      /\ g.refs = r.refs
  <2>1. r.attempt \in 0..MaxAttempts /\ r.refs \in RefsType
    BY FieldsTyped
  <2> QED BY <1>1, <2>1, GoesOn
<1> QED BY <1>2, <1>3 DEF StepCompensates, f

----------------------------------------------------------------------------
(* How the job tables may grow: a succeeded build and an ended deployment  *)
(* stay as they are, but for one that ran out of leases, and a job keeps   *)
(* what it was created with.                                               *)

Over == {"succeeded", "failed", "cancelled", "rolled_back", "rollback_failed", "cleaned"}
Grows(b, d, b2, d2) ==
  /\ \A k \in BuildKeys : b[k].status = "succeeded" => b2[k] = b[k]
  /\ \A k \in JobKeys :
       /\ d[k].status # "absent" => d2[k].status # "absent" /\ d2[k].prior = d[k].prior
       /\ d[k].status \in Over => d2[k] = d[k]

LEMMA RunStands ==
  ASSUME NEW r \in RunType, NEW b, NEW d, NEW b2, NEW d2,
         RunInv(r, b, d), Grows(b, d, b2, d2)
  PROVE  RunInv(r, b2, d2)
<1>1. r.refs.records \subseteq BuildKeys /\ r.refs.jobs \subseteq JobKeys
  BY FieldsTyped
<1>2. WithRecords(r, b2)
  BY <1>1 DEF RunInv, WithRecords, Grows
<1>3. \A k \in r.refs.jobs : d2[k].status # "absent"
  BY <1>1 DEF RunInv, Grows
<1>4. ASSUME r.state = "succeeded", NEW a \in PlanApps(r)
      PROVE  d2[applyKey(r, a)].status = "succeeded"
  <2>1. d[applyKey(r, a)].status = "succeeded" /\ r.approval > 0
    BY <1>4 DEF RunInv
  <2>2. applyKey(r, a) \in JobKeys
    BY <1>4, <2>1, KeysAre
  <2> QED BY <2>1, <2>2 DEF Grows, Over
<1> QED BY <1>2, <1>3, <1>4 DEF RunInv

LEMMA StaleStands ==
  ASSUME NEW r \in RunType, NEW b, NEW d, RunInv(r, b, d)
  PROVE  RunInv(markStale(r), b, d)
<1>1. /\ markStale(r).state = "stale" /\ markStale(r).approval = 0
      /\ markStale(r).refs = r.refs /\ markStale(r).approvals = r.approvals
      /\ r.approvals \in Nat
  BY StaleIs, FieldsTyped
<1> QED BY <1>1 DEF RunInv, WithRecords, Working, RunnableStates, Draft

LEMMA FailedStands ==
  ASSUME NEW r \in RunType, NEW x \in BOOLEAN, NEW b, NEW d, RunInv(r, b, d),
         r.state \in RunnableStates
  PROVE  RunInv(StepFailed(r, x), b, d) /\ Follows(r, StepFailed(r, x))
<1> DEFINE e == StepFailed(r, x)
<1>1. /\ SamePlan(r, e) /\ e.refs = r.refs
      /\ \/ e.state = r.state /\ e.attempt = r.attempt + 1
         \/ e.state = "failed" /\ e.attempt = r.attempt
  BY FailedIs
<1>2. r.attempt \in Nat
  BY FieldsTyped
<1> HIDE DEF e
<1>3. CASE e.state = r.state /\ e.attempt = r.attempt + 1
  <2>1. r.attempt >= 1 /\ e.attempt # 1 /\ e.attempt >= 1 /\ e.attempt >= r.attempt
    BY <1>2, <1>3 DEF RunInv, Working
  <2>2. WithRecords(e, b)
    BY <1>1, <1>3, <2>1 DEF RunInv, WithRecords, SamePlan, PlanApps
  <2>3. e.state \notin Draft \cup {"succeeded"}
    BY <1>3 DEF RunnableStates, Draft
  <2>4. RunInv(e, b, d)
    BY <1>1, <1>3, <2>1, <2>2, <2>3 DEF RunInv, SamePlan
  <2>5. Follows(r, e)
    BY <1>1, <1>3, <2>1 DEF Follows, SamePlan, RunnableStates, Draft
  <2> QED BY <2>4, <2>5 DEF e
<1>4. CASE e.state = "failed" /\ e.attempt = r.attempt
  <2>1. RunInv(e, b, d)
    BY <1>1, <1>4 DEF RunInv, WithRecords, SamePlan, RunnableStates, Draft, Working
  <2>2. Follows(r, e)
    BY <1>1, <1>2, <1>4 DEF Follows, SamePlan, Draft
  <2> QED BY <2>1, <2>2 DEF e
<1> QED BY <1>1, <1>3, <1>4

(* A controller hands over the result e of a step of its copy.             *)
LEMMA StepReturns ==
  ASSUME WorkflowInv, NEW w \in Workers, NEW e \in RunType,
         worker[w].pc = "leased", Returns(w, e), Follows(worker[w].run, e),
         Grows(build, deploy, build', deploy'), JobsInv(run, build', deploy'),
         RunInv(e, build', deploy'), OutsideInv', run' = run
  PROVE  WorkflowInv'
<1> DEFINE c == [worker[w] EXCEPT !.pc = "executed", !.run = e]
<1>1. worker[w] \in CopyRow /\ CopyInv(worker[w], run) /\ run \in RunType
  BY DEF WorkflowInv
<1>2. /\ c \in CopyRow /\ c.pc = "executed" /\ c.run = e /\ c.fresh = worker[w].fresh
  BY <1>1 DEF CopyRow
<1>3. worker' = [worker EXCEPT ![w] = c]
  BY DEF Returns
<1> HIDE DEF c
<1>4. CopyInv(c, run)
  BY <1>1, <1>2 DEF CopyInv
<1>5. /\ worker' \in [Workers -> CopyRow] /\ worker'[w] = c
      /\ \A x \in Workers \ {w} : worker'[x] = worker[x]
  BY <1>2, <1>3 DEF WorkflowInv
<1>6. ASSUME NEW x \in Workers
      PROVE  RunInv(worker'[x].run, build', deploy') /\ CopyInv(worker'[x], run')
  <2>1. CASE x = w
    BY <1>2, <1>4, <1>5, <2>1
  <2>2. CASE x # w
    <3>1. /\ worker'[x] = worker[x] /\ worker[x].run \in RunType
          /\ RunInv(worker[x].run, build, deploy) /\ CopyInv(worker[x], run)
      BY <1>5, <2>2 DEF WorkflowInv, CopyRow
    <3>2. RunInv(worker[x].run, build', deploy')
      BY <3>1, RunStands
    <3> QED BY <3>1, <3>2
  <2> QED BY <2>1, <2>2
<1>7. RunInv(run', build', deploy')
  <2>1. RunInv(run, build, deploy) /\ run \in RunType
    BY DEF WorkflowInv
  <2> QED BY <2>1, RunStands
<1>8. OutsideInv' /\ JobsInv(run', build', deploy') /\ run' \in RunType
  BY <1>1
<1> QED BY <1>5, <1>6, <1>7, <1>8 DEF WorkflowInv

LEMMA OutsideStands ==
  ASSUME OutsideInv, lease' = lease, cancelling' = cancelling, UNCHANGED Outside
  PROVE  OutsideInv'
BY DEF OutsideInv, Outside

LEMMA GrowsSame == ASSUME NEW b, NEW d PROVE Grows(b, d, b, d)
BY DEF Grows

LEMMA Leased ==
  ASSUME WorkflowInv, NEW w \in Workers, worker[w].pc = "leased"
  PROVE  /\ worker[w].run \in RunType /\ RunInv(worker[w].run, build, deploy)
         /\ Older(worker[w].run, run) /\ worker[w].run.state \in RunnableStates
         /\ run \in RunType
BY DEF WorkflowInv, CopyRow, CopyInv, Older

LEMMA StaleReturns ==
  ASSUME WorkflowInv, NEW w \in Workers, worker[w].pc = "leased",
         Returns(w, StepStale(worker[w].run)),
         Grows(build, deploy, build', deploy'), JobsInv(run, build', deploy'),
         OutsideInv', run' = run
  PROVE  WorkflowInv'
<1> DEFINE r == worker[w].run
           e == markStale(r)
<1>1. r \in RunType /\ RunInv(r, build, deploy) /\ r.state \in RunnableStates
  BY Leased
<1>2. Returns(w, e)
  BY DEF StepStale
<1>3. RunInv(r, build', deploy')
  BY <1>1, RunStands
<1>4. /\ e \in RunType /\ RunInv(e, build', deploy')
      /\ e.state = "stale" /\ e.approval = 0 /\ e.approvals = r.approvals
  BY <1>1, <1>3, StaleIs, StaleStands
<1> HIDE DEF e
<1>5. Follows(r, e)
  BY <1>1, <1>4 DEF Follows
<1> QED BY <1>2, <1>4, <1>5, StepReturns

LEMMA FailedReturns ==
  ASSUME WorkflowInv, NEW w \in Workers, worker[w].pc = "leased", NEW x \in BOOLEAN,
         Returns(w, StepFailed(worker[w].run, x)),
         Grows(build, deploy, build', deploy'), JobsInv(run, build', deploy'),
         OutsideInv', run' = run
  PROVE  WorkflowInv'
<1> DEFINE r == worker[w].run
           e == StepFailed(r, x)
<1>1. r \in RunType /\ RunInv(r, build, deploy) /\ r.state \in RunnableStates
  BY Leased
<1>2. RunInv(r, build', deploy')
  BY <1>1, RunStands
<1>3. e \in RunType /\ RunInv(e, build', deploy') /\ Follows(r, e)
  BY <1>1, <1>2, FailedIs, FailedStands
<1> HIDE DEF e
<1>4. Returns(w, e)
  BY DEF e
<1> QED BY <1>3, <1>4, StepReturns

(* A copy that goes on to the next state with what it has.                 *)
LEMMA MovesOn ==
  ASSUME NEW r \in RunType, NEW e, NEW b, NEW d, RunInv(r, b, d),
         r.state \in RunnableStates, SamePlan(r, e), e.refs = r.refs, e.attempt = r.attempt,
         e.state \in Working \cup {"succeeded", "rolled_back", "failed"},
         e.state \in {"preflighting", "awaiting_warning_acknowledgement", "deploying"}
           => r.state \in {"preflighting", "deploying"},
         e.state = "succeeded" =>
           \A a \in PlanApps(r) : d[applyKey(r, a)].status = "succeeded"
  PROVE  RunInv(e, b, d) /\ Follows(r, e)
<1>1. r.attempt \in Nat /\ r.state \in Working
  BY FieldsTyped DEF Working
<1>2. e.state \notin Draft \cup {"stale"}
  BY DEF Draft, Working, RunnableStates
<1>3. WithRecords(e, b)
  BY <1>1 DEF RunInv, WithRecords, SamePlan, PlanApps, buildKey
<1>4. RunInv(e, b, d)
  BY <1>1, <1>2, <1>3 DEF RunInv, SamePlan, PlanApps, applyKey
<1> QED BY <1>1, <1>2, <1>4 DEF Follows, SamePlan

LEMMA StateIs ==
  ASSUME NEW r \in RunType, NEW s \in States
  PROVE  LET e == [r EXCEPT !.state = s] IN
         /\ e \in RunType /\ SamePlan(r, e)
         /\ e.state = s /\ e.attempt = r.attempt /\ e.refs = r.refs
BY DEF RunType, SamePlan

(* Configured applications name the facts that provisioning made.          *)
LEMMA SeenIs ==
  ASSUME NEW r \in RunType, NEW made \in FactsType
  PROVE  LET e == ensureConfigurations(r, made) IN
         /\ e \in RunType /\ SamePlan(r, e)
         /\ e.state = r.state /\ e.attempt = r.attempt
         /\ e.refs.jobs = r.refs.jobs /\ e.refs.records = r.refs.records
<1> DEFINE x == [r.refs EXCEPT !.facts = made]
           e == [r EXCEPT !.refs = x]
<1>1. r.refs \in RefsType
  BY FieldsTyped
<1>2. x \in RefsType /\ x.jobs = r.refs.jobs /\ x.records = r.refs.records
  BY <1>1 DEF RefsType
<1>3. ensureConfigurations(r, made) = [r EXCEPT !.refs = x]
  BY DEF ensureConfigurations
<1> HIDE DEF x
<1>4. /\ e \in RunType /\ SamePlan(r, e) /\ e.state = r.state /\ e.attempt = r.attempt
      /\ e.refs = x
  BY <1>2 DEF RunType, SamePlan
<1> QED BY <1>2, <1>3, <1>4

----------------------------------------------------------------------------
(* Steps that leave the jobs alone: provision, preflight and verify        *)

LEMMA QuietReturns ==
  ASSUME WorkflowInv, NEW w \in Workers, NEW e \in RunType,
         worker[w].pc = "leased", Returns(w, e), Follows(worker[w].run, e),
         RunInv(e, build, deploy), OutsideInv', run' = run,
         build' = build, deploy' = deploy
  PROVE  WorkflowInv'
<1>1. Grows(build, deploy, build', deploy') /\ JobsInv(run, build', deploy')
  BY GrowsSame DEF WorkflowInv
<1>2. RunInv(e, build', deploy')
  OBVIOUS
<1> QED BY <1>1, <1>2, StepReturns

LEMMA QuietFails ==
  ASSUME WorkflowInv, NEW w \in Workers, worker[w].pc = "leased", NEW x \in BOOLEAN,
         Returns(w, StepFailed(worker[w].run, x)), OutsideInv', run' = run,
         build' = build, deploy' = deploy
  PROVE  WorkflowInv'
<1>1. Grows(build, deploy, build', deploy') /\ JobsInv(run, build', deploy')
  BY GrowsSame DEF WorkflowInv
<1> QED BY <1>1, FailedReturns

LEMMA ProvisionInv ==
  ASSUME WorkflowInv, NEW w \in Workers, worker[w].pc = "leased",
         worker[w].run.state = "provisioning", provision(w, worker[w].run),
         run' = run, lease' = lease, cancelling' = cancelling
  PROVE  WorkflowInv'
<1> DEFINE r == worker[w].run
           made == ensureTopology(r)
           seen == ensureConfigurations(r, made)
           e == [seen EXCEPT !.state = "building"]
<1>1. /\ facts' = made /\ UNCHANGED <<head, preflight, known, surprises, build, deploy>>
      /\ Returns(w, seen) \/ Returns(w, StepFailed(seen, TRUE)) \/ Returns(w, e)
  BY DEF provision, Jobs
<1>2. r \in RunType /\ RunInv(r, build, deploy) /\ r.state = "provisioning"
  BY Leased
<1>3. made \in FactsType /\ made.drifts = facts.drifts
  <2>1. facts \in FactsType /\ r.approved \in 0..MaxPlans
    BY <1>2 DEF WorkflowInv, OutsideInv, RunType
  <2> QED BY <2>1 DEF ensureTopology, FactsType
<1> HIDE DEF made
<1>4. OutsideInv'
  BY <1>1, <1>3 DEF WorkflowInv, OutsideInv
<1>5. /\ seen \in RunType /\ SamePlan(r, seen) /\ seen.state = r.state
      /\ seen.attempt = r.attempt
      /\ seen.refs.jobs = r.refs.jobs /\ seen.refs.records = r.refs.records
  BY <1>2, <1>3, SeenIs
<1> HIDE DEF seen
<1>6. /\ seen.state \in RunnableStates /\ seen.state \notin Draft
      /\ r.state \notin Draft /\ r.attempt \in Nat
  BY <1>2, <1>5, FieldsTyped DEF RunnableStates, Draft
<1>7. RunInv(seen, build, deploy)
  <2>1. WithRecords(seen, build)
    BY <1>2, <1>5 DEF RunInv, WithRecords, SamePlan, PlanApps, buildKey
  <2> QED BY <1>2, <1>5, <1>6, <2>1 DEF RunInv, SamePlan, PlanApps, applyKey
<1>8. ASSUME NEW x \in RunType, Follows(seen, x) PROVE Follows(r, x)
  BY <1>5, <1>8 DEF Follows, SamePlan
<1>9. CASE Returns(w, seen)
  <2>1. Follows(r, seen)
    BY <1>2, <1>5, <1>6 DEF Follows, SamePlan, RunnableStates
  <2> QED BY <1>1, <1>4, <1>5, <1>7, <1>9, <2>1, QuietReturns
<1>10. CASE Returns(w, StepFailed(seen, TRUE))
  <2>1. /\ StepFailed(seen, TRUE) \in RunType
        /\ RunInv(StepFailed(seen, TRUE), build, deploy)
        /\ Follows(r, StepFailed(seen, TRUE))
    BY <1>5, <1>6, <1>7, <1>8, FailedIs, FailedStands
  <2> QED BY <1>1, <1>4, <1>10, <2>1, QuietReturns
<1>11. CASE Returns(w, e)
  <2>1. "building" \in States
    BY DEF States, RunnableStates
  <2>2. /\ e \in RunType /\ SamePlan(seen, e) /\ e.state = "building"
        /\ e.attempt = seen.attempt /\ e.refs = seen.refs
    BY <1>5, <2>1, StateIs
  <2> HIDE DEF e
  <2>3. e.state \in Working
    BY <2>2 DEF Working, RunnableStates
  <2>4. RunInv(e, build, deploy) /\ Follows(seen, e)
    BY <1>5, <1>6, <1>7, <2>2, <2>3, MovesOn
  <2>5. Follows(r, e)
    BY <1>8, <2>2, <2>4
  <2> QED BY <1>1, <1>4, <1>11, <2>2, <2>4, <2>5, QuietReturns
<1> QED BY <1>1, <1>9, <1>10, <1>11

LEMMA PreflightStepInv ==
  ASSUME WorkflowInv, NEW w \in Workers, worker[w].pc = "leased",
         worker[w].run.state = "preflighting", preflightStep(w, worker[w].run),
         run' = run, lease' = lease, cancelling' = cancelling
  PROVE  WorkflowInv'
<1> DEFINE r == worker[w].run
           f == [step |-> r.state, retryable |-> FALSE]
           s == IF preflight = "clean" THEN "deploying"
                ELSE "awaiting_warning_acknowledgement"
           p == preflight
           e1 == [r EXCEPT !.pre = p, !.state = "failed", !.failure = f]
           e2 == [r EXCEPT !.pre = p, !.state = s]
<1>1. /\ UNCHANGED Outside /\ build' = build /\ deploy' = deploy
      /\ Returns(w, StepFailed(r, TRUE)) \/ Returns(w, e1) \/ Returns(w, e2)
  BY DEF preflightStep, Jobs
<1>2. r \in RunType /\ RunInv(r, build, deploy) /\ r.state = "preflighting"
  BY Leased
<1>3. OutsideInv'
  BY <1>1, OutsideStands DEF WorkflowInv
<1>4. /\ f \in [step: States \cup {"none"}, retryable: BOOLEAN]
      /\ s \in {"deploying", "awaiting_warning_acknowledgement"}
      /\ s \in States /\ "failed" \in States
      /\ p \in {"none", "clean", "warnings", "blocked"}
  BY <1>2, FieldsTyped, FailureTyped
     DEF States, RunnableStates, TerminalStates, WorkflowInv, OutsideInv
<1> HIDE DEF f, s, p
<1>5. CASE Returns(w, StepFailed(r, TRUE))
  BY <1>1, <1>3, <1>5, QuietFails
<1>6. CASE Returns(w, e1)
  <2>1. /\ e1 \in RunType /\ SamePlan(r, e1) /\ e1.state = "failed"
        /\ e1.attempt = r.attempt /\ e1.refs = r.refs
    BY <1>2, <1>4 DEF RunType, SamePlan
  <2> HIDE DEF e1
  <2>2. RunInv(e1, build, deploy) /\ Follows(r, e1)
    <3>1. r.state \in RunnableStates
      BY <1>2 DEF RunnableStates
    <3> QED BY <1>2, <2>1, <3>1, MovesOn
  <2> QED BY <1>1, <1>3, <1>6, <2>1, <2>2, QuietReturns
<1>7. CASE Returns(w, e2)
  <2>1. /\ e2 \in RunType /\ SamePlan(r, e2) /\ e2.state = s
        /\ e2.attempt = r.attempt /\ e2.refs = r.refs
    BY <1>2, <1>4 DEF RunType, SamePlan
  <2> HIDE DEF e2
  <2>2. RunInv(e2, build, deploy) /\ Follows(r, e2)
    <3>1. r.state \in RunnableStates /\ e2.state \in Working /\ e2.state # "succeeded"
      BY <1>2, <1>4, <2>1 DEF RunnableStates, Working
    <3> QED BY <1>2, <2>1, <3>1, MovesOn
  <2> QED BY <1>1, <1>3, <1>7, <2>1, <2>2, QuietReturns
<1> QED BY <1>1, <1>5, <1>6, <1>7

LEMMA VerifyInv ==
  ASSUME WorkflowInv, NEW w \in Workers, worker[w].pc = "leased",
         worker[w].run.state = "verifying", verify(w, worker[w].run),
         run' = run, lease' = lease, cancelling' = cancelling
  PROVE  WorkflowInv'
<1> DEFINE r == worker[w].run
           e == [r EXCEPT !.state = "succeeded"]
<1>1. /\ UNCHANGED Outside /\ build' = build /\ deploy' = deploy
      /\ \/ Returns(w, StepFailed(r, TRUE)) \/ Returns(w, StepFailed(r, FALSE))
         \/ /\ Returns(w, e)
            /\ \A a \in PlanApps(r) : deploy[applyKey(r, a)].status = "succeeded"
  BY DEF verify, Jobs
<1>2. r \in RunType /\ RunInv(r, build, deploy) /\ r.state = "verifying"
  BY Leased
<1>3. OutsideInv'
  BY <1>1, OutsideStands DEF WorkflowInv
<1>4. CASE Returns(w, StepFailed(r, TRUE)) \/ Returns(w, StepFailed(r, FALSE))
  BY <1>1, <1>3, <1>4, QuietFails
<1>5. CASE /\ Returns(w, e)
           /\ \A a \in PlanApps(r) : deploy[applyKey(r, a)].status = "succeeded"
  <2>1. "succeeded" \in States
    BY DEF States, TerminalStates
  <2>2. /\ e \in RunType /\ SamePlan(r, e) /\ e.state = "succeeded"
        /\ e.attempt = r.attempt /\ e.refs = r.refs
    BY <1>2, <2>1, StateIs
  <2> HIDE DEF e
  <2>3. r.state \in RunnableStates
    BY <1>2 DEF RunnableStates
  <2>4. RunInv(e, build, deploy) /\ Follows(r, e)
    BY <1>2, <1>5, <2>2, <2>3, MovesOn
  <2> QED BY <1>1, <1>3, <1>5, <2>2, <2>4, QuietReturns
<1> QED BY <1>1, <1>4, <1>5

----------------------------------------------------------------------------
(* The build step                                                          *)

LEMMA BuildsMade ==
  ASSUME NEW b2, JobsInv(run, build, deploy), NEW r, NEW n, NEW commit \in Commits,
         b2 = ensureBuilds(r, n, commit)
  PROVE  Grows(build, deploy, b2, deploy) /\ JobsInv(run, b2, deploy)
<1>1. \A k \in BuildKeys :
        \/ b2[k] = build[k]
        \/ build[k] = NoBuild /\ b2[k] = [status |-> "active", commit |-> commit]
  BY DEF ensureBuilds
<1>2. b2 \in [BuildKeys -> BuildRow]
  <2>1. \A k \in BuildKeys : b2[k] \in BuildRow
    BY <1>1 DEF JobsInv, BuildRow
  <2> QED BY <2>1 DEF ensureBuilds
<1>3. \A k \in BuildKeys : build[k].status = "succeeded" => b2[k] = build[k]
  BY <1>1 DEF NoBuild
<1> QED BY <1>2, <1>3 DEF Grows, JobsInv

LEMMA BuildsCancelled ==
  ASSUME NEW b2, JobsInv(run, build, deploy), NEW those, b2 = cancelBuilds(those)
  PROVE  Grows(build, deploy, b2, deploy) /\ JobsInv(run, b2, deploy)
<1>1. \A k \in BuildKeys :
        \/ b2[k] = build[k]
        \/ build[k].status = "active" /\ b2[k] = [build[k] EXCEPT !.status = "cancelled"]
  BY DEF cancelBuilds, BuildActive
<1>2. b2 \in [BuildKeys -> BuildRow]
  <2>1. \A k \in BuildKeys : b2[k] \in BuildRow
    BY <1>1 DEF JobsInv, BuildRow
  <2> QED BY <2>1 DEF cancelBuilds
<1>3. \A k \in BuildKeys : build[k].status = "succeeded" => b2[k] = build[k]
  BY <1>1
<1> QED BY <1>2, <1>3 DEF Grows, JobsInv

(* Cancelling stops what no Agent has taken.                               *)
LEMMA DeploysCancelled ==
  ASSUME NEW r \in RunType, NEW b, NEW d, NEW those, JobsInv(r, b, d),
         NEW d2, d2 \in cancelWorkflowDeployments(d, those)
  PROVE  JobsInv(r, b, d2) /\ Grows(b, d, b, d2)
<1>0. PICK stopped \in SUBSET Stoppable(d, those) :
        d2 = [k \in JobKeys |->
                IF k \in stopped THEN [d[k] EXCEPT !.status = "cancelled"] ELSE d[k]]
  BY DEF cancelWorkflowDeployments
<1>1. ASSUME NEW k \in JobKeys
      PROVE  /\ d2[k] \in DeployRow /\ d2[k].commit = d[k].commit /\ d2[k].prior = d[k].prior
             /\ d2[k] = d[k] \/ (d[k].status = "queued" /\ d2[k].status = "cancelled")
  <2>1. d[k] \in DeployRow
    BY DEF JobsInv
  <2>2. CASE k \in stopped
    <3>1. d2[k] = [d[k] EXCEPT !.status = "cancelled"] /\ d[k].status = "queued"
      BY <1>0, <2>2 DEF Stoppable
    <3> QED BY <2>1, <3>1 DEF DeployRow
  <2>3. CASE k \notin stopped
    BY <1>0, <2>1, <2>3
  <2> QED BY <2>2, <2>3
<1>2. d2 \in [JobKeys -> DeployRow]
  BY <1>0, <1>1
<1>3. JobsInv(r, b, d2)
  BY <1>1, <1>2 DEF JobsInv, NoDeploy
<1>4. Grows(b, d, b, d2)
  BY <1>1 DEF Grows, Over
<1> QED BY <1>3, <1>4

LEMMA GrowsOn ==
  ASSUME NEW b1, NEW d1, NEW b2, NEW d2, NEW b3, NEW d3,
         Grows(b1, d1, b2, d2), Grows(b2, d2, b3, d3)
  PROVE  Grows(b1, d1, b3, d3)
BY DEF Grows

(* Once nothing has failed, the records of the copy are the builds of its  *)
(* approval and attempt that succeeded, and they are of its commit.        *)
LEMMA BuildRefsAre ==
  ASSUME NEW r \in RunType, NEW d, RunInv(r, build, d), r.state = "building",
         build \in [BuildKeys -> BuildRow], BuildStops(r) = {}
  PROVE  LET mine == {buildKey(r, a) : a \in PlanApps(r)} IN
         /\ mine \subseteq BuildKeys
         /\ buildRefs(r) \in RefsType /\ buildRefs(r).jobs = r.refs.jobs
         /\ buildRefs(r).records = {k \in mine : build[k].status = "succeeded"}
         /\ \A k \in buildRefs(r).records : build[k].commit = r.commit
<1> DEFINE mine == {buildKey(r, a) : a \in PlanApps(r)}
           done == {k \in mine : build[k].status = "succeeded"}
           bs == IF r.attempt > 1 THEN mine ELSE r.refs.builds \cup mine
           rs == IF r.attempt > 1 THEN done ELSE r.refs.records \cup done
           x == [r.refs EXCEPT !.builds = bs, !.records = rs]
<1>1. buildRefs(r) = x
  BY DEF buildRefs
<1>2. r.approval > 0 /\ r.attempt >= 1 /\ r.attempt \in Nat /\ r.refs \in RefsType
  BY FieldsTyped DEF RunInv, Working, RunnableStates
<1>3. mine \subseteq BuildKeys
  BY <1>2, KeysAre
<1>4. r.attempt = 1 => r.refs.records \subseteq done
  BY DEF RunInv, WithRecords, Working, RunnableStates
<1>5. rs = done /\ bs \subseteq BuildKeys
  BY <1>2, <1>3, <1>4 DEF RefsType
<1>6. \A k \in done : build[k].commit = r.commit
  BY DEF BuildStops
<1>7. done \subseteq BuildKeys
  BY <1>3
<1> HIDE DEF bs, rs, mine, done
<1>8. x \in RefsType /\ x.jobs = r.refs.jobs /\ x.records = rs
  BY <1>2, <1>5, <1>7 DEF RefsType
<1> QED BY <1>1, <1>3, <1>5, <1>6, <1>8 DEF mine, done

LEMMA BuiltAll ==
  ASSUME NEW r \in RunType, NEW d, RunInv(r, build, d), r.state = "building",
         build \in [BuildKeys -> BuildRow], BuildStops(r) = {}
  PROVE  LET e == [r EXCEPT !.refs = buildRefs(r),
                            !.state = IF Cardinality(buildRefs(r).records) = r.apps
                                      THEN "preflighting" ELSE @] IN
         e \in RunType /\ RunInv(e, build, d) /\ Follows(r, e)
<1> DEFINE x == buildRefs(r)
           s == IF Cardinality(x.records) = r.apps THEN "preflighting" ELSE r.state
           e == [r EXCEPT !.refs = x, !.state = s]
           mine == {buildKey(r, a) : a \in PlanApps(r)}
<1>1. /\ mine \subseteq BuildKeys /\ x \in RefsType /\ x.jobs = r.refs.jobs
      /\ x.records = {k \in mine : build[k].status = "succeeded"}
      /\ \A k \in x.records : build[k].commit = r.commit
  BY BuildRefsAre
<1>2. /\ s \in {"preflighting", "building"} /\ s \in States
      /\ s = "preflighting" => Cardinality(x.records) = r.apps
  BY DEF States, RunnableStates
<1>3. r.state \in RunnableStates /\ r.attempt \in Nat /\ r.apps \in Nat
      /\ PlanApps(r) = 1..r.apps
  BY FieldsTyped, KeysAre DEF RunnableStates
<1>4. s = "preflighting" => \A a \in PlanApps(r) : \E k \in x.records : k[2] = a
  <2> SUFFICES ASSUME s = "preflighting", NEW a \in PlanApps(r)
               PROVE  \E k \in x.records : k[2] = a
    OBVIOUS
  <2> HIDE DEF x, s
  <2> DEFINE p == r.approval
             t == r.attempt
  <2>1. mine = KeysOf(p, r.apps, t)
    BY <1>3 DEF buildKey, KeysOf
  <2>2. x.records \subseteq KeysOf(p, r.apps, t) /\ Cardinality(x.records) = r.apps
    BY <1>1, <1>2, <2>1
  <2> HIDE DEF p, t
  <2>3. x.records = KeysOf(p, r.apps, t)
    BY <1>3, <2>2, AllBuilt
  <2>4. <<p, a, t>> \in x.records /\ <<p, a, t>>[2] = a
    BY <1>3, <2>3 DEF KeysOf
  <2> QED BY <2>4
<1>5. x.records \subseteq mine /\ \A k \in x.records : build[k].status = "succeeded"
  BY <1>1
<1> HIDE DEF x, s
<1>6. /\ e \in RunType /\ SamePlan(r, e) /\ e.state = s /\ e.attempt = r.attempt
      /\ e.refs = x
  BY <1>1, <1>2 DEF RunType, SamePlan
<1> HIDE DEF e
<1>7. WithRecords(e, build)
  BY <1>1, <1>2, <1>4, <1>5, <1>6 DEF WithRecords, SamePlan, PlanApps, buildKey
<1>8. RunInv(e, build, d)
  <2>1. e.state \in Working /\ e.state \notin Draft \cup {"succeeded"} /\ r.state \in Working
    BY <1>2, <1>3, <1>6 DEF Working, RunnableStates, Draft
  <2> QED BY <1>1, <1>6, <1>7, <2>1 DEF RunInv, SamePlan
<1>9. Follows(r, e)
  BY <1>1, <1>2, <1>3, <1>6 DEF Follows, SamePlan, Draft
<1>10. e = [r EXCEPT !.refs = buildRefs(r),
                     !.state = IF Cardinality(buildRefs(r).records) = r.apps
                               THEN "preflighting" ELSE @]
  BY DEF e, x, s
<1> QED BY <1>6, <1>8, <1>9, <1>10

LEMMA BuildStepInv ==
  ASSUME WorkflowInv, NEW w \in Workers, worker[w].pc = "leased",
         worker[w].run.state = "building", BuildStep(w, worker[w].run),
         run' = run, lease' = lease, cancelling' = cancelling
  PROVE  WorkflowInv'
<1> DEFINE r == worker[w].run
<1>1. r \in RunType /\ RunInv(r, build, deploy) /\ r.state = "building"
  BY Leased
<1>2. JobsInv(run, build, deploy) /\ run \in RunType
  BY DEF WorkflowInv
<1>3. PICK commit \in Commits :
        /\ surprises' = surprises + (IF commit = head THEN 0 ELSE 1)
        /\ surprises' <= MaxSurprises
        /\ \/ \E a \in PlanApps(r) :
                /\ build' = ensureBuilds(r, a - 1, commit)
                /\ Returns(w, StepFailed(r, TRUE))
                /\ UNCHANGED deploy
           \/ /\ BuildStops(r) = {}
              /\ build' = ensureBuilds(r, r.apps, commit)
              /\ Returns(w, [r EXCEPT !.refs = buildRefs(r),
                   !.state = IF Cardinality(buildRefs(r).records) = r.apps
                             THEN "preflighting" ELSE @])
              /\ UNCHANGED deploy
           \/ \E a \in PlanApps(r) :
                \/ /\ Returns(w, StepStale(r))
                   /\ build' = ensureBuilds(r, a - 1, commit)
                   /\ UNCHANGED deploy
                \/ \E x \in BOOLEAN :
                     /\ \/ build' = build /\ deploy' = deploy
                        \/ /\ build' = cancelBuilds(r.refs.builds
                                         \cup {buildKey(r, y) : y \in 1..a})
                           /\ deploy' \in cancelWorkflowDeployments(deploy, r.refs.jobs)
                     /\ Returns(w, StepFailed(r, x))
  <2>1. BuildStops(r) \subseteq PlanApps(r) /\ PlanApps(r) \subseteq Nat
    BY <1>1, KeysAre DEF BuildStops
  <2>2. BuildStops(r) # {} => Min(BuildStops(r)) \in PlanApps(r)
    BY <2>1, MinIs
  <2>3. \A a : (build[buildKey(r, a)].status = "infrastructure") \in BOOLEAN
    OBVIOUS
  <2> QED BY <2>2, <2>3 DEF BuildStep, Jobs
<1>4. OutsideInv'
  <2>1. UNCHANGED <<head, facts, preflight, known>>
    BY DEF BuildStep
  <2>2. surprises \in Nat /\ facts.drifts \in Nat /\ MaxSurprises \in Nat
    BY WorkflowAssumption DEF WorkflowInv, OutsideInv, FactsType
  <2>3. surprises' \in 0..MaxSurprises /\ surprises' >= surprises
    BY <1>3, <2>2
  <2> QED BY <2>1, <2>2, <2>3 DEF WorkflowInv, OutsideInv
<1>5. ASSUME NEW a \in Nat, build' = ensureBuilds(r, a, commit), deploy' = deploy
      PROVE  Grows(build, deploy, build', deploy') /\ JobsInv(run, build', deploy')
  BY <1>2, <1>5, BuildsMade
<1>6. CASE \E a \in PlanApps(r) :
             /\ build' = ensureBuilds(r, a - 1, commit)
             /\ Returns(w, StepFailed(r, TRUE)) \/ Returns(w, StepStale(r))
             /\ UNCHANGED deploy
  <2>1. PICK a \in PlanApps(r) :
          /\ build' = ensureBuilds(r, a - 1, commit) /\ deploy' = deploy
          /\ Returns(w, StepFailed(r, TRUE)) \/ Returns(w, StepStale(r))
    BY <1>6
  <2>2. a - 1 \in Nat
    BY <1>1, KeysAre
  <2>3. Grows(build, deploy, build', deploy') /\ JobsInv(run, build', deploy')
    BY <1>5, <2>1, <2>2
  <2> QED BY <1>4, <2>1, <2>3, FailedReturns, StaleReturns
<1>7. CASE /\ BuildStops(r) = {}
           /\ build' = ensureBuilds(r, r.apps, commit)
           /\ Returns(w, [r EXCEPT !.refs = buildRefs(r),
                !.state = IF Cardinality(buildRefs(r).records) = r.apps
                          THEN "preflighting" ELSE @])
           /\ UNCHANGED deploy
  <2> DEFINE e == [r EXCEPT !.refs = buildRefs(r),
                !.state = IF Cardinality(buildRefs(r).records) = r.apps
                          THEN "preflighting" ELSE @]
  <2>1. r.apps \in Nat /\ build \in [BuildKeys -> BuildRow]
    BY <1>1, <1>2, KeysAre DEF JobsInv
  <2>2. Grows(build, deploy, build', deploy') /\ JobsInv(run, build', deploy')
    BY <1>5, <1>7, <2>1
  <2>3. e \in RunType /\ RunInv(e, build, deploy) /\ Follows(r, e)
    BY <1>1, <1>7, <2>1, BuiltAll
  <2>4. Returns(w, e)
    BY <1>7
  <2> HIDE DEF e
  <2>5. RunInv(e, build', deploy')
    BY <2>2, <2>3, RunStands
  <2> QED BY <1>4, <2>2, <2>3, <2>4, <2>5, StepReturns
<1>8. CASE \E a \in PlanApps(r), x \in BOOLEAN :
             /\ build' = cancelBuilds(r.refs.builds \cup {buildKey(r, y) : y \in 1..a})
             /\ deploy' \in cancelWorkflowDeployments(deploy, r.refs.jobs)
             /\ Returns(w, StepFailed(r, x))
  <2>1. PICK a \in PlanApps(r), x \in BOOLEAN :
          /\ build' = cancelBuilds(r.refs.builds \cup {buildKey(r, y) : y \in 1..a})
          /\ deploy' \in cancelWorkflowDeployments(deploy, r.refs.jobs)
          /\ Returns(w, StepFailed(r, x))
    BY <1>8
  <2>2. Grows(build, deploy, build', deploy) /\ JobsInv(run, build', deploy)
    BY <1>2, <2>1, BuildsCancelled
  <2>3. Grows(build', deploy, build', deploy') /\ JobsInv(run, build', deploy')
    BY <1>2, <2>1, <2>2, DeploysCancelled
  <2>4. Grows(build, deploy, build', deploy')
    BY <2>2, <2>3, GrowsOn
  <2> QED BY <1>4, <2>1, <2>3, <2>4, FailedReturns
<1>9. CASE \E x \in BOOLEAN :
             build' = build /\ deploy' = deploy /\ Returns(w, StepFailed(r, x))
  <2>1. Grows(build, deploy, build', deploy') /\ JobsInv(run, build', deploy')
    BY <1>2, <1>9, GrowsSame
  <2> QED BY <1>4, <1>9, <2>1, FailedReturns
<1> QED BY <1>3, <1>6, <1>7, <1>8, <1>9

----------------------------------------------------------------------------
(* The deploy step                                                         *)

(* A job the step starts is of the commit of the copy.                     *)
LEMMA ApplyIs ==
  ASSUME WorkflowInv, NEW w \in Workers, worker[w].pc = "leased",
         worker[w].run.state = "deploying",
         NEW n \in Nat, n <= worker[w].run.apps, NEW k \in JobKeys
  PROVE  LET r == worker[w].run
             j == ensureApplies(r, n)[k] IN
         /\ j \in DeployRow
         /\ \/ j = deploy[k]
            \/ /\ \E a \in 1..n : k = applyKey(r, a)
               /\ j.status = "queued" /\ j.commit = r.commit /\ deploy[k] = NoDeploy
            \/ /\ \E a \in 1..n : k = applyKey(r, a)
               /\ j.status = "queued" /\ j.commit = deploy[k].commit
               /\ j.prior = deploy[k].prior /\ Retryable(r, k)
         /\ \A a \in 1..n : k = applyKey(r, a) => j.status # "absent"
<1> DEFINE r == worker[w].run
           j == ensureApplies(r, n)[k]
<1>1. /\ r \in RunType /\ RunInv(r, build, deploy) /\ r.state = "deploying"
      /\ r.attempt \in 0..MaxAttempts /\ r.commit \in Commits \cup {0}
  BY Leased, FieldsTyped
<1>2. deploy[k] \in DeployRow /\ (deploy[k].status = "absent" => deploy[k] = NoDeploy)
  BY DEF WorkflowInv, JobsInv
<1>3. CASE ~ \E a \in 1..n : k = applyKey(r, a)
  <2>1. j = deploy[k]
    BY <1>3 DEF ensureApplies
  <2> QED BY <1>2, <1>3, <2>1
<1>4. CASE (\E a \in 1..n : k = applyKey(r, a)) /\ deploy[k] = NoDeploy
  <2>1. PICK a \in 1..n : k = applyKey(r, a)
    BY <1>4
  <2>2. a \in PlanApps(r) /\ k[2] = a
    BY <1>1, <2>1, KeysAre DEF applyKey
  <2>3. recordCommit(r, k[2]) = r.commit
    <3>1. \E x \in r.refs.records : x[2] = a
      BY <1>1, <2>2 DEF RunInv, WithRecords
    <3>2. (CHOOSE x \in r.refs.records : x[2] = a) \in r.refs.records
      BY <3>1
    <3>3. \A x \in r.refs.records : build[x].commit = r.commit
      BY <1>1 DEF RunInv, WithRecords
    <3> QED BY <2>2, <3>2, <3>3 DEF recordCommit
  <2> DEFINE p == k[2] \in known
             c == recordCommit(r, k[2])
             t == 0
  <2>4. j = [status |-> "queued", commit |-> c, prior |-> p, retried |-> t]
    BY <1>4 DEF ensureApplies
  <2>5. p \in BOOLEAN /\ c = r.commit /\ t \in 0..MaxAttempts
    BY <1>1, <2>3, WorkflowAssumption
  <2> HIDE DEF p, c, t
  <2>6. j \in DeployRow /\ j.status = "queued" /\ j.commit = r.commit
    BY <1>1, <2>4, <2>5 DEF DeployRow
  <2> QED BY <1>4, <2>6
<1>5. CASE (\E a \in 1..n : k = applyKey(r, a)) /\ deploy[k] # NoDeploy /\ Retryable(r, k)
  <2> DEFINE t == r.attempt
  <2>1. j = [deploy[k] EXCEPT !.status = "queued", !.retried = t]
    BY <1>5 DEF ensureApplies
  <2>2. t \in 0..MaxAttempts
    BY <1>1
  <2> HIDE DEF t
  <2>3. j \in DeployRow /\ j.status = "queued" /\ j.commit = deploy[k].commit
        /\ j.prior = deploy[k].prior
    BY <1>2, <2>1, <2>2 DEF DeployRow
  <2> QED BY <1>5, <2>3
<1>6. CASE (\E a \in 1..n : k = applyKey(r, a)) /\ deploy[k] # NoDeploy /\ ~Retryable(r, k)
  <2>1. j = deploy[k]
    BY <1>6 DEF ensureApplies
  <2> QED BY <1>2, <1>6, <2>1
<1> QED BY <1>3, <1>4, <1>5, <1>6

LEMMA AppliesMade ==
  ASSUME WorkflowInv, NEW w \in Workers, worker[w].pc = "leased",
         worker[w].run.state = "deploying",
         NEW n \in Nat, n <= worker[w].run.apps
  PROVE  LET r == worker[w].run
             d == ensureApplies(r, n) IN
         /\ JobsInv(run, build, d) /\ Grows(build, deploy, build, d)
         /\ \A a \in 1..n : d[applyKey(r, a)].status # "absent"
<1> DEFINE r == worker[w].run
           d == ensureApplies(r, n)
<1>1. r \in RunType /\ RunInv(r, build, deploy) /\ Older(r, run) /\ r.approval > 0
  BY Leased DEF RunInv, Working, RunnableStates
<1>2. /\ r.approval \in Nat /\ r.approvals \in Nat /\ run.approvals \in Nat
      /\ r.approval <= r.approvals /\ r.approvals <= run.approvals
      /\ JobsInv(run, build, deploy)
  BY <1>1, FieldsTyped DEF WorkflowInv, RunInv, Older
<1>3. \A k \in JobKeys :
         /\ d[k] \in DeployRow
         /\ \/ d[k] = deploy[k]
            \/ /\ \E a \in 1..n : k = applyKey(r, a)
               /\ d[k].status = "queued" /\ d[k].commit = r.commit /\ deploy[k] = NoDeploy
            \/ /\ \E a \in 1..n : k = applyKey(r, a)
               /\ d[k].status = "queued" /\ d[k].commit = deploy[k].commit
               /\ d[k].prior = deploy[k].prior /\ Retryable(r, k)
         /\ \A a \in 1..n : k = applyKey(r, a) => d[k].status # "absent"
  BY ApplyIs
<1>4. d \in [JobKeys -> DeployRow]
  BY <1>3 DEF ensureApplies
<1>5. \A a \in 1..n : applyKey(r, a) \in JobKeys
  BY <1>1, KeysAre
<1> HIDE DEF d
<1>6. \A a \in 1..n : d[applyKey(r, a)].status # "absent"
  BY <1>3, <1>5
<1>7. ASSUME NEW k \in JobKeys
      PROVE  /\ d[k].status = "absent" => d[k] = NoDeploy
             /\ d[k].status # "absent" => k[1] <= run.approvals
             /\ d[k].status # "absent" /\ k[1] = run.approval /\ k[3] = "apply"
                  => d[k].commit = run.commit
  <2>1. /\ deploy[k].status = "absent" => deploy[k] = NoDeploy
        /\ deploy[k].status # "absent" => k[1] <= run.approvals
        /\ deploy[k].status # "absent" /\ k[1] = run.approval /\ k[3] = "apply"
             => deploy[k].commit = run.commit
    BY <1>2 DEF JobsInv
  <2>2. CASE d[k] = deploy[k]
    BY <2>1, <2>2
  <2>3. CASE /\ \E a \in 1..n : k = applyKey(r, a)
             /\ d[k].status = "queued" /\ d[k].commit = r.commit
    <3>1. k[1] = r.approval
      BY <2>3 DEF applyKey
    <3> QED BY <1>1, <1>2, <2>3, <3>1 DEF Older
  <2>4. CASE /\ d[k].status = "queued" /\ d[k].commit = deploy[k].commit /\ Retryable(r, k)
    <3>1. deploy[k].status # "absent"
      BY <2>4 DEF Retryable
    <3> QED BY <2>1, <2>4, <3>1
  <2> QED BY <1>3, <2>2, <2>3, <2>4
<1>8. JobsInv(run, build, d)
  BY <1>2, <1>4, <1>7 DEF JobsInv
<1>9. Grows(build, deploy, build, d)
  BY <1>3 DEF Grows, Over, Retryable, NoDeploy
<1> QED BY <1>6, <1>8, <1>9 DEF d

(* The copy refers to more jobs, all of which exist.                       *)
Seeing(r, jobs) == [r EXCEPT !.refs.jobs = jobs]

LEMMA SeeingIs ==
  ASSUME NEW r \in RunType, NEW b, NEW d, RunInv(r, b, d), r.state \in RunnableStates,
         NEW jobs \in SUBSET JobKeys, r.refs.jobs \subseteq jobs,
         \A k \in jobs : d[k].status # "absent"
  PROVE  LET e == Seeing(r, jobs) IN
         /\ e \in RunType /\ SamePlan(r, e) /\ e.state = r.state /\ e.attempt = r.attempt
         /\ e.refs.jobs = jobs /\ RunInv(e, b, d)
         /\ \A x : Follows(e, x) => Follows(r, x)
<1> DEFINE x == [r.refs EXCEPT !.jobs = jobs]
           e == [r EXCEPT !.refs = x]
<1>1. x \in RefsType /\ x.jobs = jobs /\ x.records = r.refs.records
  <2>1. r.refs \in RefsType
    BY FieldsTyped
  <2> QED BY <2>1 DEF RefsType
<1>2. Seeing(r, jobs) = e
  BY DEF Seeing
<1> HIDE DEF x
<1>3. /\ e \in RunType /\ SamePlan(r, e) /\ e.state = r.state /\ e.attempt = r.attempt
      /\ e.refs = x
  BY <1>1 DEF RunType, SamePlan
<1> HIDE DEF e
<1>4. e.state \notin Draft \cup {"succeeded"} /\ r.state \notin Draft \cup {"succeeded"}
  BY <1>3 DEF RunnableStates, Draft
<1>5. WithRecords(e, b)
  BY <1>1, <1>3 DEF RunInv, WithRecords, SamePlan, PlanApps, buildKey
<1>6. RunInv(e, b, d)
  BY <1>1, <1>3, <1>4, <1>5 DEF RunInv, SamePlan
<1>7. \A y : Follows(e, y) => Follows(r, y)
  BY <1>1, <1>3 DEF Follows, SamePlan
<1> QED BY <1>1, <1>2, <1>3, <1>6, <1>7

LEMMA DeployStopsAre ==
  ASSUME NEW r \in RunType
  PROVE  /\ DeployStops(r) \subseteq PlanApps(r)
         /\ DeployStops(r) # {} =>
              /\ Min(DeployStops(r)) \in DeployStops(r)
              /\ \A x \in DeployStops(r) : Min(DeployStops(r)) <= x
<1>1. DeployStops(r) \subseteq PlanApps(r) /\ PlanApps(r) \subseteq Nat
  BY KeysAre DEF DeployStops
<1> QED BY <1>1, MinIs

(* When nothing stopped it, the copy refers to the job of each application.*)
LEMMA DeployedInv ==
  ASSUME WorkflowInv, NEW w \in Workers, worker[w].pc = "leased",
         worker[w].run.state = "deploying",
         deploy' = ensureApplies(worker[w].run, worker[w].run.apps), build' = build,
         Returns(w, [worker[w].run EXCEPT
           !.refs.jobs = @ \cup {applyKey(worker[w].run, a) : a \in PlanApps(worker[w].run)},
           !.state = IF \A a \in PlanApps(worker[w].run) :
                          deploy[applyKey(worker[w].run, a)].status = "succeeded"
                     THEN "verifying" ELSE @]),
         OutsideInv', run' = run
  PROVE  WorkflowInv'
<1> DEFINE r == worker[w].run
           js == r.refs.jobs \cup {applyKey(r, a) : a \in PlanApps(r)}
           s == IF \A a \in PlanApps(r) : deploy[applyKey(r, a)].status = "succeeded"
                THEN "verifying" ELSE r.state
           n == Seeing(r, js)
           e == [n EXCEPT !.state = s]
<1>1. /\ r \in RunType /\ RunInv(r, build, deploy) /\ r.state = "deploying"
      /\ r.state \in RunnableStates /\ r.approval > 0
  BY Leased DEF RunInv, Working, RunnableStates
<1>2. r.apps \in Nat /\ PlanApps(r) = 1..r.apps /\ r.refs.jobs \subseteq JobKeys
      /\ \A a \in PlanApps(r) : applyKey(r, a) \in JobKeys
  BY <1>1, KeysAre, FieldsTyped
<1>3. /\ Grows(build, deploy, build', deploy') /\ JobsInv(run, build', deploy')
      /\ \A a \in PlanApps(r) : deploy'[applyKey(r, a)].status # "absent"
  BY <1>2, AppliesMade
<1>4. RunInv(r, build', deploy')
  BY <1>1, <1>3, RunStands
<1>5. /\ js \in SUBSET JobKeys /\ r.refs.jobs \subseteq js
      /\ \A k \in js : deploy'[k].status # "absent"
  BY <1>2, <1>3, <1>4 DEF RunInv
<1>6. s \in {"verifying", "deploying"} /\ s \in States
  BY <1>1 DEF States, RunnableStates
<1>7. Returns(w, e)
  BY <1>1 DEF Seeing, RunType, RefsType
<1> HIDE DEF js, s
<1>8. /\ n \in RunType /\ SamePlan(r, n) /\ n.state = r.state /\ n.attempt = r.attempt
      /\ RunInv(n, build', deploy') /\ \A x : Follows(n, x) => Follows(r, x)
  BY <1>1, <1>4, <1>5, SeeingIs
<1> HIDE DEF n
<1>9. /\ e \in RunType /\ SamePlan(n, e) /\ e.state = s /\ e.attempt = n.attempt
      /\ e.refs = n.refs
  BY <1>6, <1>8, StateIs
<1> HIDE DEF e
<1>10. RunInv(e, build', deploy') /\ Follows(n, e)
  <2>1. n.state \in RunnableStates /\ e.state \in Working /\ e.state # "succeeded"
        /\ n.state = "deploying"
    BY <1>1, <1>6, <1>8, <1>9 DEF Working, RunnableStates
  <2>2. e.state \in {"verifying", "deploying"}
    BY <1>6, <1>9
  <2> QED BY <1>8, <1>9, <2>1, <2>2, MovesOn
<1> QED BY <1>3, <1>7, <1>8, <1>9, <1>10, StepReturns

(* When an application stopped it, the jobs no Agent has taken are         *)
(* cancelled and the run rolls back, cleans up, or fails.                  *)
LEMMA StoppedInv ==
  ASSUME WorkflowInv, NEW w \in Workers, worker[w].pc = "leased",
         worker[w].run.state = "deploying", NEW a \in PlanApps(worker[w].run),
         NEW seen, seen = worker[w].run.refs.jobs
                     \cup {applyKey(worker[w].run, x) : x \in 1..a},
         deploy' \in cancelWorkflowDeployments(ensureApplies(worker[w].run, a), seen),
         build' = build,
         \/ Returns(w, StepFailed(worker[w].run, FALSE))
         \/ Returns(w, StepFailed(Seeing(worker[w].run, seen), FALSE))
         \/ \E s \in {"rolling_back", "cleaning_up"} :
              Returns(w, StepCompensates(Seeing(worker[w].run, seen), s)),
         OutsideInv', run' = run
  PROVE  WorkflowInv'
<1> DEFINE r == worker[w].run
           n == Seeing(r, seen)
           d == ensureApplies(r, a)
<1>1. /\ r \in RunType /\ RunInv(r, build, deploy) /\ r.state = "deploying"
      /\ r.state \in RunnableStates /\ r.approval > 0 /\ run \in RunType
  BY Leased DEF RunInv, Working, RunnableStates
<1>2. /\ a \in Nat /\ a <= r.apps /\ r.refs.jobs \subseteq JobKeys
      /\ \A x \in 1..a : applyKey(r, x) \in JobKeys
  BY <1>1, KeysAre, FieldsTyped
<1>3. /\ Grows(build, deploy, build, d) /\ JobsInv(run, build, d)
      /\ \A x \in 1..a : d[applyKey(r, x)].status # "absent"
  BY <1>2, AppliesMade
<1> HIDE DEF d
<1>4. Grows(build, d, build', deploy') /\ JobsInv(run, build', deploy')
  BY <1>1, <1>3, DeploysCancelled DEF d
<1>5. Grows(build, deploy, build', deploy')
  BY <1>3, <1>4, GrowsOn
<1>6. RunInv(r, build', deploy')
  BY <1>1, <1>5, RunStands
<1>7. /\ seen \in SUBSET JobKeys /\ r.refs.jobs \subseteq seen
      /\ \A k \in seen : deploy'[k].status # "absent"
  BY <1>2, <1>3, <1>4, <1>6 DEF RunInv, Grows
<1>8. /\ n \in RunType /\ SamePlan(r, n) /\ n.state = r.state /\ n.attempt = r.attempt
      /\ RunInv(n, build', deploy') /\ \A x : Follows(n, x) => Follows(r, x)
  BY <1>1, <1>6, <1>7, SeeingIs
<1> HIDE DEF n
<1>9. CASE Returns(w, StepFailed(r, FALSE))
  BY <1>4, <1>5, <1>9, FailedReturns
<1>10. CASE Returns(w, StepFailed(n, FALSE))
  <2>1. /\ StepFailed(n, FALSE) \in RunType
        /\ RunInv(StepFailed(n, FALSE), build', deploy')
        /\ Follows(r, StepFailed(n, FALSE))
    BY <1>1, <1>8, FailedIs, FailedStands
  <2> QED BY <1>4, <1>5, <1>10, <2>1, StepReturns
<1>11. ASSUME NEW s \in {"rolling_back", "cleaning_up"}, Returns(w, StepCompensates(n, s))
       PROVE  WorkflowInv'
  <2> DEFINE e == StepCompensates(n, s)
  <2>1. /\ e \in RunType /\ SamePlan(n, e) /\ e.state = s /\ e.attempt = n.attempt
        /\ e.refs = n.refs
    BY <1>8, CompensatesIs
  <2> HIDE DEF e
  <2>2. e.state \in Working /\ e.state \notin {"preflighting", "succeeded",
          "awaiting_warning_acknowledgement", "deploying"}
    BY <2>1 DEF Working, RunnableStates
  <2>3. RunInv(e, build', deploy') /\ Follows(n, e)
    BY <1>1, <1>8, <2>1, <2>2, MovesOn
  <2>4. Returns(w, e)
    BY <1>11 DEF e
  <2> QED BY <1>4, <1>5, <1>8, <2>1, <2>3, <2>4, StepReturns
<1> QED BY <1>9, <1>10, <1>11 DEF n

LEMMA DeployStepInv ==
  ASSUME WorkflowInv, NEW w \in Workers, worker[w].pc = "leased",
         worker[w].run.state = "deploying", deployStep(w, worker[w].run),
         run' = run, lease' = lease, cancelling' = cancelling
  PROVE  WorkflowInv'
<1> DEFINE r == worker[w].run
<1>1. r \in RunType /\ RunInv(r, build, deploy) /\ JobsInv(run, build, deploy)
  BY Leased DEF WorkflowInv
<1>2. UNCHANGED Outside /\ build' = build
  BY DEF deployStep, Jobs
<1>3. OutsideInv'
  BY <1>2, OutsideStands DEF WorkflowInv
<1>4. PlanApps(r) = 1..r.apps /\ r.apps \in Nat
  BY <1>1, KeysAre
<1>5. CASE Returns(w, StepStale(r)) /\ deploy' = deploy
  <2>1. Grows(build, deploy, build', deploy') /\ JobsInv(run, build', deploy')
    BY <1>1, <1>2, <1>5, GrowsSame
  <2> QED BY <1>3, <1>5, <2>1, StaleReturns
<1>6. ASSUME NEW a \in PlanApps(r), deploy' = ensureApplies(r, a - 1),
             Returns(w, StepFailed(r, TRUE))
      PROVE  WorkflowInv'
  <2>1. a - 1 \in Nat /\ a - 1 <= r.apps
    BY <1>4
  <2>2. Grows(build, deploy, build', deploy') /\ JobsInv(run, build', deploy')
    BY <1>2, <1>6, <2>1, AppliesMade
  <2> QED BY <1>3, <1>6, <2>2, FailedReturns
<1>7. CASE /\ deploy' = ensureApplies(r, r.apps)
           /\ Returns(w, [r EXCEPT
                !.refs.jobs = @ \cup {applyKey(r, a) : a \in PlanApps(r)},
                !.state = IF \A a \in PlanApps(r) : deploy[applyKey(r, a)].status = "succeeded"
                          THEN "verifying" ELSE @])
  BY <1>2, <1>3, <1>7, DeployedInv
<1>8. ASSUME DeployStops(r) # {}, NEW a, a = Min(DeployStops(r)), NEW seen,
             seen = r.refs.jobs \cup {applyKey(r, x) : x \in 1..a},
             deploy' \in cancelWorkflowDeployments(ensureApplies(r, a), seen),
             \/ Returns(w, StepFailed(r, FALSE))
             \/ Returns(w, StepFailed(Seeing(r, seen), FALSE))
             \/ Returns(w, StepCompensates(Seeing(r, seen), "rolling_back"))
             \/ Returns(w, StepCompensates(Seeing(r, seen), "cleaning_up"))
      PROVE  WorkflowInv'
  <2>1. a \in PlanApps(r)
    BY <1>1, <1>8, DeployStopsAre
  <2> QED BY <1>2, <1>3, <1>8, <2>1, StoppedInv
<1>9. CASE /\ DeployStops(r) # {}
           /\ LET a == Min(DeployStops(r))
                  seen == r.refs.jobs \cup {applyKey(r, x) : x \in 1..a} IN
              /\ deploy' \in cancelWorkflowDeployments(ensureApplies(r, a), seen)
              /\ \/ Returns(w, StepFailed(r, FALSE))
                 \/ Returns(w, StepFailed(Seeing(r, seen), FALSE))
                 \/ Returns(w, StepCompensates(Seeing(r, seen), "rolling_back"))
                 \/ Returns(w, StepCompensates(Seeing(r, seen), "cleaning_up"))
  BY <1>8, <1>9
<1> QED BY <1>5, <1>6, <1>7, <1>9 DEF deployStep, Seeing, Jobs

----------------------------------------------------------------------------
(* Rolling back and cleaning up                                            *)

Started(r, how, sources, n) ==
  [k \in JobKeys |->
     IF deploy[k] = NoDeploy /\ \E a \in sources : a <= n /\ k = <<r.approval, a, how>>
     THEN [NoDeploy EXCEPT !.status = "queued", !.commit = r.commit] ELSE deploy[k]]

LEMMA StartedGrows ==
  ASSUME WorkflowInv, NEW w \in Workers, worker[w].pc = "leased",
         NEW how \in {"rollback", "cleanup"}, NEW sources, NEW n
  PROVE  LET d == Started(worker[w].run, how, sources, n) IN
         JobsInv(run, build, d) /\ Grows(build, deploy, build, d)
<1> DEFINE r == worker[w].run
           d == Started(r, how, sources, n)
           c == r.commit
           j == [NoDeploy EXCEPT !.status = "queued", !.commit = c]
<1>1. /\ r \in RunType /\ RunInv(r, build, deploy) /\ Older(r, run)
      /\ JobsInv(run, build, deploy) /\ run \in RunType
  BY Leased DEF WorkflowInv
<1>2. /\ r.approval \in Nat /\ r.approvals \in Nat /\ run.approvals \in Nat
      /\ r.approval <= run.approvals /\ c \in Commits \cup {0}
  BY <1>1, FieldsTyped DEF RunInv, Older
<1> HIDE DEF c
<1>3. j \in DeployRow /\ j.status = "queued"
  <2>1. 0 \in 0..MaxAttempts
    BY WorkflowAssumption
  <2>2. NoDeploy \in DeployRow
    BY <2>1 DEF NoDeploy, DeployRow
  <2> QED BY <1>2, <2>2 DEF DeployRow
<1>4. ASSUME NEW k \in JobKeys
      PROVE  \/ d[k] = deploy[k]
             \/ /\ deploy[k] = NoDeploy /\ d[k] = j
                /\ k[1] = r.approval /\ k[3] # "apply"
  BY DEF Started, c
<1> HIDE DEF j
<1>5. d \in [JobKeys -> DeployRow]
  <2>1. \A k \in JobKeys : d[k] \in DeployRow
    BY <1>1, <1>3, <1>4 DEF JobsInv
  <2> QED BY <2>1 DEF Started
<1> HIDE DEF d
<1>6. JobsInv(run, build, d)
  BY <1>1, <1>2, <1>3, <1>4, <1>5 DEF JobsInv
<1>7. Grows(build, deploy, build, d)
  BY <1>4 DEF Grows, Over, NoDeploy
<1> QED BY <1>6, <1>7 DEF d

LEMMA CompensateInv ==
  ASSUME WorkflowInv, NEW w \in Workers, worker[w].pc = "leased",
         worker[w].run.state \in {"rolling_back", "cleaning_up"},
         NEW how \in {"rollback", "cleanup"}, NEW refused, NEW done,
         NEW sources \in SUBSET PlanApps(worker[w].run),
         Compensate(w, worker[w].run, how, sources, refused, done),
         UNCHANGED Outside, build' = build,
         run' = run, lease' = lease, cancelling' = cancelling
  PROVE  WorkflowInv'
<1> DEFINE r == worker[w].run
           js == r.refs.jobs \cup {<<r.approval, a, how>> : a \in sources}
           n == Seeing(r, js)
           s == IF how = "rollback" THEN "rolled_back" ELSE "failed"
           e == [n EXCEPT !.state = s]
<1>1. /\ r \in RunType /\ RunInv(r, build, deploy) /\ r.state \in RunnableStates
      /\ r.approval > 0 /\ r.approval \in Nat
  BY Leased, FieldsTyped DEF RunInv, Working
<1>2. r.apps \in Nat /\ PlanApps(r) = 1..r.apps /\ r.refs.jobs \subseteq JobKeys
      /\ PlanApps(r) \subseteq Apps
  BY <1>1, KeysAre, FieldsTyped
<1>3. OutsideInv'
  BY OutsideStands DEF WorkflowInv
<1>4. ASSUME NEW m, deploy' = Started(r, how, sources, m)
      PROVE  Grows(build, deploy, build', deploy') /\ JobsInv(run, build', deploy')
  BY <1>4, StartedGrows
<1>5. CASE \E m : deploy' = Started(r, how, sources, m)
                    /\ \E x \in BOOLEAN : Returns(w, StepFailed(r, x))
  <2>0. PICK m : deploy' = Started(r, how, sources, m)
                 /\ \E x \in BOOLEAN : Returns(w, StepFailed(r, x))
    BY <1>5
  <2>1. PICK x \in BOOLEAN :
          deploy' = Started(r, how, sources, m) /\ Returns(w, StepFailed(r, x))
    BY <2>0
  <2>2. Grows(build, deploy, build', deploy') /\ JobsInv(run, build', deploy')
    BY <1>4, <2>1
  <2> QED BY <1>3, <2>1, <2>2, FailedReturns
<1>6. CASE /\ deploy' = Started(r, how, sources, r.apps)
           /\ Returns(w, e) \/ Returns(w, n)
  <2>1. Grows(build, deploy, build', deploy') /\ JobsInv(run, build', deploy')
    BY <1>4, <1>6
  <2>2. RunInv(r, build', deploy')
    BY <1>1, <2>1, RunStands
  <2>3. ASSUME NEW a \in sources
        PROVE  /\ <<r.approval, a, how>> \in JobKeys
               /\ deploy'[<<r.approval, a, how>>].status # "absent"
    <3> DEFINE k == <<r.approval, a, how>>
    <3>1. a \in PlanApps(r) /\ a <= r.apps
      BY <1>2, <2>3
    <3>2. k \in JobKeys
      <4>1. applyKey(r, a) \in JobKeys
        BY <1>1, <1>2, <3>1, KeysAre
      <4> QED BY <4>1 DEF applyKey, JobKeys
    <3>3. CASE deploy[k] = NoDeploy
      BY <1>6, <3>1, <3>2, <3>3 DEF Started, NoDeploy
    <3>4. CASE deploy[k] # NoDeploy
      <4>1. deploy[k].status # "absent"
        BY <3>2, <3>4 DEF WorkflowInv, JobsInv
      <4> QED BY <2>1, <3>2, <4>1 DEF Grows
    <3> QED BY <3>2, <3>3, <3>4
  <2>4. /\ js \in SUBSET JobKeys /\ r.refs.jobs \subseteq js
        /\ \A k \in js : deploy'[k].status # "absent"
    BY <1>2, <2>2, <2>3 DEF RunInv
  <2> HIDE DEF js
  <2>5. /\ n \in RunType /\ SamePlan(r, n) /\ n.state = r.state /\ n.attempt = r.attempt
        /\ RunInv(n, build', deploy') /\ \A x : Follows(n, x) => Follows(r, x)
    BY <1>1, <2>2, <2>4, SeeingIs
  <2>6. s \in {"rolled_back", "failed"} /\ s \in States
    BY DEF States, TerminalStates
  <2> HIDE DEF n, s
  <2>7. CASE Returns(w, n)
    <3>1. n.state \in {"rolling_back", "cleaning_up"} /\ n.attempt \in Nat
          /\ n.state \in Working /\ n.state \notin Draft \cup {"succeeded"}
      BY <2>5, FieldsTyped DEF Working, RunnableStates, Draft
    <3>2. SamePlan(n, n)
      BY DEF SamePlan
    <3>3. Follows(n, n)
      BY <3>1, <3>2 DEF Follows, SamePlan, RunnableStates, Draft
    <3> QED BY <1>3, <2>1, <2>5, <2>7, <3>3, StepReturns
  <2>8. CASE Returns(w, e)
    <3>1. /\ e \in RunType /\ SamePlan(n, e) /\ e.state = s /\ e.attempt = n.attempt
          /\ e.refs = n.refs
      BY <2>5, <2>6, StateIs
    <3> HIDE DEF e
    <3>2. e.state \in {"rolled_back", "failed"} /\ n.state \in RunnableStates
      BY <1>1, <2>5, <2>6, <3>1
    <3>3. RunInv(e, build', deploy') /\ Follows(n, e)
      BY <2>5, <3>1, <3>2, MovesOn
    <3> QED BY <1>3, <2>1, <2>5, <2>8, <3>1, <3>3, StepReturns
  <2> QED BY <1>6, <2>7, <2>8
<1> QED BY <1>5, <1>6 DEF Compensate, Started, Seeing

LEMMA RollbackStepInv ==
  ASSUME WorkflowInv, NEW w \in Workers, worker[w].pc = "leased",
         \/ worker[w].run.state = "rolling_back" /\ rollback(w, worker[w].run)
         \/ worker[w].run.state = "cleaning_up" /\ cleanupFirstDeploy(w, worker[w].run),
         run' = run, lease' = lease, cancelling' = cancelling
  PROVE  WorkflowInv'
<1> DEFINE r == worker[w].run
<1>1. CASE r.state = "rolling_back" /\ rollback(w, r)
  <2> DEFINE sources == {a \in PlanApps(r) : applyKey(r, a) \in r.refs.jobs
                                              /\ Eligible(applyKey(r, a))}
  <2>1. /\ Compensate(w, r, "rollback", sources, {}, "rolled_back")
        /\ UNCHANGED Outside /\ build' = build
    BY <1>1 DEF rollback
  <2>2. sources \in SUBSET PlanApps(r)
    OBVIOUS
  <2> HIDE DEF sources
  <2> QED BY <1>1, <2>1, <2>2, CompensateInv
<1>2. CASE r.state = "cleaning_up" /\ cleanupFirstDeploy(w, r)
  <2> DEFINE sources == {a \in PlanApps(r) : applyKey(r, a) \in r.refs.jobs
                                              /\ ~Eligible(applyKey(r, a))}
             refused == {a \in sources : deploy[applyKey(r, a)].prior
                           \/ deploy[applyKey(r, a)].status = "succeeded"}
  <2>1. /\ Compensate(w, r, "cleanup", sources, refused, "succeeded")
        /\ UNCHANGED Outside /\ build' = build
    BY <1>2 DEF cleanupFirstDeploy
  <2>2. sources \in SUBSET PlanApps(r)
    OBVIOUS
  <2> HIDE DEF sources, refused
  <2> QED BY <1>2, <2>1, <2>2, CompensateInv
<1> QED BY <1>1, <1>2

LEMMA ExecuteInv ==
  ASSUME WorkflowInv, NEW w \in Workers, Execute(w) PROVE WorkflowInv'
<1> DEFINE r == worker[w].run
<1>1. worker[w].pc = "leased" /\ run' = run /\ lease' = lease /\ cancelling' = cancelling
  BY DEF Execute
<1>2. CASE \/ Returns(w, StepFailed(r, TRUE)) /\ UNCHANGED <<Outside, Jobs>>
           \/ Returns(w, StepStale(r)) /\ UNCHANGED <<Outside, Jobs>>
  <2>1. UNCHANGED Outside /\ build' = build /\ deploy' = deploy
    BY <1>2 DEF Jobs
  <2>2. OutsideInv' /\ Grows(build, deploy, build', deploy') /\ JobsInv(run, build', deploy')
    BY <1>1, <2>1, OutsideStands, GrowsSame DEF WorkflowInv
  <2> QED BY <1>1, <1>2, <2>2, FailedReturns, StaleReturns
<1>3. CASE /\ head = r.commit /\ ~factsStale(r)
           /\ CASE r.state = "provisioning" -> provision(w, r)
                [] r.state = "building" -> BuildStep(w, r)
                [] r.state = "preflighting" -> preflightStep(w, r)
                [] r.state = "deploying" -> deployStep(w, r)
                [] r.state = "verifying" -> verify(w, r)
                [] r.state = "rolling_back" -> rollback(w, r)
                [] r.state = "cleaning_up" -> cleanupFirstDeploy(w, r)
  <2>1. r.state \in RunnableStates
    BY <1>1, Leased
  <2>2. \/ r.state = "provisioning" /\ provision(w, r)
        \/ r.state = "building" /\ BuildStep(w, r)
        \/ r.state = "preflighting" /\ preflightStep(w, r)
        \/ r.state = "deploying" /\ deployStep(w, r)
        \/ r.state = "verifying" /\ verify(w, r)
        \/ r.state = "rolling_back" /\ rollback(w, r)
        \/ r.state = "cleaning_up" /\ cleanupFirstDeploy(w, r)
    BY <1>3, <2>1 DEF RunnableStates
  <2> QED BY <1>1, <2>2, ProvisionInv, BuildStepInv, PreflightStepInv, DeployStepInv,
             VerifyInv, RollbackStepInv
<1> QED BY <1>2, <1>3 DEF Execute

----------------------------------------------------------------------------
(* The run is saved                                                        *)

(* A newer run keeps what was approved, or holds no approval, or one that  *)
(* no job was made under yet.                                              *)
Keeps(r, e) ==
  /\ e.approvals >= r.approvals
  /\ \/ e.approval = 0 \/ e.approval > r.approvals
     \/ /\ e.approval = r.approval /\ e.apps = r.apps /\ e.commit = r.commit
        /\ e.attempt >= r.attempt /\ r.refs.jobs \subseteq e.refs.jobs

LEMMA CreateIs == Create \in RunType /\ \A b, d : RunInv(Create, b, d)
<1>1. Create \in RunType
  BY WorkflowAssumption
     DEF Create, RunType, States, Draft, FactsType, NoFacts, RefsType, NoRefs, NoFailure
<1>2. \A b, d : RunInv(Create, b, d)
  BY DEF RunInv, WithRecords, Create, NoRefs, Draft, Working, RunnableStates
<1> QED BY <1>1, <1>2

LEMMA OutdatedIs ==
  ASSUME NEW c \in CopyRow, NEW b, NEW d, RunInv(c.run, b, d)
  PROVE  /\ Outdated(c) \in CopyRow /\ Outdated(c).pc = c.pc /\ ~Outdated(c).fresh
         /\ RunInv(Outdated(c).run, b, d)
         /\ c.pc # "executed" => Outdated(c).run = c.run
<1> DEFINE x == IF c.pc = "executed" THEN Create ELSE c.run
           e == [c EXCEPT !.fresh = FALSE, !.run = x]
<1>1. x \in RunType /\ RunInv(x, b, d)
  BY CreateIs DEF CopyRow
<1>2. Outdated(c) = e
  BY DEF Outdated
<1>3. c.pc # "executed" => x = c.run
  OBVIOUS
<1> HIDE DEF x
<1>4. e \in CopyRow /\ e.pc = c.pc /\ ~e.fresh /\ e.run = x
  BY <1>1 DEF CopyRow
<1> QED BY <1>1, <1>2, <1>3, <1>4

LEMMA IdleIs ==
  /\ Idle \in CopyRow /\ Idle.pc = "idle" /\ \A b, d : RunInv(Idle.run, b, d)
BY CreateIs DEF Idle, CopyRow

LEMMA SavedInv ==
  ASSUME WorkflowInv, NEW e \in RunType, run' = e, RunInv(e, build, deploy), Keeps(run, e),
         build' = build, deploy' = deploy, OutsideInv',
         worker' = [w \in Workers |-> worker'[w]],
         \A w \in Workers : \/ worker'[w] \in {Idle, Outdated(worker[w])}
                            \/ worker'[w] = worker[w] /\ e = run
  PROVE  WorkflowInv'
<1>1. /\ run \in RunType /\ RunInv(run, build, deploy) /\ JobsInv(run, build, deploy)
      /\ run.approvals \in Nat /\ e.approvals \in Nat /\ e.approval \in Nat
      /\ run.attempt \in Nat /\ e.attempt \in Nat
  BY FieldsTyped DEF WorkflowInv
<1>2. JobsInv(e, build, deploy)
  <2>1. \A k \in JobKeys : k[1] \in Nat /\ k[1] > 0
    BY DEF JobKeys, Approvals
  <2>2. ASSUME NEW k \in JobKeys, deploy[k].status # "absent"
        PROVE  /\ k[1] <= e.approvals
               /\ k[1] = e.approval /\ k[3] = "apply" => deploy[k].commit = e.commit
    BY <1>1, <2>1, <2>2 DEF JobsInv, Keeps
  <2> QED BY <1>1, <2>2 DEF JobsInv
<1>3. ASSUME NEW w \in Workers
      PROVE  /\ worker'[w] \in CopyRow /\ RunInv(worker'[w].run, build, deploy)
             /\ CopyInv(worker'[w], e)
  <2>1. /\ worker[w] \in CopyRow /\ RunInv(worker[w].run, build, deploy)
        /\ CopyInv(worker[w], run)
    BY DEF WorkflowInv
  <2>2. CASE worker'[w] = Idle
    BY <2>2, IdleIs DEF CopyInv
  <2>3. CASE worker'[w] = worker[w] /\ e = run
    BY <2>1, <2>3
  <2>4. CASE worker'[w] = Outdated(worker[w])
    <3> DEFINE c == Outdated(worker[w])
    <3>1. /\ c \in CopyRow /\ c.pc = worker[w].pc /\ ~c.fresh
          /\ RunInv(c.run, build, deploy)
          /\ worker[w].pc # "executed" => c.run = worker[w].run
      BY <2>1, OutdatedIs
    <3> HIDE DEF c
    <3>2. ASSUME c.pc = "leased" PROVE Older(c.run, e)
      <4> DEFINE q == c.run
      <4>1. Older(q, run) /\ q \in RunType /\ RunInv(q, build, deploy)
        BY <2>1, <3>1, <3>2 DEF CopyInv, CopyRow
      <4>2. /\ q.approval \in Nat /\ q.approvals \in Nat /\ q.attempt \in Nat
            /\ q.approval > 0 /\ q.approval <= q.approvals
        BY <4>1, FieldsTyped DEF RunInv, Older, Working
      <4> HIDE DEF q
      <4>3. Older(q, e)
        BY <1>1, <4>1, <4>2 DEF Older, Keeps
      <4> QED BY <4>3 DEF q
    <3> QED BY <2>4, <3>1, <3>2 DEF CopyInv, c
  <2> QED BY <2>2, <2>3, <2>4
<1>4. worker' \in [Workers -> CopyRow]
  BY <1>3
<1> QED BY <1>2, <1>3, <1>4 DEF WorkflowInv

LEMMA RequestSaves ==
  ASSUME WorkflowInv, NEW e \in RunType, Save(e), RunInv(e, build, deploy), Keeps(run, e),
         build' = build, deploy' = deploy, UNCHANGED Outside, cancelling' \in BOOLEAN
  PROVE  WorkflowInv'
<1>1. OutsideInv'
  BY DEF Save, WorkflowInv, OutsideInv, Outside
<1>2. /\ run' = e /\ worker' = [w \in Workers |-> worker'[w]]
      /\ \A w \in Workers : worker'[w] = Outdated(worker[w])
  BY DEF Save
<1> QED BY <1>1, <1>2, SavedInv

LEMMA SetAnalysisInv == ASSUME WorkflowInv, SetAnalysis PROVE WorkflowInv'
<1> DEFINE p == HashPlan(run)
           au == currentWorkflowAuthority
           ap == run.approvals
<1>1. /\ run \in RunType /\ run.plan < MaxPlans /\ p \in 0..MaxPlans /\ ap \in 0..MaxApprovals
      /\ ap \in Nat /\ au \in FactsType /\ head \in Commits
  <2>1. run \in RunType /\ run.plan < MaxPlans /\ facts \in FactsType /\ head \in Commits
    BY DEF WorkflowInv, OutsideInv, SetAnalysis
  <2>2. run.plan \in Nat /\ run.approvals \in 0..MaxApprovals /\ run.approvals \in Nat
    BY <2>1, FieldsTyped DEF RunType
  <2> QED BY <2>1, <2>2, WorkflowAssumption DEF HashPlan, currentWorkflowAuthority
<1> HIDE DEF p, au, ap
<1>2. PICK s \in {"awaiting_input", "awaiting_approval"}, shape \in Shapes,
           c \in {head, run.commit} \ {0} :
        Save([Create EXCEPT !.state = s, !.plan = p, !.apps = shape.apps,
                !.max = shape.attempts, !.commit = c, !.authority = au,
                !.approvals = ap])
  BY DEF SetAnalysis, reconcileDraftIssues, p, au, ap
<1> DEFINE n == shape.apps
           m == shape.attempts
           e == [Create EXCEPT !.state = s, !.plan = p, !.apps = n, !.max = m,
                   !.commit = c, !.authority = au, !.approvals = ap]
<1>3. n \in Apps /\ m \in Attempts /\ s \in States /\ s \in Draft /\ c \in Commits \cup {0}
  <2>1. run.commit \in Commits \cup {0}
    BY <1>1, FieldsTyped
  <2> QED BY <1>1, <2>1, WorkflowAssumption DEF Apps, Attempts, States, Draft
<1>4. Save(e)
  BY <1>2
<1> HIDE DEF n, m
<1>5. /\ Create \in RunType /\ Create.approval = 0 /\ Create.attempt = 0
      /\ Create.refs = NoRefs
  BY CreateIs DEF Create
<1>6. /\ e \in RunType /\ e.state = s /\ e.approval = 0 /\ e.attempt = 0 /\ e.refs = NoRefs
      /\ e.approvals = ap
  BY <1>1, <1>3, <1>5 DEF RunType
<1> HIDE DEF e
<1>7. RunInv(e, build, deploy)
  BY <1>1, <1>3, <1>6 DEF RunInv, WithRecords, NoRefs, Draft, Working, RunnableStates
<1>8. Keeps(run, e)
  BY <1>1, <1>6 DEF Keeps, ap
<1>9. build' = build /\ deploy' = deploy /\ UNCHANGED Outside /\ cancelling' \in BOOLEAN
  BY DEF SetAnalysis, Jobs, WorkflowInv, OutsideInv
<1> QED BY <1>4, <1>6, <1>7, <1>8, <1>9, RequestSaves

LEMMA UpdatePlanInv == ASSUME WorkflowInv, UpdatePlan PROVE WorkflowInv'
<1> DEFINE p == HashPlan(run)
<1>1. /\ run \in RunType /\ p \in 0..MaxPlans /\ run.state \in Draft
      /\ RunInv(run, build, deploy) /\ run.approvals \in Nat
  <2>1. /\ run \in RunType /\ run.plan < MaxPlans /\ RunInv(run, build, deploy)
        /\ run.state \in Draft
    BY DEF WorkflowInv, UpdatePlan, reconcileDraftIssues, Draft
  <2>2. run.plan \in Nat /\ run.approvals \in Nat
    BY <2>1, FieldsTyped
  <2> QED BY <2>1, <2>2, WorkflowAssumption DEF HashPlan
<1> HIDE DEF p
<1>2. PICK s \in {"awaiting_input", "awaiting_approval"}, shape \in Shapes :
        Save([run EXCEPT !.state = s, !.plan = p, !.pre = "none",
                !.apps = shape.apps, !.max = shape.attempts])
  BY DEF UpdatePlan, reconcileDraftIssues, p
<1> DEFINE n == shape.apps
           m == shape.attempts
           e == [run EXCEPT !.state = s, !.plan = p, !.pre = "none", !.apps = n, !.max = m]
<1>3. n \in Apps /\ m \in Attempts /\ s \in States /\ s \in Draft
  BY WorkflowAssumption DEF Apps, Attempts, States, Draft
<1>4. Save(e)
  BY <1>2
<1> HIDE DEF n, m
<1>5. run.approval = 0 /\ run.attempt = 0 /\ run.refs = NoRefs
  BY <1>1 DEF RunInv
<1>6. /\ e \in RunType /\ e.state = s /\ e.approval = 0 /\ e.attempt = 0 /\ e.refs = NoRefs
      /\ e.approvals = run.approvals
  BY <1>1, <1>3, <1>5 DEF RunType
<1> HIDE DEF e
<1>7. RunInv(e, build, deploy)
  BY <1>1, <1>3, <1>6 DEF RunInv, WithRecords, NoRefs, Draft, Working, RunnableStates
<1>8. Keeps(run, e)
  BY <1>1, <1>6 DEF Keeps
<1>9. build' = build /\ deploy' = deploy /\ UNCHANGED Outside /\ cancelling' \in BOOLEAN
  BY DEF UpdatePlan, Jobs, WorkflowInv, OutsideInv
<1> QED BY <1>4, <1>6, <1>7, <1>8, <1>9, RequestSaves

LEMMA StaleSaves ==
  ASSUME WorkflowInv, Save(markStale(run)), build' = build, deploy' = deploy,
         UNCHANGED Outside, cancelling' = cancelling
  PROVE  WorkflowInv'
<1> DEFINE e == markStale(run)
<1>1. run \in RunType /\ RunInv(run, build, deploy) /\ cancelling' \in BOOLEAN
      /\ run.approvals \in Nat
  BY FieldsTyped DEF WorkflowInv, OutsideInv
<1>2. /\ e \in RunType /\ RunInv(e, build, deploy) /\ e.approval = 0
      /\ e.approvals = run.approvals
  BY <1>1, StaleIs, StaleStands
<1> HIDE DEF e
<1>3. Save(e)
  BY DEF e
<1>4. Keeps(run, e)
  BY <1>1, <1>2 DEF Keeps
<1> QED BY <1>1, <1>2, <1>3, <1>4, RequestSaves

LEMMA ApproveInv == ASSUME WorkflowInv, Approve PROVE WorkflowInv'
<1> DEFINE at == run.attempt + 1
           ap == run.approvals + 1
           b == facts
           e == [run EXCEPT !.state = "provisioning", !.attempt = at, !.approval = ap,
                   !.approved = run.plan, !.approvals = ap, !.basis = b,
                   !.failure = NoFailure]
<1>1. /\ run \in RunType /\ run.state = "awaiting_approval" /\ RunInv(run, build, deploy)
      /\ run.approvals < MaxApprovals /\ UNCHANGED Outside /\ build' = build
      /\ deploy' = deploy /\ cancelling' = cancelling /\ cancelling \in BOOLEAN
      /\ b \in FactsType
  BY DEF WorkflowInv, OutsideInv, Approve, Jobs
<1>2. CASE Save(markStale(run))
  BY <1>1, <1>2, StaleSaves
<1>3. CASE Save(e)
  <2>1. run.attempt = 0 /\ run.refs = NoRefs
    BY <1>1 DEF RunInv, Draft
  <2>2. run.approvals \in Nat /\ run.plan \in 0..MaxPlans
    BY <1>1, FieldsTyped DEF RunType
  <2>3. /\ at = 1 /\ at \in 0..MaxAttempts /\ ap \in 0..MaxApprovals /\ ap > run.approvals
        /\ ap > 0 /\ "provisioning" \in States
    BY <1>1, <2>1, <2>2, WorkflowAssumption DEF States, RunnableStates
  <2>4. NoFailure \in [step: States \cup {"none"}, retryable: BOOLEAN]
    BY DEF NoFailure
  <2> HIDE DEF at, ap, b
  <2>5. /\ e \in RunType /\ e.state = "provisioning" /\ e.attempt = at /\ e.approval = ap
        /\ e.approvals = ap /\ e.approved = e.plan /\ e.refs = NoRefs
    BY <1>1, <2>1, <2>2, <2>3, <2>4 DEF RunType
  <2> HIDE DEF e
  <2>6. RunInv(e, build, deploy)
    BY <2>3, <2>5 DEF RunInv, WithRecords, NoRefs, Draft, Working, RunnableStates
  <2>7. Keeps(run, e)
    BY <2>2, <2>3, <2>5 DEF Keeps, ap
  <2> QED BY <1>1, <1>3, <2>5, <2>6, <2>7, RequestSaves
<1> QED BY <1>2, <1>3 DEF Approve

LEMMA OtherRequestsInv ==
  ASSUME WorkflowInv, Invalidate \/ Acknowledge \/ Cancel PROVE WorkflowInv'
<1>1. /\ run \in RunType /\ RunInv(run, build, deploy) /\ run.attempt \in Nat
      /\ run.approvals \in Nat
  BY FieldsTyped DEF WorkflowInv
<1>2. CASE Invalidate
  BY <1>2, StaleSaves DEF Invalidate, Jobs
<1>3. CASE Acknowledge
  <2> DEFINE e == [run EXCEPT !.state = "deploying"]
  <2>1. /\ run.state = "awaiting_warning_acknowledgement" /\ Save(e) /\ UNCHANGED Outside
        /\ build' = build /\ deploy' = deploy /\ cancelling' \in BOOLEAN
    BY <1>3 DEF Acknowledge, Jobs, WorkflowInv, OutsideInv
  <2>2. "deploying" \in States
    BY DEF States, RunnableStates
  <2>3. /\ e \in RunType /\ SamePlan(run, e) /\ e.state = "deploying"
        /\ e.attempt = run.attempt /\ e.refs = run.refs
    BY <1>1, <2>2, StateIs
  <2> HIDE DEF e
  <2>4. WithRecords(e, build)
    BY <1>1, <2>1, <2>3 DEF RunInv, WithRecords, SamePlan, PlanApps, buildKey, Working
  <2>5. RunInv(e, build, deploy)
    BY <1>1, <2>1, <2>3, <2>4 DEF RunInv, SamePlan, Draft, Working, RunnableStates
  <2>6. Keeps(run, e)
    BY <1>1, <2>3 DEF Keeps, SamePlan
  <2> QED BY <2>1, <2>3, <2>5, <2>6, RequestSaves
<1>4. CASE Cancel
  <2> DEFINE e == [run EXCEPT !.state = "cancelled"]
  <2>1. /\ UNCHANGED Outside /\ build' = build /\ deploy' = deploy /\ cancelling' = FALSE
        /\ UNCHANGED <<run, lease, worker>> \/ Save(e)
    BY <1>4 DEF Cancel, Jobs
  <2>2. CASE UNCHANGED <<run, lease, worker>>
    <3>1. OutsideInv'
      BY <2>1, <2>2 DEF WorkflowInv, OutsideInv, Outside
    <3> QED BY <2>1, <2>2, <3>1 DEF WorkflowInv
  <2>3. CASE Save(e)
    <3>1. "cancelled" \in States
      BY DEF States, TerminalStates
    <3>2. /\ e \in RunType /\ SamePlan(run, e) /\ e.state = "cancelled"
          /\ e.attempt = run.attempt /\ e.refs = run.refs
      BY <1>1, <3>1, StateIs
    <3> HIDE DEF e
    <3>3. RunInv(e, build, deploy)
      BY <1>1, <3>2 DEF RunInv, WithRecords, SamePlan, Draft, Working, RunnableStates
    <3>4. Keeps(run, e)
      BY <1>1, <3>2 DEF Keeps, SamePlan
    <3> QED BY <2>1, <2>3, <3>2, <3>3, <3>4, RequestSaves
  <2> QED BY <2>1, <2>2, <2>3
<1> QED BY <1>2, <1>3, <1>4

(* Jobs go on by themselves, or are cancelled by a request.                *)
LEMMA JobsMoveInv ==
  ASSUME WorkflowInv, run' = run, worker' = worker, OutsideInv',
         Grows(build, deploy, build', deploy'), JobsInv(run, build', deploy')
  PROVE  WorkflowInv'
<1>1. run \in RunType /\ RunInv(run, build, deploy)
  BY DEF WorkflowInv
<1>2. RunInv(run, build', deploy')
  BY <1>1, RunStands
<1>3. ASSUME NEW w \in Workers
      PROVE  RunInv(worker[w].run, build', deploy') /\ CopyInv(worker[w], run)
  <2>1. worker[w].run \in RunType /\ RunInv(worker[w].run, build, deploy)
    BY DEF WorkflowInv, CopyRow
  <2> QED BY <2>1, RunStands DEF WorkflowInv
<1>4. JobsInv(run', build', deploy') /\ RunInv(run', build', deploy')
  BY <1>2
<1> QED BY <1>1, <1>3, <1>4 DEF WorkflowInv

LEMMA CancelJobsInv == ASSUME WorkflowInv, CancelJobs PROVE WorkflowInv'
<1>1. /\ run' = run /\ worker' = worker /\ lease' = lease /\ UNCHANGED Outside
      /\ build' = cancelBuilds(run.refs.builds)
      /\ deploy' \in cancelWorkflowDeployments(deploy, run.refs.jobs)
      /\ cancelling' = ~CancelUnsafe(deploy, run.refs.jobs)
  BY DEF CancelJobs
<1>2. OutsideInv'
  BY <1>1 DEF WorkflowInv, OutsideInv, Outside, CancelUnsafe
<1>3. run \in RunType /\ JobsInv(run, build, deploy)
  BY DEF WorkflowInv
<1>4. Grows(build, deploy, build', deploy) /\ JobsInv(run, build', deploy)
  BY <1>1, <1>3, BuildsCancelled
<1>5. Grows(build', deploy, build', deploy') /\ JobsInv(run, build', deploy')
  BY <1>1, <1>3, <1>4, DeploysCancelled
<1>6. Grows(build, deploy, build', deploy')
  BY <1>4, <1>5, GrowsOn
<1> QED BY <1>1, <1>2, <1>5, <1>6, JobsMoveInv

LEMMA AuthoritiesInv == ASSUME WorkflowInv, Authorities PROVE WorkflowInv'
<1>0. JobsInv(run, build, deploy) /\ OutsideInv
  BY DEF WorkflowInv
<1>1. ASSUME NEW k \in BuildKeys, BuildEnds(k) PROVE WorkflowInv'
  <2>1. PICK s \in {"succeeded", "failed", "infrastructure"} :
          build' = [build EXCEPT ![k].status = s]
    BY <1>1 DEF BuildEnds
  <2>2. /\ run' = run /\ worker' = worker /\ lease' = lease /\ cancelling' = cancelling
        /\ UNCHANGED Outside /\ deploy' = deploy /\ build[k].status = "active"
    BY <1>1 DEF BuildEnds, BuildActive
  <2> DEFINE j == [build[k] EXCEPT !.status = s]
  <2>3. j \in BuildRow
    BY <1>0 DEF JobsInv, BuildRow
  <2>4. build' = [build EXCEPT ![k] = j]
    BY <2>1
  <2> HIDE DEF j
  <2>5. build' \in [BuildKeys -> BuildRow] /\ \A x \in BuildKeys \ {k} : build'[x] = build[x]
    BY <1>0, <2>3, <2>4 DEF JobsInv
  <2>6. Grows(build, deploy, build', deploy') /\ JobsInv(run, build', deploy')
    BY <1>0, <2>2, <2>5 DEF Grows, JobsInv
  <2>7. OutsideInv'
    BY <1>0, <2>2, OutsideStands
  <2> QED BY <2>2, <2>6, <2>7, JobsMoveInv
<1>2. ASSUME NEW k \in JobKeys,
             NEW s \in {"active", "succeeded", "failed", "exhausted", "rolled_back",
                        "rollback_failed", "cleaned"},
             deploy[k].status \in {"queued", "active"},
             deploy' = [deploy EXCEPT ![k].status = s], build' = build,
             run' = run, worker' = worker, OutsideInv'
      PROVE  WorkflowInv'
  <2> DEFINE j == [deploy[k] EXCEPT !.status = s]
  <2>1. /\ j \in DeployRow /\ j.status = s /\ j.commit = deploy[k].commit
        /\ j.prior = deploy[k].prior
    <3>1. deploy[k] \in DeployRow
      BY <1>0 DEF JobsInv
    <3> QED BY <3>1 DEF DeployRow
  <2>2. deploy' = [deploy EXCEPT ![k] = j]
    BY <1>2
  <2> HIDE DEF j
  <2>3. /\ deploy' \in [JobKeys -> DeployRow] /\ deploy'[k] = j
        /\ \A x \in JobKeys \ {k} : deploy'[x] = deploy[x]
    BY <1>0, <2>1, <2>2 DEF JobsInv
  <2>4. Grows(build, deploy, build', deploy')
    BY <1>2, <2>1, <2>3 DEF Grows, Over
  <2>5. JobsInv(run, build', deploy')
    BY <1>0, <1>2, <2>1, <2>3 DEF JobsInv
  <2> QED BY <1>2, <2>4, <2>5, JobsMoveInv
<1>3. ASSUME NEW k \in JobKeys, DeployLeased(k) PROVE WorkflowInv'
  <2>1. OutsideInv'
    BY <1>0, <1>3, OutsideStands DEF DeployLeased
  <2> QED BY <1>2, <1>3, <2>1 DEF DeployLeased
<1>4. ASSUME NEW k \in JobKeys, DeployEnds(k) PROVE WorkflowInv'
  <2>1. PICK s \in Outcomes(k) :
          /\ deploy' = [deploy EXCEPT ![k].status = s]
          /\ known' = IF k[3] = "apply" /\ s = "succeeded" THEN known \cup {k[2]} ELSE known
    BY <1>4 DEF DeployEnds
  <2>2. s \in {"active", "succeeded", "failed", "exhausted", "rolled_back",
               "rollback_failed", "cleaned"}
    BY <2>1 DEF Outcomes
  <2>3. k[2] \in Apps
    BY DEF JobKeys
  <2>4. OutsideInv'
    BY <1>0, <1>4, <2>1, <2>3 DEF OutsideInv, DeployEnds
  <2> QED BY <1>2, <1>4, <2>1, <2>2, <2>4 DEF DeployEnds
<1> QED BY <1>1, <1>3, <1>4 DEF Authorities

LEMMA ControllersInv == ASSUME WorkflowInv, Controllers PROVE WorkflowInv'
<1>0. /\ OutsideInv /\ run \in RunType /\ RunInv(run, build, deploy)
      /\ JobsInv(run, build, deploy) /\ worker \in [Workers -> CopyRow]
      /\ \A x \in Workers : RunInv(worker[x].run, build, deploy) /\ CopyInv(worker[x], run)
  BY DEF WorkflowInv
<1>1. PICK w \in Workers : AcquireLease(w) \/ Execute(w) \/ SaveResult(w) \/ DropResult(w)
  BY DEF Controllers
<1>2. CASE AcquireLease(w)
  <2> DEFINE c == [pc |-> "leased", run |-> run, fresh |-> TRUE]
  <2>1. /\ run.state \in RunnableStates /\ lease' = w /\ worker' = [worker EXCEPT ![w] = c]
        /\ run' = run /\ cancelling' = cancelling /\ UNCHANGED Outside
        /\ build' = build /\ deploy' = deploy
    BY <1>2 DEF AcquireLease, Jobs
  <2>2. c \in CopyRow /\ c.pc = "leased" /\ c.run = run
    BY <1>0 DEF CopyRow
  <2>3. run.approvals \in Nat /\ run.attempt \in Nat
    BY <1>0, FieldsTyped
  <2>4. CopyInv(c, run)
    BY <2>1, <2>2, <2>3 DEF CopyInv, Older
  <2> HIDE DEF c
  <2>5. /\ worker' \in [Workers -> CopyRow] /\ worker'[w] = c
        /\ \A x \in Workers \ {w} : worker'[x] = worker[x]
    BY <1>0, <2>1, <2>2
  <2>6. OutsideInv'
    BY <1>0, <2>1 DEF OutsideInv, Outside
  <2> QED BY <1>0, <2>1, <2>2, <2>4, <2>5, <2>6 DEF WorkflowInv
<1>3. CASE Execute(w)
  BY <1>3, ExecuteInv
<1>4. CASE SaveResult(w)
  <2> DEFINE e == worker[w].run
  <2>1. /\ worker[w].pc = "executed" /\ worker[w].fresh /\ run' = e
        /\ lease' = IF lease = w THEN "none" ELSE lease
        /\ worker' = [x \in Workers |->
             IF x = w THEN Idle ELSE IF e = run THEN worker[x] ELSE Outdated(worker[x])]
        /\ cancelling' = cancelling /\ UNCHANGED Outside /\ build' = build /\ deploy' = deploy
    BY <1>4 DEF SaveResult, Jobs
  <2>2. e \in RunType /\ RunInv(e, build, deploy) /\ Follows(run, e)
    BY <1>0, <2>1 DEF CopyRow, CopyInv
  <2>3. OutsideInv'
    BY <1>0, <2>1 DEF OutsideInv, Outside
  <2>4. PICK y \in RunType : y = e
    BY <2>2
  <2>5. Keeps(run, y)
    <3>1. y.approvals \in Nat
      BY FieldsTyped
    <3> QED BY <2>2, <2>4, <3>1 DEF Follows, Keeps
  <2>6. worker' = [x \in Workers |-> worker'[x]]
    BY <2>1
  <2>7. \A x \in Workers : \/ worker'[x] \in {Idle, Outdated(worker[x])}
                           \/ worker'[x] = worker[x] /\ y = run
    BY <2>1, <2>4
  <2> QED BY <2>1, <2>2, <2>3, <2>4, <2>5, <2>6, <2>7, SavedInv
<1>5. CASE DropResult(w)
  <2>1. /\ lease' = IF lease = w THEN "none" ELSE lease
        /\ worker' = [worker EXCEPT ![w] = Idle] /\ run' = run
        /\ cancelling' = cancelling /\ UNCHANGED Outside /\ build' = build /\ deploy' = deploy
    BY <1>5 DEF DropResult, Jobs
  <2>2. OutsideInv'
    BY <1>0, <2>1 DEF OutsideInv, Outside
  <2>3. /\ worker' \in [Workers -> CopyRow] /\ worker'[w] = Idle
        /\ \A x \in Workers \ {w} : worker'[x] = worker[x]
    BY <1>0, <2>1, IdleIs
  <2>4. \A x \in Workers :
          RunInv(worker'[x].run, build, deploy) /\ CopyInv(worker'[x], run)
    BY <1>0, <2>3, IdleIs DEF CopyInv
  <2> QED BY <1>0, <2>1, <2>2, <2>3, <2>4 DEF WorkflowInv
<1> QED BY <1>1, <1>2, <1>3, <1>4, <1>5

LEMMA SurprisesInv == ASSUME WorkflowInv, Surprises PROVE WorkflowInv'
<1>0. /\ OutsideInv /\ JobsInv(run, build, deploy) /\ worker \in [Workers -> CopyRow]
  BY DEF WorkflowInv
<1>1. /\ surprises' = surprises + 1 /\ surprises < MaxSurprises
      /\ surprises \in Nat /\ MaxSurprises \in Nat
  BY <1>0, WorkflowAssumption DEF Surprises, OutsideInv
<1>2. facts \in FactsType /\ facts.drifts \in Nat /\ facts.drifts <= surprises
  BY <1>0 DEF OutsideInv, FactsType
<1>3. ASSUME NEW w \in Workers, Crash(w) PROVE WorkflowInv'
  <2>1. /\ worker' = [worker EXCEPT ![w] = Idle]
        /\ UNCHANGED <<run, lease, cancelling, head, facts, preflight, known, build, deploy>>
    BY <1>3 DEF Crash, Jobs
  <2>2. OutsideInv'
    BY <1>0, <1>1, <1>2, <2>1 DEF OutsideInv
  <2>3. /\ worker' \in [Workers -> CopyRow] /\ worker'[w] = Idle
        /\ \A x \in Workers \ {w} : worker'[x] = worker[x]
    BY <1>0, <2>1, IdleIs
  <2>4. \A x \in Workers :
          RunInv(worker'[x].run, build, deploy) /\ CopyInv(worker'[x], run)
    BY <2>3, IdleIs DEF CopyInv, WorkflowInv
  <2> QED BY <2>1, <2>2, <2>3, <2>4 DEF WorkflowInv
<1>4. CASE LeaseExpires \/ Push \/ Drift \/ PreflightChanges
  <2>1. UNCHANGED <<run, worker, cancelling, known, build, deploy>>
    BY <1>4 DEF LeaseExpires, Push, Drift, PreflightChanges, Jobs
  <2>2. /\ lease' \in Workers \cup {"none"} /\ head' \in Commits
        /\ preflight' \in {"clean", "warnings", "blocked"}
    BY <1>0, <1>4 DEF LeaseExpires, Push, Drift, PreflightChanges, OutsideInv
  <2>3. facts' \in FactsType /\ facts'.drifts <= facts.drifts + 1
    <3>1. CASE facts' = facts
      BY <1>2, <3>1
    <3>2. CASE Drift
      <4> DEFINE n == facts.drifts + 1
      <4>1. facts' = [facts EXCEPT !.drifts = n]
        BY <3>2 DEF Drift
      <4>2. n \in 0..(MaxSurprises + 1) /\ n <= facts.drifts + 1
        BY <1>1, <1>2
      <4> HIDE DEF n
      <4>3. facts' \in FactsType /\ facts'.drifts = n
        BY <1>2, <4>1, <4>2 DEF FactsType
      <4> QED BY <4>2, <4>3
    <3> QED BY <1>4, <3>1, <3>2 DEF LeaseExpires, Push, PreflightChanges
  <2>4. facts'.drifts \in Nat
    BY <2>3 DEF FactsType
  <2>5. OutsideInv'
    BY <1>0, <1>1, <1>2, <2>1, <2>2, <2>3, <2>4 DEF OutsideInv
  <2>6. build' = build /\ deploy' = deploy
    BY <2>1
  <2> QED BY <1>0, <2>1, <2>5, <2>6, GrowsSame, JobsMoveInv
<1> QED BY <1>3, <1>4 DEF Surprises

LEMMA RequestsInv == ASSUME WorkflowInv, Requests PROVE WorkflowInv'
BY SetAnalysisInv, UpdatePlanInv, ApproveInv, OtherRequestsInv, CancelJobsInv DEF Requests

LEMMA WorkflowInitInv == ASSUME Init PROVE WorkflowInv
<1>1. Commits \subseteq Nat /\ Commits # {} /\ MaxSurprises \in Nat /\ MaxPlans \in Nat
      /\ MaxAttempts \in Nat
  BY WorkflowAssumption
<1>2. Min(Commits) \in Commits
  BY <1>1, MinIs
<1>3. known \subseteq Apps
  BY WorkflowAssumption DEF Init, Apps
<1>4. facts \in FactsType /\ facts.drifts = 0
  BY <1>1 DEF Init, FactsType
<1>5. OutsideInv
  <2>1. /\ lease = "none" /\ cancelling = FALSE /\ head = Min(Commits)
        /\ preflight = "clean" /\ surprises = 0
    BY DEF Init
  <2>2. surprises \in 0..MaxSurprises /\ facts.drifts <= surprises
    BY <1>1, <1>4, <2>1
  <2>3. head \in Commits
    BY <1>2, <2>1
  <2> QED BY <1>3, <1>4, <2>1, <2>2, <2>3 DEF OutsideInv
<1>6. run \in RunType /\ RunInv(run, build, deploy)
  BY CreateIs DEF Init
<1>7. JobsInv(run, build, deploy)
  BY <1>1 DEF Init, JobsInv, NoBuild, NoDeploy, BuildRow, DeployRow
<1>8. worker \in [Workers -> CopyRow] /\ \A w \in Workers : worker[w] = Idle
  BY IdleIs DEF Init
<1>9. \A w \in Workers : RunInv(worker[w].run, build, deploy) /\ CopyInv(worker[w], run)
  BY <1>8, IdleIs DEF CopyInv
<1> QED BY <1>5, <1>6, <1>7, <1>8, <1>9 DEF WorkflowInv

LEMMA WorkflowFrame ==
  ASSUME WorkflowInv, UNCHANGED workflowVars PROVE WorkflowInv'
BY DEF WorkflowInv, workflowVars, OutsideInv

LEMMA WorkflowStays == DeliverySpec => []WorkflowHolds
<1>1. DeliveryInit => WorkflowHolds
  BY WorkflowInitInv DEF DeliveryInit, WorkflowHolds
<1>2. WorkflowHolds /\ [DeliveryNext]_deliveryVars => WorkflowHolds'
  <2> SUFFICES ASSUME WorkflowHolds, [DeliveryNext]_deliveryVars, part' = "workflow"
               PROVE  WorkflowInv'
    BY DEF WorkflowHolds
  <2>1. CASE UNCHANGED deliveryVars
    BY <2>1, WorkflowFrame DEF deliveryVars, WorkflowHolds
  <2>2. CASE DeliveryNext
    <3>1. part = "workflow" /\ (Requests \/ Controllers \/ Surprises \/ Authorities)
      BY <2>2 DEF DeliveryNext, WorkflowMoves, BuildsMove, BeliefsMove
    <3> QED BY <3>1, RequestsInv, ControllersInv, SurprisesInv, AuthoritiesInv
            DEF WorkflowHolds
  <2> QED BY <2>1, <2>2
<1> QED BY <1>1, <1>2, PTL DEF DeliverySpec

(* A run past approval holds an approval of exactly its plan, and every    *)
(* application deployed under it is built from the reviewed commit: for    *)
(* any number of applications, attempts, controllers and approvals, also   *)
(* when a controller goes on with an outdated copy of the run              *)
(* (Controller.process, BuildJobs.Create, build, deploy).                  *)
THEOREM ApprovedIsDeployed == DeliverySpec => []RunDeploysWhatWasApproved
<1>1. WorkflowHolds => RunDeploysWhatWasApproved
  <2> SUFFICES ASSUME WorkflowInv PROVE WorkflowTypeOK /\ DeploysWhatWasApproved
    BY DEF WorkflowHolds, RunDeploysWhatWasApproved
  <2>1. WorkflowTypeOK
    BY DEF WorkflowInv, OutsideInv, JobsInv, CopyRow, BuildRow, DeployRow, WorkflowTypeOK
  <2>2. DeploysWhatWasApproved
    BY DEF WorkflowInv, RunInv, JobsInv, Working, DeploysWhatWasApproved
  <2> QED BY <2>1, <2>2
<1> QED BY <1>1, WorkflowStays, PTL

----------------------------------------------------------------------------
(* What a finished rollback says is so                                     *)

(* Deployment jobs of approval p that have ended stay as they are.         *)
Settles(p, d, d2) ==
  \A k \in JobKeys : k[1] = p /\ Ended(d[k]) => d2[k] = d[k]

LEMMA RollStands ==
  ASSUME NEW p \in RunType, NEW d, NEW d2, NEW others, NEW fewer,
         p.state \in Rolling => p.approval > 0 /\ Settles(p.approval, d, d2),
         \A q \in fewer : q \in others \/ q.state # "deploying",
         RollInv(p, d, others)
  PROVE  RollInv(p, d2, fewer)
<1> SUFFICES ASSUME p.state \in Rolling PROVE RollInv(p, d2, fewer)
  BY DEF RollInv, Rolling
<1>1. PICK a \in PlanApps(p) : StoppedAt(p, a, d, others)
  BY DEF RollInv
<1>2. /\ p.approval > 0 /\ Settles(p.approval, d, d2) /\ PlanApps(p) = 1..p.apps
      /\ p.apps \in Nat /\ PlanApps(p) \subseteq Apps
      /\ \A x \in Apps : applyKey(p, x) \in JobKeys /\ applyKey(p, x)[1] = p.approval
  BY KeysAre DEF applyKey
<1>3. ASSUME NEW x \in PlanApps(p), Ended(d[applyKey(p, x)])
      PROVE  d2[applyKey(p, x)] = d[applyKey(p, x)]
  BY <1>2, <1>3 DEF Settles
<1>4. StoppedAt(p, a, d2, fewer)
  <2>1. d[applyKey(p, a)].status \in {"failed", "exhausted", "cancelled"}
    BY <1>1 DEF StoppedAt
  <2>2. d2[applyKey(p, a)] = d[applyKey(p, a)]
    BY <1>3, <2>1 DEF Ended
  <2>3. \A q \in fewer : ~Retries(q, applyKey(p, a), d2)
    BY <1>1, <2>2 DEF StoppedAt, Retries
  <2>4. \A x \in 1..(a - 1) : x \in PlanApps(p)
    BY <1>2
  <2>5. \A x \in 1..(a - 1) :
          Ended(d2[applyKey(p, x)]) /\ d2[applyKey(p, x)].status # "exhausted"
    BY <1>1, <1>3, <2>4 DEF StoppedAt
  <2>6. \A x \in PlanApps(p) : applyKey(p, x) \in p.refs.jobs => Ended(d2[applyKey(p, x)])
    BY <1>1, <1>3 DEF StoppedAt
  <2> QED BY <2>1, <2>2, <2>3, <2>5, <2>6 DEF StoppedAt
<1>5. ASSUME p.state = "rolled_back", NEW x \in PlanApps(p), applyKey(p, x) \in p.refs.jobs,
             d2[applyKey(p, x)].status = "succeeded", d2[applyKey(p, x)].prior
      PROVE  d2[<<p.approval, x, "rollback">>].status = "rolled_back"
  <2> DEFINE k == <<p.approval, x, "rollback">>
  <2>1. d2[applyKey(p, x)] = d[applyKey(p, x)]
    BY <1>1, <1>3, <1>5 DEF StoppedAt
  <2>2. d[k].status = "rolled_back"
    BY <1>5, <2>1 DEF RollInv
  <2>3. k \in JobKeys /\ k[1] = p.approval
    BY <1>2, <1>5 DEF applyKey, JobKeys
  <2> QED BY <1>2, <2>2, <2>3 DEF Settles, Ended
<1> QED BY <1>4, <1>5 DEF RollInv

LEMMA NotRolling ==
  ASSUME NEW e, e.state \notin Rolling PROVE \A d, others : RollInv(e, d, others)
BY DEF RollInv, Rolling

LEMMA CancelSettles ==
  ASSUME NEW d, NEW those, NEW p, NEW d2 \in cancelWorkflowDeployments(d, those)
  PROVE  Settles(p, d, d2)
BY DEF Settles, Ended, cancelWorkflowDeployments, Stoppable

LEMMA SettlesOn ==
  ASSUME NEW p, NEW d1, NEW d2, NEW d3, Settles(p, d1, d2), Settles(p, d2, d3)
  PROVE  Settles(p, d1, d3)
BY DEF Settles

(* The run, or the result of a step of it.                                 *)
Current(p) == p = run \/ Follows(run, p)

LEMMA CurrentIs ==
  ASSUME WorkflowInv, NEW w \in Workers, worker[w].pc = "executed", worker[w].fresh
  PROVE  /\ Current(worker[w].run) /\ worker[w].run \in RunType
         /\ worker[w].run.state \in Rolling => worker[w].run.approval > 0
BY DEF WorkflowInv, CopyInv, CopyRow, Current, RunInv, Rolling, Working, RunnableStates

LEMMA RunIs ==
  ASSUME WorkflowInv
  PROVE  /\ Current(run) /\ run \in RunType
         /\ run.state \in Rolling => run.approval > 0
BY DEF WorkflowInv, Current, RunInv, Rolling, Working, RunnableStates

(* A controller hands over the result e of a step.                         *)
LEMMA StepRolls ==
  ASSUME WorkflowInv, RollbackInv, NEW w \in Workers, worker[w].pc = "leased",
         NEW e, Returns(w, e), run' = run,
         \A p \in RunType :
           Current(p) /\ p.state \in Rolling /\ p.approval > 0
             /\ RollInv(p, deploy, Deployers) => Settles(p.approval, deploy, deploy'),
         worker[w].fresh => RollInv(e, deploy', Deployers)
  PROVE  RollbackInv'
<1> DEFINE c == [worker[w] EXCEPT !.pc = "executed", !.run = e]
<1>1. worker \in [Workers -> CopyRow] /\ worker[w] \in CopyRow
  BY DEF WorkflowInv
<1>2. c.pc = "executed" /\ c.run = e /\ c.fresh = worker[w].fresh
  BY <1>1 DEF CopyRow
<1>3. worker' = [worker EXCEPT ![w] = c]
  BY DEF Returns
<1> HIDE DEF c
<1>4. worker'[w] = c /\ \A x \in Workers \ {w} : worker'[x] = worker[x]
  BY <1>1, <1>3
<1>5. Deployers' \subseteq Deployers
  BY <1>2, <1>4 DEF Deployers
<1>6. ASSUME NEW p \in RunType, Current(p), p.state \in Rolling => p.approval > 0,
             RollInv(p, deploy, Deployers)
      PROVE  RollInv(p, deploy', Deployers')
  <2>1. p.state \in Rolling => p.approval > 0 /\ Settles(p.approval, deploy, deploy')
    BY <1>6
  <2> QED BY <1>5, <1>6, <2>1, RollStands
<1>7. RollInv(run', deploy', Deployers')
  <2>1. RollInv(run, deploy, Deployers)
    BY DEF RollbackInv
  <2> QED BY <1>6, <2>1, RunIs
<1>8. ASSUME NEW x \in Workers, worker'[x].pc = "executed", worker'[x].fresh
      PROVE  RollInv(worker'[x].run, deploy', Deployers')
  <2>1. CASE x = w
    <3>1. RollInv(e, deploy', Deployers) /\ worker'[x].run = e
      BY <1>2, <1>4, <1>8, <2>1
    <3>2. RollInv(e, deploy', Deployers')
      BY <1>5, <3>1 DEF RollInv, StoppedAt
    <3> QED BY <3>1, <3>2
  <2>2. CASE x # w
    <3>1. worker'[x] = worker[x]
      BY <1>4, <2>2
    <3>2. RollInv(worker[x].run, deploy, Deployers)
      BY <1>8, <3>1 DEF RollbackInv
    <3>3. RollInv(worker[x].run, deploy', Deployers')
      BY <1>6, <1>8, <3>1, <3>2, CurrentIs
    <3> QED BY <3>1, <3>3
  <2> QED BY <2>1, <2>2
<1> QED BY <1>7, <1>8 DEF RollbackInv

(* Steps that do not begin or end a rollback.                              *)
LEMMA PlainRolls ==
  ASSUME WorkflowInv, RollbackInv, NEW w \in Workers, worker[w].pc = "leased",
         NEW e, Returns(w, e), run' = run, e.state \notin Rolling,
         \A p : Settles(p, deploy, deploy')
  PROVE  RollbackInv'
BY StepRolls, NotRolling

LEMMA FailedRolls ==
  ASSUME WorkflowInv, RollbackInv, NEW w \in Workers, worker[w].pc = "leased",
         NEW x \in BOOLEAN, Returns(w, StepFailed(worker[w].run, x)), run' = run,
         \A p : Settles(p, deploy, deploy')
  PROVE  RollbackInv'
<1> DEFINE r == worker[w].run
           e == StepFailed(r, x)
<1>1. r \in RunType
  BY Leased
<1>2. SamePlan(r, e) /\ e.refs = r.refs /\ e.state \in {r.state, "failed"}
  BY <1>1, FailedIs
<1>3. Returns(w, e)
  OBVIOUS
<1> HIDE DEF e
<1>4. worker[w].fresh => RollInv(e, deploy', Deployers)
  <2>1. ASSUME worker[w].fresh, e.state \in Rolling PROVE RollInv(e, deploy', Deployers)
    <3>1. r = run /\ RollInv(run, deploy, Deployers)
      BY <2>1 DEF WorkflowInv, CopyInv, RollbackInv
    <3>2. e.state = r.state
      BY <1>2, <2>1 DEF Rolling
    <3>3. r.approval > 0
      BY <2>1, <3>1, <3>2, RunIs
    <3>4. RollInv(r, deploy', Deployers)
      BY <1>1, <3>1, <3>3, RollStands
    <3> QED BY <1>2, <3>2, <3>4 DEF RollInv, StoppedAt, SamePlan, PlanApps, applyKey
  <2> QED BY <2>1, NotRolling
<1> QED BY <1>3, <1>4, StepRolls

LEMMA StaleRolls ==
  ASSUME WorkflowInv, RollbackInv, NEW w \in Workers, worker[w].pc = "leased",
         Returns(w, StepStale(worker[w].run)), run' = run,
         \A p : Settles(p, deploy, deploy')
  PROVE  RollbackInv'
<1>1. worker[w].run \in RunType
  BY Leased
<1>2. StepStale(worker[w].run).state = "stale"
  BY <1>1, StaleIs DEF StepStale
<1> QED BY <1>2, PlainRolls DEF Rolling

LEMMA SameSettles == ASSUME NEW d PROVE \A p : Settles(p, d, d)
BY DEF Settles

LEMMA EarlyStepsRoll ==
  ASSUME WorkflowInv, RollbackInv, NEW w \in Workers, worker[w].pc = "leased", run' = run,
         \/ worker[w].run.state = "provisioning" /\ provision(w, worker[w].run)
         \/ worker[w].run.state = "preflighting" /\ preflightStep(w, worker[w].run)
         \/ worker[w].run.state = "verifying" /\ verify(w, worker[w].run)
  PROVE  RollbackInv'
<1> DEFINE r == worker[w].run
<1>1. r \in RunType /\ facts \in FactsType
  BY Leased DEF WorkflowInv, OutsideInv
<1>2. deploy' = deploy
  BY DEF provision, preflightStep, verify, Jobs
<1>3. \A p : Settles(p, deploy, deploy')
  BY <1>2, SameSettles
<1>4. ASSUME NEW e, Returns(w, e), e.state \notin Rolling PROVE RollbackInv'
  BY <1>3, <1>4, PlainRolls
<1>5. CASE r.state = "provisioning" /\ provision(w, r)
  <2> DEFINE made == ensureTopology(r)
             seen == ensureConfigurations(r, made)
             e == [seen EXCEPT !.state = "building"]
  <2>1. Returns(w, seen) \/ Returns(w, StepFailed(seen, TRUE)) \/ Returns(w, e)
    BY <1>5 DEF provision
  <2>2. made \in FactsType
    <3>1. r.approved \in 0..MaxPlans
      BY <1>1 DEF RunType
    <3> QED BY <1>1, <3>1 DEF ensureTopology, FactsType
  <2> HIDE DEF made
  <2>3. seen \in RunType /\ seen.state = "provisioning"
    BY <1>1, <1>5, <2>2, SeenIs
  <2> HIDE DEF seen
  <2>4. StepFailed(seen, TRUE).state \in {"provisioning", "failed"}
    BY <2>3, FailedIs
  <2>5. e.state = "building"
    BY <2>3 DEF RunType
  <2> HIDE DEF e
  <2> QED BY <1>4, <2>1, <2>3, <2>4, <2>5 DEF Rolling
<1>6. CASE r.state = "preflighting" /\ preflightStep(w, r)
  <2> DEFINE f == [step |-> r.state, retryable |-> FALSE]
             s == IF preflight = "clean" THEN "deploying"
                  ELSE "awaiting_warning_acknowledgement"
             p == preflight
             e1 == [r EXCEPT !.pre = p, !.state = "failed", !.failure = f]
             e2 == [r EXCEPT !.pre = p, !.state = s]
  <2>1. Returns(w, StepFailed(r, TRUE)) \/ Returns(w, e1) \/ Returns(w, e2)
    BY <1>6 DEF preflightStep
  <2>2. s \in {"deploying", "awaiting_warning_acknowledgement"}
    OBVIOUS
  <2> HIDE DEF f, s, p
  <2>3. StepFailed(r, TRUE).state \in {"preflighting", "failed"}
    BY <1>1, <1>6, FailedIs
  <2>4. e1.state = "failed" /\ e2.state = s
    BY <1>1 DEF RunType
  <2> HIDE DEF e1, e2
  <2> QED BY <1>4, <2>1, <2>2, <2>3, <2>4 DEF Rolling
<1>7. CASE r.state = "verifying" /\ verify(w, r)
  <2> DEFINE e == [r EXCEPT !.state = "succeeded"]
  <2>1. \/ Returns(w, StepFailed(r, TRUE)) \/ Returns(w, StepFailed(r, FALSE))
        \/ Returns(w, e)
    BY <1>7 DEF verify
  <2>2. /\ StepFailed(r, TRUE).state \in {"verifying", "failed"}
        /\ StepFailed(r, FALSE).state \in {"verifying", "failed"}
    BY <1>1, <1>7, FailedIs
  <2>3. e.state = "succeeded"
    BY <1>1 DEF RunType
  <2> HIDE DEF e
  <2> QED BY <1>4, <2>1, <2>2, <2>3 DEF Rolling
<1> QED BY <1>5, <1>6, <1>7

LEMMA BuildStepRolls ==
  ASSUME WorkflowInv, RollbackInv, NEW w \in Workers, worker[w].pc = "leased", run' = run,
         worker[w].run.state = "building", BuildStep(w, worker[w].run)
  PROVE  RollbackInv'
<1> DEFINE r == worker[w].run
           x == buildRefs(r)
           s == IF Cardinality(x.records) = r.apps THEN "preflighting" ELSE r.state
           e == [r EXCEPT !.refs = x, !.state = s]
<1>1. r \in RunType
  BY Leased
<1>2. /\ deploy' = deploy \/ deploy' \in cancelWorkflowDeployments(deploy, r.refs.jobs)
      /\ \/ \E b \in BOOLEAN : Returns(w, StepFailed(r, b))
         \/ Returns(w, StepStale(r))
         \/ Returns(w, e)
  <2>1. \A b : (b.status = "infrastructure") \in BOOLEAN
    OBVIOUS
  <2> QED BY <2>1 DEF BuildStep, Jobs
<1>3. \A p : Settles(p, deploy, deploy')
  BY <1>2, SameSettles, CancelSettles
<1>4. s \in {"preflighting", "building"}
  OBVIOUS
<1> HIDE DEF x, s
<1>5. e.state = s
  BY <1>1 DEF RunType
<1> HIDE DEF e
<1>6. Returns(w, e) => RollbackInv'
  BY <1>3, <1>4, <1>5, PlainRolls DEF Rolling
<1> QED BY <1>2, <1>3, <1>6, FailedRolls, StaleRolls

----------------------------------------------------------------------------
(* The deploy step of any copy stops where a rollback began                *)

LEMMA ApplyAt ==
  ASSUME NEW r, NEW n \in Nat, NEW x \in 1..n, applyKey(r, x) \in JobKeys
  PROVE  LET k == applyKey(r, x)
             j == ensureApplies(r, n)[k] IN
         /\ deploy[k] # NoDeploy /\ ~Retryable(r, k) => j = deploy[k]
         /\ deploy[k] = NoDeploy => j.status = "queued"
         /\ deploy[k] # NoDeploy /\ Retryable(r, k) =>
              j = [deploy[k] EXCEPT !.status = "queued", !.retried = r.attempt]
BY DEF ensureApplies

LEMMA DeploySettles ==
  ASSUME WorkflowInv, NEW w \in Workers, worker[w].pc = "leased",
         worker[w].run.state = "deploying",
         NEW n \in Nat, n <= worker[w].run.apps,
         \A x \in 1..n : x \in DeployStops(worker[w].run) => x = n,
         NEW p \in RunType, Current(p), p.state \in Rolling, p.approval > 0,
         RollInv(p, deploy, Deployers)
  PROVE  Settles(p.approval, deploy, ensureApplies(worker[w].run, n))
<1> DEFINE r == worker[w].run
<1>1. r \in RunType /\ Older(r, run) /\ r \in Deployers /\ r.apps \in Nat /\ r.approval > 0
      /\ RunInv(r, build, deploy)
  <2>1. r \in RunType /\ Older(r, run) /\ r \in Deployers /\ RunInv(r, build, deploy)
    BY Leased DEF Deployers
  <2> QED BY <2>1, KeysAre DEF RunInv, Working, RunnableStates
<1>2. PICK a \in PlanApps(p) : StoppedAt(p, a, deploy, Deployers)
  BY DEF RollInv
<1>3. p.approval = run.approval /\ p.apps = run.apps
  BY DEF Current, Follows, Rolling
<1> SUFFICES ASSUME NEW k \in JobKeys, k[1] = p.approval, Ended(deploy[k])
             PROVE  ensureApplies(r, n)[k] = deploy[k]
  BY DEF Settles
<1>4. CASE \E x \in 1..n : k = applyKey(r, x) /\ Retryable(r, k)
  <2>1. PICK x \in 1..n : k = applyKey(r, x) /\ Retryable(r, k)
    BY <1>4
  <2>2. r.approval = p.approval /\ r.apps = p.apps
    BY <1>1, <1>3, <2>1 DEF applyKey, Older
  <2>3. /\ PlanApps(r) = 1..r.apps /\ a \in 1..r.apps /\ x \in 1..r.apps
        /\ \A y : applyKey(p, y) = applyKey(r, y)
        /\ \A y \in 1..r.apps : applyKey(r, y) \in JobKeys
    BY <1>1, <2>2, KeysAre DEF applyKey, PlanApps
  <2>4. a \in DeployStops(r)
    <3> DEFINE y == applyKey(r, a)
    <3>1. /\ deploy[y].status \in {"failed", "exhausted", "cancelled"}
          /\ ~Retries(r, y, deploy) /\ y[1] = r.approval
      BY <1>1, <1>2, <2>3 DEF StoppedAt, applyKey
    <3>2. ~Retryable(r, y) /\ deploy[y] # NoDeploy
      BY <3>1 DEF Retries, Retryable, NoDeploy
    <3>3. ensureApplies(r, r.apps)[y] = deploy[y]
      <4>1. y \in JobKeys
        BY <2>3
      <4> QED BY <3>2, <4>1 DEF ensureApplies
    <3> QED BY <2>3, <3>1, <3>3 DEF DeployStops
  <2>5. x <= a
    BY <1>1, <2>1, <2>3, <2>4
  <2>6. CASE x = a
    <3>1. ~Retries(r, k, deploy)
      BY <1>1, <1>2, <2>1, <2>3, <2>6 DEF StoppedAt
    <3> QED BY <2>1, <3>1 DEF Retries, Retryable, applyKey
  <2>7. CASE x # a
    <3>1. x \in 1..(a - 1)
      BY <1>1, <2>3, <2>5, <2>7
    <3>2. deploy[k].status # "exhausted"
      BY <1>2, <2>1, <2>3, <3>1 DEF StoppedAt
    <3> QED BY <2>1, <3>2 DEF Retryable
  <2> QED BY <2>6, <2>7
<1>5. CASE ~ \E x \in 1..n : k = applyKey(r, x) /\ Retryable(r, k)
  BY <1>5 DEF ensureApplies, Ended, NoDeploy
<1> QED BY <1>4, <1>5

(* The step that begins a rollback leaves nothing running before the       *)
(* application that stopped it, nor among the jobs it refers to.           *)
LEMMA EnterRolls ==
  ASSUME WorkflowInv, NEW w \in Workers, worker[w].pc = "leased", worker[w].fresh,
         worker[w].run.state = "deploying", NEW a \in DeployStops(worker[w].run),
         \A x \in DeployStops(worker[w].run) : a <= x,
         NEW seen, seen = worker[w].run.refs.jobs
                     \cup {applyKey(worker[w].run, x) : x \in 1..a},
         ~CancelUnsafe(ensureApplies(worker[w].run, a), seen),
         NEW d2 \in cancelWorkflowDeployments(ensureApplies(worker[w].run, a), seen),
         NEW e, SamePlan(worker[w].run, e), e.refs.jobs = seen, e.state = "rolling_back"
  PROVE  RollInv(e, d2, Deployers)
<1> DEFINE r == worker[w].run
           d == ensureApplies(r, a)
<1>1. /\ r \in RunType /\ r = run /\ RunInv(r, build, deploy) /\ r.apps \in Nat
      /\ r.approval > 0 /\ PlanApps(r) = 1..r.apps /\ r.refs.jobs \subseteq JobKeys
      /\ \A x \in 1..r.apps : applyKey(r, x) \in JobKeys
  <2>1. r \in RunType /\ r = run /\ RunInv(r, build, deploy) /\ r.approval > 0
    BY Leased DEF WorkflowInv, CopyInv, RunInv, Working, RunnableStates
  <2> QED BY <2>1, KeysAre, FieldsTyped
<1>2. a \in 1..r.apps /\ a \in Nat
  BY <1>1 DEF DeployStops
<1>3. ASSUME NEW k \in JobKeys
      PROVE  /\ deploy[k] \in DeployRow
             /\ d[k] = deploy[k] \/ d[k].status = "queued"
             /\ d2[k] = d[k] \/ (d[k].status = "queued" /\ d2[k].status = "cancelled")
             /\ k \in seen => d2[k].status \notin {"queued", "active"}
  <2>1. deploy[k] \in DeployRow
    BY DEF WorkflowInv, JobsInv
  <2>2. d[k] = deploy[k] \/ d[k].status = "queued"
    BY <1>1, <1>2, ApplyIs
  <2>3. d[k] \in DeployRow
    BY <1>1, <1>2, ApplyIs
  <2> HIDE DEF d
  <2>4. d2[k] = IF k \in Stoppable(d, seen)
                THEN [d[k] EXCEPT !.status = "cancelled"] ELSE d[k]
    BY DEF cancelWorkflowDeployments, d
  <2>5. k \in seen => /\ d[k].status # "active"
                      /\ d[k].status = "queued" => k \in Stoppable(d, seen)
    BY <2>3 DEF CancelUnsafe, Stoppable, DeployRow, d
  <2> QED BY <2>1, <2>2, <2>3, <2>4, <2>5 DEF DeployRow, Stoppable
<1>4. ASSUME NEW k \in seen PROVE k \in JobKeys /\ Ended(d2[k])
  <2>1. k \in JobKeys
    BY <1>1, <1>2
  <2>2. d[k].status # "absent"
    <3>1. CASE k \in r.refs.jobs
      BY <1>1, <1>3, <2>1, <3>1 DEF RunInv
    <3>2. CASE \E x \in 1..a : k = applyKey(r, x)
      BY <1>1, <1>2, <2>1, <3>2, ApplyIs
    <3> QED BY <3>1, <3>2
  <2> QED BY <1>3, <2>1, <2>2 DEF Ended
<1>5. ASSUME NEW x \in 1..a
      PROVE  /\ applyKey(r, x) \in JobKeys /\ applyKey(r, x) \in seen
             /\ d[applyKey(r, x)] = ensureApplies(r, r.apps)[applyKey(r, x)]
  <2> DEFINE k == applyKey(r, x)
  <2>1. k \in JobKeys /\ k \in seen /\ x \in 1..r.apps
    BY <1>1, <1>2
  <2> QED BY <2>1 DEF ensureApplies
<1>6. \A x : applyKey(e, x) = applyKey(r, x)
  BY DEF SamePlan, applyKey
<1>7. PlanApps(e) = PlanApps(r)
  BY DEF SamePlan, PlanApps
<1>8. d2[applyKey(r, a)].status \in {"failed", "exhausted", "cancelled"}
      /\ d2[applyKey(r, a)] = deploy[applyKey(r, a)]
      /\ ~Retryable(r, applyKey(r, a))
  <2> DEFINE k == applyKey(r, a)
  <2>1. k \in JobKeys /\ d[k] = ensureApplies(r, r.apps)[k]
    BY <1>2, <1>5
  <2>2. d[k].status \in {"failed", "exhausted", "cancelled"}
    BY <2>1 DEF DeployStops
  <2>3. deploy[k] # NoDeploy /\ Retryable(r, k) => d[k].status = "queued"
    <3>1. deploy[k] \in DeployRow
      BY <1>3, <2>1
    <3>2. deploy[k] # NoDeploy /\ Retryable(r, k) =>
            d[k] = [deploy[k] EXCEPT !.status = "queued", !.retried = r.attempt]
      BY <1>2, <2>1 DEF ensureApplies
    <3> QED BY <3>1, <3>2 DEF DeployRow
  <2>4. Retryable(r, k) => deploy[k] # NoDeploy
    BY DEF Retryable, NoDeploy
  <2> HIDE DEF d
  <2> QED BY <1>3, <2>1, <2>2, <2>3, <2>4
<1>9. \A q \in Deployers : ~Retries(q, applyKey(r, a), d2)
  <2> SUFFICES ASSUME NEW q \in Deployers, Retries(q, applyKey(r, a), d2) PROVE FALSE
    OBVIOUS
  <2> DEFINE k == applyKey(r, a)
  <2>1. /\ q.approval = r.approval /\ k \in q.refs.jobs /\ q.attempt > 1
        /\ deploy[k].status = "exhausted" /\ deploy[k].retried < q.attempt
    BY <1>8 DEF Retries, applyKey
  <2>2. k \in JobKeys /\ deploy[k].retried \in Nat
    <3>1. a \in 1..a
      BY <1>2
    <3>2. k \in JobKeys
      BY <1>5, <3>1
    <3>3. deploy[k] \in DeployRow
      BY <1>3, <3>2
    <3>4. deploy[k].retried \in 0..MaxAttempts
      BY <3>3 DEF DeployRow
    <3> QED BY <3>2, <3>4
  <2>3. q.attempt \in Nat /\ r.attempt \in Nat /\ q.attempt <= r.attempt
        /\ q.refs.jobs \subseteq r.refs.jobs
    <3>1. CASE q = run
      BY <1>1, <3>1, FieldsTyped
    <3>2. CASE \E x \in Workers : worker[x].pc = "leased" /\ q = worker[x].run
      <4>1. q \in RunType /\ Older(q, run)
        BY <3>2, Leased
      <4> QED BY <1>1, <2>1, <4>1, FieldsTyped DEF Older
    <3> QED BY <3>1, <3>2 DEF Deployers
  <2>4. Retryable(r, k)
    BY <2>1, <2>2, <2>3 DEF Retryable
  <2> QED BY <1>8, <2>4
<1>10. ASSUME NEW x \in 1..(a - 1)
       PROVE  Ended(d2[applyKey(r, x)]) /\ d2[applyKey(r, x)].status # "exhausted"
  <2> DEFINE k == applyKey(r, x)
  <2>1. x \in 1..a /\ ~(a <= x) /\ x \in PlanApps(r)
    BY <1>1, <1>2
  <2>2. k \in seen /\ k \in JobKeys /\ d[k] = ensureApplies(r, r.apps)[k]
    BY <1>5, <2>1
  <2>3. d[k].status # "exhausted"
    BY <2>1, <2>2 DEF DeployStops
  <2> HIDE DEF d
  <2> QED BY <1>3, <1>4, <2>2, <2>3
<1>11. \A x : applyKey(r, x) \in seen => Ended(d2[applyKey(r, x)])
  BY <1>4
<1> HIDE DEF d, r
<1>12. StoppedAt(e, a, d2, Deployers)
  BY <1>6, <1>8, <1>9, <1>10, <1>11 DEF StoppedAt
<1>13. a \in PlanApps(e)
  BY <1>1, <1>2, <1>7
<1> QED BY <1>12, <1>13 DEF RollInv, Rolling

LEMMA DeployStepRolls ==
  ASSUME WorkflowInv, RollbackInv, NEW w \in Workers, worker[w].pc = "leased", run' = run,
         worker[w].run.state = "deploying", deployStep(w, worker[w].run)
  PROVE  RollbackInv'
<1> DEFINE r == worker[w].run
           Quiet == \A p \in RunType :
                      Current(p) /\ p.state \in Rolling /\ p.approval > 0
                        /\ RollInv(p, deploy, Deployers)
                        => Settles(p.approval, deploy, deploy')
<1>1. /\ r \in RunType /\ RunInv(r, build, deploy) /\ r.apps \in Nat
      /\ PlanApps(r) = 1..r.apps /\ r.refs.jobs \subseteq JobKeys /\ r.approval > 0
      /\ \A x \in 1..r.apps : applyKey(r, x) \in JobKeys
  <2>1. r \in RunType /\ RunInv(r, build, deploy) /\ r.approval > 0
    BY Leased DEF RunInv, Working, RunnableStates
  <2> QED BY <2>1, KeysAre, FieldsTyped
<1>2. ASSUME NEW n \in Nat, n <= r.apps,
             \A x \in 1..n : x \in DeployStops(r) => x = n,
             \/ deploy' = ensureApplies(r, n)
             \/ \E those : deploy' \in cancelWorkflowDeployments(ensureApplies(r, n), those)
      PROVE  Quiet
  <2> SUFFICES ASSUME NEW p \in RunType, Current(p), p.state \in Rolling, p.approval > 0,
                      RollInv(p, deploy, Deployers)
               PROVE  Settles(p.approval, deploy, deploy')
    OBVIOUS
  <2>1. Settles(p.approval, deploy, ensureApplies(r, n))
    BY <1>2, DeploySettles
  <2> QED BY <1>2, <2>1, CancelSettles, SettlesOn
<1>3. ASSUME NEW e, Returns(w, e), e.state \notin Rolling, Quiet PROVE RollbackInv'
  BY <1>3, NotRolling, StepRolls
<1>4. ASSUME NEW x \in BOOLEAN PROVE StepFailed(r, x).state \notin Rolling
  <2>1. StepFailed(r, x).state \in {"deploying", "failed"}
    BY <1>1, FailedIs
  <2> QED BY <2>1 DEF Rolling
<1>5. CASE Returns(w, StepStale(r)) /\ deploy' = deploy
  BY <1>5, SameSettles, StaleRolls
<1>6. ASSUME NEW a \in PlanApps(r), \A x \in 1..(a - 1) : x \notin DeployStops(r),
             deploy' = ensureApplies(r, a - 1), Returns(w, StepFailed(r, TRUE))
      PROVE  RollbackInv'
  <2>1. a - 1 \in Nat /\ a - 1 <= r.apps
    BY <1>1
  <2>2. Quiet
    BY <1>2, <1>6, <2>1
  <2> HIDE DEF Quiet
  <2> QED BY <1>3, <1>4, <1>6, <2>2
<1>7. CASE /\ DeployStops(r) = {} /\ deploy' = ensureApplies(r, r.apps)
           /\ Returns(w, [r EXCEPT
                !.refs.jobs = @ \cup {applyKey(r, a) : a \in PlanApps(r)},
                !.state = IF \A a \in PlanApps(r) : deploy[applyKey(r, a)].status = "succeeded"
                          THEN "verifying" ELSE @])
  <2> DEFINE x == [r.refs EXCEPT !.jobs = @ \cup {applyKey(r, a) : a \in PlanApps(r)}]
             s == IF \A a \in PlanApps(r) : deploy[applyKey(r, a)].status = "succeeded"
                  THEN "verifying" ELSE r.state
             e == [r EXCEPT !.refs = x, !.state = s]
  <2>1. Returns(w, e)
    BY <1>1, <1>7 DEF RunType, RefsType
  <2>2. s \in {"verifying", "deploying"}
    OBVIOUS
  <2> HIDE DEF x, s
  <2>3. e.state = s
    BY <1>1 DEF RunType
  <2> HIDE DEF e
  <2>4. Quiet
    BY <1>1, <1>2, <1>7
  <2> HIDE DEF Quiet
  <2> QED BY <1>3, <2>1, <2>2, <2>3, <2>4 DEF Rolling
<1>8. ASSUME DeployStops(r) # {}, NEW a, a = Min(DeployStops(r)), NEW seen,
             seen = r.refs.jobs \cup {applyKey(r, x) : x \in 1..a},
             deploy' \in cancelWorkflowDeployments(ensureApplies(r, a), seen),
             \/ Returns(w, StepFailed(r, FALSE))
             \/ Returns(w, StepFailed(Seeing(r, seen), FALSE))
             \/ /\ ~CancelUnsafe(ensureApplies(r, a), seen)
                /\ Returns(w, StepCompensates(Seeing(r, seen), "rolling_back"))
             \/ Returns(w, StepCompensates(Seeing(r, seen), "cleaning_up"))
      PROVE  RollbackInv'
  <2>1. /\ a \in DeployStops(r) /\ \A x \in DeployStops(r) : a <= x
        /\ a \in PlanApps(r) /\ a \in Nat /\ a <= r.apps
    <3>1. /\ a \in DeployStops(r) /\ \A x \in DeployStops(r) : a <= x
          /\ a \in PlanApps(r)
      BY <1>1, <1>8, DeployStopsAre
    <3> QED BY <1>1, <3>1
  <2>2. Quiet
    <3>1. \A x \in 1..a : x \in DeployStops(r) => x = a
      BY <2>1
    <3>2. \E those : deploy' \in cancelWorkflowDeployments(ensureApplies(r, a), those)
      BY <1>8
    <3> QED BY <1>2, <2>1, <3>1, <3>2
  <2> HIDE DEF Quiet
  <2> DEFINE n == Seeing(r, seen)
  <2>3. n \in RunType /\ SamePlan(r, n) /\ n.state = "deploying" /\ n.refs.jobs = seen
    <3> DEFINE x == [r.refs EXCEPT !.jobs = seen]
    <3>1. seen \subseteq JobKeys
      BY <1>1, <1>8, <2>1
    <3>2. x \in RefsType /\ x.jobs = seen
      <4>1. r.refs \in RefsType
        BY <1>1, FieldsTyped
      <4> QED BY <3>1, <4>1 DEF RefsType
    <3>3. n = [r EXCEPT !.refs = x]
      BY DEF Seeing
    <3> HIDE DEF x, n
    <3> QED BY <1>1, <3>2, <3>3 DEF RunType, SamePlan
  <2> HIDE DEF n
  <2>4. StepFailed(n, FALSE).state \notin Rolling
    <3>1. StepFailed(n, FALSE).state \in {"deploying", "failed"}
      BY <2>3, FailedIs
    <3> QED BY <3>1 DEF Rolling
  <2>5. StepCompensates(n, "cleaning_up").state \notin Rolling
    BY <2>3, CompensatesIs DEF Rolling
  <2>6. ASSUME ~CancelUnsafe(ensureApplies(r, a), seen), Returns(w, StepCompensates(n, "rolling_back"))
        PROVE  RollbackInv'
    <3> DEFINE e == StepCompensates(n, "rolling_back")
    <3>1. SamePlan(r, e) /\ e.refs.jobs = seen /\ e.state = "rolling_back"
      BY <2>3, CompensatesIs DEF SamePlan
    <3>2. Returns(w, e)
      BY <2>6
    <3> HIDE DEF e
    <3>3. worker[w].fresh => RollInv(e, deploy', Deployers)
      BY <1>8, <2>1, <2>6, <3>1, EnterRolls
    <3> QED BY <2>2, <3>2, <3>3, StepRolls DEF Quiet
  <2> QED BY <1>3, <1>4, <1>8, <2>2, <2>4, <2>5, <2>6 DEF n
<1>9. CASE /\ DeployStops(r) # {}
           /\ LET a == Min(DeployStops(r))
                  seen == r.refs.jobs \cup {applyKey(r, x) : x \in 1..a} IN
              /\ deploy' \in cancelWorkflowDeployments(ensureApplies(r, a), seen)
              /\ \/ Returns(w, StepFailed(r, FALSE))
                 \/ Returns(w, StepFailed(Seeing(r, seen), FALSE))
                 \/ /\ ~CancelUnsafe(ensureApplies(r, a), seen)
                    /\ Returns(w, StepCompensates(Seeing(r, seen), "rolling_back"))
                 \/ Returns(w, StepCompensates(Seeing(r, seen), "cleaning_up"))
  BY <1>8, <1>9
<1> QED BY <1>5, <1>6, <1>7, <1>9 DEF deployStep, Seeing, Jobs

----------------------------------------------------------------------------
(* The rollback itself, and the saves                                      *)

LEMMA StartedSettles ==
  ASSUME NEW r, NEW how, NEW sources, NEW n, NEW p
  PROVE  Settles(p, deploy, Started(r, how, sources, n))
BY DEF Settles, Started, Ended, NoDeploy

LEMMA CompensateRolls ==
  ASSUME WorkflowInv, RollbackInv, NEW w \in Workers, worker[w].pc = "leased", run' = run,
         \/ worker[w].run.state = "rolling_back" /\ rollback(w, worker[w].run)
         \/ worker[w].run.state = "cleaning_up" /\ cleanupFirstDeploy(w, worker[w].run)
  PROVE  RollbackInv'
<1> DEFINE r == worker[w].run
           js(how, sources) == r.refs.jobs \cup {<<r.approval, a, how>> : a \in sources}
           n(how, sources) == Seeing(r, js(how, sources))
<1>1. /\ r \in RunType /\ r.approval > 0 /\ r.apps \in Nat /\ PlanApps(r) = 1..r.apps
      /\ r.refs.jobs \subseteq JobKeys /\ PlanApps(r) \subseteq Apps
      /\ \A x \in PlanApps(r) : applyKey(r, x) \in JobKeys
      /\ worker[w].fresh => r = run
  <2>1. r \in RunType /\ r.approval > 0 /\ (worker[w].fresh => r = run)
    BY Leased DEF RunInv, Working, RunnableStates, WorkflowInv, CopyInv
  <2> QED BY <2>1, KeysAre, FieldsTyped
<1>2. ASSUME NEW how \in {"rollback", "cleanup"}, NEW sources \in SUBSET PlanApps(r),
             NEW s \in {"failed", "rolled_back", r.state}, NEW e,
             e = [n(how, sources) EXCEPT !.state = s]
      PROVE  /\ SamePlan(r, e) /\ e.state = s /\ e.refs.jobs = js(how, sources)
             /\ \A x : applyKey(r, x) \in e.refs.jobs => applyKey(r, x) \in r.refs.jobs
  <2> DEFINE j == js(how, sources)
             x == [r.refs EXCEPT !.jobs = j]
  <2>1. \A y : applyKey(r, y) \in j => applyKey(r, y) \in r.refs.jobs
    BY <1>2 DEF applyKey
  <2>2. x \in [facts: FactsType, builds: SUBSET BuildKeys, records: SUBSET BuildKeys,
               jobs: {j}]
    <3>1. r.refs \in RefsType
      BY <1>1, FieldsTyped
    <3> HIDE DEF j
    <3> QED BY <3>1 DEF RefsType
  <2>3. n(how, sources) = [r EXCEPT !.refs = x]
    BY DEF Seeing
  <2>4. e = [[r EXCEPT !.refs = x] EXCEPT !.state = s]
    BY <1>2, <2>3
  <2> HIDE DEF x
  <2>5. SamePlan(r, e) /\ e.state = s /\ e.refs = x
    BY <1>1, <2>4 DEF RunType, SamePlan
  <2>6. x.jobs = j
    BY <2>2
  <2> QED BY <2>1, <2>5, <2>6
<1>3. CASE r.state = "cleaning_up" /\ cleanupFirstDeploy(w, r)
  <2> DEFINE sources == {a \in PlanApps(r) : applyKey(r, a) \in r.refs.jobs
                                              /\ ~Eligible(applyKey(r, a))}
             refused == {a \in sources : deploy[applyKey(r, a)].prior
                           \/ deploy[applyKey(r, a)].status = "succeeded"}
  <2>1. Compensate(w, r, "cleanup", sources, refused, "succeeded")
    BY <1>3 DEF cleanupFirstDeploy
  <2>2. sources \in SUBSET PlanApps(r)
    OBVIOUS
  <2> HIDE DEF sources, refused
  <2>3. /\ \E m : deploy' = Started(r, "cleanup", sources, m)
        /\ \/ \E x \in BOOLEAN : Returns(w, StepFailed(r, x))
           \/ Returns(w, [n("cleanup", sources) EXCEPT !.state = "failed"])
           \/ Returns(w, n("cleanup", sources))
    BY <2>1 DEF Compensate, Started, Seeing
  <2>4. \A p : Settles(p, deploy, deploy')
    BY <2>3, StartedSettles
  <2>5. [n("cleanup", sources) EXCEPT !.state = "failed"].state = "failed"
    BY <1>2, <2>2
  <2>6. n("cleanup", sources).state = "cleaning_up"
    BY <1>1, <1>3 DEF Seeing, RunType
  <2> HIDE DEF n
  <2> QED BY <2>3, <2>4, <2>5, <2>6, FailedRolls, PlainRolls DEF Rolling
<1>4. CASE r.state = "rolling_back" /\ rollback(w, r)
  <2> DEFINE sources == {a \in PlanApps(r) : applyKey(r, a) \in r.refs.jobs
                                              /\ Eligible(applyKey(r, a))}
             nx == n("rollback", sources)
             e1 == [nx EXCEPT !.state = "rolled_back"]
             e2 == [nx EXCEPT !.state = r.state]
  <2>1. Compensate(w, r, "rollback", sources, {}, "rolled_back")
    BY <1>4 DEF rollback
  <2>2. sources \in SUBSET PlanApps(r)
    OBVIOUS
  <2>3. /\ \E m : deploy' = Started(r, "rollback", sources, m)
        /\ \/ \E x \in BOOLEAN : Returns(w, StepFailed(r, x))
           \/ /\ Returns(w, e1)
              /\ \A a \in sources :
                   deploy[<<r.approval, a, "rollback">>].status = "rolled_back"
           \/ Returns(w, nx)
    <3> HIDE DEF sources
    <3> QED BY <2>1 DEF Compensate, Started, Seeing
  <2>4. \A p : Settles(p, deploy, deploy')
    BY <2>3, StartedSettles
  <2>5. nx = e2
    BY <1>1 DEF Seeing, RunType
  <2>6. worker[w].fresh => RollInv(r, deploy, Deployers) /\ RollInv(r, deploy', Deployers)
    <3>1. worker[w].fresh => RollInv(r, deploy, Deployers)
      BY <1>1 DEF RollbackInv
    <3> QED BY <1>1, <2>4, <3>1, RollStands
  <2>7. ASSUME NEW e \in {e1, e2}, worker[w].fresh,
               e = e1 => \A a \in sources :
                           deploy[<<r.approval, a, "rollback">>].status = "rolled_back",
               e = e2 => e2.state = "rolling_back"
        PROVE  RollInv(e, deploy', Deployers)
    <3>1. /\ SamePlan(r, e) /\ e.state \in {"rolled_back", "rolling_back"}
          /\ \A x : applyKey(r, x) \in e.refs.jobs => applyKey(r, x) \in r.refs.jobs
          /\ e.state = "rolled_back" => e = e1
      <4>1. /\ SamePlan(r, e1) /\ e1.state = "rolled_back"
            /\ \A x : applyKey(r, x) \in e1.refs.jobs => applyKey(r, x) \in r.refs.jobs
        BY <1>2, <2>2
      <4>2. /\ SamePlan(r, e2) /\ e2.state = r.state
            /\ \A x : applyKey(r, x) \in e2.refs.jobs => applyKey(r, x) \in r.refs.jobs
        BY <1>2, <2>2
      <4> HIDE DEF e1, e2
      <4> QED BY <1>4, <2>7, <4>1, <4>2
    <3>2. PICK a \in PlanApps(r) : StoppedAt(r, a, deploy', Deployers)
      BY <1>4, <2>6, <2>7 DEF RollInv, Rolling
    <3>3. \A x : applyKey(e, x) = applyKey(r, x)
      BY <3>1 DEF SamePlan, applyKey
    <3>4. PlanApps(e) = PlanApps(r) /\ e.approval = r.approval
      BY <3>1 DEF SamePlan, PlanApps
    <3>5. StoppedAt(e, a, deploy', Deployers)
      BY <3>1, <3>2, <3>3, <3>4 DEF StoppedAt
    <3>6. ASSUME e.state = "rolled_back", NEW x \in PlanApps(r),
                 applyKey(r, x) \in r.refs.jobs,
                 deploy'[applyKey(r, x)].status = "succeeded", deploy'[applyKey(r, x)].prior
          PROVE  deploy'[<<r.approval, x, "rollback">>].status = "rolled_back"
      <4> DEFINE k == <<r.approval, x, "rollback">>
      <4>1. PICK b \in PlanApps(r) : StoppedAt(r, b, deploy, Deployers)
        BY <1>4, <2>6, <2>7 DEF RollInv, Rolling
      <4>2. Ended(deploy[applyKey(r, x)])
        BY <3>6, <4>1 DEF StoppedAt
      <4>3. deploy'[applyKey(r, x)] = deploy[applyKey(r, x)]
        <5>1. applyKey(r, x) \in JobKeys /\ applyKey(r, x)[1] = r.approval
          BY <1>1, <3>6 DEF applyKey
        <5> QED BY <2>4, <4>2, <5>1 DEF Settles
      <4>4. x \in sources
        BY <3>6, <4>3 DEF Eligible
      <4>5. deploy[k].status = "rolled_back"
        BY <2>7, <3>1, <3>6, <4>4
      <4>6. k \in JobKeys
        <5>1. applyKey(r, x) \in JobKeys
          BY <1>1, <3>6
        <5> QED BY <5>1 DEF applyKey, JobKeys
      <4> QED BY <2>4, <4>5, <4>6 DEF Settles, Ended
    <3> HIDE DEF e1, e2
    <3> QED BY <3>1, <3>3, <3>4, <3>5, <3>6 DEF RollInv, Rolling
  <2>8. e2.state = "rolling_back"
    BY <1>2, <1>4, <2>2
  <2>9. e1.state = "rolled_back"
    BY <1>2, <2>2
  <2> HIDE DEF nx, e1, e2, sources
  <2>10. Returns(w, nx) => RollbackInv'
    BY <2>4, <2>5, <2>7, <2>8, <2>9, StepRolls
  <2>11. ASSUME Returns(w, e1),
                \A a \in sources :
                  deploy[<<r.approval, a, "rollback">>].status = "rolled_back"
         PROVE  RollbackInv'
    BY <2>4, <2>7, <2>8, <2>9, <2>11, StepRolls
  <2> QED BY <2>3, <2>4, <2>10, <2>11, FailedRolls
<1> QED BY <1>3, <1>4

LEMMA ExecuteRolls ==
  ASSUME WorkflowInv, RollbackInv, NEW w \in Workers, Execute(w) PROVE RollbackInv'
<1> DEFINE r == worker[w].run
<1>1. worker[w].pc = "leased" /\ run' = run
  BY DEF Execute
<1>2. CASE \/ Returns(w, StepFailed(r, TRUE)) /\ UNCHANGED <<Outside, Jobs>>
           \/ Returns(w, StepStale(r)) /\ UNCHANGED <<Outside, Jobs>>
  <2>1. deploy' = deploy
    BY <1>2 DEF Jobs
  <2> QED BY <1>1, <1>2, <2>1, SameSettles, FailedRolls, StaleRolls
<1>3. CASE /\ head = r.commit /\ ~factsStale(r)
           /\ CASE r.state = "provisioning" -> provision(w, r)
                [] r.state = "building" -> BuildStep(w, r)
                [] r.state = "preflighting" -> preflightStep(w, r)
                [] r.state = "deploying" -> deployStep(w, r)
                [] r.state = "verifying" -> verify(w, r)
                [] r.state = "rolling_back" -> rollback(w, r)
                [] r.state = "cleaning_up" -> cleanupFirstDeploy(w, r)
  <2>1. r.state \in RunnableStates
    BY <1>1, Leased
  <2>2. \/ r.state = "provisioning" /\ provision(w, r)
        \/ r.state = "building" /\ BuildStep(w, r)
        \/ r.state = "preflighting" /\ preflightStep(w, r)
        \/ r.state = "deploying" /\ deployStep(w, r)
        \/ r.state = "verifying" /\ verify(w, r)
        \/ r.state = "rolling_back" /\ rollback(w, r)
        \/ r.state = "cleaning_up" /\ cleanupFirstDeploy(w, r)
    BY <1>3, <2>1 DEF RunnableStates
  <2> QED BY <1>1, <2>2, EarlyStepsRoll, BuildStepRolls, DeployStepRolls, CompensateRolls
<1> QED BY <1>2, <1>3 DEF Execute

(* The run stays, and a copy stays, is dropped, or is read anew.           *)
LEMMA QuietRolls ==
  ASSUME WorkflowInv, RollbackInv, run' = run,
         \A w \in Workers : \/ worker'[w] = worker[w]
                            \/ worker'[w].pc = "idle"
                            \/ worker'[w].pc = "leased" /\ worker'[w].run = run,
         \A p : Settles(p, deploy, deploy')
  PROVE  RollbackInv'
<1>1. Deployers' \subseteq Deployers
  BY DEF Deployers
<1>2. RollInv(run', deploy', Deployers')
  BY <1>1, RunIs, RollStands DEF RollbackInv
<1>3. ASSUME NEW w \in Workers, worker'[w].pc = "executed", worker'[w].fresh
      PROVE  RollInv(worker'[w].run, deploy', Deployers')
  <2>1. worker'[w] = worker[w]
    BY <1>3
  <2>2. RollInv(worker[w].run, deploy, Deployers)
    BY <1>3, <2>1 DEF RollbackInv
  <2>3. RollInv(worker[w].run, deploy', Deployers')
    BY <1>1, <1>3, <2>1, <2>2, CurrentIs, RollStands
  <2> QED BY <2>1, <2>3
<1> QED BY <1>2, <1>3 DEF RollbackInv

LEMMA OutdatedAre ==
  ASSUME WorkflowInv, NEW w \in Workers
  PROVE  /\ ~Outdated(worker[w]).fresh /\ Outdated(worker[w]).pc = worker[w].pc
         /\ worker[w].pc = "leased" => Outdated(worker[w]).run = worker[w].run
<1>1. worker[w] \in CopyRow /\ RunInv(worker[w].run, build, deploy)
  BY DEF WorkflowInv
<1> QED BY <1>1, OutdatedIs

LEMMA SaveRolls ==
  ASSUME WorkflowInv, NEW e, Save(e), e.state \notin Rolling PROVE RollbackInv'
<1>1. run' = e /\ \A w \in Workers : worker'[w] = Outdated(worker[w])
  BY DEF Save
<1>2. \A w \in Workers : ~worker'[w].fresh
  BY <1>1, OutdatedAre
<1>3. \A d, others : RollInv(e, d, others)
  BY NotRolling
<1>4. RollInv(run', deploy', Deployers')
  BY <1>1, <1>3
<1> QED BY <1>2, <1>4 DEF RollbackInv

LEMMA RequestsRoll == ASSUME WorkflowInv, RollbackInv, Requests PROVE RollbackInv'
<1>1. run \in RunType
  BY DEF WorkflowInv
<1>2. markStale(run).state \notin Rolling
  BY <1>1, StaleIs DEF Rolling
<1>3. CASE SetAnalysis
  <2>1. PICK s \in reconcileDraftIssues, shape \in Shapes,
             c \in {head, run.commit} \ {0} :
          Save([Create EXCEPT !.state = s, !.plan = HashPlan(run),
                  !.apps = shape.apps, !.max = shape.attempts,
                  !.commit = c, !.authority = currentWorkflowAuthority,
                  !.approvals = run.approvals])
    BY <1>3 DEF SetAnalysis
  <2> DEFINE e == [Create EXCEPT !.state = s, !.plan = HashPlan(run),
                  !.apps = shape.apps, !.max = shape.attempts,
                  !.commit = c, !.authority = currentWorkflowAuthority,
                  !.approvals = run.approvals]
  <2>2. e.state = s
    BY DEF Create
  <2>3. s \notin Rolling
    BY DEF reconcileDraftIssues, Rolling
  <2>4. Save(e)
    BY <2>1
  <2> HIDE DEF e
  <2> QED BY <2>2, <2>3, <2>4, SaveRolls
<1>4. CASE UpdatePlan
  <2>1. PICK s \in reconcileDraftIssues, shape \in Shapes :
          Save([run EXCEPT !.state = s, !.plan = HashPlan(run), !.pre = "none",
                  !.apps = shape.apps, !.max = shape.attempts])
    BY <1>4 DEF UpdatePlan
  <2> DEFINE e == [run EXCEPT !.state = s, !.plan = HashPlan(run), !.pre = "none",
                  !.apps = shape.apps, !.max = shape.attempts]
  <2>2. e.state = s
    BY <1>1 DEF RunType
  <2>3. s \notin Rolling
    BY DEF reconcileDraftIssues, Rolling
  <2>4. Save(e)
    BY <2>1
  <2> HIDE DEF e
  <2> QED BY <2>2, <2>3, <2>4, SaveRolls
<1>5. CASE Approve
  <2> DEFINE e == [run EXCEPT !.state = "provisioning", !.attempt = @ + 1,
                  !.approval = run.approvals + 1, !.approved = run.plan,
                  !.approvals = @ + 1, !.basis = facts,
                  !.failure = NoFailure]
  <2>1. e.state = "provisioning"
    BY <1>1 DEF RunType
  <2>2. Save(e) \/ Save(markStale(run))
    BY <1>5 DEF Approve
  <2> HIDE DEF e
  <2> QED BY <1>2, <2>1, <2>2, SaveRolls DEF Rolling
<1>6. CASE Invalidate
  BY <1>2, <1>6, SaveRolls DEF Invalidate
<1>7. CASE Acknowledge
  <2> DEFINE e == [run EXCEPT !.state = "deploying"]
  <2>1. e.state = "deploying" /\ Save(e)
    BY <1>1, <1>7 DEF RunType, Acknowledge
  <2> HIDE DEF e
  <2> QED BY <2>1, SaveRolls DEF Rolling
<1>8. CASE CancelJobs
  <2>1. /\ run' = run /\ worker' = worker
        /\ deploy' \in cancelWorkflowDeployments(deploy, run.refs.jobs)
    BY <1>8 DEF CancelJobs
  <2> QED BY <2>1, CancelSettles, QuietRolls
<1>9. CASE Cancel
  <2> DEFINE e == [run EXCEPT !.state = "cancelled"]
  <2>1. e.state = "cancelled"
    BY <1>1 DEF RunType
  <2>2. deploy' = deploy /\ (UNCHANGED <<run, lease, worker>> \/ Save(e))
    BY <1>9 DEF Cancel, Jobs
  <2> HIDE DEF e
  <2> QED BY <2>1, <2>2, SameSettles, QuietRolls, SaveRolls DEF Rolling
<1> QED BY <1>3, <1>4, <1>5, <1>6, <1>7, <1>8, <1>9 DEF Requests

LEMMA ResultRolls ==
  ASSUME WorkflowInv, RollbackInv, NEW w \in Workers, SaveResult(w) PROVE RollbackInv'
<1> DEFINE e == worker[w].run
<1>1. /\ worker[w].pc = "executed" /\ worker[w].fresh /\ run' = e /\ deploy' = deploy
      /\ worker' = [x \in Workers |->
           IF x = w THEN Idle ELSE IF e = run THEN worker[x] ELSE Outdated(worker[x])]
  BY DEF SaveResult, Jobs
<1>2. /\ e \in RunType /\ (e.state \in Rolling => e.approval > 0)
      /\ RollInv(e, deploy, Deployers)
  BY <1>1, CurrentIs DEF RollbackInv
<1>3. \A p : Settles(p, deploy, deploy')
  BY <1>1, SameSettles
<1>4. CASE e = run
  <2>1. \A x \in Workers : worker'[x] = worker[x] \/ worker'[x].pc = "idle"
    BY <1>1, <1>4, IdleIs
  <2> QED BY <1>1, <1>3, <1>4, <2>1, QuietRolls
<1>5. CASE e # run
  <2>1. \A x \in Workers : /\ ~worker'[x].fresh
                           /\ worker'[x].pc = "leased" =>
                                worker[x].pc = "leased" /\ worker'[x].run = worker[x].run
    BY <1>1, <1>5, OutdatedAre DEF Idle
  <2>2. RollInv(e, deploy', Deployers')
    <3>1. CASE e.state \notin Rolling
      BY <3>1, NotRolling
    <3>2. CASE e.state \in Rolling
      <4>1. \A q \in Deployers' : q \in Deployers \/ q.state # "deploying"
        BY <1>1, <2>1, <3>2 DEF Deployers, Rolling
      <4> QED BY <1>2, <1>3, <4>1, RollStands
    <3> QED BY <3>1, <3>2
  <2>3. RollInv(run', deploy', Deployers')
    BY <1>1, <2>2
  <2> QED BY <2>1, <2>3 DEF RollbackInv
<1> QED BY <1>4, <1>5

LEMMA OthersRoll ==
  ASSUME WorkflowInv, RollbackInv, Controllers \/ Surprises \/ Authorities
  PROVE  RollbackInv'
<1>0. worker \in [Workers -> CopyRow]
  BY DEF WorkflowInv
<1>1. ASSUME NEW w \in Workers, AcquireLease(w) PROVE RollbackInv'
  <2>1. /\ run' = run /\ deploy' = deploy
        /\ worker' = [worker EXCEPT ![w] = [pc |-> "leased", run |-> run, fresh |-> TRUE]]
    BY <1>1 DEF AcquireLease, Jobs
  <2>2. \A x \in Workers : \/ worker'[x] = worker[x]
                           \/ worker'[x].pc = "leased" /\ worker'[x].run = run
    BY <1>0, <2>1
  <2> QED BY <2>1, <2>2, SameSettles, QuietRolls
<1>2. ASSUME NEW w \in Workers, DropResult(w) \/ Crash(w) PROVE RollbackInv'
  <2>1. run' = run /\ deploy' = deploy /\ worker' = [worker EXCEPT ![w] = Idle]
    BY <1>2 DEF DropResult, Crash, Jobs
  <2>2. \A x \in Workers : worker'[x] = worker[x] \/ worker'[x].pc = "idle"
    BY <1>0, <2>1, IdleIs
  <2> QED BY <2>1, <2>2, SameSettles, QuietRolls
<1>3. CASE Controllers
  BY <1>1, <1>2, <1>3, ExecuteRolls, ResultRolls DEF Controllers
<1>4. CASE Surprises
  <2>1. CASE LeaseExpires \/ Push \/ Drift \/ PreflightChanges
    <3>1. run' = run /\ worker' = worker /\ deploy' = deploy
      BY <2>1 DEF LeaseExpires, Push, Drift, PreflightChanges, Jobs
    <3> QED BY <3>1, SameSettles, QuietRolls
  <2> QED BY <1>2, <1>4, <2>1 DEF Surprises
<1>5. CASE Authorities
  <2>1. /\ run' = run /\ worker' = worker
        /\ \/ deploy' = deploy
           \/ \E k \in JobKeys : \E s :
                /\ deploy[k].status \in {"queued", "active"}
                /\ deploy' = [deploy EXCEPT ![k].status = s]
    BY <1>5 DEF Authorities, BuildEnds, DeployLeased, DeployEnds
  <2>2. deploy \in [JobKeys -> DeployRow]
    BY DEF WorkflowInv, JobsInv
  <2>3. \A p : Settles(p, deploy, deploy')
    BY <2>1, <2>2 DEF Settles, Ended
  <2> QED BY <2>1, <2>3, QuietRolls
<1> QED BY <1>3, <1>4, <1>5

LEMMA RollbackStays == DeliverySpec => []RollbackHolds
<1>1. DeliveryInit => RollbackHolds
  <2>1. Init => RollbackInv
    BY NotRolling DEF Init, RollbackInv, Create, Idle, Rolling
  <2> QED BY <2>1 DEF DeliveryInit, RollbackHolds
<1>2. WorkflowHolds /\ RollbackHolds /\ [DeliveryNext]_deliveryVars => RollbackHolds'
  <2> SUFFICES ASSUME WorkflowHolds, RollbackHolds, [DeliveryNext]_deliveryVars,
                      part' = "workflow"
               PROVE  RollbackInv'
    BY DEF RollbackHolds
  <2>1. CASE UNCHANGED deliveryVars
    <3>1. WorkflowInv /\ RollbackInv /\ run' = run /\ worker' = worker /\ deploy' = deploy
      BY <2>1 DEF deliveryVars, workflowVars, WorkflowHolds, RollbackHolds
    <3> QED BY <3>1, SameSettles, QuietRolls
  <2>2. CASE DeliveryNext
    <3>1. part = "workflow" /\ (Requests \/ Controllers \/ Surprises \/ Authorities)
      BY <2>2 DEF DeliveryNext, WorkflowMoves, BuildsMove, BeliefsMove
    <3> QED BY <3>1, RequestsRoll, OthersRoll DEF WorkflowHolds, RollbackHolds
  <2> QED BY <2>1, <2>2
<1> QED BY <1>1, <1>2, WorkflowStays, PTL DEF DeliverySpec

(* What a finished run says is so: a succeeded run has deployed every      *)
(* application, and a rolled back run has returned every deployment it     *)
(* refers to, whatever steps were lost, repeated or run without a lease    *)
(* (deploy, verify, rollback).                                             *)
THEOREM FinishedRunsAreTrue == DeliverySpec => []RunEndsTruthfully
<1>1. WorkflowHolds /\ RollbackHolds => RunEndsTruthfully
  <2> SUFFICES ASSUME WorkflowInv, RollbackInv PROVE FinishedRunIsTrue
    BY DEF WorkflowHolds, RollbackHolds, RunEndsTruthfully
  <2>1. run.state = "succeeded" =>
          \A a \in PlanApps(run) : deploy[applyKey(run, a)].status = "succeeded"
    BY DEF WorkflowInv, RunInv
  <2>2. run.state = "rolled_back" =>
          \A a \in PlanApps(run) :
            applyKey(run, a) \in run.refs.jobs /\ Eligible(applyKey(run, a)) =>
              deploy[<<run.approval, a, "rollback">>].status = "rolled_back"
    BY DEF RollbackInv, RollInv, Eligible
  <2> QED BY <2>1, <2>2 DEF FinishedRunIsTrue
<1> QED BY <1>1, WorkflowStays, RollbackStays, PTL

(* A finished run stays as it is, and a stale one goes on only by a new    *)
(* analysis: the result of a step taken from an earlier revision is never  *)
(* saved over it (Save's revision check, Controller.process).              *)
THEOREM FinishedRunsStay == DeliverySpec => RunsStayFinished
<1> DEFINE Stays == /\ run.state \in TerminalStates \ {"stale"} => run' = run
                    /\ run.state = "stale" => run'.state \in Draft \cup {"stale"}
<1>1. WorkflowHolds /\ [DeliveryNext]_deliveryVars =>
        [part = "workflow" => Stays]_deliveryVars
  <2> SUFFICES ASSUME WorkflowInv, DeliveryNext, part = "workflow" PROVE Stays
    BY DEF WorkflowHolds
  <2>1. Requests \/ Controllers \/ Surprises \/ Authorities
    BY DEF DeliveryNext, WorkflowMoves, BuildsMove, BeliefsMove
  <2>2. CASE SetAnalysis
    <3>1. PICK s \in reconcileDraftIssues, shape \in Shapes,
               c \in {head, run.commit} \ {0} :
            Save([Create EXCEPT !.state = s, !.plan = HashPlan(run),
                    !.apps = shape.apps, !.max = shape.attempts,
                    !.commit = c, !.authority = currentWorkflowAuthority,
                    !.approvals = run.approvals])
      BY <2>2 DEF SetAnalysis
    <3>2. run'.state = s
      BY <3>1 DEF Save, Create
    <3>3. run.state \in Draft \cup {"stale"} /\ s \in Draft
      BY <2>2 DEF SetAnalysis, reconcileDraftIssues, Draft
    <3> QED BY <3>2, <3>3 DEF Draft, TerminalStates
  <2>3. CASE UpdatePlan \/ Approve \/ Acknowledge
    BY <2>3 DEF UpdatePlan, Approve, Acknowledge, reconcileDraftIssues, TerminalStates
  <2>4. CASE Invalidate \/ CancelJobs \/ Cancel
    BY <2>4 DEF Invalidate, CancelJobs, Cancel, TerminalStates
  <2>5. CASE Controllers
    <3>1. PICK w \in Workers : AcquireLease(w) \/ Execute(w) \/ SaveResult(w) \/ DropResult(w)
      BY <2>5 DEF Controllers
    <3>2. CASE SaveResult(w)
      <4>1. run.state \in RunnableStates
        BY <3>2 DEF SaveResult, WorkflowInv, CopyInv, Follows
      <4> QED BY <4>1 DEF RunnableStates, TerminalStates
    <3>3. CASE ~SaveResult(w)
      <4>1. run' = run
        BY <3>1, <3>3 DEF AcquireLease, Execute, DropResult
      <4> QED BY <4>1
    <3> QED BY <3>2, <3>3
  <2>6. CASE Surprises \/ Authorities
    <3>1. run' = run
      BY <2>6 DEF Surprises, LeaseExpires, Push, Drift, PreflightChanges, Crash,
                  Authorities, BuildEnds, DeployLeased, DeployEnds
    <3> QED BY <3>1
  <2> QED BY <2>1, <2>2, <2>3, <2>4, <2>5, <2>6 DEF Requests
<1> QED BY <1>1, WorkflowStays, PTL DEF DeliverySpec, RunsStayFinished
=============================================================================
