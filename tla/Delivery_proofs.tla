-------------------------- MODULE Delivery_proofs --------------------------
(***************************************************************************)
(* Proofs about deployment runs, build jobs, and what Opsi believes of     *)
(* others for a while: for any number of applications, attempts, workers,  *)
(* keys and callers, and any bounds.                                       *)
(***************************************************************************)
EXTENDS MCDelivery, FiniteSetTheorems, WellFoundedInduction, TLAPS

----------------------------------------------------------------------------
(* Build jobs                                                              *)

AttemptRows ==
  [of: BuildRequests \cup {"none"},
   state: Builds!ActiveAttempt \cup Builds!Terminal \cup {"absent", "dispatch_rejected"},
   lease: {"none", "live", "expired"}]
JobRows ==
  [status: Builds!Terminal \cup {"absent", "ready", "running"},
   binding: 0..(MaxRebinds + 1), strategy: {"none", "dockerfile", "buildpack"}]
DispatchPlaces == [BuildAttempts -> {"idle", "calling", "accepted", "refused", "done"}]
RunnerPlaces ==
  [BuildAttempts -> {"none", "queued", "claimed", "building", "built", "broken", "gone"}]

Active(a, k) == attempt[a].of = k /\ attempt[a].state \in Builds!ActiveAttempt

(* A job that exists was resolved to a strategy and a source binding; an   *)
(* attempt that exists is of a job that can be.                            *)
BuildRows ==
  /\ job \in [BuildRequests -> JobRows] /\ attempt \in [BuildAttempts -> AttemptRows]
  /\ dispatch \in DispatchPlaces /\ runner \in RunnerPlaces
  /\ source \in Builds!Sources
  /\ records \subseteq (BuildRequests \X (1..(MaxRebinds + 1))
                          \X {"dockerfile", "buildpack"})
  /\ \A k \in BuildRequests : job[k].status # "absent" =>
       job[k].binding >= 1 /\ job[k].strategy \in {"dockerfile", "buildpack"}
  /\ \A a \in BuildAttempts :
       attempt[a].state # "absent" => attempt[a].of \in BuildRequests

LiveInv(k) ==
  /\ \A a, b \in BuildAttempts : Active(a, k) /\ Active(b, k) => a = b
  /\ job[k].status = "running" <=>
       \E a \in BuildAttempts : attempt[a].of = k /\ attempt[a].state = "claimed"
  /\ job[k].status \in Builds!Terminal => \A a \in BuildAttempts : ~Active(a, k)

BuildsInv ==
  BuildRows /\ Builds!RecordsAreSucceededJobs /\ \A k \in BuildRequests : LiveInv(k)
BuildsHolds == part = "builds" => BuildsInv

LEMMA BuildsInitInv == ASSUME Builds!Init PROVE BuildsInv
<1>1. MaxRebinds \in Nat
  BY DeliveryAssumption
<1>2. /\ source \in Builds!Sources /\ records = {}
      /\ job = [k \in BuildRequests |-> Builds!NoJob]
      /\ attempt = [a \in BuildAttempts |-> Builds!NoAttempt]
      /\ dispatch = [a \in BuildAttempts |-> "idle"]
      /\ runner = [a \in BuildAttempts |-> "none"]
  BY DEF Builds!Init
<1>3. BuildRows
  BY <1>1, <1>2 DEF BuildRows, AttemptRows, JobRows, DispatchPlaces, RunnerPlaces, Builds!NoJob, Builds!NoAttempt,
                    Builds!ActiveAttempt, Builds!Terminal
<1>4. \A k \in BuildRequests : LiveInv(k)
  BY <1>2 DEF LiveInv, Active, Builds!NoJob, Builds!NoAttempt, Builds!ActiveAttempt,
              Builds!Terminal
<1>5. Builds!RecordsAreSucceededJobs
  BY <1>2 DEF Builds!RecordsAreSucceededJobs, Builds!NoJob
<1> QED BY <1>3, <1>4, <1>5 DEF BuildsInv

(* Only a job that succeeds needs a new record.                            *)
LEMMA RecordsStay ==
  ASSUME Builds!RecordsAreSucceededJobs, records' = records,
         \A k \in BuildRequests :
           /\ job'[k].status = "succeeded" <=> job[k].status = "succeeded"
           /\ job[k].status = "succeeded" => job'[k] = job[k]
  PROVE  Builds!RecordsAreSucceededJobs'
BY DEF Builds!RecordsAreSucceededJobs

(* Where dispatches and runs are matters to no row.                        *)
LEMMA BuildsFrame ==
  ASSUME BuildsInv, job' = job, attempt' = attempt, source' = source,
         records' = records,
         dispatch' \in DispatchPlaces,
         runner' \in RunnerPlaces
  PROVE  BuildsInv'
<1>1. BuildRows'
  BY DEF BuildsInv, BuildRows
<1>2. \A k \in BuildRequests : LiveInv(k)'
  BY DEF BuildsInv, LiveInv, Active
<1> QED BY <1>1, <1>2, RecordsStay DEF BuildsInv

(* Writing one attempt's row.                                              *)
LEMMA AttemptGoes ==
  ASSUME attempt \in [BuildAttempts -> AttemptRows], NEW a \in BuildAttempts,
         NEW s \in {"claimed", "succeeded", "failed", "dispatched", "dispatch_rejected"},
         NEW l \in {"none", "live", "expired"},
         attempt' = [attempt EXCEPT ![a].state = s, ![a].lease = l]
  PROVE  /\ attempt' \in [BuildAttempts -> AttemptRows]
         /\ attempt'[a].of = attempt[a].of /\ attempt'[a].state = s
         /\ \A b \in BuildAttempts \ {a} : attempt'[b] = attempt[b]
<1> DEFINE r == [attempt[a] EXCEPT !.state = s, !.lease = l]
<1>1. r \in AttemptRows /\ r.of = attempt[a].of /\ r.state = s
  BY DEF AttemptRows, Builds!ActiveAttempt, Builds!Terminal
<1>2. attempt' = [attempt EXCEPT ![a] = r]
  OBVIOUS
<1> HIDE DEF r
<1> QED BY <1>1, <1>2

LEMMA AttemptEnds ==
  ASSUME attempt \in [BuildAttempts -> AttemptRows], NEW a \in BuildAttempts,
         NEW s \in {"claimed", "succeeded", "failed", "dispatched", "dispatch_rejected"},
         attempt' = [attempt EXCEPT ![a].state = s]
  PROVE  /\ attempt' \in [BuildAttempts -> AttemptRows]
         /\ attempt'[a].of = attempt[a].of /\ attempt'[a].state = s
         /\ \A b \in BuildAttempts \ {a} : attempt'[b] = attempt[b]
<1> DEFINE r == [attempt[a] EXCEPT !.state = s]
<1>1. r \in AttemptRows /\ r.of = attempt[a].of /\ r.state = s
  BY DEF AttemptRows, Builds!ActiveAttempt, Builds!Terminal
<1>2. attempt' = [attempt EXCEPT ![a] = r]
  OBVIOUS
<1> HIDE DEF r
<1> QED BY <1>1, <1>2

(* Steps of an attempt that leave its job alone.                           *)
LEMMA AttemptMoves ==
  ASSUME BuildsInv, NEW a \in BuildAttempts, NEW r, UNCHANGED <<job, source, records>>,
         attempt' = [attempt EXCEPT ![a] = r],
         r \in AttemptRows,
         r.of = attempt[a].of, r.state # "absent" => r.of \in BuildRequests,
         r.state = "claimed" <=> attempt[a].state = "claimed",
         r.state \in Builds!ActiveAttempt => attempt[a].state \in Builds!ActiveAttempt,
         dispatch' \in DispatchPlaces,
         runner' \in RunnerPlaces
  PROVE  BuildsInv'
<1>1. /\ attempt'[a] = r /\ \A b \in BuildAttempts \ {a} : attempt'[b] = attempt[b]
      /\ BuildRows'
  BY DEF BuildsInv, BuildRows
<1>2. ASSUME NEW k \in BuildRequests PROVE LiveInv(k)'
  <2>1. LiveInv(k) /\ \A b \in BuildAttempts : attempt'[b].of = attempt[b].of
    BY <1>1 DEF BuildsInv
  <2>2. \A b \in BuildAttempts :
          /\ Active(b, k)' => Active(b, k)
          /\ attempt'[b].state = "claimed" <=> attempt[b].state = "claimed"
    BY <1>1 DEF Active
  <2> QED BY <2>1, <2>2 DEF LiveInv
<1> QED BY <1>1, <1>2, RecordsStay DEF BuildsInv

(* What a step of k's attempt a does to k and a, and to nothing else.      *)
LEMMA CreateInv ==
  ASSUME BuildsInv, NEW k \in BuildRequests, Builds!Create(k) PROVE BuildsInv'
<1> DEFINE r == [status |-> "ready", binding |-> source.binding,
                 strategy |-> Builds!resolveStrategy(source)]
<1>1. /\ job[k] = Builds!NoJob /\ job' = [job EXCEPT ![k] = r]
      /\ UNCHANGED <<attempt, dispatch, runner, source, records>>
      /\ r.strategy # "none"
  BY DEF Builds!Create
<1>2. /\ source.binding \in 1..(MaxRebinds + 1)
      /\ r.strategy \in {"none", "dockerfile", "buildpack"}
  <2>1. source.binding \in 1..(MaxRebinds + 1) /\ source.files \in 0..2
    BY DEF BuildsInv, BuildRows, Builds!Sources
  <2>2. source.files \in {0, 1, 2}
    BY <2>1
  <2>3. <<"buildpack", "dockerfile", "none">>[source.files + 1]
          \in {"none", "dockerfile", "buildpack"}
    BY <2>2
  <2> QED BY <2>1, <2>3 DEF Builds!resolveStrategy
<1>3. /\ r.status = "ready" /\ r.binding \in 1..(MaxRebinds + 1)
      /\ r \in JobRows
  BY <1>2, DeliveryAssumption DEF JobRows
<1> HIDE DEF r
<1>4. BuildRows'
  BY <1>1, <1>2, <1>3 DEF BuildsInv, BuildRows
<1>5. /\ job'[k].status = "ready" /\ job[k].status = "absent"
      /\ \A x \in BuildRequests \ {k} : job'[x] = job[x]
  BY <1>1, <1>3 DEF BuildsInv, BuildRows, Builds!NoJob
<1>6. \A x \in BuildRequests : LiveInv(x)'
  BY <1>1, <1>5 DEF BuildsInv, LiveInv, Active, Builds!Terminal
<1> QED BY <1>1, <1>4, <1>5, <1>6, RecordsStay DEF BuildsInv

LEMMA ReserveDispatchInv ==
  ASSUME BuildsInv, NEW k \in BuildRequests, NEW a \in BuildAttempts,
         Builds!ReserveDispatch(k, a)
  PROVE  BuildsInv'
<1> DEFINE r == [of |-> k, state |-> "dispatching", lease |-> "none"]
<1>1. /\ job[k].status = "ready" /\ UNCHANGED <<job, runner, source, records>>
      /\ attempt[a] = Builds!NoAttempt /\ attempt' = [attempt EXCEPT ![a] = r]
      /\ dispatch' = [dispatch EXCEPT ![a] = "calling"]
      /\ \A b \in BuildAttempts : ~Active(b, k)
  BY DEF Builds!ReserveDispatch, Builds!validateDispatchableJob, Active
<1>2. r \in AttemptRows /\ dispatch' \in DispatchPlaces
  BY <1>1 DEF AttemptRows, DispatchPlaces, BuildsInv, BuildRows, Builds!ActiveAttempt
<1>3. /\ attempt'[a] = r /\ \A b \in BuildAttempts \ {a} : attempt'[b] = attempt[b]
  BY <1>1 DEF BuildsInv, BuildRows
<1>4. BuildRows'
  BY <1>1, <1>2, <1>3 DEF BuildsInv, BuildRows
<1>5. ASSUME NEW x \in BuildRequests PROVE LiveInv(x)'
  <2>1. \A b \in BuildAttempts :
          /\ Active(b, x)' <=> Active(b, x) \/ (b = a /\ x = k)
          /\ attempt'[b].of = x /\ attempt'[b].state = "claimed"
               <=> attempt[b].of = x /\ attempt[b].state = "claimed"
    BY <1>1, <1>3 DEF Active, Builds!NoAttempt, Builds!ActiveAttempt
  <2>2. LiveInv(x) /\ job'[x] = job[x]
    BY <1>1 DEF BuildsInv
  <2>3. CASE x = k
    BY <1>1, <2>1, <2>2, <2>3 DEF LiveInv, Builds!Terminal
  <2>4. CASE x # k
    BY <2>1, <2>2, <2>4 DEF LiveInv
  <2> QED BY <2>3, <2>4
<1> QED BY <1>1, <1>4, <1>5, RecordsStay DEF BuildsInv

LEMMA DispatchStepsInv ==
  ASSUME BuildsInv, Builds!DispatchSteps PROVE BuildsInv'
<1>1. PICK a \in BuildAttempts :
        Builds!DispatchWorkflow(a) \/ Builds!CompleteDispatch(a) \/ Builds!RejectDispatch(a)
  BY DEF Builds!DispatchSteps
<1>2. CASE Builds!DispatchWorkflow(a)
  <2>1. job' = job /\ attempt' = attempt /\ source' = source /\ records' = records
    BY <1>2 DEF Builds!DispatchWorkflow
  <2>2. PICK d \in {"accepted", "refused"}, s \in {"queued", runner[a]} :
          dispatch' = [dispatch EXCEPT ![a] = d] /\ runner' = [runner EXCEPT ![a] = s]
    BY <1>2 DEF Builds!DispatchWorkflow
  <2>3. dispatch' \in DispatchPlaces
        /\ runner' \in RunnerPlaces
    BY <2>2 DEF RunnerPlaces, DispatchPlaces, BuildsInv, BuildRows
  <2> QED BY <2>1, <2>3, BuildsFrame
<1>3. ASSUME NEW s \in {"dispatched", "dispatch_rejected"},
             attempt' = [attempt EXCEPT ![a].state = IF @ = "dispatching" THEN s ELSE @],
             dispatch' = [dispatch EXCEPT ![a] = "done"],
             UNCHANGED <<job, runner, source, records>>
      PROVE  BuildsInv'
  <2> DEFINE r == [attempt[a] EXCEPT !.state = IF @ = "dispatching" THEN s ELSE @]
  <2>1. attempt[a] \in AttemptRows
        /\ (attempt[a].state # "absent" => attempt[a].of \in BuildRequests)
    BY DEF BuildsInv, BuildRows
  <2>2. /\ r \in AttemptRows
        /\ r.of = attempt[a].of
        /\ r.state = IF attempt[a].state = "dispatching" THEN s ELSE attempt[a].state
    BY <2>1 DEF AttemptRows, Builds!ActiveAttempt
  <2>3. attempt' = [attempt EXCEPT ![a] = r]
    BY <1>3
  <2> HIDE DEF r
  <2>4. dispatch' \in DispatchPlaces
        /\ runner' \in RunnerPlaces
    BY <1>3 DEF RunnerPlaces, DispatchPlaces, BuildsInv, BuildRows
  <2>5. /\ r.state # "absent" => r.of \in BuildRequests
        /\ r.state = "claimed" <=> attempt[a].state = "claimed"
        /\ r.state \in Builds!ActiveAttempt => attempt[a].state \in Builds!ActiveAttempt
    BY <1>3, <2>1, <2>2 DEF Builds!ActiveAttempt
  <2>6. UNCHANGED <<job, source, records>>
    BY <1>3
  <2> QED BY <2>2, <2>3, <2>4, <2>5, <2>6, AttemptMoves
<1>4. CASE Builds!CompleteDispatch(a)
  BY <1>3, <1>4 DEF Builds!CompleteDispatch
<1>5. CASE Builds!RejectDispatch(a)
  BY <1>3, <1>5 DEF Builds!RejectDispatch
<1> QED BY <1>1, <1>2, <1>4, <1>5

(* A job and its only live attempt change together.                        *)
LEMMA JobMoves ==
  ASSUME BuildsInv, NEW a \in BuildAttempts, NEW k \in BuildRequests, NEW x, NEW y,
         attempt[a].of = k, attempt[a].state \in Builds!ActiveAttempt,
         job[k].status \in {"ready", "running"},
         x \in {"running", "succeeded", "failed"},
         y \in {"claimed", "succeeded", "failed", "dispatch_rejected"},
         x = "running" <=> y = "claimed",
         job' = [job EXCEPT ![k].status = x],
         attempt' \in [BuildAttempts -> AttemptRows],
         attempt'[a].of = k, attempt'[a].state = y,
         \A b \in BuildAttempts \ {a} : attempt'[b] = attempt[b],
         dispatch' = dispatch, source' = source,
         runner' \in RunnerPlaces,
         IF x = "succeeded" THEN records' = records \cup {<<k, job[k].binding, job[k].strategy>>}
                            ELSE records' = records
  PROVE  BuildsInv'
<1> DEFINE r == [job[k] EXCEPT !.status = x]
<1>1. job[k] \in JobRows
      /\ job[k].binding >= 1 /\ job[k].strategy \in {"dockerfile", "buildpack"}
      /\ LiveInv(k)
  BY DEF BuildsInv, BuildRows
<1>2. /\ r \in JobRows
      /\ r.status = x /\ r.binding = job[k].binding /\ r.strategy = job[k].strategy
      /\ job' = [job EXCEPT ![k] = r]
  BY <1>1 DEF JobRows, Builds!Terminal
<1> HIDE DEF r
<1>3. /\ job'[k] = r /\ \A z \in BuildRequests \ {k} : job'[z] = job[z]
      /\ job' \in [BuildRequests -> JobRows]
  BY <1>2 DEF BuildsInv, BuildRows
<1>4. records' \subseteq (BuildRequests \X (1..(MaxRebinds + 1))
                           \X {"dockerfile", "buildpack"})
  BY <1>1, DeliveryAssumption DEF JobRows, BuildsInv, BuildRows
<1>5. BuildRows'
  BY <1>1, <1>2, <1>3, <1>4 DEF BuildsInv, BuildRows
<1>6. ASSUME NEW z \in BuildRequests PROVE LiveInv(z)'
  <2>1. CASE z # k
    <3>1. LiveInv(z) /\ job'[z] = job[z]
      BY <1>3, <2>1 DEF BuildsInv
    <3>2. \A b \in BuildAttempts :
            /\ Active(b, z)' <=> Active(b, z)
            /\ attempt'[b].of = z /\ attempt'[b].state = "claimed"
                 <=> attempt[b].of = z /\ attempt[b].state = "claimed"
      BY <2>1 DEF Active
    <3> QED BY <3>1, <3>2 DEF LiveInv
  <2>2. CASE z = k
    <3>1. \A b \in BuildAttempts \ {a} : ~Active(b, k)
      BY <1>1 DEF LiveInv, Active
    <3>2. \A b \in BuildAttempts :
            /\ Active(b, k)' <=> b = a /\ y = "claimed"
            /\ attempt'[b].of = k /\ attempt'[b].state = "claimed" <=> b = a /\ y = "claimed"
      BY <3>1 DEF Active, Builds!ActiveAttempt
    <3> QED BY <1>2, <1>3, <2>2, <3>2 DEF LiveInv, Builds!Terminal
  <2> QED BY <2>1, <2>2
<1>7. Builds!RecordsAreSucceededJobs'
  <2>1. CASE x = "succeeded"
    <3>1. {z \in BuildRequests : job'[z].status = "succeeded"}
            = {z \in BuildRequests : job[z].status = "succeeded"} \cup {k}
      BY <1>2, <1>3, <2>1
    <3>2. \A z \in BuildRequests :
            job'[z].binding = job[z].binding /\ job'[z].strategy = job[z].strategy
      BY <1>2, <1>3
    <3> QED BY <2>1, <3>1, <3>2 DEF BuildsInv, Builds!RecordsAreSucceededJobs
  <2>2. CASE x # "succeeded"
    BY <1>2, <1>3, <2>2, RecordsStay DEF BuildsInv
  <2> QED BY <2>1, <2>2
<1> QED BY <1>5, <1>6, <1>7 DEF BuildsInv

LEMMA ExpireUnclaimedDispatchInv ==
  ASSUME BuildsInv, NEW k \in BuildRequests, Builds!ExpireUnclaimedDispatch(k)
  PROVE  BuildsInv'
<1>1. PICK a \in BuildAttempts :
        /\ attempt[a].of = k /\ attempt[a].state = "dispatched" /\ job[k].status = "ready"
        /\ attempt' = [attempt EXCEPT ![a].state = "dispatch_rejected"]
        /\ job' = [job EXCEPT ![k].status = "failed"]
        /\ UNCHANGED <<dispatch, runner, source, records>>
  BY DEF Builds!ExpireUnclaimedDispatch
<1>2. /\ attempt' \in [BuildAttempts -> AttemptRows]
      /\ attempt'[a].of = k /\ attempt'[a].state = "dispatch_rejected"
      /\ \A b \in BuildAttempts \ {a} : attempt'[b] = attempt[b]
      /\ runner' \in RunnerPlaces
  BY <1>1, AttemptEnds DEF BuildsInv, BuildRows
<1> QED BY <1>1, <1>2, JobMoves DEF Builds!ActiveAttempt

LEMMA ClaimDispatchInv ==
  ASSUME BuildsInv, NEW a \in BuildAttempts, Builds!ClaimDispatch(a) PROVE BuildsInv'
<1> DEFINE k == attempt[a].of
<1>1. /\ attempt[a].state = "dispatched" /\ job[k].status = "ready"
      /\ attempt' = [attempt EXCEPT ![a].state = "claimed", ![a].lease = "live"]
      /\ job' = [job EXCEPT ![k].status = "running"]
      /\ UNCHANGED <<dispatch, source, records>>
      /\ \E answer \in {"claimed", "gone"} : runner' = [runner EXCEPT ![a] = answer]
  BY DEF Builds!ClaimDispatch
<1>2. /\ attempt' \in [BuildAttempts -> AttemptRows]
      /\ attempt'[a].of = k /\ attempt'[a].state = "claimed"
      /\ \A b \in BuildAttempts \ {a} : attempt'[b] = attempt[b]
      /\ k \in BuildRequests
  BY <1>1, AttemptGoes DEF BuildsInv, BuildRows
<1>3. runner' \in RunnerPlaces
  BY <1>1 DEF BuildsInv, BuildRows, RunnerPlaces
<1> HIDE DEF k
<1> QED BY <1>1, <1>2, <1>3, JobMoves DEF k, Builds!ActiveAttempt

LEMMA CompleteRunnerInv ==
  ASSUME BuildsInv, NEW a \in BuildAttempts, Builds!CompleteRunner(a) PROVE BuildsInv'
<1> DEFINE k == attempt[a].of
<1>1. /\ runner' = [runner EXCEPT ![a] = "gone"] /\ UNCHANGED <<dispatch, source>>
      /\ IF Builds!GetRunnerJob(a) /\ source.binding = job[k].binding
         THEN /\ records' = records \cup {<<k, source.binding, job[k].strategy>>}
              /\ job' = [job EXCEPT ![k].status = "succeeded"]
              /\ attempt' = [attempt EXCEPT ![a].state = "succeeded"]
         ELSE UNCHANGED <<records, job, attempt>>
  BY DEF Builds!CompleteRunner, Builds!sourceMatchesSnapshot
<1>2. /\ runner' \in RunnerPlaces
      /\ dispatch' \in DispatchPlaces
  BY <1>1 DEF RunnerPlaces, BuildsInv, BuildRows
<1>3. CASE ~(Builds!GetRunnerJob(a) /\ source.binding = job[k].binding)
  BY <1>1, <1>2, <1>3, BuildsFrame
<1>4. CASE Builds!GetRunnerJob(a) /\ source.binding = job[k].binding
  <2>1. attempt[a].state = "claimed" /\ job[k].status = "running"
    BY <1>4 DEF Builds!GetRunnerJob
  <2>2. /\ attempt' \in [BuildAttempts -> AttemptRows]
        /\ attempt'[a].of = k /\ attempt'[a].state = "succeeded"
        /\ \A b \in BuildAttempts \ {a} : attempt'[b] = attempt[b]
        /\ k \in BuildRequests
    BY <1>1, <1>4, <2>1, AttemptEnds DEF BuildsInv, BuildRows
  <2>3. /\ job' = [job EXCEPT ![k].status = "succeeded"]
        /\ records' = records \cup {<<k, job[k].binding, job[k].strategy>>}
        /\ dispatch' = dispatch /\ source' = source
    BY <1>1, <1>4
  <2> HIDE DEF k
  <2> QED BY <1>2, <2>1, <2>2, <2>3, JobMoves DEF k, Builds!ActiveAttempt
<1> QED BY <1>3, <1>4

LEMMA FailRunnerInv ==
  ASSUME BuildsInv, NEW a \in BuildAttempts, Builds!FailRunner(a) PROVE BuildsInv'
<1> DEFINE k == attempt[a].of
<1>1. /\ runner' = [runner EXCEPT ![a] = "gone"] /\ UNCHANGED <<dispatch, source, records>>
      /\ IF Builds!GetRunnerJob(a)
         THEN /\ job' = [job EXCEPT ![k].status = "failed"]
              /\ attempt' = [attempt EXCEPT ![a].state = "failed"]
         ELSE UNCHANGED <<job, attempt>>
  BY DEF Builds!FailRunner
<1>2. /\ runner' \in RunnerPlaces
      /\ dispatch' \in DispatchPlaces
  BY <1>1 DEF RunnerPlaces, BuildsInv, BuildRows
<1>3. CASE ~Builds!GetRunnerJob(a)
  BY <1>1, <1>2, <1>3, BuildsFrame
<1>4. CASE Builds!GetRunnerJob(a)
  <2>1. attempt[a].state = "claimed" /\ job[k].status = "running"
    BY <1>4 DEF Builds!GetRunnerJob
  <2>2. /\ attempt' \in [BuildAttempts -> AttemptRows]
        /\ attempt'[a].of = k /\ attempt'[a].state = "failed"
        /\ \A b \in BuildAttempts \ {a} : attempt'[b] = attempt[b]
        /\ k \in BuildRequests
    BY <1>1, <1>4, <2>1, AttemptEnds DEF BuildsInv, BuildRows
  <2>3. /\ job' = [job EXCEPT ![k].status = "failed"] /\ records' = records
        /\ dispatch' = dispatch /\ source' = source
    BY <1>1, <1>4
  <2> HIDE DEF k
  <2> QED BY <1>2, <2>1, <2>2, <2>3, JobMoves DEF k, Builds!ActiveAttempt
<1> QED BY <1>3, <1>4

LEMMA RunnerStepsInv == ASSUME BuildsInv, Builds!RunnerSteps PROVE BuildsInv'
<1>1. PICK a \in BuildAttempts :
        \/ Builds!ClaimDispatch(a) \/ Builds!FetchSource(a) \/ Builds!Execute(a)
        \/ Builds!CompleteRunner(a) \/ Builds!FailRunner(a)
  BY DEF Builds!RunnerSteps
<1>2. CASE Builds!FetchSource(a) \/ Builds!Execute(a)
  <2>1. PICK p \in {"building", "built", "broken"} : runner' = [runner EXCEPT ![a] = p]
    BY <1>2 DEF Builds!FetchSource, Builds!Execute
  <2>2. /\ job' = job /\ attempt' = attempt /\ source' = source /\ records' = records
        /\ dispatch' = dispatch
    BY <1>2 DEF Builds!FetchSource, Builds!Execute
  <2>3. dispatch' \in DispatchPlaces /\ runner' \in RunnerPlaces
    BY <2>1, <2>2 DEF BuildsInv, BuildRows, RunnerPlaces
  <2> QED BY <2>2, <2>3, BuildsFrame
<1> QED BY <1>1, <1>2, ClaimDispatchInv, CompleteRunnerInv, FailRunnerInv

LEMMA FaultsInv == ASSUME BuildsInv, Builds!Faults PROVE BuildsInv'
<1>1. PICK a \in BuildAttempts :
        Builds!CrashDispatch(a) \/ Builds!RunnerStops(a) \/ Builds!LeaseExpires(a)
  BY DEF Builds!Faults
<1>2. CASE Builds!CrashDispatch(a) \/ Builds!RunnerStops(a)
  <2>1. /\ job' = job /\ attempt' = attempt /\ source' = source /\ records' = records
        /\ \/ dispatch' = [dispatch EXCEPT ![a] = "done"] /\ runner' = runner
           \/ runner' = [runner EXCEPT ![a] = "gone"] /\ dispatch' = dispatch
    BY <1>2 DEF Builds!CrashDispatch, Builds!RunnerStops
  <2>2. dispatch' \in DispatchPlaces /\ runner' \in RunnerPlaces
    BY <2>1 DEF BuildsInv, BuildRows, RunnerPlaces, DispatchPlaces
  <2> QED BY <2>1, <2>2, BuildsFrame
<1>3. CASE Builds!LeaseExpires(a)
  <2> DEFINE r == [attempt[a] EXCEPT !.lease = "expired"]
  <2>1. /\ attempt' = [attempt EXCEPT ![a] = r]
        /\ UNCHANGED <<job, dispatch, runner, source, records>>
    BY <1>3 DEF Builds!LeaseExpires
  <2>2. /\ r \in AttemptRows /\ r.of = attempt[a].of /\ r.state = attempt[a].state
        /\ attempt[a].state # "absent" => attempt[a].of \in BuildRequests
    BY DEF BuildsInv, BuildRows, AttemptRows
  <2>3. dispatch' \in DispatchPlaces /\ runner' \in RunnerPlaces
    BY <2>1 DEF BuildsInv, BuildRows
  <2> HIDE DEF r
  <2> QED BY <2>1, <2>2, <2>3, AttemptMoves
<1> QED BY <1>1, <1>2, <1>3

(* Cancelling ends the job and whatever attempt it has.                    *)
LEMMA CancelInv ==
  ASSUME BuildsInv, NEW k \in BuildRequests, Builds!Cancel(k) PROVE BuildsInv'
<1> DEFINE r == [job[k] EXCEPT !.status = "cancelled"]
<1>1. /\ job[k].status \in {"ready", "running"} /\ job' = [job EXCEPT ![k] = r]
      /\ attempt' = [a \in BuildAttempts |->
           IF Active(a, k)
           THEN [attempt[a] EXCEPT !.state = "cancelled", !.lease = "none"]
           ELSE attempt[a]]
      /\ UNCHANGED <<dispatch, runner, source, records>>
  BY DEF Builds!Cancel, Active, Builds!Terminal, BuildsInv, BuildRows, JobRows
<1>2. /\ r \in JobRows /\ r.status = "cancelled" /\ r.binding = job[k].binding
      /\ r.strategy = job[k].strategy
  BY DEF BuildsInv, BuildRows, JobRows, Builds!Terminal
<1> HIDE DEF r
<1>3. job'[k] = r /\ \A z \in BuildRequests \ {k} : job'[z] = job[z]
  BY <1>1 DEF BuildsInv, BuildRows
<1>4. ASSUME NEW a \in BuildAttempts
      PROVE  /\ attempt'[a] \in AttemptRows /\ attempt'[a].of = attempt[a].of
             /\ attempt'[a].state = IF Active(a, k) THEN "cancelled" ELSE attempt[a].state
  <2>1. attempt[a] \in AttemptRows
    BY DEF BuildsInv, BuildRows
  <2> QED BY <1>1, <2>1 DEF AttemptRows, Builds!Terminal
<1>5. attempt' \in [BuildAttempts -> AttemptRows]
  BY <1>1, <1>4
<1>6. BuildRows'
  <2>1. \A z \in BuildRequests : job'[z].status # "absent" =>
          job'[z].binding >= 1 /\ job'[z].strategy \in {"dockerfile", "buildpack"}
    BY <1>1, <1>2, <1>3 DEF BuildsInv, BuildRows
  <2>2. \A a \in BuildAttempts :
          attempt'[a].state # "absent" => attempt'[a].of \in BuildRequests
    BY <1>4 DEF BuildsInv, BuildRows, Active, Builds!ActiveAttempt
  <2> QED BY <1>1, <1>2, <1>5, <2>1, <2>2 DEF BuildsInv, BuildRows
<1>7. ASSUME NEW z \in BuildRequests PROVE LiveInv(z)'
  <2>1. LiveInv(z) /\ job'[z].status = IF z = k THEN "cancelled" ELSE job[z].status
    BY <1>2, <1>3 DEF BuildsInv
  <2>2. \A a \in BuildAttempts :
          /\ Active(a, z)' <=> Active(a, z) /\ z # k
          /\ attempt'[a].of = z /\ attempt'[a].state = "claimed"
               <=> attempt[a].of = z /\ attempt[a].state = "claimed" /\ z # k
    BY <1>4 DEF Active, Builds!ActiveAttempt
  <2> QED BY <2>1, <2>2 DEF LiveInv
<1> QED BY <1>1, <1>2, <1>3, <1>6, <1>7, RecordsStay DEF BuildsInv

LEMMA ClientsInv == ASSUME BuildsInv, Builds!Clients PROVE BuildsInv'
<1>1. CASE Builds!Rebind
  <2>1. /\ source' \in Builds!Sources
        /\ UNCHANGED <<job, attempt, dispatch, runner, records>>
    BY <1>1 DEF Builds!Rebind
  <2>2. BuildRows'
    BY <2>1 DEF BuildsInv, BuildRows
  <2>3. \A k \in BuildRequests : LiveInv(k)'
    BY <2>1 DEF BuildsInv, LiveInv, Active
  <2> QED BY <2>1, <2>2, <2>3, RecordsStay DEF BuildsInv
<1> QED BY <1>1, CancelInv DEF Builds!Clients

LEMMA PollInv == ASSUME BuildsInv, Builds!Poll PROVE BuildsInv'
BY CreateInv, ExpireUnclaimedDispatchInv, ReserveDispatchInv DEF Builds!Poll

(* A build record is a succeeded job's, made once and from the source and  *)
(* with the strategy of the job, and a job has at most one attempt under   *)
(* way: for any number of jobs and attempts, whatever is lost, repeated    *)
(* or cancelled between Cloud, GitHub and the runner.                      *)
THEOREM RecordsAreEarned == DeliverySpec => []BuildsAreAccountedFor
<1>1. DeliveryInit => BuildsHolds
  BY BuildsInitInv DEF DeliveryInit, BuildsHolds
<1>2. BuildsHolds /\ [DeliveryNext]_deliveryVars => BuildsHolds'
  <2> SUFFICES ASSUME BuildsHolds, [DeliveryNext]_deliveryVars, part' = "builds"
               PROVE  BuildsInv'
    BY DEF BuildsHolds
  <2>1. CASE UNCHANGED deliveryVars
    <3>1. BuildsInv /\ UNCHANGED <<job, attempt, dispatch, runner, source, records>>
      BY <2>1 DEF deliveryVars, buildVars, BuildsHolds
    <3> QED BY <3>1, BuildsFrame DEF BuildsInv, BuildRows
  <2>2. CASE DeliveryNext
    <3>1. /\ part = "builds"
          /\ \/ Builds!Poll \/ Builds!DispatchSteps \/ Builds!RunnerSteps
             \/ Builds!Faults \/ Builds!Clients
      BY <2>2 DEF DeliveryNext, WorkflowMoves, BuildsMove, BeliefsMove
    <3> QED BY <3>1, PollInv, DispatchStepsInv, RunnerStepsInv, FaultsInv, ClientsInv
            DEF BuildsHolds
  <2> QED BY <2>1, <2>2
<1>3. BuildsHolds => BuildsAreAccountedFor
  <2> SUFFICES ASSUME BuildsInv
               PROVE  /\ Builds!BuildTypeOK /\ Builds!RecordsAreSucceededJobs
                      /\ Builds!OneLiveAttempt
    BY DEF BuildsHolds, BuildsAreAccountedFor
  <2>1. Builds!BuildTypeOK
    BY DEF BuildsInv, BuildRows, JobRows, AttemptRows, DispatchPlaces, RunnerPlaces,
           Builds!BuildTypeOK
  <2>2. Builds!OneLiveAttempt
    BY DEF BuildsInv, LiveInv, Active, Builds!OneLiveAttempt, Builds!ActiveAttempt
  <2> QED BY <2>1, <2>2 DEF BuildsInv
<1> QED BY <1>1, <1>2, <1>3, PTL DEF DeliverySpec

----------------------------------------------------------------------------
(* Keys, PATs and tokens believed for a while                              *)

Phases ==
  {"idle", "asking", "accepted", "refused", "waiting", "fetching", "fetched",
   "verifying", "verified", "joined"}
CallRows ==
  [phase: Phases, key: SigningKeys \cup {"none"}, asked: Nat, unknown: BOOLEAN,
   fetched: SUBSET SigningKeys, attempts: Nat, result: Nat]

(* What is believed was true when it was asked for.                        *)
BeliefRows ==
  /\ kind \in {"key", "pat", "token"}
  /\ now \in Nat /\ now <= MaxTime
  /\ endedAt \in [SigningKeys -> Nat]
  /\ \A k \in SigningKeys : endedAt[k] <= now \/ endedAt[k] = Beliefs!Never
  /\ keys \in [known: SUBSET SigningKeys, expiresAt: Nat, lastUnknown: Nat,
               retryAfter: Nat, refreshing: BOOLEAN]
  /\ keys.expiresAt <= now + TTL
  /\ \A k \in keys.known : keys.expiresAt <= endedAt[k] + TTL
  /\ pats \in [SigningKeys -> Nat]
  /\ \A k \in SigningKeys : pats[k] <= now + TTL /\ pats[k] <= endedAt[k] + TTL
  /\ token \in Nat

(* A request for a token is given up after a minute, so whoever joined it  *)
(* asked at most a minute after it started.                                *)
FlightInv ==
  /\ flight \in [phase: {"none", "asked", "issued"}, started: Nat, expires: Nat]
  /\ flight.phase # "none" => flight.started <= now /\ now <= flight.started + 1
  /\ flight.phase = "issued" => flight.expires >= flight.started + Life

AskedInv(r) ==
  /\ r.asked <= now
  /\ r.phase \in {"waiting", "fetching", "fetched"} => kind = "key"
  /\ r.phase \in {"verifying", "verified"} => kind = "pat"
  /\ r.phase = "joined" => kind = "token"
  /\ r.phase # "idle" /\ kind # "token" => r.key \in SigningKeys
  /\ r.phase = "fetched" => \A k \in r.fetched : r.asked <= endedAt[k]
  /\ r.phase = "verified" => r.asked <= endedAt[r.key]
  /\ r.phase = "accepted" =>
       IF kind = "token" THEN r.result > r.asked
       ELSE r.asked < endedAt[r.key] + TTL

BeliefsInv ==
  /\ BeliefRows /\ FlightInv
  /\ call \in [Workers -> CallRows] /\ \A c \in Workers : AskedInv(call[c])
BeliefsHold == part = "verification" => BeliefsInv

LEMMA BeliefsInitInv == ASSUME Beliefs!Init PROVE BeliefsInv
BY DeliveryAssumption
   DEF Beliefs!Init, Beliefs!Idle, Beliefs!NoFlight, Beliefs!Never, BeliefsInv,
       BeliefRows, FlightInv, AskedInv, CallRows, Phases

(* One caller goes on, and what is kept may change.                        *)
LEMMA CallerGoes ==
  ASSUME BeliefsInv, NEW c \in Workers, NEW r \in CallRows,
         call' = [call EXCEPT ![c] = r], AskedInv(r),
         kind' = kind, now' = now, endedAt' = endedAt, BeliefRows', FlightInv'
  PROVE  BeliefsInv'
<1>1. /\ call' \in [Workers -> CallRows] /\ call'[c] = r
      /\ \A d \in Workers \ {c} : call'[d] = call[d]
  BY DEF BeliefsInv
<1>2. ASSUME NEW d \in Workers PROVE AskedInv(call[d])'
  BY <1>1 DEF AskedInv, BeliefsInv
<1> QED BY <1>1, <1>2 DEF BeliefsInv

(* A caller that only moves to phase p, where it holds what it has to.     *)
LEMMA PhaseGoes ==
  ASSUME BeliefsInv, NEW c \in Workers, NEW p \in Phases, Beliefs!Goes(c, p),
         call[c].phase # "idle",
         p \in {"waiting", "fetching", "fetched"} => kind = "key",
         p \in {"verifying", "verified"} => kind = "pat",
         p = "joined" => kind = "token",
         p = "fetched" => \A k \in call[c].fetched : call[c].asked <= endedAt[k],
         p = "verified" => call[c].asked <= endedAt[call[c].key],
         p = "accepted" => IF kind = "token" THEN call[c].result > call[c].asked
                           ELSE call[c].asked < endedAt[call[c].key] + TTL,
         kind' = kind, now' = now, endedAt' = endedAt, BeliefRows', FlightInv'
  PROVE  BeliefsInv'
<1> DEFINE r == [call[c] EXCEPT !.phase = p]
<1>1. call[c] \in CallRows /\ AskedInv(call[c])
  BY DEF BeliefsInv
<1>2. /\ r \in CallRows /\ r.phase = p /\ r.key = call[c].key
      /\ r.asked = call[c].asked /\ r.fetched = call[c].fetched
      /\ r.result = call[c].result
  BY <1>1 DEF CallRows
<1>3. call' = [call EXCEPT ![c] = r]
  BY DEF Beliefs!Goes
<1> HIDE DEF r
<1>4. AskedInv(r)
  BY <1>1, <1>2 DEF AskedInv
<1> QED BY <1>2, <1>3, <1>4, CallerGoes

LEMMA RowsStand ==
  ASSUME BeliefsInv, UNCHANGED <<kind, now, endedAt, keys, pats, token, flight>>
  PROVE  BeliefRows' /\ FlightInv'
BY DEF BeliefsInv, BeliefRows, FlightInv, Beliefs!Never

LEMMA LookUpKeyInv ==
  ASSUME BeliefsInv, NEW c \in Workers, Beliefs!LookUpKey(c) PROVE BeliefsInv'
<1>1. /\ call[c].phase = "asking" /\ kind = "key"
      /\ UNCHANGED <<kind, now, endedAt, pats, token, flight, failures>>
      /\ call[c] \in CallRows /\ AskedInv(call[c])
  BY DEF Beliefs!LookUpKey, Beliefs!Others, BeliefsInv
<1>2. CASE UNCHANGED keys
  <2>1. BeliefRows' /\ FlightInv'
    BY <1>1, <1>2, RowsStand
  <2>2. CASE Beliefs!Goes(c, "accepted") /\ call[c].key \in keys.known
             /\ call[c].asked < keys.expiresAt
    <3>1. call[c].asked < endedAt[call[c].key] + TTL
      BY <1>1, <2>2, DeliveryAssumption DEF BeliefsInv, BeliefRows, CallRows
    <3> QED BY <1>1, <2>1, <2>2, <3>1, PhaseGoes DEF Phases
  <2>3. CASE Beliefs!Goes(c, "refused")
    BY <1>1, <2>1, <2>3, PhaseGoes DEF Phases
  <2>4. CASE Beliefs!Goes(c, "waiting")
    BY <1>1, <2>1, <2>4, PhaseGoes DEF Phases
  <2>5. CASE keys' = [keys EXCEPT !.refreshing = TRUE] /\ ~keys.refreshing
    <3>1. keys' # keys
      BY <2>5 DEF BeliefsInv, BeliefRows
    <3> QED BY <1>2, <3>1
  <2> QED BY <2>2, <2>3, <2>4, <2>5 DEF Beliefs!LookUpKey, Beliefs!Fresh
<1>3. CASE /\ keys' = [keys EXCEPT !.refreshing = TRUE]
           /\ call' = [call EXCEPT ![c].phase = "fetching",
                                   ![c].unknown = Beliefs!Fresh(call[c].asked)]
  <2> DEFINE r == [call[c] EXCEPT !.phase = "fetching",
                                  !.unknown = Beliefs!Fresh(call[c].asked)]
  <2>1. /\ r \in CallRows /\ r.phase = "fetching" /\ r.key = call[c].key
        /\ r.asked = call[c].asked
    BY <1>1 DEF CallRows, Phases, Beliefs!Fresh
  <2>2. call' = [call EXCEPT ![c] = r]
    BY <1>3
  <2> HIDE DEF r
  <2>3. AskedInv(r)
    BY <1>1, <2>1 DEF AskedInv
  <2>4. BeliefRows' /\ FlightInv'
    BY <1>1, <1>3 DEF BeliefsInv, BeliefRows, FlightInv, Beliefs!Never
  <2> QED BY <1>1, <2>1, <2>2, <2>3, <2>4, CallerGoes
<1> QED BY <1>2, <1>3 DEF Beliefs!LookUpKey

LEMMA LookAgainInv ==
  ASSUME BeliefsInv, NEW c \in Workers, Beliefs!LookAgain(c) PROVE BeliefsInv'
<1> DEFINE x == IF call[c].attempts = 2 THEN "refused" ELSE "asking"
           n == call[c].attempts + 1
           r == [call[c] EXCEPT !.phase = x, !.attempts = n, !.asked = now]
<1>1. /\ call[c].phase = "waiting" /\ call' = [call EXCEPT ![c] = r]
      /\ UNCHANGED <<kind, now, endedAt, keys, pats, token, flight, failures>>
      /\ call[c] \in CallRows /\ AskedInv(call[c]) /\ now \in Nat
  BY DEF Beliefs!LookAgain, Beliefs!Others, BeliefsInv, BeliefRows
<1>2. x \in {"refused", "asking"} /\ x \in Phases /\ n \in Nat
  BY <1>1 DEF Phases, CallRows
<1> HIDE DEF x, n
<1>3. /\ r \in CallRows /\ r.phase = x /\ r.key = call[c].key /\ r.asked = now
  BY <1>1, <1>2 DEF CallRows
<1> HIDE DEF r
<1>4. AskedInv(r)
  BY <1>1, <1>2, <1>3 DEF AskedInv
<1> QED BY <1>1, <1>3, <1>4, RowsStand, CallerGoes

LEMMA FetchKeysInv ==
  ASSUME BeliefsInv, NEW c \in Workers, Beliefs!FetchKeys(c) PROVE BeliefsInv'
<1> DEFINE x == {k \in SigningKeys : Beliefs!Published(k)}
           r == [call[c] EXCEPT !.phase = "fetched", !.fetched = x]
<1>1. /\ call[c].phase = "fetching" /\ call' = [call EXCEPT ![c] = r]
      /\ UNCHANGED <<kind, now, endedAt, keys, pats, token, flight, failures>>
      /\ call[c] \in CallRows /\ AskedInv(call[c])
      /\ now \in Nat /\ now <= MaxTime
  BY DEF Beliefs!FetchKeys, Beliefs!Others, BeliefsInv, BeliefRows
<1>2. \A k \in x : call[c].asked <= endedAt[k]
  BY <1>1, DeliveryAssumption DEF Beliefs!Published, Beliefs!Never, AskedInv, CallRows
<1> HIDE DEF x
<1>3. x \subseteq SigningKeys
  BY DEF x
<1>4. /\ r \in CallRows /\ r.phase = "fetched" /\ r.key = call[c].key
      /\ r.asked = call[c].asked /\ r.fetched = x
  BY <1>1, <1>3 DEF CallRows, Phases
<1> HIDE DEF r
<1>5. AskedInv(r)
  BY <1>1, <1>2, <1>4 DEF AskedInv
<1> QED BY <1>1, <1>4, <1>5, RowsStand, CallerGoes

(* The keys that arrive were published no earlier than they were asked for.*)
LEMMA StoreKeysInv ==
  ASSUME BeliefsInv, NEW c \in Workers, Beliefs!StoreKeys(c) PROVE BeliefsInv'
<1> DEFINE r == call[c]
           m == [known |-> r.fetched, expiresAt |-> r.asked + TTL,
                 lastUnknown |-> IF r.unknown THEN r.asked ELSE keys.lastUnknown,
                 retryAfter |-> 0, refreshing |-> FALSE]
<1>1. /\ r.phase = "fetched" /\ keys' = m /\ r \in CallRows /\ AskedInv(r)
      /\ Beliefs!Goes(c, IF r.key \in r.fetched THEN "accepted" ELSE "refused")
      /\ UNCHANGED <<kind, now, endedAt, pats, token, flight, failures>>
      /\ TTL \in Nat \ {0} /\ now \in Nat
  BY DeliveryAssumption DEF Beliefs!StoreKeys, Beliefs!Others, BeliefsInv, BeliefRows
<1>2. /\ m \in [known: SUBSET SigningKeys, expiresAt: Nat, lastUnknown: Nat,
                retryAfter: Nat, refreshing: BOOLEAN]
      /\ m.expiresAt = r.asked + TTL /\ m.known = r.fetched
  BY <1>1 DEF CallRows, BeliefsInv, BeliefRows
<1> HIDE DEF m
<1>3. /\ m.expiresAt <= now + TTL
      /\ \A k \in m.known : endedAt[k] \in Nat /\ m.expiresAt <= endedAt[k] + TTL
  BY <1>1, <1>2 DEF AskedInv, CallRows, BeliefsInv, BeliefRows
<1>4. BeliefRows' /\ FlightInv'
  BY <1>1, <1>2, <1>3 DEF BeliefsInv, BeliefRows, FlightInv, Beliefs!Never
<1>5. kind = "key" /\ (r.key \in r.fetched => r.asked < endedAt[r.key] + TTL)
  BY <1>1, <1>2, <1>3 DEF AskedInv, CallRows, BeliefsInv, BeliefRows
<1>6. CASE r.key \in r.fetched
  BY <1>1, <1>4, <1>5, <1>6, PhaseGoes DEF Phases
<1>7. CASE r.key \notin r.fetched
  BY <1>1, <1>4, <1>5, <1>7, PhaseGoes DEF Phases
<1> QED BY <1>6, <1>7

LEMMA FetchFailsInv ==
  ASSUME BeliefsInv, NEW c \in Workers, Beliefs!FetchFails(c) PROVE BeliefsInv'
<1> DEFINE r == call[c]
           later == r.asked + 1
           u == IF r.unknown THEN r.asked ELSE keys.lastUnknown
           m == [keys EXCEPT !.retryAfter = later, !.refreshing = FALSE,
                             !.lastUnknown = u]
<1>1. /\ r.phase \in {"fetching", "fetched"} /\ keys' = m /\ r \in CallRows
      /\ Beliefs!Goes(c, "refused")
      /\ UNCHANGED <<kind, now, endedAt, pats, token, flight>>
  BY DEF Beliefs!FetchFails, Beliefs!Others, BeliefsInv
<1>2. later \in Nat /\ u \in Nat
  BY <1>1 DEF CallRows, BeliefsInv, BeliefRows
<1> HIDE DEF later, u
<1>3. /\ m \in [known: SUBSET SigningKeys, expiresAt: Nat, lastUnknown: Nat,
                retryAfter: Nat, refreshing: BOOLEAN]
      /\ m.expiresAt = keys.expiresAt /\ m.known = keys.known
  BY <1>2 DEF BeliefsInv, BeliefRows
<1> HIDE DEF m
<1>4. BeliefRows' /\ FlightInv'
  BY <1>1, <1>3 DEF BeliefsInv, BeliefRows, FlightInv, Beliefs!Never
<1> QED BY <1>1, <1>4, PhaseGoes DEF Phases

LEMMA KeyStepsInv == ASSUME BeliefsInv, Beliefs!KeySteps PROVE BeliefsInv'
BY LookUpKeyInv, LookAgainInv, FetchKeysInv, StoreKeysInv, FetchFailsInv
   DEF Beliefs!KeySteps

(* A PAT Cloud accepted was valid when Cloud looked, after it was asked    *)
(* for.                                                                    *)
LEMMA PATStepsInv == ASSUME BeliefsInv, Beliefs!PATSteps PROVE BeliefsInv'
<1>1. PICK c \in Workers :
        Beliefs!LookUpPAT(c) \/ Beliefs!VerifyPAT(c) \/ Beliefs!StorePAT(c)
  BY DEF Beliefs!PATSteps
<1>2. /\ call[c] \in CallRows /\ AskedInv(call[c]) /\ now \in Nat /\ now <= MaxTime
      /\ TTL \in Nat \ {0} /\ MaxTime \in Nat
  BY DeliveryAssumption DEF BeliefsInv, BeliefRows
<1>3. CASE Beliefs!LookUpPAT(c)
  <2>1. /\ call[c].phase = "asking" /\ kind = "pat"
        /\ UNCHANGED <<kind, now, endedAt, keys, pats, token, flight, failures>>
    BY <1>3 DEF Beliefs!LookUpPAT, Beliefs!Others
  <2>2. BeliefRows' /\ FlightInv'
    BY <2>1, RowsStand
  <2>3. CASE call[c].asked < pats[call[c].key]
    <3>1. Beliefs!Goes(c, "accepted")
      BY <1>3, <2>3 DEF Beliefs!LookUpPAT
    <3>2. call[c].asked < endedAt[call[c].key] + TTL
      BY <1>2, <2>1, <2>3 DEF AskedInv, CallRows, BeliefsInv, BeliefRows
    <3> QED BY <2>1, <2>2, <3>1, <3>2, PhaseGoes DEF Phases
  <2>4. CASE ~(call[c].asked < pats[call[c].key])
    <3>1. Beliefs!Goes(c, "verifying")
      BY <1>3, <2>4 DEF Beliefs!LookUpPAT
    <3> QED BY <2>1, <2>2, <3>1, PhaseGoes DEF Phases
  <2> QED BY <2>3, <2>4
<1>4. CASE Beliefs!VerifyPAT(c)
  <2>1. /\ call[c].phase = "verifying"
        /\ UNCHANGED <<kind, now, endedAt, keys, pats, token, flight>>
    BY <1>4 DEF Beliefs!VerifyPAT, Beliefs!Others
  <2>2. BeliefRows' /\ FlightInv' /\ kind = "pat"
    BY <1>2, <2>1, RowsStand DEF AskedInv
  <2>3. CASE Beliefs!Published(call[c].key) /\ Beliefs!Goes(c, "verified")
    <3>1. call[c].asked <= endedAt[call[c].key]
      BY <1>2, <2>3 DEF Beliefs!Published, Beliefs!Never, AskedInv, CallRows
    <3> QED BY <2>1, <2>2, <2>3, <3>1, PhaseGoes DEF Phases
  <2>4. CASE Beliefs!Goes(c, "refused")
    BY <2>1, <2>2, <2>4, PhaseGoes DEF Phases
  <2> QED BY <1>4, <2>3, <2>4 DEF Beliefs!VerifyPAT
<1>5. CASE Beliefs!StorePAT(c)
  <2> DEFINE k == call[c].key
  <2>1. /\ call[c].phase = "verified" /\ Beliefs!Goes(c, "accepted")
        /\ pats' = [pats EXCEPT ![k] = call[c].asked + TTL]
        /\ UNCHANGED <<kind, now, endedAt, keys, token, flight, failures>>
    BY <1>5 DEF Beliefs!StorePAT, Beliefs!Others
  <2>2. /\ kind = "pat" /\ k \in SigningKeys /\ call[c].asked \in Nat
        /\ call[c].asked <= endedAt[k] /\ call[c].asked <= now /\ endedAt[k] \in Nat
    BY <1>2, <2>1 DEF AskedInv, CallRows, BeliefsInv, BeliefRows
  <2> HIDE DEF k
  <2>3. /\ pats' \in [SigningKeys -> Nat]
        /\ \A x \in SigningKeys : pats'[x] <= now + TTL /\ pats'[x] <= endedAt[x] + TTL
    BY <1>2, <2>1, <2>2 DEF BeliefsInv, BeliefRows
  <2>4. BeliefRows' /\ FlightInv'
    BY <2>1, <2>3 DEF BeliefsInv, BeliefRows, FlightInv, Beliefs!Never
  <2>5. call[c].asked < endedAt[call[c].key] + TTL
    BY <1>2, <2>2 DEF k
  <2> QED BY <2>1, <2>2, <2>4, <2>5, PhaseGoes DEF Phases
<1> QED BY <1>1, <1>3, <1>4, <1>5

LEMMA LookUpTokenInv ==
  ASSUME BeliefsInv, NEW c \in Workers, Beliefs!LookUpToken(c) PROVE BeliefsInv'
<1>1. /\ call[c].phase = "asking" /\ kind = "token"
      /\ UNCHANGED <<kind, now, endedAt, keys, pats, token, failures>>
      /\ call[c] \in CallRows /\ AskedInv(call[c]) /\ token \in Nat
  BY DEF Beliefs!LookUpToken, Beliefs!Others, BeliefsInv, BeliefRows
<1>2. BeliefRows'
  BY <1>1 DEF BeliefsInv, BeliefRows, Beliefs!Never
<1>3. CASE token > call[c].asked + 1
  <2> DEFINE r == [call[c] EXCEPT !.phase = "accepted", !.result = token]
  <2>1. call' = [call EXCEPT ![c] = r] /\ flight' = flight
    BY <1>3 DEF Beliefs!LookUpToken
  <2>2. /\ r \in CallRows /\ r.phase = "accepted" /\ r.asked = call[c].asked
        /\ r.result = token
    BY <1>1 DEF CallRows, Phases
  <2> HIDE DEF r
  <2>3. AskedInv(r)
    BY <1>1, <1>3, <2>2 DEF AskedInv, CallRows
  <2>4. FlightInv'
    BY <1>1, <2>1 DEF BeliefsInv, FlightInv
  <2> QED BY <1>1, <1>2, <2>1, <2>2, <2>3, <2>4, CallerGoes
<1>4. CASE ~(token > call[c].asked + 1)
  <2>1. /\ Beliefs!Goes(c, "joined")
        /\ flight' = IF flight.phase # "none" THEN flight
                     ELSE [phase |-> "asked", started |-> now, expires |-> 0]
    BY <1>4 DEF Beliefs!LookUpToken
  <2>2. FlightInv'
    <3>1. CASE flight.phase # "none"
      BY <1>1, <2>1, <3>1 DEF BeliefsInv, FlightInv
    <3>2. CASE flight.phase = "none"
      BY <1>1, <2>1, <3>2 DEF BeliefsInv, BeliefRows, FlightInv
    <3> QED BY <3>1, <3>2
  <2> QED BY <1>1, <1>2, <2>1, <2>2, PhaseGoes DEF Phases
<1> QED BY <1>3, <1>4

LEMMA FetchTokenInv == ASSUME BeliefsInv, Beliefs!FetchToken PROVE BeliefsInv'
<1> DEFINE e == now + Life
           f == [flight EXCEPT !.phase = "issued", !.expires = e]
<1>1. /\ flight.phase = "asked" /\ flight' = f /\ e \in Nat /\ e >= flight.started + Life
      /\ UNCHANGED <<kind, now, endedAt, keys, pats, token, call>>
  BY DeliveryAssumption DEF Beliefs!FetchToken, Beliefs!Others, BeliefsInv, BeliefRows, FlightInv
<1> HIDE DEF e
<1>2. /\ f \in [phase: {"none", "asked", "issued"}, started: Nat, expires: Nat]
      /\ f.phase = "issued" /\ f.started = flight.started /\ f.expires = e
  BY <1>1 DEF BeliefsInv, FlightInv
<1> HIDE DEF f
<1>3. BeliefRows' /\ FlightInv'
  BY <1>1, <1>2 DEF BeliefsInv, BeliefRows, FlightInv, Beliefs!Never
<1> QED BY <1>1, <1>3 DEF BeliefsInv, AskedInv

(* Whoever shares the answer asked at most a minute after the request for  *)
(* it began, so the token, which lives longer, is worth having.            *)
LEMMA ShareTokenInv == ASSUME BeliefsInv, Beliefs!ShareToken PROVE BeliefsInv'
<1>1. /\ flight' = Beliefs!NoFlight /\ flight.phase # "none"
      /\ UNCHANGED <<kind, now, endedAt, keys, pats>>
      /\ flight \in [phase: {"none", "asked", "issued"}, started: Nat, expires: Nat]
      /\ flight.started <= now /\ now <= flight.started + 1 /\ now \in Nat
      /\ flight.phase = "issued" => flight.expires >= flight.started + Life
  BY DEF Beliefs!ShareToken, Beliefs!Others, BeliefsInv, BeliefRows, FlightInv
<1>2. token' \in Nat
  BY <1>1 DEF Beliefs!ShareToken, BeliefsInv, BeliefRows
<1>3. BeliefRows' /\ FlightInv'
  BY <1>1, <1>2 DEF BeliefsInv, BeliefRows, FlightInv, Beliefs!Never, Beliefs!NoFlight
<1>4. ASSUME NEW c \in Workers
      PROVE  call'[c] \in CallRows /\ AskedInv(call'[c])
  <2>1. call[c] \in CallRows /\ AskedInv(call[c])
    BY DEF BeliefsInv
  <2>2. CASE call[c].phase # "joined"
    <3>1. call'[c] = call[c]
      BY <2>2 DEF Beliefs!ShareToken
    <3> QED BY <2>1, <3>1
  <2>3. CASE call[c].phase = "joined" /\ flight.phase = "issued"
             /\ call' = [d \in Workers |->
                  IF call[d].phase = "joined"
                  THEN [call[d] EXCEPT !.phase = "accepted", !.result = flight.expires]
                  ELSE call[d]]
    <3> DEFINE r == [call[c] EXCEPT !.phase = "accepted", !.result = flight.expires]
    <3>1. call'[c] = r
      BY <2>3
    <3>2. /\ r \in CallRows /\ r.phase = "accepted" /\ r.asked = call[c].asked
          /\ r.key = call[c].key /\ r.result = flight.expires
      BY <1>1, <2>1 DEF CallRows, Phases
    <3> HIDE DEF r
    <3>3. call[c].asked \in Nat /\ call[c].asked <= now /\ kind = "token"
      BY <2>1, <2>3 DEF AskedInv, CallRows
    <3>4. /\ flight.started \in Nat /\ flight.expires \in Nat /\ now \in Nat
          /\ now <= flight.started + 1 /\ flight.expires >= flight.started + Life
      BY <1>1, <2>3
    <3>5. flight.expires > call[c].asked
      <4> DEFINE s == flight.started
                 e == flight.expires
                 q == call[c].asked
      <4>1. s \in Nat /\ e \in Nat /\ q \in Nat /\ q <= now /\ now <= s + 1
            /\ e >= s + Life /\ now \in Nat /\ Life \in Nat /\ Life > 1
        BY <3>3, <3>4, DeliveryAssumption
      <4> HIDE DEF s, e, q
      <4>2. e > q
        BY <4>1
      <4> QED BY <4>2 DEF e, q
    <3>6. r.asked <= now /\ r.result > r.asked
      BY <3>2, <3>3, <3>5
    <3>7. AskedInv(r)
      BY <3>2, <3>3, <3>6 DEF AskedInv
    <3> QED BY <3>1, <3>2, <3>7
  <2>4. CASE call[c].phase = "joined"
             /\ call' = [d \in Workers |->
                  IF call[d].phase = "joined"
                  THEN [call[d] EXCEPT !.phase = "refused"] ELSE call[d]]
    <3> DEFINE r == [call[c] EXCEPT !.phase = "refused"]
    <3>1. call'[c] = r
      BY <2>4
    <3>2. /\ r \in CallRows /\ r.phase = "refused" /\ r.asked = call[c].asked
          /\ r.key = call[c].key
      BY <2>1 DEF CallRows, Phases
    <3> HIDE DEF r
    <3>3. AskedInv(r)
      BY <2>1, <2>4, <3>2 DEF AskedInv
    <3> QED BY <3>1, <3>2, <3>3
  <2> QED BY <2>2, <2>3, <2>4 DEF Beliefs!ShareToken
<1>5. call' \in [Workers -> CallRows]
  <2>1. call' = [d \in Workers |-> call'[d]]
    BY DEF Beliefs!ShareToken
  <2> QED BY <1>4, <2>1
<1>6. ASSUME NEW c \in Workers PROVE AskedInv(call[c])'
  BY <1>1, <1>4 DEF AskedInv
<1> QED BY <1>3, <1>5, <1>6 DEF BeliefsInv

LEMMA OutsideStepsInv == ASSUME BeliefsInv, Beliefs!OutsideSteps PROVE BeliefsInv'
<1>0. TTL \in Nat \ {0} /\ MaxTime \in Nat /\ now \in Nat /\ now <= MaxTime
  BY DeliveryAssumption DEF BeliefsInv, BeliefRows
<1>1. CASE Beliefs!Tick
  <2>1. /\ now' = now + 1 /\ now < MaxTime
        /\ flight.phase = "none" \/ now <= flight.started
        /\ UNCHANGED <<kind, endedAt, keys, pats, token, flight, call>>
    BY <1>1 DEF Beliefs!Tick
  <2>2. BeliefRows'
    BY <1>0, <2>1 DEF BeliefsInv, BeliefRows, Beliefs!Never
  <2>3. FlightInv'
    BY <1>0, <2>1 DEF BeliefsInv, FlightInv
  <2>4. ASSUME NEW c \in Workers PROVE AskedInv(call[c])'
    <3>1. call[c] \in CallRows /\ AskedInv(call[c])
      BY DEF BeliefsInv
    <3> QED BY <1>0, <2>1, <3>1 DEF AskedInv, CallRows
  <2> QED BY <2>1, <2>2, <2>3, <2>4 DEF BeliefsInv
<1>2. ASSUME NEW k \in SigningKeys, Beliefs!Ends(k) PROVE BeliefsInv'
  <2>1. /\ endedAt' = [endedAt EXCEPT ![k] = now]
        /\ UNCHANGED <<kind, now, keys, pats, token, flight, call>>
    BY <1>2 DEF Beliefs!Ends
  <2>2. /\ endedAt' \in [SigningKeys -> Nat] /\ endedAt'[k] = now
        /\ \A x \in SigningKeys \ {k} : endedAt'[x] = endedAt[x]
    BY <1>0, <2>1 DEF BeliefsInv, BeliefRows
  <2>3. BeliefRows' /\ FlightInv'
    BY <1>0, <2>1, <2>2 DEF BeliefsInv, BeliefRows, FlightInv, Beliefs!Never
  <2>4. ASSUME NEW c \in Workers PROVE AskedInv(call[c])'
    <3>1. call[c] \in CallRows /\ AskedInv(call[c])
      BY DEF BeliefsInv
    <3> QED BY <1>0, <2>1, <2>2, <3>1 DEF AskedInv, CallRows
  <2> QED BY <2>1, <2>3, <2>4 DEF BeliefsInv
<1>3. ASSUME NEW c \in Workers, NEW k \in SigningKeys \cup {"none"}, Beliefs!Ask(c, k)
      PROVE  BeliefsInv'
  <2> DEFINE r == [Beliefs!Idle EXCEPT !.phase = "asking", !.key = k, !.asked = now]
  <2>1. /\ call' = [call EXCEPT ![c] = r] /\ (k = "none") = (kind = "token")
        /\ UNCHANGED <<kind, now, endedAt, keys, pats, token, flight>>
    BY <1>3 DEF Beliefs!Ask, Beliefs!Others
  <2>2. /\ r \in CallRows /\ r.phase = "asking" /\ r.key = k /\ r.asked = now
    BY <1>0 DEF CallRows, Phases, Beliefs!Idle
  <2> HIDE DEF r
  <2>3. AskedInv(r)
    BY <1>0, <2>1, <2>2 DEF AskedInv
  <2> QED BY <2>1, <2>2, <2>3, RowsStand, CallerGoes
<1> QED BY <1>1, <1>2, <1>3 DEF Beliefs!OutsideSteps

LEMMA TokenStepsInv == ASSUME BeliefsInv, Beliefs!TokenSteps PROVE BeliefsInv'
BY LookUpTokenInv, FetchTokenInv, ShareTokenInv DEF Beliefs!TokenSteps

(* Nothing is believed for longer than its time after it ended, however    *)
(* long a refresh takes and whoever shares its answer: for any number of   *)
(* callers and keys, any times, and any token life longer than the minute  *)
(* a shared request may take (InstallationToken, jwksCache.key,            *)
(* VerifyAuth).                                                            *)
THEOREM BeliefsEndInTime == DeliverySpec => []NothingOutlivesItsEnd
<1>1. DeliveryInit => BeliefsHold
  BY BeliefsInitInv DEF DeliveryInit, BeliefsHold
<1>2. BeliefsHold /\ [DeliveryNext]_deliveryVars => BeliefsHold'
  <2> SUFFICES ASSUME BeliefsHold, [DeliveryNext]_deliveryVars, part' = "verification"
               PROVE  BeliefsInv'
    BY DEF BeliefsHold
  <2>1. CASE UNCHANGED deliveryVars
    <3>1. BeliefsInv /\ UNCHANGED <<kind, now, endedAt, keys, pats, token, flight, call>>
      BY <2>1 DEF deliveryVars, verificationVars, BeliefsHold
    <3> QED BY <3>1, RowsStand DEF BeliefsInv, AskedInv
  <2>2. CASE DeliveryNext
    <3>1. /\ part = "verification"
          /\ \/ Beliefs!KeySteps \/ Beliefs!PATSteps \/ Beliefs!TokenSteps
             \/ Beliefs!OutsideSteps
      BY <2>2 DEF DeliveryNext, WorkflowMoves, BuildsMove, BeliefsMove
    <3> QED BY <3>1, KeyStepsInv, PATStepsInv, TokenStepsInv, OutsideStepsInv
            DEF BeliefsHold
  <2> QED BY <2>1, <2>2
<1>3. BeliefsHold => NothingOutlivesItsEnd
  BY DEF BeliefsHold, BeliefsInv, AskedInv, NothingOutlivesItsEnd,
         Beliefs!NothingOutlivesItsEnd
<1> QED BY <1>1, <1>2, <1>3, PTL DEF DeliverySpec
=============================================================================
