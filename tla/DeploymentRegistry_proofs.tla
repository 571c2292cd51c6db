--------------------- MODULE DeploymentRegistry_proofs ---------------------
(***************************************************************************)
(* Proofs about Cloud's deployment queue: one unresolved rollout at most   *)
(* may change a service, and an accepted result is final, for any number   *)
(* of jobs, targets, services and nodes, resets and cleanups included.     *)
(***************************************************************************)
EXTENDS DeploymentRegistry, TLAPS, WellFoundedInduction

(* The states of a result that validateRolloutResult accepts.              *)
FinalStates ==
  {"succeeded", "failed", "rolled_back", "rollback_failed", "cleaned"}

(* What the columns of one job say of each other: a cancelled job was      *)
(* never leased, a resolved one is out of the queue for good and a queued  *)
(* one is leased to nobody.                                                *)
JobInv(r) ==
  /\ r.status = "cancelled" =>
       r.attempts = 0 /\ r.lease = "none" /\ r.result = None /\ r.rstate = "prepared"
  /\ r.result # None =>
       r.status \in FinalStates /\ r.lease = "none" /\ ~r.backoff /\ ~r.exhausted
  /\ r.status = "queued" => r.lease = "none"
  /\ r.doneAt < tick

JobsInv == \A j \in Jobs : Exists(j) => JobInv(jobs[j])

(* A deployment being created has an id of its own.                        *)
DraftsFresh == \A j \in Jobs : drafts[j] # None => ~Exists(j)

RegistryInv == RegistryTypeOK /\ JobsInv /\ DraftsFresh /\ OwnerHoldsRow

----------------------------------------------------------------------------
LEMMA LeastNatural ==
  ASSUME NEW T, T \subseteq Nat, T # {}
  PROVE  \E x \in T : \A y \in T : x <= y
<1>1. PICK x \in T : \A y \in T : ~(<<y, x>> \in OpToRel(<, Nat))
  BY WFMin, NatLessThanWellFounded
<1>2. \A y \in T : ~(y < x)
  BY <1>1 DEF OpToRel
<1> QED BY <1>2

LEMMA JobType ==
  ASSUME RegistryTypeOK, NEW j \in Jobs, Exists(j)
  PROVE  /\ jobs[j] \in JobRecords
         /\ jobs[j].intent \in Intents
         /\ jobs[j].intent.target \in Targets
         /\ jobs[j].intent.previous \in KnownGoodRefs
         /\ jobs[j].intent.op \in Operations
         /\ jobs[j].node \in Nodes
         /\ Service(j) \in Services
         /\ jobs[j].status \in JobStatus
         /\ jobs[j].rstate \in RolloutStates
         /\ jobs[j].result \in Results \cup {None}
         /\ jobs[j].attempts \in Nat
         /\ jobs[j].max \in Nat
         /\ jobs[j].lease \in {"none", "live", "expired"}
         /\ jobs[j].doneAt \in Nat
<1>1. jobs[j] \in JobRecords
  BY DEF RegistryTypeOK, Exists
<1>2. jobs[j].intent \in Intents
  BY <1>1 DEF JobRecords
<1>3. jobs[j].intent \in RawIntents
  BY <1>2 DEF Intents
<1>4. jobs[j].intent.target \in Targets
  BY <1>3 DEF RawIntents
<1>5. Service(j) \in Services
  BY <1>4, RegistryAssumption DEF Service
<1> QED
  BY <1>1, <1>2, <1>3, <1>4, <1>5 DEF JobRecords, RawIntents

(* The newest of the known-good candidates exists: finished_at stamps lie  *)
(* below the clock.                                                        *)
LEMMA LatestKnownGoodType ==
  ASSUME RegistryTypeOK, JobsInv, NEW t \in Targets, NEW n \in Nodes
  PROVE  LatestKnownGood(t, n) \in KnownGoodRefs
<1> DEFINE C == KnownGoodCandidates(t, n)
           ages == {tick - jobs[j].doneAt : j \in C}
<1>1. CASE C = {}
  BY <1>1 DEF LatestKnownGood, KnownGoodRefs
<1>2. CASE C # {}
  <2>1. \A j \in C : /\ j \in Jobs /\ Exists(j) /\ jobs[j].doneAt \in Nat
                     /\ jobs[j].doneAt < tick /\ jobs[j].result \in Results
    BY JobType DEF KnownGoodCandidates, JobsInv, JobInv, Resolved
  <2>2. tick \in Nat
    BY DEF RegistryTypeOK
  <2>3. ages \subseteq Nat /\ ages # {}
    BY <1>2, <2>1, <2>2
  <2>4. PICK a \in ages : \A b \in ages : a <= b
    BY <2>3, LeastNatural
  <2>5. PICK j \in C : a = tick - jobs[j].doneAt
    BY <2>4
  <2>6. \A k \in C : jobs[k].doneAt <= jobs[j].doneAt
    BY <2>1, <2>2, <2>4, <2>5
  <2> DEFINE newest == CHOOSE m \in C : \A k \in C : jobs[k].doneAt <= jobs[m].doneAt
  <2>7. newest \in C
    BY <2>6
  <2>8. LatestKnownGood(t, n) = jobs[newest].result.known
    BY <1>2 DEF LatestKnownGood
  <2> QED BY <2>1, <2>7, <2>8 DEF Results
<1> QED BY <1>1, <1>2

----------------------------------------------------------------------------
(* A transaction that writes one job keeps the invariant when the row it   *)
(* writes is in order and the lock rows of the other owners stay.          *)
LEMMA OneJobChanges ==
  ASSUME RegistryInv, NEW j \in Jobs,
         jobs' = [jobs EXCEPT ![j] = jobs'[j]],
         jobs'[j] \in JobRecords,
         JobInv(jobs[j])',
         drafts' \in [Jobs -> Drafts \cup {None}],
         drafts'[j] = None,
         \A k \in Jobs \ {j} : drafts'[k] = drafts[k],
         retired' = retired,
         tick' \in {tick, tick + 1},
         lock' \in [Services -> KnownGoodRefs],
         \A k \in Jobs \ {j} :
           OwnsService(k) /\ Mutating(k) => lock'[Service(k)] = k,
         (OwnsService(j) /\ Mutating(j) => lock[Service(j)] = j)'
  PROVE  RegistryInv'
<1>1. jobs \in [Jobs -> JobRecords \cup {None}] /\ tick \in Nat \ {0}
  BY DEF RegistryInv, RegistryTypeOK
<1>2. \A k \in Jobs \ {j} : jobs'[k] = jobs[k]
  BY <1>1
<1>3. \A k \in Jobs \ {j} : /\ Exists(k)' <=> Exists(k)
                            /\ Service(k)' = Service(k)
                            /\ OwnsService(k)' <=> OwnsService(k)
                            /\ Mutating(k)' <=> Mutating(k)
  BY <1>2 DEF Exists, Service, OwnsService, Mutating, Resolved, SafelyCancelled
<1>4. RegistryTypeOK'
  <2>1. jobs' \in [Jobs -> JobRecords \cup {None}]
    BY <1>1
  <2>2. tick' \in Nat \ {0}
    BY <1>1
  <2> QED BY <2>1, <2>2 DEF RegistryInv, RegistryTypeOK
<1>5. JobsInv'
  <2>1. ASSUME NEW k \in Jobs \ {j}, Exists(k)' PROVE JobInv(jobs[k])'
    <3>1. JobInv(jobs[k]) /\ jobs[k].doneAt \in Nat
      BY <1>3, <2>1, JobType DEF RegistryInv, JobsInv
    <3> QED BY <1>1, <1>2, <3>1 DEF JobInv
  <2> QED BY <2>1 DEF JobsInv
<1>6. DraftsFresh'
  BY <1>3 DEF RegistryInv, DraftsFresh
<1>7. OwnerHoldsRow'
  BY <1>3 DEF RegistryInv, OwnerHoldsRow
<1> QED BY <1>4, <1>5, <1>6, <1>7 DEF RegistryInv

(* acquireDeploymentLock: the row goes to j only when nobody else owns the *)
(* service.                                                                *)
LEMMA LockTaken ==
  ASSUME RegistryInv, NEW j \in Jobs, NEW s \in Services, ServiceIsFree(s, j),
         lock' = [lock EXCEPT ![s] = j]
  PROVE  /\ lock' \in [Services -> KnownGoodRefs]
         /\ lock'[s] = j
         /\ \A k \in Jobs \ {j} :
              OwnsService(k) /\ Mutating(k) => lock'[Service(k)] = k
<1>1. lock \in [Services -> KnownGoodRefs]
  BY DEF RegistryInv, RegistryTypeOK
<1>2. lock' \in [Services -> KnownGoodRefs] /\ lock'[s] = j
  BY <1>1 DEF KnownGoodRefs
<1>3. ASSUME NEW k \in Jobs \ {j}, OwnsService(k), Mutating(k)
      PROVE  lock'[Service(k)] = k
  <2>1. lock[Service(k)] = k /\ Service(k) # s /\ Service(k) \in Services
    BY <1>3, JobType DEF RegistryInv, OwnerHoldsRow, ServiceIsFree, OwnsService
  <2> QED BY <1>1, <2>1
<1> QED BY <1>2, <1>3

(* A release never takes the row of another job.                           *)
LEMMA LockReleased ==
  ASSUME RegistryInv, NEW j \in Jobs, NEW s \in Services, lock' = Release(s, j)
  PROVE  /\ lock' \in [Services -> KnownGoodRefs]
         /\ \A k \in Jobs \ {j} :
              OwnsService(k) /\ Mutating(k) => lock'[Service(k)] = k
<1>1. lock \in [Services -> KnownGoodRefs]
  BY DEF RegistryInv, RegistryTypeOK
<1>2. lock' \in [Services -> KnownGoodRefs]
  BY <1>1 DEF Release, KnownGoodRefs
<1>3. ASSUME NEW k \in Jobs \ {j}, OwnsService(k), Mutating(k)
      PROVE  lock'[Service(k)] = k
  <2>1. lock[Service(k)] = k /\ Service(k) \in Services
    BY <1>3, JobType DEF RegistryInv, OwnerHoldsRow, OwnsService
  <2> QED BY <1>1, <2>1 DEF Release
<1> QED BY <1>2, <1>3

LEMMA LockKept ==
  ASSUME RegistryInv, NEW j \in Jobs, lock' = lock
  PROVE  /\ lock' \in [Services -> KnownGoodRefs]
         /\ \A k \in Jobs \ {j} :
              OwnsService(k) /\ Mutating(k) => lock'[Service(k)] = k
BY DEF RegistryInv, RegistryTypeOK, OwnerHoldsRow

----------------------------------------------------------------------------
(* Job creation.                                                           *)
LEMMA NewJobInv ==
  ASSUME RegistryInv, NEW j \in Jobs, NEW i \in Intents, NEW n \in Nodes,
         ~Exists(j), jobs' = [jobs EXCEPT ![j] = NewJob(i, n)],
         tick' = tick
  PROVE  /\ jobs' = [jobs EXCEPT ![j] = jobs'[j]]
         /\ jobs'[j] \in JobRecords
         /\ JobInv(jobs[j])'
         /\ jobs'[j].intent = i
         /\ Service(j)' = ServiceOf[i.target]
<1>1. NewJob(i, n) \in JobRecords
  BY RegistryAssumption DEF NewJob, JobRecords, JobStatus, RolloutStates
<1>2. jobs \in [Jobs -> JobRecords \cup {None}] /\ tick \in Nat \ {0}
  BY DEF RegistryInv, RegistryTypeOK
<1>3. jobs'[j] = NewJob(i, n)
  BY <1>2
<1>4. JobInv(jobs[j])' /\ jobs'[j].intent = i
  BY <1>2, <1>3 DEF NewJob, JobInv
<1> QED BY <1>1, <1>2, <1>3, <1>4 DEF Service

LEMMA ReadKnownGoodInv ==
  ASSUME RegistryInv, NEW j \in Jobs, NEW t \in Targets, NEW n \in Nodes,
         ReadKnownGood(j, t, n)
  PROVE  RegistryInv'
<1> DEFINE d == [target |-> t, node |-> n, previous |-> LatestKnownGood(t, n)]
<1>1. d \in Drafts
  BY LatestKnownGoodType DEF RegistryInv, RegistryTypeOK, Drafts
<1> HIDE DEF d
<1>2. /\ ~Exists(j) /\ drafts' = [drafts EXCEPT ![j] = d]
      /\ UNCHANGED <<jobs, lock, retired, tick>>
  BY DEF ReadKnownGood, d
<1>3. RegistryTypeOK'
  BY <1>1, <1>2 DEF RegistryInv, RegistryTypeOK
<1>4. DraftsFresh'
  BY <1>2 DEF RegistryInv, RegistryTypeOK, DraftsFresh, Exists
<1>5. JobsInv'
  BY <1>2 DEF RegistryInv, JobsInv, JobInv, Exists
<1>6. OwnerHoldsRow'
  BY <1>2 DEF RegistryInv, OwnerHoldsRow, OwnsService, Exists, Resolved,
              SafelyCancelled, Service, Mutating
<1> QED BY <1>3, <1>4, <1>5, <1>6 DEF RegistryInv

LEMMA StartImmutableDeploymentInv ==
  ASSUME RegistryInv, NEW j \in Jobs, StartImmutableDeployment(j)
  PROVE  RegistryInv'
<1> DEFINE d == drafts[j]
           s == ServiceOf[d.target]
           i == [op |-> "apply", target |-> d.target, previous |-> d.previous,
                 expected |-> None]
<1>1. /\ drafts[j] # None /\ UNCHANGED <<retired, tick>>
      /\ drafts' = [drafts EXCEPT ![j] = None]
      /\ IF ServiceIsFree(s, j) /\ d.node \notin retired
           THEN /\ jobs' = [jobs EXCEPT ![j] = NewJob(i, d.node)]
                /\ lock' = [lock EXCEPT ![s] = j]
           ELSE UNCHANGED <<jobs, lock>>
  BY DEF StartImmutableDeployment, Insert
<1>2. d \in Drafts /\ ~Exists(j)
  BY <1>1 DEF RegistryInv, RegistryTypeOK, DraftsFresh
<1>3. d.target \in Targets /\ d.node \in Nodes
      /\ d.previous \in KnownGoodRefs
  BY <1>2 DEF Drafts
<1>4. s \in Services
  BY <1>3, RegistryAssumption
<1>5. i \in Intents
  BY <1>3 DEF Intents, RawIntents, Canonical, CleanupOperations, Operations, KnownGoodRefs
<1>6. i.target = d.target
  OBVIOUS
<1>7. /\ drafts' \in [Jobs -> Drafts \cup {None}]
      /\ drafts'[j] = None
      /\ \A k \in Jobs \ {j} : drafts'[k] = drafts[k]
  BY <1>1 DEF RegistryInv, RegistryTypeOK
<1> HIDE DEF i
<1>8. CASE ServiceIsFree(s, j) /\ d.node \notin retired
  <2>1. /\ jobs' = [jobs EXCEPT ![j] = NewJob(i, d.node)]
        /\ lock' = [lock EXCEPT ![s] = j]
        /\ tick' = tick
    BY <1>1, <1>8
  <2>2. /\ jobs' = [jobs EXCEPT ![j] = jobs'[j]]
        /\ jobs'[j] \in JobRecords
        /\ JobInv(jobs[j])'
        /\ Service(j)' = s
    BY <1>2, <1>3, <1>5, <1>6, <2>1, NewJobInv
  <2>3. /\ lock' \in [Services -> KnownGoodRefs]
        /\ lock'[s] = j
        /\ \A k \in Jobs \ {j} :
             OwnsService(k) /\ Mutating(k) => lock'[Service(k)] = k
    BY <1>4, <1>8, <2>1, LockTaken
  <2> QED BY <1>1, <1>7, <2>1, <2>2, <2>3, OneJobChanges
<1>9. CASE ~(ServiceIsFree(s, j) /\ d.node \notin retired)
  <2>1. UNCHANGED <<jobs, lock, tick, retired>>
    BY <1>1, <1>9
  <2>2. RegistryTypeOK'
    BY <1>7, <2>1 DEF RegistryInv, RegistryTypeOK
  <2>3. JobsInv' /\ DraftsFresh'
    BY <1>7, <2>1 DEF RegistryInv, JobsInv, JobInv, DraftsFresh, Exists
  <2>4. OwnerHoldsRow'
    BY <2>1 DEF RegistryInv, OwnerHoldsRow, OwnsService, Exists, Resolved,
                SafelyCancelled, Service, Mutating
  <2> QED BY <2>2, <2>3, <2>4 DEF RegistryInv
<1> QED BY <1>8, <1>9

LEMMA RollbackDeploymentInv ==
  ASSUME RegistryInv, NEW j \in Jobs, NEW source \in Jobs,
         RollbackDeployment(j, source)
  PROVE  RegistryInv'
<1> DEFINE b == jobs[source]
           s == Service(source)
           i == [op |-> "rollback", target |-> b.intent.target,
                 previous |-> b.intent.previous, expected |-> b.result.known]
<1>1. /\ ~Exists(j) /\ drafts[j] = None
      /\ RollbackEligible(source) /\ ServiceIsFree(s, j)
      /\ jobs' = [jobs EXCEPT ![j] = NewJob(i, b.node)]
      /\ tick' = tick
      /\ lock' = [lock EXCEPT ![s] = j]
      /\ drafts' = drafts /\ retired' = retired
  BY DEF RollbackDeployment, Insert
<1>2. /\ Exists(source) /\ b.result # None
      /\ b.result.known # None /\ b.intent.previous # None
  BY <1>1 DEF RollbackEligible, Resolved
<1>3. /\ b.intent.target \in Targets /\ b.intent.previous \in KnownGoodRefs
      /\ b.node \in Nodes /\ s \in Services /\ b.result \in Results
  BY <1>2, JobType DEF RegistryInv
<1>4. b.result.known \in KnownGoodRefs
  BY <1>3 DEF Results
<1>5. i \in Intents
  BY <1>2, <1>3, <1>4 DEF Intents, RawIntents, Canonical, CleanupOperations, Operations
<1>6. ServiceOf[i.target] = s
  BY DEF Service
<1> HIDE DEF i
<1>8. /\ jobs' = [jobs EXCEPT ![j] = jobs'[j]]
      /\ jobs'[j] \in JobRecords
      /\ JobInv(jobs[j])'
      /\ Service(j)' = s
  BY <1>1, <1>3, <1>5, <1>6, NewJobInv
<1>9. /\ lock' \in [Services -> KnownGoodRefs]
      /\ lock'[s] = j
      /\ \A k \in Jobs \ {j} :
           OwnsService(k) /\ Mutating(k) => lock'[Service(k)] = k
  BY <1>1, <1>3, LockTaken
<1>10. drafts' \in [Jobs -> Drafts \cup {None}]
  BY <1>1 DEF RegistryInv, RegistryTypeOK
<1> QED BY <1>1, <1>8, <1>9, <1>10, OneJobChanges

LEMMA StartCleanupJobInv ==
  ASSUME RegistryInv, NEW j \in Jobs, NEW base \in Jobs, NEW op \in CleanupOperations,
         StartCleanupJob(j, base, op)
  PROVE  RegistryInv'
<1> DEFINE b == jobs[base]
           i == [op |-> op, target |-> b.intent.target, previous |-> None,
                 expected |-> None]
<1>1. /\ ~Exists(j) /\ drafts[j] = None
      /\ Exists(base) /\ CleanupAllowed(base, op)
      /\ jobs' = [jobs EXCEPT ![j] = NewJob(i, b.node)]
      /\ tick' = tick
      /\ lock' = lock /\ drafts' = drafts /\ retired' = retired
  BY DEF StartCleanupJob, Insert
<1>2. b.intent.target \in Targets /\ b.node \in Nodes
  BY <1>1, JobType DEF RegistryInv
<1>3. i \in Intents
  BY <1>1, <1>2 DEF Intents, RawIntents, Canonical, CleanupOperations, Operations,
                    CleanupAllowed, KnownGoodRefs
<1>4. i.op \in CleanupOperations
  OBVIOUS
<1> HIDE DEF i
<1>6. /\ jobs' = [jobs EXCEPT ![j] = jobs'[j]]
      /\ jobs'[j] \in JobRecords
      /\ JobInv(jobs[j])'
      /\ jobs'[j].intent = i
  BY <1>1, <1>2, <1>3, NewJobInv
<1>7. ~Mutating(j)'
  BY <1>4, <1>6 DEF Mutating
<1>8. /\ lock' \in [Services -> KnownGoodRefs]
      /\ \A k \in Jobs \ {j} :
           OwnsService(k) /\ Mutating(k) => lock'[Service(k)] = k
  BY <1>1, LockKept
<1>9. drafts' \in [Jobs -> Drafts \cup {None}]
  BY <1>1 DEF RegistryInv, RegistryTypeOK
<1> QED BY <1>1, <1>6, <1>7, <1>8, <1>9, OneJobChanges

----------------------------------------------------------------------------
(* A transaction on an existing job.  It writes r; the job may cease to    *)
(* own its service but never comes to own one.                             *)
LEMMA UpdatedJobInv ==
  ASSUME RegistryInv, NEW j \in Jobs, Exists(j),
         jobs' = [jobs EXCEPT ![j] = jobs'[j]],
         jobs'[j] \in JobRecords,
         jobs'[j].intent = jobs[j].intent,
         JobInv(jobs[j])',
         drafts' = drafts, retired' = retired, tick' \in {tick, tick + 1},
         lock' \in [Services -> KnownGoodRefs],
         \A k \in Jobs \ {j} :
           OwnsService(k) /\ Mutating(k) => lock'[Service(k)] = k,
         OwnsService(j)' /\ Mutating(j) => lock'[Service(j)] = j
  PROVE  RegistryInv'
<1>1. drafts'[j] = None /\ drafts' \in [Jobs -> Drafts \cup {None}]
  BY DEF RegistryInv, RegistryTypeOK, DraftsFresh
<1>2. (Mutating(j)' <=> Mutating(j)) /\ Service(j)' = Service(j)
  BY DEF Mutating, Service
<1> QED BY <1>1, <1>2, OneJobChanges

(* Time passes for one job.                                                *)
LEMMA TimeInv ==
  ASSUME RegistryInv, NEW j \in Jobs, LeaseElapses(j) \/ BackoffPasses(j)
  PROVE  RegistryInv'
<1>1. /\ Exists(j) /\ JobInv(jobs[j]) /\ jobs[j] \in JobRecords
      /\ jobs \in [Jobs -> JobRecords \cup {None}]
      /\ UNCHANGED <<lock, drafts, retired, tick>>
  BY JobType DEF LeaseElapses, BackoffPasses, RegistryInv, JobsInv, RegistryTypeOK
<1>2. /\ jobs' = [jobs EXCEPT ![j] = jobs'[j]]
      /\ jobs'[j] \in JobRecords
      /\ jobs'[j].intent = jobs[j].intent
      /\ JobInv(jobs[j])'
      /\ OwnsService(j)' => OwnsService(j)
  <2>1. CASE LeaseElapses(j)
    <3>1. jobs' = [jobs EXCEPT ![j] = [jobs[j] EXCEPT !.lease = "expired"]]
          /\ jobs[j].lease = "live"
      BY <2>1 DEF LeaseElapses
    <3>2. jobs'[j] = [jobs[j] EXCEPT !.lease = "expired"]
      BY <1>1, <3>1
    <3>3. jobs'[j] \in JobRecords
      BY <1>1, <3>2 DEF JobRecords
    <3> QED BY <1>1, <3>1, <3>2, <3>3 DEF JobInv, JobRecords, OwnsService, Exists,
               Resolved, SafelyCancelled
  <2>2. CASE BackoffPasses(j)
    <3>1. jobs' = [jobs EXCEPT ![j] = [jobs[j] EXCEPT !.backoff = FALSE]]
      BY <2>2 DEF BackoffPasses
    <3>2. jobs'[j] = [jobs[j] EXCEPT !.backoff = FALSE]
      BY <1>1, <3>1
    <3>3. jobs'[j] \in JobRecords
      BY <1>1, <3>2 DEF JobRecords
    <3> QED BY <1>1, <3>1, <3>2, <3>3 DEF JobInv, JobRecords, OwnsService, Exists,
               Resolved, SafelyCancelled
  <2> QED BY <2>1, <2>2
<1>3. OwnsService(j)' /\ Mutating(j) => lock'[Service(j)] = j
  BY <1>1, <1>2 DEF RegistryInv, OwnerHoldsRow
<1> QED BY <1>1, <1>2, <1>3, LockKept, UpdatedJobInv

LEMMA ProgressInv ==
  ASSUME RegistryInv, NEW j \in Jobs, NEW token, NEW state \in RolloutStates, NEW m,
         ProgressImmutableDeployment(j, token, state, m)
  PROVE  RegistryInv'
<1> DEFINE st == IF IsTerminalRolloutState(state) THEN jobs[j].status ELSE state
           r  == [jobs[j] EXCEPT !.rstate = state, !.status = st]
<1>1. /\ Exists(j) /\ ~Resolved(j) /\ jobs[j].lease = "live"
      /\ JobInv(jobs[j]) /\ jobs[j] \in JobRecords
      /\ jobs \in [Jobs -> JobRecords \cup {None}]
      /\ UNCHANGED <<lock, drafts, retired, tick>>
  BY JobType DEF ProgressImmutableDeployment, HoldsLease, RegistryInv, JobsInv, RegistryTypeOK
<1>2. jobs' = [jobs EXCEPT ![j] = r]
  BY DEF ProgressImmutableDeployment
<1>3. st \in JobStatus /\ st \notin {"queued", "cancelled"}
  BY <1>1 DEF JobInv, JobRecords, JobStatus, RolloutStates
<1> HIDE DEF st
<1>4. jobs'[j] = r
  BY <1>1, <1>2
<1>5. r \in JobRecords
  BY <1>1, <1>3 DEF JobRecords
<1>6. /\ r.intent = jobs[j].intent /\ r.result = jobs[j].result
      /\ r.node = jobs[j].node /\ r.status = st /\ r.doneAt = jobs[j].doneAt
  BY <1>1 DEF JobRecords
<1> HIDE DEF r
<1>7. JobInv(jobs[j])'
  BY <1>1, <1>3, <1>4, <1>6 DEF JobInv, Resolved
<1>8. OwnsService(j)' => OwnsService(j)
  BY <1>1, <1>4, <1>6 DEF OwnsService, SafelyCancelled, JobInv
<1>9. OwnsService(j)' /\ Mutating(j) => lock'[Service(j)] = j
  BY <1>1, <1>8 DEF RegistryInv, OwnerHoldsRow
<1> QED BY <1>1, <1>2, <1>4, <1>5, <1>6, <1>7, <1>9, LockKept, UpdatedJobInv

LEMMA CompleteInv ==
  ASSUME RegistryInv, NEW j \in Jobs, NEW token, NEW res \in Results,
         CompleteDeployment(j, token, res)
  PROVE  RegistryInv'
<1> DEFINE r == [jobs[j] EXCEPT !.status = res.state, !.rstate = res.state,
                    !.result = res, !.lease = "none", !.backoff = FALSE,
                    !.exhausted = FALSE, !.doneAt = tick]
<1>1. /\ Exists(j) /\ jobs[j] \in JobRecords /\ Service(j) \in Services
      /\ jobs \in [Jobs -> JobRecords \cup {None}] /\ tick \in Nat
      /\ tick' = tick + 1 /\ lock' = Release(Service(j), j)
      /\ drafts' = drafts /\ retired' = retired
  BY JobType DEF CompleteDeployment, HoldsLease, RegistryInv, RegistryTypeOK
<1>2. jobs' = [jobs EXCEPT ![j] = r]
  BY DEF CompleteDeployment
<1>3. res.state \in RolloutStates /\ res # None
  BY RowAssumption DEF Results
<1>4. res.state \in FinalStates
  BY DEF CompleteDeployment, ValidResult, FinalStates
<1>5. jobs'[j] = r
  BY <1>1, <1>2
<1>6. r \in JobRecords
  BY <1>1, <1>3 DEF JobRecords, JobStatus
<1>7. /\ r.intent = jobs[j].intent /\ r.status = res.state /\ r.result = res
      /\ r.lease = "none" /\ r.backoff = FALSE /\ r.exhausted = FALSE
      /\ r.doneAt = tick
  BY <1>1 DEF JobRecords
<1> HIDE DEF r
<1>8. JobInv(jobs[j])'
  BY <1>1, <1>3, <1>4, <1>5, <1>7 DEF JobInv, FinalStates
<1>9. ~OwnsService(j)'
  BY <1>3, <1>5, <1>7 DEF OwnsService, Resolved
<1>10. /\ lock' \in [Services -> KnownGoodRefs]
       /\ \A k \in Jobs \ {j} :
            OwnsService(k) /\ Mutating(k) => lock'[Service(k)] = k
  BY <1>1, LockReleased
<1> QED BY <1>1, <1>2, <1>5, <1>6, <1>7, <1>8, <1>9, <1>10, UpdatedJobInv

LEMMA CancelInv ==
  ASSUME RegistryInv, NEW j \in Jobs, CancelDeployment(j)
  PROVE  RegistryInv'
<1> DEFINE r == [jobs[j] EXCEPT !.status = "cancelled", !.lease = "none", !.backoff = FALSE]
<1>1. /\ Exists(j) /\ ~Resolved(j) /\ JobInv(jobs[j]) /\ jobs[j] \in JobRecords
      /\ Service(j) \in Services
      /\ jobs[j].attempts = 0 /\ jobs[j].rstate = "prepared"
      /\ jobs \in [Jobs -> JobRecords \cup {None}]
      /\ UNCHANGED <<drafts, retired, tick>> /\ lock' = Release(Service(j), j)
  BY JobType DEF CancelDeployment, RegistryInv, JobsInv, RegistryTypeOK
<1>2. jobs' = [jobs EXCEPT ![j] = r]
  BY DEF CancelDeployment
<1>3. jobs'[j] = r
  BY <1>1, <1>2
<1>4. r \in JobRecords
  BY <1>1 DEF JobRecords, JobStatus
<1>5. /\ r.intent = jobs[j].intent /\ r.result = jobs[j].result
      /\ r.attempts = 0 /\ r.rstate = "prepared" /\ r.status = "cancelled"
      /\ r.lease = "none" /\ r.doneAt = jobs[j].doneAt
  BY <1>1 DEF JobRecords
<1> HIDE DEF r
<1>6. JobInv(jobs[j])'
  BY <1>1, <1>3, <1>5 DEF JobInv, Resolved
<1>7. ~OwnsService(j)'
  BY <1>3, <1>5 DEF OwnsService, SafelyCancelled
<1>8. /\ lock' \in [Services -> KnownGoodRefs]
      /\ \A k \in Jobs \ {j} :
           OwnsService(k) /\ Mutating(k) => lock'[Service(k)] = k
  BY <1>1, LockReleased
<1> QED BY <1>1, <1>2, <1>3, <1>4, <1>5, <1>6, <1>7, <1>8, UpdatedJobInv

LEMMA RetryInv ==
  ASSUME RegistryInv, NEW j \in Jobs, RetryDeployment(j)
  PROVE  RegistryInv'
<1> DEFINE window == jobs[j].attempts + MaxAttempts
           r == [jobs[j] EXCEPT !.status = "queued", !.lease = "none",
                   !.backoff = FALSE, !.exhausted = FALSE, !.max = window]
<1>1. /\ Exists(j) /\ ~Resolved(j) /\ JobInv(jobs[j]) /\ jobs[j] \in JobRecords
      /\ Service(j) \in Services /\ ServiceIsFree(Service(j), j)
      /\ jobs[j].attempts \in Nat
      /\ jobs \in [Jobs -> JobRecords \cup {None}]
      /\ UNCHANGED <<drafts, retired, tick>> /\ lock' = [lock EXCEPT ![Service(j)] = j]
  BY JobType DEF RetryDeployment, RegistryInv, JobsInv, RegistryTypeOK
<1>2. jobs' = [jobs EXCEPT ![j] = r]
  BY DEF RetryDeployment
<1>3. window \in Nat
  BY <1>1, RegistryAssumption
<1> HIDE DEF window
<1>4. jobs'[j] = r
  BY <1>1, <1>2
<1>5. r \in JobRecords
  BY <1>1, <1>3 DEF JobRecords, JobStatus
<1>6. /\ r.intent = jobs[j].intent /\ r.result = jobs[j].result
      /\ r.status = "queued" /\ r.lease = "none" /\ r.doneAt = jobs[j].doneAt
  BY <1>1 DEF JobRecords
<1> HIDE DEF r
<1>7. JobInv(jobs[j])'
  BY <1>1, <1>4, <1>6 DEF JobInv, Resolved
<1>8. /\ lock' \in [Services -> KnownGoodRefs]
      /\ lock'[Service(j)] = j
      /\ \A k \in Jobs \ {j} :
           OwnsService(k) /\ Mutating(k) => lock'[Service(k)] = k
  BY <1>1, LockTaken
<1> QED BY <1>1, <1>2, <1>4, <1>5, <1>6, <1>7, <1>8, UpdatedJobInv

LEMMA MarkNodeOfflineInv ==
  ASSUME RegistryInv, NEW n \in Nodes, MarkNodeOffline(n)
  PROVE  RegistryInv'
<1>1. retired' = retired \cup {n} /\ UNCHANGED <<jobs, lock, drafts, tick>>
  BY DEF MarkNodeOffline
<1>2. RegistryTypeOK' /\ JobsInv' /\ DraftsFresh'
  BY <1>1 DEF RegistryInv, RegistryTypeOK, JobsInv, JobInv, DraftsFresh, Exists
<1>3. OwnerHoldsRow'
  BY <1>1 DEF RegistryInv, OwnerHoldsRow, OwnsService, Exists, Resolved,
              SafelyCancelled, Service, Mutating
<1> QED BY <1>2, <1>3 DEF RegistryInv

----------------------------------------------------------------------------
(* Polls.  What expireDeploymentLeases makes of one job.                   *)
LEMMA AfterExpiryJob ==
  ASSUME RegistryInv, NEW k \in Jobs, Exists(k)
  PROVE  /\ AfterExpiry(k) \in JobRecords
         /\ AfterExpiry(k).intent = jobs[k].intent
         /\ AfterExpiry(k).node = jobs[k].node
         /\ AfterExpiry(k).result = jobs[k].result
         /\ AfterExpiry(k).attempts = jobs[k].attempts
         /\ AfterExpiry(k).rstate = jobs[k].rstate
         /\ AfterExpiry(k).doneAt = jobs[k].doneAt
         /\ AfterExpiry(k).status = "cancelled" <=> jobs[k].status = "cancelled"
         /\ jobs[k].result # None => AfterExpiry(k) = jobs[k]
         /\ jobs[k].lease = "live" => AfterExpiry(k) = jobs[k]
         /\ JobInv(AfterExpiry(k))
<1>1. JobInv(jobs[k]) /\ jobs[k] \in JobRecords
  BY JobType DEF RegistryInv, JobsInv
<1>2. CASE ~LeaseLapsed(k)
  BY <1>1, <1>2 DEF AfterExpiry
<1>3. CASE LeaseLapsed(k)
  <2>1. jobs[k].lease = "expired" /\ jobs[k].result = None /\ jobs[k].status # "cancelled"
    BY <1>1, <1>3 DEF LeaseLapsed, JobInv
  <2>2. CASE jobs[k].attempts >= jobs[k].max
    <3>1. AfterExpiry(k) = [jobs[k] EXCEPT !.status = "failed", !.lease = "none",
                                           !.backoff = FALSE, !.exhausted = TRUE]
      BY <1>3, <2>2 DEF AfterExpiry
    <3> QED BY <1>1, <2>1, <3>1 DEF JobRecords, JobStatus, RolloutStates, JobInv
  <2>3. CASE ~(jobs[k].attempts >= jobs[k].max)
    <3> DEFINE st == IF jobs[k].intent.op = "rollback" THEN "rolling_back" ELSE "queued"
    <3>1. AfterExpiry(k) = [jobs[k] EXCEPT !.lease = "none", !.backoff = TRUE, !.status = st]
      BY <1>3, <2>3 DEF AfterExpiry
    <3>2. st \in JobStatus /\ st # "cancelled"
      BY DEF JobStatus, RolloutStates
    <3> HIDE DEF st
    <3> QED BY <1>1, <2>1, <3>1, <3>2 DEF JobRecords, JobInv
  <2> QED BY <2>2, <2>3
<1> QED BY <1>2, <1>3

(* Renewing the rows of lapsed leases, when it does not abort, leaves the  *)
(* row of every owner with the owner.                                      *)
LEMMA LocksRenewed ==
  ASSUME RegistryInv, ~ExpiryBlocked
  PROVE  /\ LocksAfterExpiry \in [Services -> KnownGoodRefs]
         /\ \A k \in Jobs : OwnsService(k) /\ Mutating(k) =>
                              LocksAfterExpiry[Service(k)] = k
<1>1. lock \in [Services -> KnownGoodRefs]
  BY DEF RegistryInv, RegistryTypeOK
<1>2. ASSUME NEW s \in Services
      PROVE  \/ LocksAfterExpiry[s] = lock[s]
             \/ \E j \in Jobs : /\ LeaseLapsed(j) /\ Service(j) = s
                               /\ LocksAfterExpiry[s] = j
  BY DEF LocksAfterExpiry
<1>3. LocksAfterExpiry \in [Services -> KnownGoodRefs]
  <2>1. \A s \in Services : LocksAfterExpiry[s] \in KnownGoodRefs
    BY <1>1, <1>2 DEF KnownGoodRefs
  <2> QED BY <2>1 DEF LocksAfterExpiry
<1>4. ASSUME NEW k \in Jobs, OwnsService(k), Mutating(k)
      PROVE  LocksAfterExpiry[Service(k)] = k
  <2>1. lock[Service(k)] = k /\ Service(k) \in Services
    BY <1>4, JobType DEF RegistryInv, OwnerHoldsRow, OwnsService
  <2>2. \A j \in Jobs : LeaseLapsed(j) /\ Service(j) = Service(k) => k \in {None, j}
    BY <2>1 DEF ExpiryBlocked
  <2>3. k # None
    BY ProtocolAssumption
  <2> QED BY <1>2, <2>1, <2>2, <2>3
<1> QED BY <1>3, <1>4

LEMMA SuccessorIsNatural == \A a \in Nat : a + 1 \in Nat
OBVIOUS

LEMMA PollInv ==
  ASSUME RegistryInv, ~ExpiryBlocked, NEW leased \in SUBSET Jobs,
         \A k \in leased : Exists(k) /\ AfterExpiry(k).status \in {"queued", "rolling_back"},
         jobs' = [k \in Jobs |->
                    IF k \in leased
                      THEN [AfterExpiry(k) EXCEPT !.status = "leased", !.lease = "live",
                              !.attempts = @ + 1, !.backoff = FALSE]
                      ELSE AfterExpiry(k)],
         lock' = LocksAfterExpiry,
         UNCHANGED <<drafts, retired, tick>>
  PROVE  RegistryInv'
<1>1. \A k \in Jobs : ~Exists(k) => jobs'[k] = None
  <2>1. \A k \in Jobs : ~Exists(k) => AfterExpiry(k) = None
    BY DEF AfterExpiry, LeaseLapsed, Exists
  <2> QED BY <2>1
<1>2. ASSUME NEW k \in Jobs, Exists(k)
      PROVE  /\ jobs'[k] \in JobRecords
             /\ jobs'[k].intent = jobs[k].intent
             /\ jobs'[k].node = jobs[k].node
             /\ jobs'[k].result = jobs[k].result
             /\ SafelyCancelled(k) => SafelyCancelled(k)'
             /\ JobInv(jobs[k])'
  <2>1. JobInv(jobs[k]) /\ JobInv(AfterExpiry(k)) /\ AfterExpiry(k) \in JobRecords
        /\ AfterExpiry(k).attempts \in Nat
    BY <1>2, AfterExpiryJob, JobType DEF RegistryInv, JobsInv
  <2>2. CASE k \notin leased
    <3>1. jobs'[k] = AfterExpiry(k)
      BY <2>2
    <3>2. /\ AfterExpiry(k).intent = jobs[k].intent
          /\ AfterExpiry(k).node = jobs[k].node
          /\ AfterExpiry(k).result = jobs[k].result
          /\ AfterExpiry(k).attempts = jobs[k].attempts
          /\ AfterExpiry(k).rstate = jobs[k].rstate
          /\ AfterExpiry(k).status = "cancelled" <=> jobs[k].status = "cancelled"
      BY <1>2, AfterExpiryJob
    <3>3. SafelyCancelled(k) => SafelyCancelled(k)'
      BY <3>1, <3>2 DEF SafelyCancelled
    <3>4. JobInv(jobs[k])'
      BY <2>1, <3>1 DEF JobInv
    <3> QED BY <2>1, <3>1, <3>2, <3>3, <3>4
  <2>3. CASE k \in leased
    <3> DEFINE n == AfterExpiry(k).attempts + 1
               r == [AfterExpiry(k) EXCEPT !.status = "leased", !.lease = "live",
                                           !.attempts = n, !.backoff = FALSE]
    <3>1. jobs'[k] = r
      BY <2>3
    <3>2. AfterExpiry(k).status \in {"queued", "rolling_back"}
      BY <2>3
    <3>3. AfterExpiry(k).result = None
      BY <2>1, <3>2 DEF JobInv, FinalStates
    <3>4. n \in Nat
      BY <2>1, SuccessorIsNatural
    <3> HIDE DEF n
    <3>5. r \in JobRecords
      BY <2>1, <3>4 DEF JobRecords, JobStatus
    <3>6. /\ r.intent = AfterExpiry(k).intent /\ r.node = AfterExpiry(k).node
          /\ r.result = None /\ r.status = "leased"
          /\ r.doneAt = AfterExpiry(k).doneAt
      BY <2>1, <3>3 DEF JobRecords
    <3> HIDE DEF r
    <3>7. JobInv(jobs[k])'
      BY <2>1, <3>1, <3>6 DEF JobInv
    <3>8. ~SafelyCancelled(k)
      BY <1>2, <3>2, AfterExpiryJob DEF SafelyCancelled
    <3> QED BY <1>2, <3>1, <3>3, <3>5, <3>6, <3>7, <3>8, AfterExpiryJob
  <2> QED BY <2>2, <2>3
<1>3. \A k \in Jobs : Exists(k)' <=> Exists(k)
  BY <1>1, <1>2, RowAssumption DEF Exists
<1>4. \A k \in Jobs : OwnsService(k)' /\ Mutating(k)' =>
        OwnsService(k) /\ Mutating(k) /\ Service(k)' = Service(k)
  <2> SUFFICES ASSUME NEW k \in Jobs, OwnsService(k)', Mutating(k)'
               PROVE  OwnsService(k) /\ Mutating(k) /\ Service(k)' = Service(k)
    OBVIOUS
  <2>1. Exists(k) /\ ~Resolved(k)' /\ ~SafelyCancelled(k)' /\ jobs'[k].node \notin retired
    BY <1>3 DEF OwnsService
  <2> QED BY <1>2, <2>1 DEF OwnsService, Mutating, Service, Resolved
<1>5. RegistryTypeOK'
  <2>1. \A k \in Jobs : jobs'[k] \in JobRecords \cup {None}
    BY <1>1, <1>2
  <2>2. jobs' \in [Jobs -> JobRecords \cup {None}]
    BY <2>1
  <2> QED BY <2>2, LocksRenewed DEF RegistryInv, RegistryTypeOK
<1>6. JobsInv' /\ DraftsFresh'
  BY <1>2, <1>3 DEF RegistryInv, JobsInv, DraftsFresh
<1>7. OwnerHoldsRow'
  BY <1>4, LocksRenewed DEF OwnerHoldsRow
<1> QED BY <1>5, <1>6, <1>7 DEF RegistryInv

LEMMA LeaseDeploymentInv ==
  ASSUME RegistryInv, NEW n \in Nodes, NEW j \in Jobs, LeaseDeployment(n, j)
  PROVE  RegistryInv'
<1>1. Exists(j) /\ AfterExpiry(j).status \in {"queued", "rolling_back"}
  BY DEF LeaseDeployment, Leasable
<1>2. jobs' = [k \in Jobs |->
                 IF k \in {j}
                   THEN [AfterExpiry(k) EXCEPT !.status = "leased", !.lease = "live",
                           !.attempts = @ + 1, !.backoff = FALSE]
                   ELSE AfterExpiry(k)]
  BY DEF LeaseDeployment
<1> QED BY <1>1, <1>2, PollInv DEF LeaseDeployment

LEMMA ExpireDeploymentLeasesInv ==
  ASSUME RegistryInv, NEW n \in Nodes, ExpireDeploymentLeases(n)
  PROVE  RegistryInv'
<1>1. jobs' = [k \in Jobs |->
                 IF k \in {}
                   THEN [AfterExpiry(k) EXCEPT !.status = "leased", !.lease = "live",
                           !.attempts = @ + 1, !.backoff = FALSE]
                   ELSE AfterExpiry(k)]
  BY DEF ExpireDeploymentLeases
<1>2. /\ ~ExpiryBlocked /\ lock' = LocksAfterExpiry
      /\ UNCHANGED <<drafts, retired, tick>>
  BY DEF ExpireDeploymentLeases
<1>3. {} \in SUBSET Jobs
  OBVIOUS
<1> QED BY <1>1, <1>2, <1>3, PollInv

----------------------------------------------------------------------------
LEMMA RegistryInitInv == RegistryInit => RegistryInv
<1> SUFFICES ASSUME RegistryInit PROVE RegistryInv
  OBVIOUS
<1>1. \A j \in Jobs : ~Exists(j)
  BY DEF RegistryInit, Exists
<1>2. RegistryTypeOK
  BY DEF RegistryInit, RegistryTypeOK, KnownGoodRefs
<1>3. JobsInv /\ DraftsFresh /\ OwnerHoldsRow
  BY <1>1 DEF JobsInv, DraftsFresh, OwnerHoldsRow, OwnsService
<1> QED BY <1>2, <1>3 DEF RegistryInv

LEMMA RegistryStepInv == RegistryInv /\ [RegistryNext]_registryVars => RegistryInv'
<1> SUFFICES ASSUME RegistryInv, [RegistryNext]_registryVars PROVE RegistryInv'
  OBVIOUS
<1>1. CASE Request
  <2>1. CASE \E j \in Jobs, t \in Targets, n \in Nodes : ReadKnownGood(j, t, n)
    BY <2>1, ReadKnownGoodInv
  <2>2. CASE \E j \in Jobs : StartImmutableDeployment(j)
    BY <2>2, StartImmutableDeploymentInv
  <2>3. CASE \E j, source \in Jobs : RollbackDeployment(j, source)
    BY <2>3, RollbackDeploymentInv
  <2>4. CASE \E j, base \in Jobs, op \in CleanupOperations : StartCleanupJob(j, base, op)
    BY <2>4, StartCleanupJobInv
  <2>5. CASE \E j \in Jobs : CancelDeployment(j)
    BY <2>5, CancelInv
  <2>6. CASE \E j \in Jobs : RetryDeployment(j)
    BY <2>6, RetryInv
  <2>7. CASE \E n \in Nodes : MarkNodeOffline(n)
    BY <2>7, MarkNodeOfflineInv
  <2> QED BY <1>1, <2>1, <2>2, <2>3, <2>4, <2>5, <2>6, <2>7 DEF Request
<1>2. CASE TimePasses
  BY <1>2, TimeInv DEF TimePasses
<1>3. CASE Poll
  BY <1>3, LeaseDeploymentInv, ExpireDeploymentLeasesInv DEF Poll
<1>4. CASE Report
  <2>1. PICK j \in Jobs, token \in 1..AttemptBound :
          \/ \E state \in RolloutStates, m \in BOOLEAN :
               ProgressImmutableDeployment(j, token, state, m)
          \/ \E r \in ReportableResults(j) : CompleteDeployment(j, token, r)
    BY <1>4 DEF Report
  <2>2. CASE \E state \in RolloutStates, m \in BOOLEAN :
               ProgressImmutableDeployment(j, token, state, m)
    BY <2>2, ProgressInv
  <2>3. CASE \E r \in ReportableResults(j) : CompleteDeployment(j, token, r)
    BY <2>3, CompleteInv DEF ReportableResults
  <2> QED BY <2>1, <2>2, <2>3
<1>5. CASE UNCHANGED registryVars
  <2>1. RegistryTypeOK' /\ JobsInv' /\ DraftsFresh'
    BY <1>5 DEF registryVars, RegistryInv, RegistryTypeOK, JobsInv, JobInv, DraftsFresh,
                Exists
  <2>2. OwnerHoldsRow'
    BY <1>5 DEF registryVars, RegistryInv, OwnerHoldsRow, OwnsService, Exists, Resolved,
                SafelyCancelled, Service, Mutating
  <2> QED BY <2>1, <2>2 DEF RegistryInv
<1> QED BY <1>1, <1>2, <1>3, <1>4, <1>5 DEF RegistryNext

LEMMA RegistryInvariance == RegistrySpec => []RegistryInv
BY RegistryInitInv, RegistryStepInv, PTL DEF RegistrySpec

(* The tables keep their types, the known-good reference a deployment is   *)
(* created with included.                                                  *)
THEOREM RegistryTypes == RegistrySpec => []RegistryTypeOK
<1>1. RegistryInv => RegistryTypeOK
  BY DEF RegistryInv
<1> QED BY <1>1, RegistryInvariance, PTL

(* The rollout that owns a service holds its row in                        *)
(* service_deployment_locks.                                               *)
THEOREM OwnerHoldsItsRow == RegistrySpec => []OwnerHoldsRow
<1>1. RegistryInv => OwnerHoldsRow
  BY DEF RegistryInv
<1> QED BY <1>1, RegistryInvariance, PTL

(* One unresolved rollout at most may change a service: two owners would   *)
(* both hold its only lock row.                                            *)
THEOREM SoleOwnership == RegistrySpec => []SoleOwner
<1>1. RegistryInv => SoleOwner
  <2> SUFFICES ASSUME RegistryInv, NEW j \in Jobs, NEW k \in Jobs,
                      OwnsService(j), Mutating(j), OwnsService(k), Mutating(k),
                      Service(j) = Service(k)
               PROVE  j = k
    BY DEF SoleOwner
  <2> QED BY DEF RegistryInv, OwnerHoldsRow
<1> QED BY <1>1, RegistryInvariance, PTL

(* A cancelled job was never handed to an Agent and never will be.         *)
THEOREM CancelIsSafe == RegistrySpec => []CancelledNeverRuns
<1>1. RegistryInv => CancelledNeverRuns
  BY DEF RegistryInv, JobsInv, JobInv, CancelledNeverRuns, Resolved
<1> QED BY <1>1, RegistryInvariance, PTL

----------------------------------------------------------------------------
(* What one step may do to an existing job x, resolved or under a live     *)
(* lease: no transaction but a report or a poll writes it.                 *)
LEMMA RequestsSpare ==
  ASSUME RegistryInv, Request \/ TimePasses, NEW x \in Jobs, Exists(x)
  PROVE  /\ Resolved(x) => jobs'[x] = jobs[x]
         /\ jobs[x].lease = "live" => jobs'[x].attempts = jobs[x].attempts
<1>1. /\ jobs \in [Jobs -> JobRecords \cup {None}] /\ JobInv(jobs[x])
      /\ jobs[x] \in JobRecords
  BY JobType DEF RegistryInv, RegistryTypeOK, JobsInv
<1>2. ASSUME NEW j \in Jobs, NEW t \in Targets, NEW n \in Nodes, ReadKnownGood(j, t, n)
      PROVE  jobs'[x] = jobs[x]
  BY <1>2 DEF ReadKnownGood
<1>3. ASSUME NEW j \in Jobs, StartImmutableDeployment(j)
      PROVE  jobs'[x] = jobs[x]
  <2>1. ~Exists(j)
    BY <1>3 DEF StartImmutableDeployment, RegistryInv, DraftsFresh
  <2>2. CASE UNCHANGED jobs
    BY <2>2
  <2>3. CASE ~UNCHANGED jobs
    BY <1>1, <1>3, <2>1, <2>3 DEF StartImmutableDeployment, Insert
  <2> QED BY <2>2, <2>3
<1>4. ASSUME NEW j \in Jobs, NEW source \in Jobs, RollbackDeployment(j, source)
      PROVE  jobs'[x] = jobs[x]
  BY <1>1, <1>4 DEF RollbackDeployment, Insert
<1>5. ASSUME NEW j \in Jobs, NEW base \in Jobs, NEW op \in CleanupOperations,
             StartCleanupJob(j, base, op)
      PROVE  jobs'[x] = jobs[x]
  BY <1>1, <1>5 DEF StartCleanupJob, Insert
<1>6. ASSUME NEW j \in Jobs, CancelDeployment(j)
      PROVE  /\ Resolved(x) => jobs'[x] = jobs[x]
             /\ jobs'[x].attempts = jobs[x].attempts
  BY <1>1, <1>6 DEF CancelDeployment, JobRecords
<1>7. ASSUME NEW j \in Jobs, RetryDeployment(j)
      PROVE  /\ Resolved(x) => jobs'[x] = jobs[x]
             /\ jobs'[x].attempts = jobs[x].attempts
  BY <1>1, <1>7 DEF RetryDeployment, JobRecords
<1>8. ASSUME NEW n \in Nodes, MarkNodeOffline(n)
      PROVE  jobs'[x] = jobs[x]
  BY <1>8 DEF MarkNodeOffline
<1>9. ASSUME NEW j \in Jobs, LeaseElapses(j)
      PROVE  /\ Resolved(x) => jobs'[x] = jobs[x]
             /\ jobs'[x].attempts = jobs[x].attempts
  BY <1>1, <1>9 DEF LeaseElapses, JobRecords, JobInv, Resolved
<1>10. ASSUME NEW j \in Jobs, BackoffPasses(j)
       PROVE  /\ Resolved(x) => jobs'[x] = jobs[x]
              /\ jobs'[x].attempts = jobs[x].attempts
  BY <1>1, <1>10 DEF BackoffPasses, JobRecords, JobInv, Resolved
<1>11. CASE Request
  BY <1>2, <1>3, <1>4, <1>5, <1>6, <1>7, <1>8, <1>11 DEF Request
<1>12. CASE TimePasses
  BY <1>9, <1>10, <1>12 DEF TimePasses
<1> QED BY <1>11, <1>12

LEMMA PollsSpare ==
  ASSUME RegistryInv, Poll, NEW x \in Jobs, Exists(x)
  PROVE  /\ Resolved(x) => jobs'[x] = jobs[x]
         /\ jobs[x].lease = "live" /\ jobs[x].status # "rolling_back" =>
              jobs'[x].attempts = jobs[x].attempts
<1>1. JobInv(jobs[x])
  BY DEF RegistryInv, JobsInv
<1>2. Resolved(x) \/ jobs[x].lease = "live" => AfterExpiry(x) = jobs[x]
  BY AfterExpiryJob DEF Resolved
<1>3. ASSUME NEW n \in Nodes, ExpireDeploymentLeases(n)
      PROVE  jobs'[x] = AfterExpiry(x)
  BY <1>3 DEF ExpireDeploymentLeases
<1>4. ASSUME NEW n \in Nodes, NEW j \in Jobs, LeaseDeployment(n, j), j # x
      PROVE  jobs'[x] = AfterExpiry(x)
  BY <1>4 DEF LeaseDeployment
<1>5. ASSUME NEW n \in Nodes, LeaseDeployment(n, x)
      PROVE  AfterExpiry(x).status \in {"queued", "rolling_back"}
  BY <1>5 DEF LeaseDeployment, Leasable
<1>6. ASSUME NEW n \in Nodes, LeaseDeployment(n, x)
      PROVE  ~Resolved(x) /\ ~(jobs[x].lease = "live" /\ jobs[x].status # "rolling_back")
  BY <1>1, <1>2, <1>5, <1>6 DEF JobInv, Resolved, FinalStates
<1> QED BY <1>2, <1>3, <1>4, <1>6 DEF Poll

LEMMA ReportsSpare ==
  ASSUME RegistryInv, Report, NEW x \in Jobs, Exists(x)
  PROVE  /\ Resolved(x) => jobs'[x] = jobs[x]
         /\ jobs'[x].attempts = jobs[x].attempts
<1>1. jobs \in [Jobs -> JobRecords \cup {None}] /\ jobs[x] \in JobRecords
  BY JobType DEF RegistryInv, RegistryTypeOK
<1>2. PICK j \in Jobs, token \in 1..AttemptBound :
        \/ \E state \in RolloutStates, m \in BOOLEAN :
             ProgressImmutableDeployment(j, token, state, m)
        \/ \E r \in ReportableResults(j) : CompleteDeployment(j, token, r)
  BY DEF Report
<1>3. ASSUME NEW state, NEW m, ProgressImmutableDeployment(j, token, state, m)
      PROVE  ~Resolved(j) /\ jobs'[x].attempts = jobs[x].attempts
             /\ (x # j => jobs'[x] = jobs[x])
  BY <1>1, <1>3 DEF ProgressImmutableDeployment, HoldsLease, JobRecords
<1>4. ASSUME NEW r, CompleteDeployment(j, token, r)
      PROVE  ~Resolved(j) /\ jobs'[x].attempts = jobs[x].attempts
             /\ (x # j => jobs'[x] = jobs[x])
  BY <1>1, <1>4 DEF CompleteDeployment, HoldsLease, JobRecords
<1> QED BY <1>2, <1>3, <1>4

(* An accepted result is final: no late report, poll, lease expiry, retry  *)
(* or cancellation changes anything of a resolved job.                     *)
THEOREM ResultIsFinal == RegistrySpec => TerminalResultIsFinal
<1>1. RegistryInv /\ [RegistryNext]_registryVars =>
        [\A j \in Jobs : Exists(j) /\ Resolved(j) => jobs'[j] = jobs[j]]_registryVars
  BY RequestsSpare, PollsSpare, ReportsSpare DEF RegistryNext
<1> QED BY <1>1, RegistryInvariance, PTL DEF RegistrySpec, TerminalResultIsFinal

(* No poll takes a job from the Agent whose lease on it is live, unless    *)
(* that Agent reported it as rolling back.                                 *)
THEOREM LeaseIsKept == RegistrySpec => NoLeaseTheft
<1>1. RegistryInv /\ [RegistryNext]_registryVars =>
        [\A j \in Jobs :
           /\ Exists(j)
           /\ jobs[j].lease = "live"
           /\ jobs[j].status # "rolling_back"
           => jobs'[j].attempts = jobs[j].attempts]_registryVars
  BY RequestsSpare, PollsSpare, ReportsSpare DEF RegistryNext
<1> QED BY <1>1, RegistryInvariance, PTL DEF RegistrySpec, NoLeaseTheft
=============================================================================
