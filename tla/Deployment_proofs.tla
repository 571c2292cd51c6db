------------------------- MODULE Deployment_proofs -------------------------
(***************************************************************************)
(* Proofs about Cloud and one Agent together.  The engine's part and the   *)
(* registry's keep the invariants of their own modules; DeployInv adds     *)
(* what ties them: the Agent's log and Cloud's rows speak of the same      *)
(* jobs, a result on its way or accepted says what the log says, Cloud's   *)
(* view of a rollout lags the log, and the known-good reference Cloud      *)
(* would read is the Agent's pointer but for a rollout not yet reported.   *)
(* A failed secret delivery may report a recorded rollout as one that      *)
(* never started: what is said of results and references excepts it.       *)
(***************************************************************************)
EXTENDS Deployment, KnownGood_proofs, DeploymentRegistry_proofs

(* The engine's own invariants and those of the registry.                  *)
AgentInv == EngineInv /\ HistoryInv /\ RepairIdle /\ RuntimeInv

LeaseInOrder(j) ==
  Exists(j) /\ jobs[j].lease = "live" =>
    LeaseActive(j) /\ jobs[j].attempts \in 1..AttemptBound

LeasesActive == \A j \in Jobs : LeaseInOrder(j)

(* Results are stamped one after another.                                  *)
StampsApart ==
  \A j, k \in Jobs :
    Exists(j) /\ Resolved(j) /\ Exists(k) /\ Resolved(k)
    /\ jobs[j].doneAt = jobs[k].doneAt => j = k

CloudInv == RegistryInv /\ retired = {} /\ LeasesActive /\ StampsApart

(* A rollout the log knows is of a job Cloud has leased, with its intent.  *)
LoggedJobs ==
  \A j \in Jobs : Recorded(j) =>
    Exists(j) /\ wal[j].intent = jobs[j].intent /\ jobs[j].attempts > 0

(* What result r of job j says is so; once so, it stays so.                *)
Factual(j, r) ==
  /\ r \in Results /\ r.known \in {None, j, jobs[j].intent.previous}
  /\ IF r.phase = "pre_mutation"
       THEN /\ r.state = "failed"
            /\ Recorded(j) => wal[j].error = "cancelled" \/ j \in unread
       ELSE Terminal(j) /\ wal[j].state = r.state
  /\ r.state \in {"succeeded", "cleaned"} => r.phase = "none"
  /\ r.state = "succeeded" => r.known = j
  /\ r.state = "cleaned" =>
       r.known = None /\ jobs[j].intent.op \in CleanupOperations
  /\ r.state = "rolled_back" => r.known = jobs[j].intent.previous /\ r.known # None
  /\ r.state \in {"succeeded", "rolled_back", "cleaned"} => r.materialized

ResultsFactual ==
  \A j \in Jobs : Exists(j) /\ Resolved(j) => Factual(j, jobs[j].result)

(* The snapshots Cloud names in an intent, issued or in preparation, are   *)
(* of rollouts that succeeded on the target.                               *)
Deployed(k, t) ==
  k \in Jobs /\ Recorded(k) /\ wal[k].state = "succeeded" /\ Target(k) = t

Grounded(i) ==
  /\ IssuedByCloud(i)
  /\ i.previous # None => Deployed(i.previous, i.target)
  /\ i.op = "rollback" => i.expected \in Jobs

Issued ==
  /\ \A j \in Jobs : Exists(j) => Grounded(jobs[j].intent)
  /\ \A j \in Jobs : drafts[j] # None /\ drafts[j].previous # None =>
       Deployed(drafts[j].previous, drafts[j].target)

(* What the engine hands back.                                             *)
OutcomeInv ==
  eng.pc = "returned" =>
    /\ eng.out = "record" => Terminal(eng.job)
    /\ eng.out = "refused" => ~Recorded(eng.job)

(* The lease in hand.  The engine is the runner's while it calls it.       *)
Hands ==
  [pc: {"idle", "lease", "call", "engine", "report", "stopping"},
   job: KnownGoodRefs, token: Nat, calls: Nat, posts: Nat, unsent: BOOLEAN,
   emitted: BOOLEAN, result: Results \cup {None}]

HandInv ==
  /\ run \in Hands
  /\ run.pc # "idle" =>
       run.job \in Jobs /\ Exists(run.job) /\ jobs[run.job].attempts > 0
  /\ run.pc \in {"lease", "call", "engine", "stopping"} => ~Resolved(run.job)
  /\ run.pc \in {"lease", "call", "report"} => eng.pc = "idle"
  /\ run.pc = "engine" =>
       eng.pc \in {"running", "applied", "returned"} /\ eng.job = run.job
  /\ run.pc = "engine" /\ eng.pc # "returned" => Recorded(run.job)
  /\ run.pc = "stopping" => eng.pc = "returned"
  /\ run.pc \in {"engine", "stopping"} => ~eng.boot
  /\ run.unsent => run.pc = "engine" /\ Recorded(run.job)
  /\ run.pc = "report" => Factual(run.job, run.result)

(* A report on its way is of a state the rollout has been through.         *)
BeatInv ==
  beat # None =>
    /\ beat.job \in Jobs /\ Recorded(beat.job)
    /\ beat.state \in RolloutStates /\ beat.materialized \in BOOLEAN
    /\ CanCompleteRollout(beat.state, wal[beat.job].state)

(* A rollout that moved the pointer and has not been reported: until it    *)
(* is, the Agent's pointer says what Cloud will read.  All this is of the  *)
(* targets about whose rollouts Cloud was not misled.                      *)
Landed(j) ==
  /\ Exists(j) /\ ~Resolved(j)
  /\ Terminal(j) /\ wal[j].state \in {"succeeded", "rolled_back"}

LandedAt(j) == IF wal[j].state = "succeeded" THEN j ELSE Previous(j)

MisledAt(t) == \E j \in Jobs : Misled(j) /\ jobs[j].intent.target = t

PointerAt(t) ==
  /\ \A j \in Jobs : Landed(j) /\ Target(j) = t => current[t] = LandedAt(j)
  /\ \/ \E j \in Jobs : Landed(j) /\ Target(j) = t
     \/ LatestKnownGood(t, Node) = current[t]

PointerInv == \A t \in Targets \ PreviewTargets : MisledAt(t) \/ PointerAt(t)

LinkInv ==
  /\ LoggedJobs /\ ResultsFactual /\ Issued /\ OutcomeInv /\ HandInv
  /\ BeatInv /\ CloudNeverAhead /\ PointerInv

DeployInv == AgentInv /\ CloudInv /\ LinkInv

----------------------------------------------------------------------------
(* A path of transitions can be prolonged.                                 *)
LEMMA CompletesOn ==
  ASSUME NEW a \in RolloutStates, NEW b \in RolloutStates, NEW c \in RolloutStates,
         CanCompleteRollout(a, b), CanCompleteRollout(b, c)
  PROVE  CanCompleteRollout(a, c)
<1>1. CASE a = b \/ b = c
  BY <1>1
<1>2. CASE a # b /\ b # c
  <2>1. b \in Descendants[a] /\ c \in Descendants[b]
    BY <1>2 DEF CanCompleteRollout
  <2>2. ASSUME NEW C \in SUBSET RolloutStates, AllowedTransitions[a] \subseteq C, Closed(C)
        PROVE  c \in C
    <3>1. b \in C
      BY <2>1, <2>2 DEF Descendants
    <3>2. AllowedTransitions[b] \subseteq C
      BY <2>2, <3>1 DEF Closed
    <3> QED BY <2>1, <2>2, <3>2 DEF Descendants
  <2> QED BY <2>2 DEF CanCompleteRollout, Descendants
<1> QED BY <1>1, <1>2

LEMMA TransitionCompletes ==
  ASSUME NEW a \in RolloutStates, NEW b \in RolloutStates, CanTransitionRollout(a, b)
  PROVE  CanCompleteRollout(a, b)
BY DEF CanTransitionRollout, CanCompleteRollout, Descendants

----------------------------------------------------------------------------
(* What any step may do to the Agent's log: a record follows its state     *)
(* machine and is final once terminal, and the only new one is that of the *)
(* lease the runner calls the engine for.  A record left unread stays so.  *)
LogStep ==
  /\ unread \subseteq unread'
  /\ \A k \in Jobs :
       IF Recorded(k)
         THEN /\ Recorded(k)' /\ wal'[k].intent = wal[k].intent
              /\ Terminal(k) => wal'[k] = wal[k]
              /\ CanCompleteRollout(wal[k].state, wal'[k].state)
         ELSE Recorded(k)' =>
                /\ k = run.job /\ run.pc \in {"lease", "call"}
                /\ wal'[k].intent = jobs[k].intent /\ wal'[k].state = "prepared"

(* What any step may do to Cloud's rows.                                   *)
RowKept(x) ==
  /\ Exists(x)'
  /\ jobs'[x].intent = jobs[x].intent /\ jobs'[x].node = jobs[x].node
  /\ jobs[x].attempts > 0 => jobs'[x].attempts > 0
  /\ IF Resolved(x)
       THEN jobs'[x] = jobs[x]
       ELSE Resolved(x)' => Factual(x, jobs'[x].result) /\ run.job = x /\ run.pc = "report"
  /\ \/ jobs'[x].rstate = jobs[x].rstate
     \/ Resolved(x)'
     \/ Recorded(x) /\ CanCompleteRollout(jobs'[x].rstate, wal[x].state)

RowFresh(x) ==
  Exists(x)' => jobs'[x].result = None /\ jobs'[x].rstate = "prepared"

RowStep == \A x \in Jobs : IF Exists(x) THEN RowKept(x) ELSE RowFresh(x)

LEMMA LogStutters ==
  ASSUME UNCHANGED wal, unread \subseteq unread'
  PROVE  LogStep
BY DEF LogStep, Recorded, CanCompleteRollout

LEMMA RowsStutter ==
  ASSUME UNCHANGED jobs
  PROVE  RowStep
BY DEF RowStep, RowKept, RowFresh, Exists, Resolved

LEMMA LoggedJobsKept ==
  ASSUME LoggedJobs, HandInv, LogStep, RowStep
  PROVE  LoggedJobs'
<1> SUFFICES ASSUME NEW j \in Jobs, Recorded(j)'
             PROVE  (Exists(j) /\ wal[j].intent = jobs[j].intent /\ jobs[j].attempts > 0)'
  BY DEF LoggedJobs
<1>1. Exists(j) /\ jobs[j].attempts > 0 /\ wal'[j].intent = jobs[j].intent
  <2>1. CASE Recorded(j)
    BY <2>1 DEF LoggedJobs, LogStep
  <2>2. CASE ~Recorded(j)
    BY <2>2 DEF LogStep, HandInv
  <2> QED BY <2>1, <2>2
<1> QED BY <1>1 DEF RowStep, RowKept

(* A result that is so stays so, unless its job is about to be started.    *)
LEMMA FactualKept ==
  ASSUME LogInv, LogStep, RowStep, NEW j \in Jobs, NEW r, Exists(j), Factual(j, r),
         ~(j = run.job /\ run.pc \in {"lease", "call"})
  PROVE  Factual(j, r)'
<1>1. jobs'[j].intent = jobs[j].intent
  BY DEF RowStep, RowKept
<1>2. Terminal(j) => Terminal(j)' /\ wal'[j] = wal[j]
  BY DEF LogStep, Terminal, Recorded
<1>3. Recorded(j) /\ wal[j].error = "cancelled" => wal'[j] = wal[j]
  BY <1>2 DEF LogInv, LogRecord
<1>4. (Recorded(j)' => Recorded(j)) /\ (j \in unread => j \in unread')
  BY DEF LogStep
<1>5. CASE r.phase = "pre_mutation"
  BY <1>1, <1>3, <1>4, <1>5 DEF Factual
<1>6. CASE r.phase # "pre_mutation"
  BY <1>1, <1>2, <1>6 DEF Factual
<1> QED BY <1>5, <1>6

LEMMA ResultsKept ==
  ASSUME LogInv, HandInv, ResultsFactual, LogStep, RowStep
  PROVE  ResultsFactual'
<1> SUFFICES ASSUME NEW j \in Jobs, Exists(j)', Resolved(j)'
             PROVE  Factual(j, jobs[j].result)'
  BY DEF ResultsFactual
<1>1. Exists(j)
  BY DEF RowStep, RowFresh, Resolved
<1> SUFFICES ASSUME NEW r, r = jobs'[j].result PROVE Factual(j, r)'
  BY DEF Factual
<1>2. Factual(j, r) /\ ~(j = run.job /\ run.pc \in {"lease", "call"})
  <2>1. CASE Resolved(j)
    BY <1>1, <2>1 DEF RowStep, RowKept, ResultsFactual, HandInv
  <2>2. CASE ~Resolved(j)
    BY <1>1, <2>2 DEF RowStep, RowKept
  <2> QED BY <2>1, <2>2
<1> QED BY <1>1, <1>2, FactualKept

LEMMA DeployedKept ==
  ASSUME LogInv, LogStep, NEW k, NEW t, Deployed(k, t)
  PROVE  Deployed(k, t)' /\ wal'[k] = wal[k]
<1>1. Terminal(k)
  BY DEF Deployed, LogInv, LogRecord, IsTerminalRolloutState
<1> QED BY <1>1 DEF Deployed, LogStep, Target

LEMMA CloudStaysBehind ==
  ASSUME StoreInv', StoreInv, LoggedJobs, RegistryTypeOK', CloudNeverAhead, LogStep, RowStep
  PROVE  CloudNeverAhead'
<1> SUFFICES ASSUME NEW j \in Jobs, Exists(j)', ~Resolved(j)'
             PROVE  (IF Recorded(j) THEN CanCompleteRollout(jobs[j].rstate, wal[j].state)
                                   ELSE jobs[j].rstate = "prepared")'
  BY DEF CloudNeverAhead
<1>1. CASE ~Exists(j)
  <2>1. ~Recorded(j) /\ jobs'[j].rstate = "prepared"
    BY <1>1 DEF LoggedJobs, RowStep, RowFresh
  <2>2. Recorded(j)' => wal'[j].state = "prepared"
    BY <2>1 DEF LogStep
  <2> QED BY <2>1, <2>2 DEF CanCompleteRollout
<1>2. CASE Exists(j) /\ ~Recorded(j)
  <2>1. ~Resolved(j) /\ jobs[j].rstate = "prepared"
    BY <1>2 DEF RowStep, RowKept, CloudNeverAhead, Resolved
  <2>2. jobs'[j].rstate = "prepared"
    BY <1>2, <2>1 DEF RowStep, RowKept
  <2>3. Recorded(j)' => wal'[j].state = "prepared"
    BY <1>2 DEF LogStep
  <2> QED BY <2>2, <2>3 DEF CanCompleteRollout
<1>3. CASE Exists(j) /\ Recorded(j)
  <2>1. ~Resolved(j) /\ CanCompleteRollout(jobs[j].rstate, wal[j].state)
    BY <1>3 DEF RowStep, RowKept, CloudNeverAhead, Resolved
  <2>2. CanCompleteRollout(jobs'[j].rstate, wal[j].state)
    BY <1>3, <2>1 DEF RowStep, RowKept
  <2>3. Recorded(j)' /\ CanCompleteRollout(wal[j].state, wal'[j].state)
    BY <1>3 DEF LogStep
  <2>4. wal[j].state \in RolloutStates
    BY <1>3, RecordType DEF StoreInv
  <2>5. wal'[j].state \in RolloutStates
    BY <2>3 DEF StoreInv, StoreTypeOK, WalRecords, Recorded
  <2>6. jobs'[j].rstate \in RolloutStates
    BY DEF RegistryTypeOK, JobRecords, Exists
  <2> QED BY <2>2, <2>3, <2>4, <2>5, <2>6, CompletesOn
<1> QED BY <1>1, <1>2, <1>3

LEMMA BeatKept ==
  ASSUME StoreInv, StoreInv', BeatInv, LogStep, beat' \in {beat, None}
  PROVE  BeatInv'
<1> SUFFICES ASSUME beat' # None, beat' = beat
             PROVE  /\ beat.job \in Jobs /\ Recorded(beat.job)'
                    /\ beat.state \in RolloutStates /\ beat.materialized \in BOOLEAN
                    /\ CanCompleteRollout(beat.state, wal'[beat.job].state)
  BY DEF BeatInv
<1> DEFINE j == beat.job
<1>1. /\ j \in Jobs /\ Recorded(j)
      /\ beat.state \in RolloutStates /\ beat.materialized \in BOOLEAN
      /\ CanCompleteRollout(beat.state, wal[j].state)
  BY DEF BeatInv
<1>2. Recorded(j)' /\ CanCompleteRollout(wal[j].state, wal'[j].state)
  BY <1>1 DEF LogStep
<1>3. wal[j].state \in RolloutStates
  BY <1>1, RecordType DEF StoreInv
<1>4. wal'[j].state \in RolloutStates
  BY <1>1, <1>2 DEF StoreInv, StoreTypeOK, WalRecords, Recorded
<1> QED BY <1>1, <1>2, <1>3, <1>4, CompletesOn

----------------------------------------------------------------------------
(* What the engine writes while it works on rollout j, and what becomes of *)
(* the pointer: it moves exactly when the rollout ends where a snapshot    *)
(* runs.                                                                   *)
Writes(j) ==
  \/ UNCHANGED <<wal, current>>
  \/ \E state \in RolloutStates, error \in {"none", "cancelled", "failure"},
        materialized \in BOOLEAN, terminal \in BOOLEAN :
       TransitionRollout(j, state, error, materialized, terminal)
  \/ CommitRolloutSuccess(j)

LEMMA RolloutStepCall ==
  ASSUME StoreInv, CallInv, RolloutStep
  PROVE  /\ eng.pc \in {"running", "applied"}
         /\ eng.job \in Jobs /\ Recorded(eng.job) /\ Active(eng.job)
         /\ wal[eng.job].error \in {"none", "cancelled", "failure"}
         /\ wal[eng.job].materialized \in BOOLEAN
<1>1. eng.pc \in {"running", "applied"} /\ Active(eng.job)
  BY DEF RolloutStep, InCall, StartApply, CancelBeforeMutation, MutateSome,
         ApplyRollout, RecordApplied, ObserveReady, FailAndRollback, StartRollback,
         RestorePrevious, RestoredReady, RollbackFailed, RollbackTimesOut,
         StartCleanup, CleanupTarget, CleanupFails, RecordCleaned
<1>2. eng.job \in Jobs /\ Recorded(eng.job)
  BY <1>1 DEF CallInv, Active
<1> QED BY <1>1, <1>2, RecordType DEF StoreInv

LEMMA RolloutStepWrites ==
  ASSUME StoreInv, CallInv, RolloutStep
  PROVE  Writes(eng.job)
<1>1. /\ wal[eng.job].error \in {"none", "cancelled", "failure"}
      /\ wal[eng.job].materialized \in BOOLEAN
  BY RolloutStepCall
<1>2. CASE MutateSome \/ ApplyRollout \/ RestorePrevious \/ RollbackTimesOut \/ CleanupTarget
  BY <1>2 DEF Writes, MutateSome, ApplyRollout, RestorePrevious, RollbackTimesOut,
              CleanupTarget
<1>3. CASE StartApply \/ RecordApplied \/ StartRollback \/ StartCleanup
  BY <1>1, <1>3 DEF Writes, StartApply, RecordApplied, StartRollback, StartCleanup,
                    RolloutStates
<1>4. CASE CancelBeforeMutation \/ RestoredReady \/ RollbackFailed
  BY <1>1, <1>4 DEF Writes, CancelBeforeMutation, RestoredReady, RollbackFailed,
                    RolloutStates
<1>5. CASE CleanupFails \/ RecordCleaned
  BY <1>1, <1>5 DEF Writes, CleanupFails, RecordCleaned, RolloutStates
<1>6. CASE FailAndRollback
  <2> DEFINE unavailable == Previous(eng.job) = None
  <2>1. unavailable \in BOOLEAN
    OBVIOUS
  <2>2. TransitionRollout(eng.job, "failed", "failure", wal[eng.job].materialized, unavailable)
    BY <1>6 DEF FailAndRollback
  <2> HIDE DEF unavailable
  <2> QED BY <1>1, <2>1, <2>2 DEF Writes, RolloutStates
<1>7. CASE ObserveReady
  BY <1>7 DEF Writes, ObserveReady
<1> QED BY <1>2, <1>3, <1>4, <1>5, <1>6, <1>7 DEF RolloutStep

LEMMA WritesFollow ==
  ASSUME StoreInv, LogInv, NEW j \in Jobs, Active(j), Writes(j)
  PROVE  /\ \A k \in Jobs \ {j} : wal'[k] = wal[k]
         /\ Recorded(j)' /\ wal'[j].intent = wal[j].intent
         /\ CanCompleteRollout(wal[j].state, wal'[j].state)
         /\ IF Terminal(j)' /\ wal'[j].state \in {"succeeded", "rolled_back"}
              THEN current' = [current EXCEPT ![Target(j)] = LandedAt(j)']
              ELSE current' = current
<1>1. /\ wal \in [Jobs -> WalRecords \cup {None}] /\ Recorded(j) /\ ~Terminal(j)
      /\ wal[j] \in WalRecords /\ wal[j].intent \in Intents
      /\ wal[j].state \in RolloutStates /\ clock \in Nat \ {0}
  BY RecordType DEF StoreInv, StoreTypeOK, Active, Terminal
<1>2. CASE UNCHANGED <<wal, current>>
  BY <1>1, <1>2 DEF Recorded, Terminal, CanCompleteRollout
<1>3. ASSUME NEW state \in RolloutStates, NEW error \in {"none", "cancelled", "failure"},
             NEW materialized \in BOOLEAN, NEW terminal \in BOOLEAN,
             TransitionRollout(j, state, error, materialized, terminal)
      PROVE  /\ \A k \in Jobs \ {j} : wal'[k] = wal[k]
             /\ Recorded(j)' /\ wal'[j].intent = wal[j].intent
             /\ CanCompleteRollout(wal[j].state, wal'[j].state)
             /\ IF Terminal(j)' /\ wal'[j].state \in {"succeeded", "rolled_back"}
                  THEN current' = [current EXCEPT ![Target(j)] = LandedAt(j)']
                  ELSE current' = current
  <2> DEFINE at == IF terminal \/ IsTerminalRolloutState(state) THEN clock ELSE 0
             w  == [intent |-> wal[j].intent, state |-> state, terminalAt |-> at,
                    error |-> error, materialized |-> materialized]
  <2>1. wal' = [wal EXCEPT ![j] = w] /\ CanTransitionRollout(wal[j].state, state)
    BY <1>3 DEF TransitionRollout
  <2>2. at \in Nat /\ (state = "rolled_back" => at > 0)
    BY <1>1 DEF IsTerminalRolloutState
  <2> HIDE DEF at
  <2>3. w \in WalRecords /\ w # None
    BY <1>1, <2>2, NewRecord
  <2>4. wal'[j] = w /\ \A k \in Jobs \ {j} : wal'[k] = wal[k]
    BY <1>1, <2>1
  <2>5. Recorded(j)' /\ wal'[j].intent = wal[j].intent /\ wal'[j].state = state
        /\ wal'[j].terminalAt = at
    BY <2>3, <2>4 DEF Recorded
  <2>6. CanCompleteRollout(wal[j].state, state)
    BY <1>1, <2>1, TransitionCompletes
  <2>7. state # "succeeded"
        /\ current' = IF state = "rolled_back" THEN [current EXCEPT ![Target(j)] = Previous(j)]
                                              ELSE current
    BY <1>3 DEF TransitionRollout
  <2>8. state = "rolled_back" => Terminal(j)' /\ LandedAt(j)' = Previous(j)
    BY <2>2, <2>5 DEF Terminal, LandedAt, Previous
  <2> QED BY <2>4, <2>5, <2>6, <2>7, <2>8
<1>4. CASE CommitRolloutSuccess(j)
  <2> DEFINE w == [intent |-> wal[j].intent, state |-> "succeeded", terminalAt |-> clock,
                   error |-> "none", materialized |-> TRUE]
  <2>1. /\ wal' = [wal EXCEPT ![j] = w] /\ wal[j].state = "waiting"
        /\ current' = [current EXCEPT ![Target(j)] = j]
    BY <1>4 DEF CommitRolloutSuccess
  <2>2. w \in WalRecords /\ w # None
    BY <1>1, NewRecord DEF RolloutStates
  <2>3. wal'[j] = w /\ \A k \in Jobs \ {j} : wal'[k] = wal[k]
    BY <1>1, <2>1
  <2>4. Recorded(j)' /\ wal'[j].intent = wal[j].intent /\ wal'[j].state = "succeeded"
        /\ wal'[j].terminalAt = clock
    BY <2>2, <2>3 DEF Recorded
  <2>5. CanTransitionRollout("waiting", "succeeded")
    BY DEF CanTransitionRollout, AllowedTransitions, RolloutStates
  <2>6. CanCompleteRollout(wal[j].state, "succeeded")
    BY <2>1, <2>5, TransitionCompletes DEF RolloutStates
  <2>7. Terminal(j)' /\ LandedAt(j)' = j
    BY <1>1, <2>4 DEF Terminal, LandedAt
  <2> QED BY <2>1, <2>3, <2>4, <2>6, <2>7
<1> QED BY <1>2, <1>3, <1>4 DEF Writes

LEMMA RolloutLogStep ==
  ASSUME StoreInv, CallInv, LogInv, RolloutStep, unread' = unread
  PROVE  LogStep
<1> SUFFICES ASSUME NEW j, j = eng.job PROVE LogStep
  OBVIOUS
<1>1. j \in Jobs /\ Recorded(j) /\ Active(j) /\ Writes(j)
  BY RolloutStepCall, RolloutStepWrites
<1>2. /\ \A k \in Jobs \ {j} : wal'[k] = wal[k]
      /\ Recorded(j)' /\ wal'[j].intent = wal[j].intent
      /\ CanCompleteRollout(wal[j].state, wal'[j].state)
  BY <1>1, WritesFollow
<1>3. ~Terminal(j)
  BY <1>1 DEF Active, Terminal
<1> QED BY <1>1, <1>2, <1>3 DEF LogStep, Recorded, CanCompleteRollout

LEMMA EntryLogStep ==
  ASSUME StoreInv, run.job \in Jobs, run.pc \in {"lease", "call"},
         ReconcileRollout(run.job, jobs[run.job].intent), unread' = unread
  PROVE  /\ LogStep /\ current' = current
         /\ \A k \in Jobs : Recorded(k) => wal'[k] = wal[k]
<1> DEFINE j == run.job
           i == jobs[j].intent
<1>1. CASE BeginRollout(j, i)
  <2>1. PICK m : wal' = [wal EXCEPT ![j] =
                    [intent |-> i, state |-> "prepared", terminalAt |-> 0,
                     error |-> "none", materialized |-> m]]
    BY <1>1 DEF BeginRollout
  <2>2. wal'[j].intent = i /\ wal'[j].state = "prepared"
        /\ \A k \in Jobs \ {j} : wal'[k] = wal[k]
    BY <2>1 DEF StoreInv, StoreTypeOK
  <2>3. ~Recorded(j) /\ current' = current
    BY <1>1 DEF BeginRollout
  <2> QED BY <2>2, <2>3 DEF LogStep, Recorded, CanCompleteRollout
<1>2. CASE ~BeginRollout(j, i)
  <2>1. UNCHANGED <<wal, current>>
    BY <1>2 DEF ReconcileRollout, RefuseRollout, PreflightFails, ResumeRollout
  <2> QED BY <2>1, LogStutters
<1> QED BY <1>1, <1>2

LEMMA BootLogStep ==
  ASSUME RepairIdle, BootStep \/ FaultStep \/ Collect \/ Shutdown
  PROVE  UNCHANGED <<wal, current>>
BY DEF RepairIdle, BootStep, OpenStore, RepairPointer, StartPending, ResumePending,
       PendingDone, FaultStep, StoreError, Crash, Collect, Shutdown

----------------------------------------------------------------------------
(* A rollout in progress is one Cloud still waits for, or one it was       *)
(* misled about.                                                           *)
LEMMA ActiveUnresolved ==
  ASSUME LogInv, LoggedJobs, ResultsFactual, NEW j \in Jobs, Active(j)
  PROVE  Exists(j) /\ (~Resolved(j) \/ Misled(j))
<1>1. Recorded(j) /\ ~Terminal(j) /\ Exists(j)
  BY DEF Active, Terminal, LoggedJobs
<1>2. ASSUME Resolved(j) PROVE Misled(j)
  <2>1. Factual(j, jobs[j].result)
    BY <1>1, <1>2 DEF ResultsFactual
  <2>2. wal[j].error # "cancelled"
    BY <1>1 DEF LogInv, LogRecord
  <2> QED BY <1>1, <1>2, <2>1, <2>2 DEF Factual, Misled
<1> QED BY <1>1, <1>2

LEMMA LandedOwns ==
  ASSUME StoreInv, LogInv, LoggedJobs, CloudInv, NEW j \in Jobs, Exists(j), ~Resolved(j),
         Recorded(j), wal[j].state \in {"succeeded", "rolled_back"} \/ Op(j) = "apply"
  PROVE  OwnsService(j) /\ Mutating(j) /\ jobs[j].intent.target = Target(j)
<1>1. wal[j].intent = jobs[j].intent /\ jobs[j].attempts > 0 /\ jobs[j].attempts \in Nat
  BY JobType DEF LoggedJobs, CloudInv, RegistryInv
<1>2. OwnsService(j)
  BY <1>1 DEF OwnsService, SafelyCancelled, CloudInv
<1>3. Op(j) = "apply" \/ Previous(j) # None
  BY DEF LogInv, LogRecord
<1>4. wal[j].intent \in Intents
  BY RecordType DEF StoreInv
<1>5. Op(j) \notin CleanupOperations
  BY <1>3, <1>4 DEF Intents, Canonical, Op, Previous, CleanupOperations
<1> QED BY <1>1, <1>2, <1>5 DEF Mutating, Op, Target

LEMMA OneNode == Node \in Nodes /\ \A n \in Nodes : n = Node
BY DeploymentAssumption DEF Node

LEMMA NewestExists ==
  ASSUME RegistryTypeOK, JobsInv, NEW t, NEW n, KnownGoodCandidates(t, n) # {}
  PROVE  \E j \in KnownGoodCandidates(t, n) :
           \A k \in KnownGoodCandidates(t, n) : jobs[k].doneAt <= jobs[j].doneAt
<1> DEFINE C == KnownGoodCandidates(t, n)
           ages == {tick - jobs[j].doneAt : j \in C}
<1>1. \A j \in C : j \in Jobs /\ jobs[j].doneAt \in Nat /\ jobs[j].doneAt < tick
  BY JobType DEF KnownGoodCandidates, JobsInv, JobInv
<1>2. tick \in Nat
  BY DEF RegistryTypeOK
<1>3. ages \subseteq Nat /\ ages # {}
  BY <1>1, <1>2
<1>4. PICK a \in ages : \A b \in ages : a <= b
  BY <1>3, LeastNatural
<1>5. PICK j \in C : a = tick - jobs[j].doneAt
  BY <1>4
<1>6. ASSUME NEW k \in C PROVE jobs[k].doneAt <= jobs[j].doneAt
  <2>1. tick - jobs[k].doneAt \in ages
    OBVIOUS
  <2>2. tick - jobs[j].doneAt <= tick - jobs[k].doneAt
    BY <1>4, <1>5, <2>1
  <2> HIDE DEF C
  <2> QED BY <1>1, <1>2, <2>2
<1> QED BY <1>6

(* The reference read is that of the newest result, which is one only.     *)
LEMMA LatestOf ==
  ASSUME RegistryTypeOK, StampsApart, NEW t, NEW n, NEW j \in KnownGoodCandidates(t, n),
         \A k \in KnownGoodCandidates(t, n) : jobs[k].doneAt <= jobs[j].doneAt
  PROVE  LatestKnownGood(t, n) = jobs[j].result.known
<1> DEFINE C == KnownGoodCandidates(t, n)
           e == CHOOSE m \in C : \A k \in C : jobs[k].doneAt <= jobs[m].doneAt
<1>1. e \in C /\ \A k \in C : jobs[k].doneAt <= jobs[e].doneAt
  OBVIOUS
<1>2. LatestKnownGood(t, n) = jobs[e].result.known
  BY DEF LatestKnownGood
<1> HIDE DEF e
<1>3. \A k \in C : k \in Jobs /\ Exists(k) /\ Resolved(k) /\ jobs[k].doneAt \in Nat
  BY JobType DEF KnownGoodCandidates
<1>4. jobs[e].doneAt = jobs[j].doneAt
  BY <1>1, <1>3
<1>5. e = j
  BY <1>1, <1>3, <1>4 DEF StampsApart
<1> QED BY <1>2, <1>5

LEMMA LatestNext ==
  ASSUME RegistryTypeOK', StampsApart', NEW t, NEW n, NEW j \in KnownGoodCandidates(t, n)',
         \A k \in KnownGoodCandidates(t, n)' : jobs'[k].doneAt <= jobs'[j].doneAt
  PROVE  LatestKnownGood(t, n)' = jobs'[j].result.known
<1> DEFINE C == KnownGoodCandidates(t, n)'
           e == CHOOSE m \in C : \A k \in C : jobs'[k].doneAt <= jobs'[m].doneAt
<1>1. e \in C /\ \A k \in C : jobs'[k].doneAt <= jobs'[e].doneAt
  OBVIOUS
<1>2. LatestKnownGood(t, n)' = jobs'[e].result.known
  BY DEF LatestKnownGood
<1> HIDE DEF e
<1>3. \A k \in C : /\ k \in Jobs /\ Exists(k)' /\ Resolved(k)' /\ jobs'[k].doneAt \in Nat
  BY DEF KnownGoodCandidates, RegistryTypeOK, JobRecords, Exists
<1>4. jobs'[e].doneAt = jobs'[j].doneAt
  BY <1>1, <1>3
<1>5. e = j
  BY <1>1, <1>3, <1>4 DEF StampsApart
<1> QED BY <1>2, <1>5

LEMMA LatestKept ==
  ASSUME RegistryTypeOK, RegistryTypeOK', JobsInv, StampsApart, StampsApart', NEW t, NEW n,
         KnownGoodCandidates(t, n)' = KnownGoodCandidates(t, n),
         \A x \in KnownGoodCandidates(t, n) : jobs'[x] = jobs[x]
  PROVE  LatestKnownGood(t, n)' = LatestKnownGood(t, n)
<1> DEFINE C == KnownGoodCandidates(t, n)
<1>1. CASE C = {}
  BY <1>1 DEF LatestKnownGood
<1>2. CASE C # {}
  <2>1. PICK j \in C : \A k \in C : jobs[k].doneAt <= jobs[j].doneAt
    BY <1>2, NewestExists
  <2>2. LatestKnownGood(t, n) = jobs[j].result.known
    BY <2>1, LatestOf
  <2>3. LatestKnownGood(t, n)' = jobs'[j].result.known
    <3>1. j \in KnownGoodCandidates(t, n)'
          /\ \A k \in KnownGoodCandidates(t, n)' : jobs'[k].doneAt <= jobs'[j].doneAt
      BY <2>1
    <3> QED BY <3>1, LatestNext
  <2> QED BY <2>2, <2>3
<1> QED BY <1>1, <1>2

----------------------------------------------------------------------------
(* Once misled about a target, Cloud stays so.                             *)
LEMMA MisledStands ==
  ASSUME RowStep, unread \subseteq unread', NEW t, MisledAt(t)
  PROVE  MisledAt(t)'
<1>1. PICK j \in Jobs : Misled(j) /\ jobs[j].intent.target = t
  BY DEF MisledAt
<1>2. Exists(j)' /\ jobs'[j] = jobs[j]
  BY <1>1 DEF Misled, RowStep, RowKept
<1>3. Misled(j)'
  BY <1>1, <1>2 DEF Misled, Resolved
<1> QED BY <1>1, <1>2, <1>3 DEF MisledAt

(* The pointer and the reference Cloud reads.                              *)
LEMMA PointerStutters ==
  ASSUME PointerInv, current' = current, RowStep, unread \subseteq unread',
         \A t \in Targets \ PreviewTargets :
           LatestKnownGood(t, Node)' = LatestKnownGood(t, Node),
         \A k \in Jobs : /\ Landed(k)' <=> Landed(k)
                         /\ Landed(k) => wal'[k] = wal[k]
  PROVE  PointerInv'
<1> SUFFICES ASSUME NEW t \in Targets \ PreviewTargets, ~MisledAt(t)'
             PROVE  PointerAt(t)'
  BY DEF PointerInv
<1>0. PointerAt(t)
  BY MisledStands DEF PointerInv
<1>1. \A k \in Jobs : Landed(k) => Target(k)' = Target(k) /\ LandedAt(k)' = LandedAt(k)
  BY DEF Target, LandedAt, Previous
<1>2. ASSUME NEW j \in Jobs, Landed(j)', Target(j)' = t PROVE current'[t] = LandedAt(j)'
  BY <1>0, <1>1, <1>2 DEF PointerAt
<1>3. CASE \E j \in Jobs : Landed(j) /\ Target(j) = t
  BY <1>1, <1>2, <1>3 DEF PointerAt
<1>4. CASE LatestKnownGood(t, Node) = current[t]
  BY <1>2, <1>4 DEF PointerAt
<1> QED BY <1>0, <1>3, <1>4 DEF PointerAt

LEMMA LatestUnread ==
  ASSUME CloudInv, CloudInv', jobs' = jobs, NEW t
  PROVE  LatestKnownGood(t, Node)' = LatestKnownGood(t, Node)
<1>1. KnownGoodCandidates(t, Node)' = KnownGoodCandidates(t, Node)
  BY DEF KnownGoodCandidates, Exists, Resolved
<1> QED BY <1>1, LatestKept DEF CloudInv, RegistryInv

LEMMA PointerByRollout ==
  ASSUME StoreInv, StoreInv', CallInv, LogInv, LogInv', LoggedJobs, LoggedJobs',
         ResultsFactual, CloudInv, CloudInv', PointerInv, jobs' = jobs,
         unread' = unread, RolloutStep
  PROVE  PointerInv'
<1> SUFFICES ASSUME NEW j, j = eng.job PROVE PointerInv'
  OBVIOUS
<1>1. j \in Jobs /\ Recorded(j) /\ Active(j) /\ Writes(j)
  BY RolloutStepCall, RolloutStepWrites
<1>2. /\ \A k \in Jobs \ {j} : wal'[k] = wal[k]
      /\ Recorded(j)' /\ wal'[j].intent = wal[j].intent
      /\ IF Terminal(j)' /\ wal'[j].state \in {"succeeded", "rolled_back"}
           THEN current' = [current EXCEPT ![Target(j)] = LandedAt(j)']
           ELSE current' = current
  BY <1>1, WritesFollow
<1>3. Exists(j) /\ (~Resolved(j) \/ Misled(j)) /\ ~Landed(j)
  BY <1>1, ActiveUnresolved DEF Active, Terminal, Landed
<1>0. RowStep
  BY RowsStutter
<1>4. \A k \in Jobs \ {j} : /\ Landed(k)' <=> Landed(k)
                            /\ Target(k)' = Target(k)
                            /\ LandedAt(k)' = LandedAt(k)
  BY <1>2 DEF Landed, LandedAt, Target, Previous, Exists, Resolved, Terminal, Recorded
<1>5. CASE ~(Terminal(j)' /\ wal'[j].state \in {"succeeded", "rolled_back"})
  <2>1. current' = current /\ ~Landed(j)'
    BY <1>2, <1>5 DEF Landed
  <2>2. \A t \in Targets \ PreviewTargets :
          LatestKnownGood(t, Node)' = LatestKnownGood(t, Node)
    BY LatestUnread
  <2>3. \A k \in Jobs : /\ Landed(k)' <=> Landed(k)
                        /\ Landed(k) => wal'[k] = wal[k]
    BY <1>2, <1>3, <1>4, <2>1
  <2> QED BY <1>0, <2>1, <2>2, <2>3, PointerStutters
<1>7. ASSUME NEW t \in Targets \ PreviewTargets, t # Target(j), PointerAt(t),
             Terminal(j)', wal'[j].state \in {"succeeded", "rolled_back"}
      PROVE  PointerAt(t)'
  <2>1. current' = [current EXCEPT ![Target(j)] = LandedAt(j)']
        /\ current \in [Targets -> KnownGoodRefs] /\ Target(j) \in Targets
    BY <1>1, <1>2, <1>7, RecordType DEF StoreInv, StoreTypeOK, Pointers
  <2>2. current'[t] = current[t]
    BY <1>7, <2>1
  <2>3. LatestKnownGood(t, Node)' = LatestKnownGood(t, Node)
    BY LatestUnread
  <2>4. ASSUME NEW k \in Jobs, Target(k) = t
        PROVE  k # j /\ (Landed(k)' <=> Landed(k)) /\ Target(k)' = t
               /\ LandedAt(k)' = LandedAt(k)
    BY <1>4, <1>7, <2>4
  <2>5. \A k \in Jobs : Target(k)' = t => Target(k) = t
    BY <1>2, <1>4 DEF Target
  <2>6. ASSUME NEW k \in Jobs, Landed(k)', Target(k)' = t PROVE current'[t] = LandedAt(k)'
    BY <1>7, <2>2, <2>4, <2>5, <2>6 DEF PointerAt
  <2>7. (\E k \in Jobs : Landed(k)' /\ Target(k)' = t) \/ LatestKnownGood(t, Node)' = current'[t]
    BY <1>7, <2>2, <2>3, <2>4 DEF PointerAt
  <2> QED BY <2>6, <2>7 DEF PointerAt
<1>8. ASSUME NEW t \in Targets \ PreviewTargets, ~MisledAt(t)'
      PROVE  PointerAt(t)
  BY <1>0, <1>8, MisledStands DEF PointerInv
<1>9. CASE Misled(j) /\ Terminal(j)' /\ wal'[j].state \in {"succeeded", "rolled_back"}
  <2>1. jobs[j].intent.target = Target(j)
    BY <1>1 DEF LoggedJobs, Target
  <2>2. Misled(j)'
    BY <1>9 DEF Misled, Exists, Resolved
  <2>3. ASSUME NEW t, t = Target(j) PROVE MisledAt(t)'
    BY <1>1, <2>1, <2>2, <2>3 DEF MisledAt
  <2> QED BY <1>7, <1>8, <1>9, <2>3 DEF PointerInv
<1>6. CASE ~Resolved(j) /\ Terminal(j)' /\ wal'[j].state \in {"succeeded", "rolled_back"}
  <2>1. Landed(j)' /\ Target(j)' = Target(j)
    BY <1>2, <1>3, <1>6 DEF Landed, Exists, Resolved, Target
  <2>2. current' = [current EXCEPT ![Target(j)] = LandedAt(j)']
        /\ current \in [Targets -> KnownGoodRefs] /\ Target(j) \in Targets
    BY <1>1, <1>2, <1>6, RecordType DEF StoreInv, StoreTypeOK, Pointers
  <2>3. OwnsService(j) /\ Mutating(j) /\ jobs[j].intent.target = Target(j)
    <3>1. Op(j)' = "apply" \/ Previous(j)' # None
      BY <1>1, <1>2, <1>6 DEF LogInv, LogRecord
    <3>2. Op(j) = "apply" \/ Previous(j) # None
      BY <1>2, <3>1 DEF Op, Previous
    <3>3. wal[j].intent = jobs[j].intent /\ jobs[j].attempts > 0 /\ jobs[j].attempts \in Nat
      BY <1>1, <1>3, JobType DEF LoggedJobs, CloudInv, RegistryInv
    <3>4. wal[j].intent \in Intents
      BY <1>1, RecordType DEF StoreInv
    <3>5. Mutating(j)
      BY <3>2, <3>3, <3>4 DEF Intents, Canonical, Op, Previous, CleanupOperations, Mutating
    <3> QED BY <1>3, <1>6, <3>3, <3>5 DEF OwnsService, SafelyCancelled, CloudInv, Target
  <2>4. ASSUME NEW k \in Jobs, k # j, Landed(k) PROVE Target(k) # Target(j)
    <3>1. OwnsService(k) /\ Mutating(k) /\ jobs[k].intent.target = Target(k)
      BY <2>4, LandedOwns DEF Landed, Terminal
    <3> QED BY <1>1, <2>3, <2>4, <3>1 DEF CloudInv, RegistryInv, OwnerHoldsRow, Service
  <2> SUFFICES ASSUME NEW t \in Targets \ PreviewTargets, ~MisledAt(t)'
               PROVE  PointerAt(t)'
    BY DEF PointerInv
  <2>5. CASE t = Target(j)
    BY <1>1, <1>4, <2>1, <2>2, <2>4, <2>5 DEF PointerAt
  <2>6. CASE t # Target(j)
    BY <1>6, <1>7, <1>8, <2>6
  <2> QED BY <2>5, <2>6
<1> QED BY <1>3, <1>5, <1>6, <1>9

LEMMA PointerByEntry ==
  ASSUME CloudInv, CloudInv', LogStep, PointerInv, jobs' = jobs, current' = current,
         \A k \in Jobs : Recorded(k) => wal'[k] = wal[k]
  PROVE  PointerInv'
<1>1. ASSUME NEW k \in Jobs
      PROVE  (Landed(k)' <=> Landed(k)) /\ (Landed(k) => wal'[k] = wal[k])
  <2>1. CASE Recorded(k)
    BY <2>1 DEF Landed, Exists, Resolved, Terminal, Recorded
  <2>2. CASE ~Recorded(k)
    BY <2>2 DEF LogStep, Landed, Terminal
  <2> QED BY <2>1, <2>2
<1>2. RowStep /\ unread \subseteq unread'
  BY RowsStutter DEF LogStep
<1>3. \A t \in Targets \ PreviewTargets :
        LatestKnownGood(t, Node)' = LatestKnownGood(t, Node)
  BY LatestUnread
<1> QED BY <1>1, <1>2, <1>3, PointerStutters

LEMMA PointerByRows ==
  ASSUME CloudInv, CloudInv', LoggedJobs, RowStep, PointerInv, UNCHANGED <<wal, current>>,
         unread \subseteq unread',
         \A x \in Jobs : Exists(x) /\ ~Resolved(x) => ~Resolved(x)'
  PROVE  PointerInv'
<1>1. ASSUME NEW t
      PROVE  /\ KnownGoodCandidates(t, Node)' = KnownGoodCandidates(t, Node)
             /\ \A x \in KnownGoodCandidates(t, Node) : jobs'[x] = jobs[x]
  <2>1. ASSUME NEW x \in Jobs
        PROVE  Exists(x)' /\ Resolved(x)' <=> Exists(x) /\ Resolved(x)
    BY DEF RowStep, RowKept, RowFresh, Exists, Resolved
  <2>2. ASSUME NEW x \in Jobs, Exists(x), Resolved(x)
        PROVE  jobs'[x] = jobs[x]
    BY <2>2 DEF RowStep, RowKept
  <2> QED BY <2>1, <2>2 DEF KnownGoodCandidates
<1>2. \A t : LatestKnownGood(t, Node)' = LatestKnownGood(t, Node)
  BY <1>1, LatestKept DEF CloudInv, RegistryInv
<1>3. ASSUME NEW k \in Jobs PROVE Landed(k)' <=> Landed(k)
  <2>1. Terminal(k)' <=> Terminal(k)
    BY DEF Terminal, Recorded
  <2>2. Terminal(k) => Exists(k)
    BY DEF Terminal, LoggedJobs
  <2>3. Exists(k) => (Exists(k)' /\ (Resolved(k)' <=> Resolved(k)))
    BY DEF RowStep, RowKept, Resolved
  <2> QED BY <2>1, <2>2, <2>3 DEF Landed
<1> QED BY <1>2, <1>3, PointerStutters

(* Cloud accepts the result of j: the reference it would read becomes what *)
(* the pointer says already.                                               *)
LEMMA PointerByResult ==
  ASSUME LogInv, CloudInv, CloudInv', LoggedJobs, PointerInv, RowStep,
         UNCHANGED <<wal, current, unread>>,
         NEW j \in Jobs, NEW token, NEW r, Factual(j, r),
         CompleteDeployment(j, token, r)
  PROVE  PointerInv'
<1>1. /\ Exists(j) /\ ~Resolved(j) /\ Exists(j)' /\ Resolved(j)'
      /\ jobs'[j].intent = jobs[j].intent /\ jobs'[j].node = Node
      /\ jobs'[j].result = r /\ jobs'[j].doneAt = tick /\ r \in Results
      /\ \A k \in Jobs \ {j} : jobs'[k] = jobs[k]
  <2>1. Exists(j) /\ ~Resolved(j) /\ jobs \in [Jobs -> JobRecords \cup {None}] /\ r \in Results
    BY DEF CompleteDeployment, HoldsLease, CloudInv, RegistryInv, RegistryTypeOK, Factual
  <2>2. jobs[j] \in JobRecords /\ jobs[j].node = Node
    BY <2>1, JobType, OneNode DEF CloudInv, RegistryInv
  <2>3. jobs' = [jobs EXCEPT ![j] =
                  [@ EXCEPT !.status = r.state, !.rstate = r.state, !.result = r,
                            !.lease = "none", !.backoff = FALSE,
                            !.exhausted = FALSE, !.doneAt = tick]]
    BY DEF CompleteDeployment
  <2>4. jobs'[j].intent = jobs[j].intent /\ jobs'[j].node = Node
        /\ jobs'[j].result = r /\ jobs'[j].doneAt = tick
    BY <2>1, <2>2, <2>3 DEF JobRecords
  <2>5. Exists(j)'
    <3>1. tick \in Nat /\ r.state \in RolloutStates
      BY <2>1 DEF CloudInv, RegistryInv, RegistryTypeOK, Results
    <3>2. jobs'[j] \in JobRecords
      BY <2>1, <2>2, <2>3, <3>1 DEF JobRecords, JobStatus
    <3> QED BY <3>2, RowAssumption DEF Exists
  <2> QED BY <2>1, <2>2, <2>3, <2>4, <2>5, RowAssumption DEF Resolved
<1>2. \A k \in Jobs \ {j} : /\ Landed(k)' <=> Landed(k)
                            /\ Exists(k)' <=> Exists(k)
                            /\ Resolved(k)' <=> Resolved(k)
  BY <1>1 DEF Landed, Exists, Resolved, Terminal, Recorded
<1>3. ~Landed(j)' /\ \A k \in Jobs : Target(k)' = Target(k) /\ LandedAt(k)' = LandedAt(k)
  BY <1>1 DEF Landed, Resolved, Target, LandedAt, Previous
<1> DEFINE s == jobs[j].intent.target
<1> SUFFICES ASSUME NEW t \in Targets \ PreviewTargets, ~MisledAt(t)'
             PROVE  PointerAt(t)'
  BY DEF PointerInv
<1>0. PointerAt(t)
  BY MisledStands DEF PointerInv
<1>4. \A k \in Jobs : Landed(k)' /\ Target(k)' = t => current'[t] = LandedAt(k)'
  BY <1>0, <1>2, <1>3 DEF PointerAt
<1> DEFINE C == KnownGoodCandidates(t, Node)
<1>5. CASE t = s /\ r.state \in {"succeeded", "rolled_back"}
  <2>1. j \in C'
    BY <1>1, <1>5 DEF KnownGoodCandidates
  <2>2. \A k \in C' : jobs'[k].doneAt <= tick
    <3>1. \A k \in C' : k # j => k \in Jobs /\ Exists(k)
      BY <1>2 DEF KnownGoodCandidates
    <3>2. \A k \in C' : k # j => jobs[k].doneAt < tick /\ jobs[k].doneAt \in Nat
      BY <3>1, JobType DEF CloudInv, RegistryInv, JobsInv, JobInv
    <3>3. \A k \in C' : k # j => jobs'[k].doneAt = jobs[k].doneAt
      BY <1>1 DEF KnownGoodCandidates
    <3>4. tick \in Nat
      BY DEF CloudInv, RegistryInv, RegistryTypeOK
    <3> QED BY <1>1, <3>2, <3>3, <3>4
  <2>3. LatestKnownGood(t, Node)' = r.known
    BY <1>1, <2>1, <2>2, LatestNext DEF CloudInv, RegistryInv
  <2>4. Landed(j) /\ wal[j].state = r.state /\ Recorded(j)
    BY <1>1, <1>5 DEF Factual, Landed, Terminal
  <2>5. Target(j) = t /\ r.known = LandedAt(j)
    BY <1>5, <2>4 DEF LoggedJobs, Factual, Target, LandedAt, Previous
  <2>6. current[t] = r.known
    BY <1>0, <2>4, <2>5 DEF PointerAt
  <2> QED BY <1>4, <2>3, <2>6 DEF PointerAt
<1>6. CASE ~(t = s /\ r.state \in {"succeeded", "rolled_back"})
  <2>1. C' = C /\ \A x \in C : jobs'[x] = jobs[x]
    BY <1>1, <1>2, <1>6 DEF KnownGoodCandidates
  <2>2. LatestKnownGood(t, Node)' = LatestKnownGood(t, Node)
    BY <2>1, LatestKept DEF CloudInv, RegistryInv
  <2>3. ~(Landed(j) /\ Target(j) = t)
    <3> SUFFICES ASSUME Landed(j), Target(j) = t PROVE FALSE
      OBVIOUS
    <3>1. Recorded(j) /\ wal[j].state \in {"succeeded", "rolled_back"} /\ t = s
      BY DEF Landed, Terminal, LoggedJobs, Target
    <3>2. wal[j].error # "cancelled"
      BY <3>1 DEF LogInv, LogRecord
    <3>3. r.phase = "pre_mutation" => j \notin unread
      <4> SUFFICES ASSUME r.phase = "pre_mutation", j \in unread PROVE MisledAt(t)'
        OBVIOUS
      <4>1. Misled(j)'
        BY <1>1 DEF Misled
      <4> QED BY <1>1, <3>1, <4>1 DEF MisledAt
    <3> QED BY <1>6, <3>1, <3>2, <3>3 DEF Factual
  <2> QED BY <1>0, <1>2, <1>3, <1>4, <2>2, <2>3 DEF PointerAt
<1> QED BY <1>5, <1>6

----------------------------------------------------------------------------
(* Cloud's transactions, one row after another.                            *)
Unfinished == \A x \in Jobs : Exists(x) /\ ~Resolved(x) => ~Resolved(x)'

LEMMA OneRowStep ==
  ASSUME NEW j \in Jobs, LeasesActive, \A x \in Jobs \ {j} : jobs'[x] = jobs[x],
         IF Exists(j) THEN RowKept(j) ELSE RowFresh(j),
         LeaseInOrder(j)'
  PROVE  RowStep /\ LeasesActive'
<1>1. ASSUME NEW x \in Jobs \ {j}
      PROVE  (IF Exists(x) THEN RowKept(x) ELSE RowFresh(x)) /\ LeaseInOrder(x)'
  BY <1>1 DEF RowKept, RowFresh, LeasesActive, LeaseInOrder, LeaseActive, Exists, Resolved
<1> QED BY <1>1 DEF RowStep, LeasesActive

LEMMA RowsSame ==
  ASSUME LeasesActive, UNCHANGED jobs
  PROVE  RowStep /\ LeasesActive' /\ Unfinished
BY RowsStutter DEF LeasesActive, LeaseInOrder, LeaseActive, Exists, Unfinished, Resolved

LEMMA NewJobRow ==
  ASSUME RegistryInv, LeasesActive, NEW j \in Jobs, ~Exists(j), NEW i, NEW n,
         jobs' = [jobs EXCEPT ![j] = NewJob(i, n)]
  PROVE  RowStep /\ LeasesActive' /\ Unfinished
<1>1. jobs'[j] = NewJob(i, n) /\ \A x \in Jobs \ {j} : jobs'[x] = jobs[x]
  BY DEF RegistryInv, RegistryTypeOK
<1>2. RowFresh(j) /\ LeaseInOrder(j)'
  BY <1>1 DEF RowFresh, LeaseInOrder, NewJob
<1>3. Unfinished
  BY <1>1 DEF Unfinished, Resolved
<1> QED BY <1>1, <1>2, <1>3, OneRowStep

LEMMA RequestRows ==
  ASSUME RegistryInv, LeasesActive, Request, retired' = retired
  PROVE  RowStep /\ LeasesActive' /\ Unfinished
<1>1. ASSUME NEW j \in Jobs, NEW t \in Targets, NEW n \in Nodes, ReadKnownGood(j, t, n)
      PROVE  RowStep /\ LeasesActive' /\ Unfinished
  BY <1>1, RowsSame DEF ReadKnownGood
<1>2. ASSUME NEW j \in Jobs, StartImmutableDeployment(j)
      PROVE  RowStep /\ LeasesActive' /\ Unfinished
  <2>1. ~Exists(j)
    BY <1>2 DEF StartImmutableDeployment, RegistryInv, DraftsFresh
  <2>2. CASE UNCHANGED jobs
    BY <2>2, RowsSame
  <2>3. CASE ~UNCHANGED jobs
    BY <1>2, <2>1, <2>3, NewJobRow DEF StartImmutableDeployment, Insert
  <2> QED BY <2>2, <2>3
<1>3. ASSUME NEW j \in Jobs, NEW source \in Jobs, RollbackDeployment(j, source)
      PROVE  RowStep /\ LeasesActive' /\ Unfinished
  BY <1>3, NewJobRow DEF RollbackDeployment, Insert
<1>4. ASSUME NEW j \in Jobs, NEW base \in Jobs, NEW op \in CleanupOperations,
             StartCleanupJob(j, base, op)
      PROVE  RowStep /\ LeasesActive' /\ Unfinished
  BY <1>4, NewJobRow DEF StartCleanupJob, Insert
<1>5. ASSUME NEW j \in Jobs, CancelDeployment(j) \/ RetryDeployment(j)
      PROVE  RowStep /\ LeasesActive' /\ Unfinished
  <2>1. Exists(j) /\ ~Resolved(j) /\ jobs[j] \in JobRecords
        /\ jobs \in [Jobs -> JobRecords \cup {None}]
    BY <1>5, JobType DEF CancelDeployment, RetryDeployment, RegistryInv, RegistryTypeOK
  <2>2. /\ jobs'[j].intent = jobs[j].intent /\ jobs'[j].node = jobs[j].node
        /\ jobs'[j].attempts = jobs[j].attempts /\ jobs'[j].rstate = jobs[j].rstate
        /\ jobs'[j].result = jobs[j].result /\ jobs'[j].lease = "none"
        /\ \A x \in Jobs \ {j} : jobs'[x] = jobs[x]
    BY <1>5, <2>1 DEF CancelDeployment, RetryDeployment, JobRecords
  <2>3. Exists(j)'
    <3>1. RegistryInv'
      BY <1>5, CancelInv, RetryInv
    <3>2. jobs'[j].lease = "none" /\ jobs'[j] \in JobRecords \cup {None}
      BY <2>2, <3>1 DEF RegistryInv, RegistryTypeOK
    <3>3. jobs'[j] \in JobRecords
      BY <1>5, <2>1, RegistryAssumption
         DEF CancelDeployment, RetryDeployment, JobRecords, JobStatus
    <3> QED BY <3>3, RowAssumption DEF Exists
  <2>4. RowKept(j) /\ LeaseInOrder(j)' /\ Unfinished
    BY <2>1, <2>2, <2>3 DEF RowKept, LeaseInOrder, Unfinished, Resolved
  <2> QED BY <2>1, <2>2, <2>4, OneRowStep
<1>6. ASSUME NEW n \in Nodes, MarkNodeOffline(n)
      PROVE  RowStep /\ LeasesActive' /\ Unfinished
  BY <1>6, RowsSame DEF MarkNodeOffline
<1> QED BY <1>1, <1>2, <1>3, <1>4, <1>5, <1>6 DEF Request

LEMMA TimeRows ==
  ASSUME RegistryInv, LeasesActive, NEW j \in Jobs, LeaseElapses(j) \/ BackoffPasses(j)
  PROVE  RowStep /\ LeasesActive' /\ Unfinished
<1>1. Exists(j) /\ ~Resolved(j) /\ jobs[j] \in JobRecords
      /\ jobs \in [Jobs -> JobRecords \cup {None}]
  BY JobType DEF LeaseElapses, BackoffPasses, RegistryInv, RegistryTypeOK, JobsInv, JobInv,
                 Resolved
<1>2. /\ jobs'[j].intent = jobs[j].intent /\ jobs'[j].node = jobs[j].node
      /\ jobs'[j].attempts = jobs[j].attempts /\ jobs'[j].rstate = jobs[j].rstate
      /\ jobs'[j].result = jobs[j].result /\ jobs'[j].lease \in {"expired", jobs[j].lease}
      /\ jobs'[j].status = jobs[j].status /\ jobs'[j] \in JobRecords
      /\ \A x \in Jobs \ {j} : jobs'[x] = jobs[x]
  <2>1. CASE LeaseElapses(j)
    <3>1. jobs' = [jobs EXCEPT ![j].lease = "expired"]
      BY <2>1 DEF LeaseElapses
    <3> QED BY <1>1, <3>1 DEF JobRecords
  <2>2. CASE BackoffPasses(j)
    <3>1. jobs' = [jobs EXCEPT ![j].backoff = FALSE]
      BY <2>2 DEF BackoffPasses
    <3> QED BY <1>1, <3>1 DEF JobRecords
  <2> QED BY <2>1, <2>2
<1>3. RowKept(j) /\ LeaseInOrder(j)' /\ Unfinished
  BY <1>1, <1>2, RowAssumption
     DEF RowKept, LeasesActive, LeaseInOrder, LeaseActive, Unfinished, Resolved, Exists
<1> QED BY <1>1, <1>2, <1>3, OneRowStep

LEMMA PollRows ==
  ASSUME RegistryInv, LeasesActive, Poll
  PROVE  RowStep /\ LeasesActive' /\ Unfinished
<1>1. PICK leased \in SUBSET Jobs :
        /\ \A k \in leased : /\ Exists(k) /\ AfterExpiry(k).status \in {"queued", "rolling_back"}
                             /\ jobs[k].attempts < AttemptBound
        /\ jobs' = [k \in Jobs |->
                      IF k \in leased
                        THEN [AfterExpiry(k) EXCEPT !.status = "leased", !.lease = "live",
                                !.attempts = @ + 1, !.backoff = FALSE]
                        ELSE AfterExpiry(k)]
  <2>1. CASE \E n \in Nodes : ExpireDeploymentLeases(n)
    <3>1. jobs' = [k \in Jobs |->
                     IF k \in {}
                       THEN [AfterExpiry(k) EXCEPT !.status = "leased", !.lease = "live",
                               !.attempts = @ + 1, !.backoff = FALSE]
                       ELSE AfterExpiry(k)]
      BY <2>1 DEF ExpireDeploymentLeases
    <3> WITNESS {} \in SUBSET Jobs
    <3> QED BY <3>1
  <2>2. ASSUME NEW n \in Nodes, NEW j \in Jobs, LeaseDeployment(n, j)
        PROVE  \E leased \in SUBSET Jobs :
                 /\ \A k \in leased : /\ Exists(k)
                                      /\ AfterExpiry(k).status \in {"queued", "rolling_back"}
                                      /\ jobs[k].attempts < AttemptBound
                 /\ jobs' = [k \in Jobs |->
                      IF k \in leased
                        THEN [AfterExpiry(k) EXCEPT !.status = "leased", !.lease = "live",
                                !.attempts = @ + 1, !.backoff = FALSE]
                        ELSE AfterExpiry(k)]
    <3>1. Exists(j) /\ AfterExpiry(j).status \in {"queued", "rolling_back"}
          /\ jobs[j].attempts < AttemptBound
      BY <2>2 DEF LeaseDeployment, Leasable
    <3>2. jobs' = [k \in Jobs |->
                     IF k \in {j}
                       THEN [AfterExpiry(k) EXCEPT !.status = "leased", !.lease = "live",
                               !.attempts = @ + 1, !.backoff = FALSE]
                       ELSE AfterExpiry(k)]
      BY <2>2 DEF LeaseDeployment
    <3> QED BY <3>1, <3>2
  <2> QED BY <2>1, <2>2 DEF Poll
<1>2. RegistryInv'
  BY LeaseDeploymentInv, ExpireDeploymentLeasesInv DEF Poll
<1>3. ASSUME NEW x \in Jobs, ~Exists(x)
      PROVE  RowFresh(x) /\ LeaseInOrder(x)'
  <2>1. AfterExpiry(x) = None
    BY <1>3 DEF AfterExpiry, LeaseLapsed, Exists
  <2> QED BY <1>1, <1>3, <2>1 DEF RowFresh, LeaseInOrder, Exists
<1>4. ASSUME NEW x \in Jobs, Exists(x)
      PROVE  RowKept(x) /\ LeaseInOrder(x)' /\ (~Resolved(x) => ~Resolved(x)')
  <2> DEFINE a == AfterExpiry(x)
  <2>1. /\ a \in JobRecords /\ a.intent = jobs[x].intent /\ a.node = jobs[x].node
        /\ a.result = jobs[x].result /\ a.attempts = jobs[x].attempts
        /\ a.rstate = jobs[x].rstate /\ JobInv(a) /\ jobs[x].attempts \in Nat
        /\ jobs[x].result # None => a = jobs[x]
    BY <1>4, AfterExpiryJob, JobType DEF RegistryInv
  <2>2. a.lease = "live" => a = jobs[x]
    BY <1>4, <2>1 DEF AfterExpiry, LeaseLapsed, JobRecords
  <2>3. CASE x \notin leased
    <3>1. jobs'[x] = a
      BY <1>1, <2>3
    <3>2. Exists(x)'
      BY <2>1, <3>1, RowAssumption DEF Exists
    <3>3. RowKept(x) /\ (~Resolved(x) => ~Resolved(x)')
      BY <2>1, <3>1, <3>2 DEF RowKept, Resolved
    <3>4. LeaseInOrder(x)'
      BY <1>4, <2>2, <3>1 DEF LeasesActive, LeaseInOrder, LeaseActive
    <3> QED BY <3>3, <3>4
  <2>4. CASE x \in leased
    <3> DEFINE n == a.attempts + 1
               r == [a EXCEPT !.status = "leased", !.lease = "live", !.attempts = n,
                              !.backoff = FALSE]
    <3>1. jobs'[x] = r
      BY <1>1, <2>4
    <3>2. a.result = None /\ a.attempts < AttemptBound
      BY <1>1, <2>1, <2>4 DEF JobInv, FinalStates
    <3>3. n \in Nat /\ n > 0 /\ n \in 1..AttemptBound
      BY <2>1, <3>2, RegistryAssumption
    <3> HIDE DEF n
    <3>4. /\ r \in JobRecords /\ r.intent = a.intent /\ r.node = a.node
          /\ r.result = None /\ r.status = "leased" /\ r.attempts = n /\ r.rstate = a.rstate
      BY <2>1, <3>2, <3>3 DEF JobRecords, JobStatus
    <3> HIDE DEF r
    <3>5. Exists(x)'
      BY <3>1, <3>4, RowAssumption DEF Exists
    <3>6. RowKept(x) /\ ~Resolved(x)'
      BY <2>1, <3>1, <3>2, <3>3, <3>4, <3>5 DEF RowKept, Resolved
    <3>7. LeaseInOrder(x)'
      BY <3>1, <3>3, <3>4 DEF LeaseInOrder, LeaseActive
    <3> QED BY <3>6, <3>7
  <2> QED BY <2>3, <2>4
<1> QED BY <1>3, <1>4 DEF RowStep, LeasesActive, Unfinished

LEMMA ProgressRows ==
  ASSUME RegistryInv, LeasesActive, NEW j \in Jobs, NEW token, NEW state \in RolloutStates,
         NEW m, ProgressImmutableDeployment(j, token, state, m),
         Recorded(j), CanCompleteRollout(state, wal[j].state)
  PROVE  RowStep /\ LeasesActive' /\ Unfinished
<1>1. Exists(j) /\ ~Resolved(j) /\ jobs[j] \in JobRecords /\ jobs[j].lease = "live"
      /\ jobs \in [Jobs -> JobRecords \cup {None}]
  BY JobType DEF ProgressImmutableDeployment, HoldsLease, RegistryInv, RegistryTypeOK
<1> DEFINE status == IF IsTerminalRolloutState(state) THEN jobs[j].status ELSE state
<1>2. jobs' = [jobs EXCEPT ![j] = [@ EXCEPT !.rstate = state, !.status = status]]
  BY <1>1 DEF ProgressImmutableDeployment
<1>3. LeaseActive(j) /\ jobs[j].attempts \in 1..AttemptBound
  BY <1>1 DEF LeasesActive, LeaseInOrder
<1>4. status \in {"leased", "applying", "prepared", "waiting", "failed", "rolling_back"}
  BY <1>3 DEF LeaseActive, IsTerminalRolloutState, RolloutStates
<1> HIDE DEF status
<1>5. /\ jobs'[j].intent = jobs[j].intent /\ jobs'[j].node = jobs[j].node
      /\ jobs'[j].attempts = jobs[j].attempts /\ jobs'[j].rstate = state
      /\ jobs'[j].result = None /\ jobs'[j].status = status /\ jobs'[j] \in JobRecords
      /\ \A x \in Jobs \ {j} : jobs'[x] = jobs[x]
  BY <1>1, <1>2, <1>4 DEF JobRecords, JobStatus, RolloutStates, Resolved
<1>6. RowKept(j) /\ LeaseInOrder(j)' /\ Unfinished
  BY <1>1, <1>3, <1>4, <1>5, RowAssumption
     DEF RowKept, LeaseInOrder, LeaseActive, Unfinished, Resolved, Exists
<1> QED BY <1>1, <1>5, <1>6, OneRowStep

LEMMA ResultRows ==
  ASSUME RegistryInv, LeasesActive, StampsApart, NEW j \in Jobs, NEW token, NEW r,
         Factual(j, r), run.job = j, run.pc = "report", CompleteDeployment(j, token, r)
  PROVE  RowStep /\ LeasesActive' /\ StampsApart'
<1>1. Exists(j) /\ ~Resolved(j) /\ jobs[j] \in JobRecords /\ r \in Results
      /\ jobs \in [Jobs -> JobRecords \cup {None}] /\ tick \in Nat
  BY JobType DEF CompleteDeployment, HoldsLease, RegistryInv, RegistryTypeOK, Factual
<1>2. jobs' = [jobs EXCEPT ![j] =
                 [@ EXCEPT !.status = r.state, !.rstate = r.state, !.result = r,
                           !.lease = "none", !.backoff = FALSE,
                           !.exhausted = FALSE, !.doneAt = tick]]
  BY DEF CompleteDeployment
<1>3. r.state \in RolloutStates /\ r # None
  BY <1>1, RowAssumption DEF Results
<1>4. /\ jobs'[j].intent = jobs[j].intent /\ jobs'[j].node = jobs[j].node
      /\ jobs'[j].attempts = jobs[j].attempts /\ jobs'[j].lease = "none"
      /\ jobs'[j].result = r /\ jobs'[j].doneAt = tick /\ jobs'[j] \in JobRecords
      /\ \A x \in Jobs \ {j} : jobs'[x] = jobs[x]
  BY <1>1, <1>2, <1>3 DEF JobRecords, JobStatus
<1>5. RowKept(j) /\ LeaseInOrder(j)'
  BY <1>1, <1>3, <1>4, RowAssumption DEF RowKept, LeaseInOrder, Resolved, Exists
<1>6. \A x \in Jobs \ {j} : Exists(x)' /\ Resolved(x)' =>
        Exists(x) /\ Resolved(x) /\ jobs'[x].doneAt # tick
  <2> SUFFICES ASSUME NEW x \in Jobs \ {j}, Exists(x)', Resolved(x)'
               PROVE  Exists(x) /\ Resolved(x) /\ jobs'[x].doneAt # tick
    OBVIOUS
  <2>1. Exists(x) /\ Resolved(x) /\ jobs'[x].doneAt = jobs[x].doneAt
    BY <1>4 DEF Exists, Resolved
  <2>2. jobs[x].doneAt \in Nat /\ jobs[x].doneAt < tick
    BY <2>1, JobType DEF RegistryInv, JobsInv, JobInv
  <2> QED BY <1>1, <2>1, <2>2
<1>7. StampsApart'
  BY <1>4, <1>6 DEF StampsApart
<1> QED BY <1>4, <1>5, <1>7, OneRowStep, <1>1

----------------------------------------------------------------------------
(* The snapshots Cloud names.                                              *)
LEMMA GroundedKept ==
  ASSUME LogInv, LogStep, NEW i, Grounded(i)
  PROVE  Grounded(i)'
<1>1. i.previous # None => Deployed(i.previous, i.target)'
  BY DeployedKept DEF Grounded
<1>2. i.op = "rollback" =>
        Deployed(i.expected, i.target) /\ Previous(i.expected) = i.previous
  BY DEF Grounded, IssuedByCloud, Deployed
<1>3. i.op = "rollback" =>
        Deployed(i.expected, i.target)' /\ Previous(i.expected)' = i.previous
  BY <1>2, DeployedKept DEF Previous
<1> QED BY <1>1, <1>3 DEF Grounded, IssuedByCloud, Deployed

LEMMA LatestDeployed ==
  ASSUME CloudInv, LogInv, LoggedJobs, ResultsFactual, Issued, NEW t, NEW n,
         LatestKnownGood(t, n) # None
  PROVE  Deployed(LatestKnownGood(t, n), t)
<1> DEFINE C == KnownGoodCandidates(t, n)
<1>1. C # {}
  BY DEF LatestKnownGood
<1>2. PICK j \in C : \A k \in C : jobs[k].doneAt <= jobs[j].doneAt
  BY <1>1, NewestExists DEF CloudInv, RegistryInv
<1>3. LatestKnownGood(t, n) = jobs[j].result.known
  BY <1>2, LatestOf DEF CloudInv, RegistryInv
<1>4. /\ j \in Jobs /\ Exists(j) /\ jobs[j].intent.target = t
      /\ Factual(j, jobs[j].result)
      /\ jobs[j].result.state \in {"succeeded", "rolled_back"}
  BY DEF KnownGoodCandidates, ResultsFactual
<1>5. CASE jobs[j].result.state = "succeeded"
  <2>1. jobs[j].result.known = j /\ Recorded(j) /\ wal[j].state = "succeeded"
    BY <1>4, <1>5 DEF Factual, Terminal
  <2> QED BY <1>3, <1>4, <2>1 DEF Deployed, LoggedJobs, Target
<1>6. CASE jobs[j].result.state = "rolled_back"
  BY <1>3, <1>4, <1>6 DEF Factual, Issued, Grounded
<1> QED BY <1>4, <1>5, <1>6

LEMMA IssuedKept ==
  ASSUME LogInv, LogStep, RowStep, Issued,
         \A x \in Jobs : ~Exists(x) /\ Exists(x)' => Grounded(jobs'[x].intent),
         \A x \in Jobs : drafts'[x] # None /\ drafts'[x].previous # None =>
           drafts'[x] = drafts[x] \/ Deployed(drafts'[x].previous, drafts'[x].target)
  PROVE  Issued'
<1>1. ASSUME NEW x \in Jobs, Exists(x)' PROVE Grounded(jobs[x].intent)'
  <2> SUFFICES ASSUME NEW i, i = jobs'[x].intent PROVE Grounded(i)'
    BY DEF Grounded, IssuedByCloud, Deployed
  <2>1. Grounded(i)
    BY <1>1 DEF Issued, RowStep, RowKept
  <2> QED BY <2>1, GroundedKept
<1>2. ASSUME NEW x \in Jobs, drafts'[x] # None, drafts'[x].previous # None
      PROVE  Deployed(drafts[x].previous, drafts[x].target)'
  <2> SUFFICES ASSUME NEW k, NEW t, k = drafts'[x].previous, t = drafts'[x].target
               PROVE  Deployed(k, t)'
    BY DEF Deployed
  <2>1. Deployed(k, t)
    BY <1>2 DEF Issued
  <2> QED BY <2>1, DeployedKept
<1> QED BY <1>1, <1>2 DEF Issued

LEMMA NewJobIntent ==
  ASSUME RegistryInv, NEW j \in Jobs, NEW i, NEW n,
         jobs' = [jobs EXCEPT ![j] = NewJob(i, n)]
  PROVE  /\ jobs'[j].intent = i
         /\ \A x \in Jobs : ~Exists(x) /\ Exists(x)' => x = j
<1>1. jobs'[j] = NewJob(i, n) /\ \A x \in Jobs \ {j} : jobs'[x] = jobs[x]
  BY DEF RegistryInv, RegistryTypeOK
<1> QED BY <1>1 DEF NewJob, Exists

LEMMA IssuedByRequest ==
  ASSUME CloudInv, LogInv, LoggedJobs, ResultsFactual, Issued, RowStep,
         Request, UNCHANGED <<wal, unread, retired>>
  PROVE  Issued'
<1>1. LogStep
  BY LogStutters
<1>2. ASSUME UNCHANGED <<jobs, drafts>> PROVE Issued'
  BY <1>1, <1>2, IssuedKept DEF Exists
<1>3. drafts \in [Jobs -> Drafts \cup {None}]
  BY DEF CloudInv, RegistryInv, RegistryTypeOK
<1>4. ASSUME NEW j \in Jobs, NEW t \in Targets, NEW n \in Nodes, ReadKnownGood(j, t, n)
      PROVE  Issued'
  <2> DEFINE p == LatestKnownGood(t, n)
             d == [target |-> t, node |-> n, previous |-> p]
  <2>1. jobs' = jobs /\ drafts' = [drafts EXCEPT ![j] = d]
    BY <1>4 DEF ReadKnownGood
  <2>2. p # None => Deployed(p, t)
    BY LatestDeployed
  <2> HIDE DEF p
  <2>3. d.previous = p /\ d.target = t
    OBVIOUS
  <2>4. drafts'[j] = d /\ \A x \in Jobs \ {j} : drafts'[x] = drafts[x]
    BY <1>3, <2>1
  <2> HIDE DEF d
  <2>5. \A x \in Jobs : drafts'[x] # None /\ drafts'[x].previous # None =>
          drafts'[x] = drafts[x] \/ Deployed(drafts'[x].previous, drafts'[x].target)
    BY <2>2, <2>3, <2>4
  <2>6. \A x \in Jobs : ~Exists(x) /\ Exists(x)' => Grounded(jobs'[x].intent)
    BY <2>1 DEF Exists
  <2> QED BY <1>1, <2>5, <2>6, IssuedKept
<1>5. ASSUME NEW j \in Jobs, StartImmutableDeployment(j)
      PROVE  Issued'
  <2> DEFINE d == drafts[j]
             i == [op |-> "apply", target |-> d.target, previous |-> d.previous,
                   expected |-> None]
  <2>1. d # None /\ drafts' = [drafts EXCEPT ![j] = None]
        /\ (jobs' = jobs \/ jobs' = [jobs EXCEPT ![j] = NewJob(i, d.node)])
    BY <1>5 DEF StartImmutableDeployment, Insert
  <2>2. \A x \in Jobs : drafts'[x] # None => drafts'[x] = drafts[x]
    BY <1>3, <2>1
  <2>3. Grounded(i)
    BY <2>1 DEF Issued, Grounded, IssuedByCloud, Deployed
  <2> HIDE DEF i
  <2>4. \A x \in Jobs : ~Exists(x) /\ Exists(x)' => Grounded(jobs'[x].intent)
    <3>1. CASE jobs' = jobs
      BY <3>1 DEF Exists
    <3>2. CASE jobs' = [jobs EXCEPT ![j] = NewJob(i, d.node)]
      BY <2>3, <3>2, NewJobIntent DEF CloudInv
    <3> QED BY <2>1, <3>1, <3>2
  <2> QED BY <1>1, <2>2, <2>4, IssuedKept
<1>6. ASSUME NEW j \in Jobs, NEW source \in Jobs, RollbackDeployment(j, source)
      PROVE  Issued'
  <2> DEFINE b == jobs[source]
             i == [op |-> "rollback", target |-> b.intent.target,
                   previous |-> b.intent.previous, expected |-> b.result.known]
  <2>1. /\ RollbackEligible(source) /\ drafts' = drafts
        /\ jobs' = [jobs EXCEPT ![j] = NewJob(i, b.node)]
    BY <1>6 DEF RollbackDeployment, Insert
  <2>2. /\ Exists(source) /\ Factual(source, b.result) /\ b.result.state = "succeeded"
        /\ b.intent.previous # None
    BY <2>1 DEF RollbackEligible, ResultsFactual
  <2>3. b.result.known = source /\ Recorded(source) /\ wal[source].state = "succeeded"
    BY <2>2 DEF Factual, Terminal
  <2>4. wal[source].intent = b.intent /\ Deployed(b.intent.previous, b.intent.target)
    BY <2>2, <2>3 DEF LoggedJobs, Issued, Grounded
  <2>5. Grounded(i)
    BY <2>3, <2>4 DEF Grounded, IssuedByCloud, Target, Previous
  <2> HIDE DEF i
  <2>6. \A x \in Jobs : ~Exists(x) /\ Exists(x)' => Grounded(jobs'[x].intent)
    BY <2>1, <2>5, NewJobIntent DEF CloudInv
  <2> QED BY <1>1, <2>1, <2>6, IssuedKept
<1>7. ASSUME NEW j \in Jobs, NEW base \in Jobs, NEW op \in CleanupOperations,
             StartCleanupJob(j, base, op)
      PROVE  Issued'
  <2> DEFINE i == [op |-> op, target |-> jobs[base].intent.target, previous |-> None,
                   expected |-> None]
  <2>1. drafts' = drafts /\ jobs' = [jobs EXCEPT ![j] = NewJob(i, jobs[base].node)]
    BY <1>7 DEF StartCleanupJob, Insert
  <2>2. Grounded(i)
    BY DEF Grounded, IssuedByCloud, CleanupOperations
  <2> HIDE DEF i
  <2>3. \A x \in Jobs : ~Exists(x) /\ Exists(x)' => Grounded(jobs'[x].intent)
    BY <2>1, <2>2, NewJobIntent DEF CloudInv
  <2> QED BY <1>1, <2>1, <2>3, IssuedKept
<1>8. ASSUME NEW j \in Jobs, CancelDeployment(j) \/ RetryDeployment(j)
      PROVE  Issued'
  <2>1. drafts' = drafts /\ \A x \in Jobs : ~Exists(x) => ~Exists(x)'
    BY <1>8 DEF CancelDeployment, RetryDeployment, Exists, CloudInv, RegistryInv, RegistryTypeOK
  <2> QED BY <1>1, <2>1, IssuedKept
<1>9. ASSUME NEW n \in Nodes, MarkNodeOffline(n)
      PROVE  Issued'
  BY <1>2, <1>9 DEF MarkNodeOffline
<1> QED BY <1>4, <1>5, <1>6, <1>7, <1>8, <1>9 DEF Request

----------------------------------------------------------------------------
(* The engine's call and what it hands back.                               *)
CallGoesOn ==
  ~eng.boot => /\ eng'.pc \in {"running", "applied", "returned"}
               /\ eng'.job = eng.job /\ ~eng'.boot

LEMMA EndsTerminal ==
  ASSUME StoreInv, NEW j \in Jobs, Active(j), NEW state \in RolloutStates,
         NEW error \in {"none", "cancelled", "failure"}, NEW m \in BOOLEAN,
         TransitionRollout(j, state, error, m, TRUE) \/ CommitRolloutSuccess(j)
  PROVE  Terminal(j)'
<1>1. wal \in [Jobs -> WalRecords \cup {None}] /\ clock \in Nat \ {0}
      /\ wal[j].intent \in Intents
  BY RecordType DEF StoreInv, StoreTypeOK, Active
<1> DEFINE w(st, e, mat) == [intent |-> wal[j].intent, state |-> st, terminalAt |-> clock,
                             error |-> e, materialized |-> mat]
<1>2. wal'[j] = w(state, error, m) \/ wal'[j] = w("succeeded", "none", TRUE)
  <2>1. CASE TransitionRollout(j, state, error, m, TRUE)
    BY <1>1, <2>1 DEF TransitionRollout
  <2>2. CASE CommitRolloutSuccess(j)
    BY <1>1, <2>2 DEF CommitRolloutSuccess
  <2> QED BY <2>1, <2>2
<1>3. w(state, error, m) # None /\ w("succeeded", "none", TRUE) # None
  <2>1. clock \in Nat /\ "succeeded" \in RolloutStates
    BY <1>1 DEF RolloutStates
  <2>2. w(state, error, m) # None
    BY <1>1, <2>1, NewRecord
  <2>3. w("succeeded", "none", TRUE) # None
    BY <1>1, <2>1, NewRecord
  <2> QED BY <2>2, <2>3
<1> QED BY <1>1, <1>2, <1>3 DEF Terminal, Recorded

LEMMA ReturnedOutcome ==
  ASSUME CallInv, NEW out \in {"record", "error"}, NEW ok, eng' = Returned(out, ok),
         NEW j, j = eng.job, out = "record" => Terminal(j)'
  PROVE  OutcomeInv' /\ CallGoesOn
<1>1. CASE eng.boot
  BY <1>1 DEF Returned, At, OutcomeInv, CallGoesOn
<1>2. CASE ~eng.boot
  BY <1>2 DEF Returned, At, OutcomeInv, CallGoesOn
<1> QED BY <1>1, <1>2

LEMMA ContinueOutcome ==
  ASSUME CallInv, eng.pc \in {"running", "applied"}, NEW pc \in {"running", "applied"},
         eng' = eng \/ eng' = Continue(pc)
  PROVE  OutcomeInv' /\ CallGoesOn
BY DEF Continue, CallInv, EngineStates, OutcomeInv, CallGoesOn

LEMMA RolloutOutcome ==
  ASSUME StoreInv, CallInv, RolloutStep
  PROVE  OutcomeInv' /\ CallGoesOn
<1> SUFFICES ASSUME NEW j, j = eng.job PROVE OutcomeInv' /\ CallGoesOn
  OBVIOUS
<1>1. /\ eng.pc \in {"running", "applied"} /\ j \in Jobs /\ Active(j)
      /\ wal[j].error \in {"none", "cancelled", "failure"} /\ wal[j].materialized \in BOOLEAN
  BY RolloutStepCall
<1>2. CASE StartApply \/ MutateSome \/ ApplyRollout \/ RecordApplied \/ StartRollback
           \/ RestorePrevious \/ StartCleanup \/ CleanupTarget
  <2>1. eng' = eng \/ eng' = Continue("applied") \/ eng' = Continue("running")
    BY <1>2 DEF StartApply, MutateSome, ApplyRollout, RecordApplied, StartRollback,
                RestorePrevious, StartCleanup, CleanupTarget
  <2> QED BY <1>1, <2>1, ContinueOutcome
<1>3. CASE CancelBeforeMutation \/ RestoredReady \/ RollbackFailed \/ CleanupFails
           \/ RecordCleaned
  <2>1. PICK state \in RolloutStates, error \in {"none", "cancelled", "failure"},
             m \in BOOLEAN : TransitionRollout(j, state, error, m, TRUE)
    <3>1. CASE CancelBeforeMutation
      BY <1>1, <3>1 DEF CancelBeforeMutation, RolloutStates
    <3>2. CASE RestoredReady
      BY <1>1, <3>2 DEF RestoredReady, RolloutStates
    <3>3. CASE RollbackFailed
      BY <1>1, <3>3 DEF RollbackFailed, RolloutStates
    <3>4. CASE CleanupFails
      BY <1>1, <3>4 DEF CleanupFails, RolloutStates
    <3>5. CASE RecordCleaned
      BY <1>1, <3>5 DEF RecordCleaned, RolloutStates
    <3> QED BY <1>3, <3>1, <3>2, <3>3, <3>4, <3>5
  <2>2. \E ok : eng' = Returned("record", ok)
    BY <1>3 DEF CancelBeforeMutation, RestoredReady, RollbackFailed, CleanupFails,
                RecordCleaned
  <2>3. Terminal(j)'
    BY <1>1, <2>1, EndsTerminal
  <2> QED BY <2>2, <2>3, ReturnedOutcome
<1>5. CASE ObserveReady
  <2>1. CommitRolloutSuccess(j) /\ eng' = Returned("record", TRUE)
    BY <1>5 DEF ObserveReady
  <2>2. TRUE \in BOOLEAN /\ "none" \in {"none", "cancelled", "failure"}
        /\ "failed" \in RolloutStates
    BY DEF RolloutStates
  <2>3. Terminal(j)'
    BY <1>1, <2>1, <2>2, EndsTerminal
  <2> QED BY <2>1, <2>3, ReturnedOutcome
<1>6. CASE FailAndRollback
  <2>1. CASE Previous(j) = None
    <3> DEFINE unavailable == Previous(j) = None
    <3>1. TransitionRollout(j, "failed", "failure", wal[j].materialized, unavailable)
          /\ eng' = Returned("record", FALSE)
      BY <1>6, <2>1 DEF FailAndRollback
    <3>2. unavailable = TRUE
      BY <2>1
    <3> HIDE DEF unavailable
    <3>3. TransitionRollout(j, "failed", "failure", wal[j].materialized, TRUE)
      BY <3>1, <3>2
    <3>4. Terminal(j)'
      BY <1>1, <3>3, EndsTerminal DEF RolloutStates
    <3> QED BY <3>1, <3>4, ReturnedOutcome
  <2>2. CASE Previous(j) # None
    BY <1>1, <1>6, <2>2, ContinueOutcome DEF FailAndRollback
  <2> QED BY <2>1, <2>2
<1>7. CASE RollbackTimesOut
  BY <1>1, <1>7, ReturnedOutcome DEF RollbackTimesOut
<1> QED BY <1>2, <1>3, <1>5, <1>6, <1>7 DEF RolloutStep

(* What the runner makes of a finished or refused rollout says what the    *)
(* log says.                                                               *)
LEMMA FinishedFactual ==
  ASSUME StoreInv, LogInv, LoggedJobs, NEW j \in Jobs, Terminal(j)
  PROVE  Factual(j, ResultFromRollout(j))
<1>1. /\ Recorded(j) /\ LogRecord(j) /\ wal[j].intent = jobs[j].intent
      /\ wal[j].state \in RolloutStates /\ Previous(j) \in KnownGoodRefs
      /\ wal[j].error \in {"none", "cancelled", "failure"}
      /\ wal[j].materialized \in BOOLEAN /\ wal[j].intent \in Intents
  BY RecordType DEF Terminal, LogInv, LoggedJobs, StoreInv
<1> DEFINE w == wal[j]
           phase == CASE w.error = "none" -> "none"
                      [] w.error = "cancelled" /\ w.state = "failed" -> "pre_mutation"
                      [] OTHER -> "post_mutation"
           known == CASE w.state = "succeeded" -> j
                      [] w.state = "rolled_back" \/ phase = "pre_mutation" -> Previous(j)
                      [] OTHER -> None
           r == [state |-> w.state, phase |-> phase, known |-> known,
                 materialized |-> w.materialized \/ phase = "pre_mutation"]
<1>2. ResultFromRollout(j) = r
  BY DEF ResultFromRollout
<1>3. /\ phase \in {"none", "pre_mutation", "post_mutation"}
      /\ phase = "pre_mutation" => w.error = "cancelled" /\ w.state = "failed"
      /\ w.state \in {"succeeded", "cleaned"} => phase = "none"
  BY <1>1 DEF LogRecord
<1> HIDE DEF phase
<1>4. /\ known \in {None, j, Previous(j)} /\ known \in KnownGoodRefs
      /\ w.state = "succeeded" => known = j
      /\ w.state = "rolled_back" => known = Previous(j) /\ known # None
      /\ w.state = "cleaned" => known = None
  BY <1>1, <1>3 DEF LogRecord, KnownGoodRefs
<1> HIDE DEF known
<1>5. /\ r.state = w.state /\ r.phase = phase /\ r.known = known /\ r \in Results
      /\ r.materialized = (w.materialized \/ phase = "pre_mutation")
  BY <1>1, <1>3, <1>4 DEF Results
<1> HIDE DEF r
<1>6. w.state = "cleaned" => jobs[j].intent.op \in CleanupOperations
  BY <1>1 DEF LogRecord, Op
<1>7. w.state \in {"succeeded", "rolled_back", "cleaned"} => r.materialized
  BY <1>1, <1>5 DEF LogRecord
<1> QED BY <1>1, <1>2, <1>3, <1>4, <1>5, <1>6, <1>7 DEF Factual, Previous

LEMMA RefusedFactual ==
  ASSUME CloudInv, NEW j \in Jobs, Exists(j), ~Recorded(j)
  PROVE  Factual(j, PreMutationResult(j))
<1>1. jobs[j].intent.previous \in KnownGoodRefs
  BY JobType DEF CloudInv, RegistryInv
<1> QED BY <1>1 DEF Factual, PreMutationResult, Results, RolloutStates

----------------------------------------------------------------------------
(* The steps of the two together.                                          *)
LEMMA AgentMoves ==
  ASSUME AgentInv, [EngineNext]_engineVars
  PROVE  AgentInv'
<1>1. EngineInv'
  BY EngineStepInv DEF AgentInv
<1>2. HistoryInv' /\ RepairIdle'
  BY EngineStepChain DEF AgentInv
<1>3. RuntimeInv'
  BY EngineStepRuns DEF AgentInv
<1> QED BY <1>1, <1>2, <1>3 DEF AgentInv

LEMMA ShutdownMoves ==
  ASSUME AgentInv, Shutdown
  PROVE  AgentInv'
<1>1. eng' = At("down") /\ UNCHANGED <<wal, snapshots, current, runtime, clock, faults>>
  BY DEF Shutdown
<1>2. eng'.pc = "down" /\ eng' \in EngineStates
  BY <1>1, AtType
<1>3. StoreInv'
  BY <1>1, StoreStutters DEF AgentInv, EngineInv
<1>4. CallInv'
  BY <1>2 DEF CallInv
<1>5. RestInv'
  BY <1>1 DEF AgentInv, EngineInv, RestInv
<1>6. HistoryInv' /\ RepairIdle'
  BY <1>1, <1>2, HistoryStutters DEF AgentInv, RepairIdle
<1>7. LogInv' /\ KnownGoodRuns' /\ CleanedUp'
  BY <1>1, <1>2, RuntimeStutters, NotAppliedStaysEmptied DEF AgentInv, RuntimeInv
<1> QED BY <1>3, <1>4, <1>5, <1>6, <1>7 DEF AgentInv, EngineInv, RuntimeInv

LEMMA CloudStutters ==
  ASSUME CloudInv, UNCHANGED registryVars
  PROVE  CloudInv'
<1>1. RegistryInv'
  BY RegistryStepInv DEF CloudInv
<1>2. jobs' = jobs /\ retired' = retired
  BY DEF registryVars
<1>3. LeasesActive'
  BY <1>2, RowsSame DEF CloudInv
<1>4. StampsApart'
  BY <1>2 DEF CloudInv, StampsApart, Exists, Resolved
<1> QED BY <1>1, <1>2, <1>3, <1>4 DEF CloudInv

LEMMA LinkKept ==
  ASSUME DeployInv, AgentInv', CloudInv', LogStep, RowStep, Issued', OutcomeInv',
         HandInv', BeatInv', PointerInv'
  PROVE  DeployInv'
<1>1. LoggedJobs'
  BY LoggedJobsKept DEF DeployInv, LinkInv
<1>2. ResultsFactual'
  BY ResultsKept DEF DeployInv, LinkInv, AgentInv, RuntimeInv
<1>3. CloudNeverAhead'
  BY CloudStaysBehind DEF DeployInv, LinkInv, AgentInv, EngineInv, CloudInv, RegistryInv
<1> QED BY <1>1, <1>2, <1>3 DEF DeployInv, LinkInv

LEMMA EngineMovesLink ==
  ASSUME DeployInv, UNCHANGED <<registryVars, beat, unread>>, AgentInv', CloudInv', LogStep,
         OutcomeInv', HandInv', PointerInv'
  PROVE  DeployInv'
<1>1. RowStep /\ jobs' = jobs /\ drafts' = drafts
  BY RowsStutter DEF registryVars
<1>2. Issued'
  BY <1>1, IssuedKept DEF DeployInv, LinkInv, AgentInv, RuntimeInv, Exists
<1>3. BeatInv'
  BY BeatKept DEF DeployInv, LinkInv, AgentInv, EngineInv
<1> QED BY <1>1, <1>2, <1>3, LinkKept

(* The hand on a step of somebody else.                                    *)
LEMMA HandStays ==
  ASSUME LogInv, HandInv, LogStep, RowStep, UNCHANGED <<eng, wal>>, run' \in Hands,
         run'.pc = run.pc, run'.job = run.job, run'.result = run.result,
         run'.unsent => run.unsent
  PROVE  HandInv'
<1> SUFFICES ASSUME NEW j, j = run.job, NEW r, r = run.result PROVE HandInv'
  OBVIOUS
<1>1. run.pc # "idle" => j \in Jobs /\ Exists(j)' /\ jobs'[j].attempts > 0
  BY DEF HandInv, RowStep, RowKept
<1>2. run.pc \in {"lease", "call", "engine", "stopping"} => ~Resolved(j)'
  BY DEF HandInv, RowStep, RowKept
<1>3. run.pc = "report" => Factual(j, r)'
  BY FactualKept DEF HandInv
<1>4. Recorded(j)' <=> Recorded(j)
  BY DEF Recorded
<1>5. run.pc = "report" => Factual(run.job, run.result)'
  BY <1>3 DEF Factual
<1> QED BY <1>1, <1>2, <1>4, <1>5 DEF HandInv, Exists, Resolved, Recorded

LEMMA HandStutters ==
  ASSUME LogInv, HandInv, LogStep, RowStep, UNCHANGED <<run, eng, wal>>
  PROVE  HandInv'
BY HandStays DEF HandInv

LEMMA HandIdle ==
  ASSUME run' = Idle
  PROVE  HandInv'
BY DEF HandInv, Idle, Hands, KnownGoodRefs

----------------------------------------------------------------------------
(* The engine's steps.                                                     *)
LEMMA CallEngineInv ==
  ASSUME DeployInv, CallEngine
  PROVE  DeployInv'
<1> SUFFICES ASSUME NEW j, j = run.job, NEW i, i = jobs[j].intent PROVE DeployInv'
  OBVIOUS
<1>1. /\ run.pc \in {"lease", "call"} /\ ReconcileRollout(j, i)
      /\ run' = [run EXCEPT !.pc = "engine", !.calls = @ + 1, !.unsent = Emits(j)]
      /\ UNCHANGED <<registryVars, beat, unread>> /\ jobs' = jobs
  BY DEF CallEngine, registryVars
<1>2. /\ j \in Jobs /\ Exists(j) /\ ~Resolved(j) /\ eng.pc = "idle" /\ run \in Hands
      /\ jobs[j].attempts > 0
  BY <1>1 DEF DeployInv, LinkInv, HandInv
<1>3. i \in Intents /\ IssuedByCloud(i)
  BY <1>2, JobType DEF DeployInv, CloudInv, RegistryInv, LinkInv, Issued, Grounded
<1>4. AgentInv'
  <2>1. EngineNext
    BY <1>1, <1>2, <1>3 DEF EngineNext, Submit
  <2> QED BY <2>1, AgentMoves DEF DeployInv
<1>5. CloudInv'
  BY <1>1, CloudStutters DEF DeployInv
<1>6. /\ LogStep /\ current' = current
      /\ \A k \in Jobs : Recorded(k) => wal'[k] = wal[k]
  BY <1>1, <1>2, EntryLogStep DEF DeployInv, AgentInv, EngineInv
<1>7. PointerInv'
  BY <1>1, <1>5, <1>6, PointerByEntry DEF DeployInv, LinkInv
<1>8. /\ eng'.pc \in {"running", "returned"} /\ eng'.job = j /\ ~eng'.boot
      /\ eng'.pc = "running" => Recorded(j)'
      /\ eng'.pc = "returned" => /\ eng'.out = "record" => Terminal(j)'
                                 /\ eng'.out = "refused" => ~Recorded(j)'
  <2>1. CASE RefuseRollout(j, i) \/ PreflightFails(j, i)
    <3>1. ~Recorded(j) /\ wal' = wal /\ eng' = Refusal(j, i)
      BY <1>2, <2>1 DEF RefuseRollout, PreflightFails, DeployInv, LinkInv, LoggedJobs
    <3> QED BY <3>1 DEF Refusal, At, Recorded
  <2>2. CASE BeginRollout(j, i)
    <3>1. eng' = [At("running") EXCEPT !.job = j]
      BY <2>2 DEF BeginRollout
    <3>2. Recorded(j)'
      <4>1. PICK m \in BOOLEAN : wal' = [wal EXCEPT ![j] =
                        [intent |-> i, state |-> "prepared", terminalAt |-> 0,
                         error |-> "none", materialized |-> m]]
        BY <2>2 DEF BeginRollout
      <4>2. /\ "prepared" \in RolloutStates /\ 0 \in Nat
            /\ "none" \in {"none", "cancelled", "failure"}
        BY DEF RolloutStates
      <4>3. [intent |-> i, state |-> "prepared", terminalAt |-> 0, error |-> "none",
             materialized |-> m] # None
        BY <1>3, <4>2, NewRecord
      <4> QED BY <1>2, <4>1, <4>3 DEF DeployInv, AgentInv, EngineInv, StoreInv, StoreTypeOK, Recorded
    <3> QED BY <3>1, <3>2 DEF At
  <2>3. CASE ResumeRollout(j, i)
    <3>1. Recorded(j) /\ wal' = wal
          /\ eng' = IF Terminal(j) THEN [At("returned") EXCEPT !.job = j, !.out = "record"]
                                   ELSE [At("running") EXCEPT !.job = j]
      BY <2>3 DEF ResumeRollout
    <3> QED BY <3>1 DEF At, Recorded, Terminal
  <2> QED BY <1>1, <2>1, <2>2, <2>3 DEF ReconcileRollout
<1>9. OutcomeInv'
  BY <1>8 DEF OutcomeInv
<1>10. HandInv'
  <2>1. Emits(j) \in BOOLEAN /\ (Emits(j) => Recorded(j)')
    <3>1. wal'[j] # wal[j] => Recorded(j)'
      BY <1>2, <1>6, <1>8, <1>1 DEF Recorded, LogStep, ReconcileRollout, RefuseRollout,
                                    PreflightFails, ResumeRollout, BeginRollout
    <3> QED BY <3>1 DEF Emits
  <2> DEFINE e == Emits(j)
             calls == run.calls + 1
  <2>2. run' = [run EXCEPT !.pc = "engine", !.calls = calls, !.unsent = e]
    BY <1>1
  <2>3. e \in BOOLEAN /\ calls \in Nat /\ (e => Recorded(j)')
    BY <1>2, <2>1 DEF Hands
  <2> HIDE DEF e, calls
  <2>4. /\ run' \in Hands /\ run'.pc = "engine" /\ run'.job = j /\ run'.unsent = e
    BY <1>2, <2>2, <2>3 DEF Hands
  <2> QED BY <1>1, <1>2, <1>8, <2>3, <2>4 DEF HandInv, Exists, Resolved, Recorded
<1> QED BY <1>1, <1>4, <1>5, <1>6, <1>7, <1>9, <1>10, EngineMovesLink

LEMMA TransitionWrites ==
  ASSUME StoreInv, NEW j \in Jobs, NEW state, NEW error, NEW m, NEW terminal,
         TransitionRollout(j, state, error, m, terminal)
  PROVE  wal'[j].state = state /\ wal'[j].error = error
BY DEF StoreInv, StoreTypeOK, TransitionRollout

LEMMA RunRolloutInv ==
  ASSUME DeployInv, RunRollout
  PROVE  DeployInv'
<1> SUFFICES ASSUME NEW j, j = run.job PROVE DeployInv'
  OBVIOUS
<1>1. /\ run.pc = "engine"
      /\ RolloutStep \/ StoreError
      /\ run' = [run EXCEPT !.unsent = Emits(j),
                   !.pc = IF /\ wal'[j] # wal[j]
                             /\ wal'[j].error = "cancelled"
                            THEN "stopping" ELSE @]
      /\ UNCHANGED <<registryVars, beat, unread>> /\ jobs' = jobs
  BY DEF RunRollout, registryVars
<1>2. /\ j \in Jobs /\ Exists(j) /\ ~Resolved(j) /\ run \in Hands /\ jobs[j].attempts > 0
      /\ eng.job = j /\ ~eng.boot
  BY <1>1 DEF DeployInv, LinkInv, HandInv
<1>3. AgentInv'
  BY <1>1, AgentMoves DEF DeployInv, EngineNext, EngineStep, FaultStep
<1>4. CloudInv'
  BY <1>1, CloudStutters DEF DeployInv
<1>5. /\ LogStep /\ PointerInv' /\ OutcomeInv' /\ CallGoesOn
      /\ eng'.pc # "returned" => Recorded(j)
      /\ wal'[j] # wal[j] => Recorded(j)
      /\ wal'[j] # wal[j] /\ wal'[j].error = "cancelled" => eng'.pc = "returned"
  <2>1. CASE RolloutStep
    <3>1. LogStep
      BY <1>1, <2>1, RolloutLogStep DEF DeployInv, AgentInv, EngineInv, RuntimeInv
    <3>2. LoggedJobs'
      BY <1>1, <3>1, RowsStutter, LoggedJobsKept DEF DeployInv, LinkInv
    <3>3. PointerInv'
      BY <1>1, <1>3, <1>4, <2>1, <3>2, PointerByRollout
         DEF DeployInv, LinkInv, AgentInv, EngineInv, RuntimeInv
    <3>4. OutcomeInv' /\ CallGoesOn /\ Recorded(j)
      BY <1>2, <2>1, RolloutOutcome, RolloutStepCall DEF DeployInv, AgentInv, EngineInv
    <3>5. ASSUME wal'[j] # wal[j], wal'[j].error = "cancelled" PROVE eng'.pc = "returned"
      <4>1. Recorded(j)' /\ LogInv'
        BY <1>2, <1>3, <3>1, <3>4 DEF LogStep, AgentInv, RuntimeInv
      <4>2. wal'[j].state = "failed"
        BY <1>2, <3>5, <4>1 DEF LogInv, LogRecord
      <4>3. wal \in [Jobs -> WalRecords \cup {None}]
        BY DEF DeployInv, AgentInv, EngineInv, StoreInv, StoreTypeOK
      <4>4. CASE CancelBeforeMutation
        BY <1>2, <4>4 DEF CancelBeforeMutation, Returned, At
      <4>5. CASE FailAndRollback
        BY <1>2, <3>5, <4>5, TransitionWrites DEF FailAndRollback, DeployInv, AgentInv, EngineInv
      <4>6. CASE CleanupFails \/ RollbackFailed
        BY <1>2, <3>5, <4>6, TransitionWrites
           DEF CleanupFails, RollbackFailed, DeployInv, AgentInv, EngineInv
      <4>9. CASE StartApply \/ RecordApplied \/ StartRollback
        BY <1>2, <4>2, <4>9, TransitionWrites
           DEF StartApply, RecordApplied, StartRollback, DeployInv, AgentInv, EngineInv
      <4>10. CASE RestoredReady \/ StartCleanup \/ RecordCleaned
        BY <1>2, <4>2, <4>10, TransitionWrites
           DEF RestoredReady, StartCleanup, RecordCleaned, DeployInv, AgentInv, EngineInv
      <4>7. CASE ObserveReady
        BY <1>2, <4>2, <4>3, <4>7 DEF ObserveReady, CommitRolloutSuccess
      <4>8. CASE MutateSome \/ ApplyRollout \/ RestorePrevious \/ RollbackTimesOut
                 \/ CleanupTarget
        BY <3>5, <4>8 DEF MutateSome, ApplyRollout, RestorePrevious, RollbackTimesOut,
                          CleanupTarget
      <4> QED BY <2>1, <4>4, <4>5, <4>6, <4>7, <4>8, <4>9, <4>10 DEF RolloutStep
    <3> QED BY <3>1, <3>3, <3>4, <3>5
  <2>2. CASE StoreError
    <3>1. UNCHANGED <<wal, current>> /\ eng.pc \in {"running", "applied"}
          /\ eng' = Returned("error", FALSE)
      BY <2>2 DEF StoreError
    <3>2. LogStep
      BY <1>1, <3>1, LogStutters
    <3>3. PointerInv'
      BY <1>1, <1>4, <3>1, <3>2, PointerByEntry DEF DeployInv, LinkInv
    <3>4. OutcomeInv' /\ CallGoesOn
      BY <3>1, ReturnedOutcome DEF DeployInv, AgentInv, EngineInv
    <3>5. eng'.pc = "returned"
      BY <1>2, <3>1 DEF Returned, At
    <3> QED BY <3>1, <3>2, <3>3, <3>4, <3>5
  <2> QED BY <1>1, <2>1, <2>2
<1>6. HandInv'
  <2> DEFINE e == Emits(j)
             stops == wal'[j] # wal[j] /\ wal'[j].error = "cancelled"
  <2>1. e \in BOOLEAN /\ stops \in BOOLEAN /\ (e => Recorded(j) /\ ~stops)
        /\ (stops => eng'.pc = "returned")
    BY <1>5 DEF Emits
  <2> DEFINE pc == IF stops THEN "stopping" ELSE "engine"
  <2>2. run' = [run EXCEPT !.unsent = e, !.pc = pc]
    BY <1>1
  <2> HIDE DEF e, stops
  <2>6. pc \in {"stopping", "engine"}
    OBVIOUS
  <2> HIDE DEF pc
  <2>3. run' \in Hands /\ run'.pc = pc /\ run'.job = j /\ run'.unsent = e
    BY <1>2, <2>1, <2>2, <2>6 DEF Hands
  <2>4. Recorded(j) => Recorded(j)'
    BY <1>2, <1>5 DEF LogStep
  <2>5. eng'.pc \in {"running", "applied", "returned"} /\ eng'.job = j /\ ~eng'.boot
    BY <1>2, <1>5 DEF CallGoesOn
  <2> QED BY <1>1, <1>2, <1>5, <2>1, <2>3, <2>4, <2>5 DEF pc, HandInv, Exists, Resolved, Recorded
<1> QED BY <1>1, <1>3, <1>4, <1>5, <1>6, EngineMovesLink

LEMMA RecoverInv ==
  ASSUME DeployInv, Recover
  PROVE  DeployInv'
<1>1. /\ UNCHANGED <<registryVars, run, beat, unread>> /\ jobs' = jobs
      /\ BootStep \/ (eng.boot /\ (RolloutStep \/ StoreError))
  BY DEF Recover, registryVars
<1>2. run.pc = "idle"
  <2>1. CASE BootStep
    <3>1. eng.pc \in {"down", "open", "pending"}
      BY <2>1 DEF BootStep, OpenStore, RepairPointer, StartPending, ResumePending, PendingDone
    <3> QED BY <3>1 DEF DeployInv, LinkInv, HandInv, Hands
  <2>2. CASE eng.boot /\ RolloutStep
    <3>1. eng.pc \in {"running", "applied"}
      BY <2>2, RolloutStepCall DEF DeployInv, AgentInv, EngineInv
    <3> QED BY <2>2, <3>1 DEF DeployInv, LinkInv, HandInv, Hands
  <2>3. CASE eng.boot /\ StoreError
    BY <2>3 DEF StoreError, DeployInv, LinkInv, HandInv, Hands
  <2> QED BY <1>1, <2>1, <2>2, <2>3
<1>3. AgentInv'
  BY <1>1, AgentMoves DEF DeployInv, EngineNext, EngineStep, FaultStep
<1>4. CloudInv'
  BY <1>1, CloudStutters DEF DeployInv
<1>5. LogStep /\ OutcomeInv' /\ PointerInv'
  <2>1. CASE RolloutStep
    <3>1. LogStep
      BY <1>1, <2>1, RolloutLogStep DEF DeployInv, AgentInv, EngineInv, RuntimeInv
    <3>2. LoggedJobs'
      BY <1>1, <3>1, RowsStutter, LoggedJobsKept DEF DeployInv, LinkInv
    <3>3. PointerInv'
      BY <1>1, <1>3, <1>4, <2>1, <3>2, PointerByRollout
         DEF DeployInv, LinkInv, AgentInv, EngineInv, RuntimeInv
    <3>4. OutcomeInv'
      BY <2>1, RolloutOutcome DEF DeployInv, AgentInv, EngineInv
    <3> QED BY <3>1, <3>3, <3>4
  <2>2. CASE BootStep \/ StoreError
    <3>1. UNCHANGED <<wal, current>>
      BY <2>2, BootLogStep DEF FaultStep, DeployInv, AgentInv
    <3>2. LogStep
      BY <1>1, <3>1, LogStutters
    <3>3. PointerInv'
      BY <1>1, <1>4, <3>1, <3>2, PointerByEntry DEF DeployInv, LinkInv
    <3>4. OutcomeInv'
      <4>1. CASE BootStep
        <5>1. eng \in EngineStates
          BY DEF DeployInv, AgentInv, EngineInv, CallInv
        <5>2. CASE RepairPointer
          <6> DEFINE scan == eng.scan - 1
          <6>1. eng' = At("down") \/ \E tx : eng' = [eng EXCEPT !.scan = scan, !.tx = tx]
            BY <5>2 DEF RepairPointer
          <6> HIDE DEF scan
          <6>2. eng'.pc \in {"down", "open"}
            BY <5>1, <5>2, <6>1, AtType DEF RepairPointer, EngineStates
          <6> QED BY <6>2 DEF OutcomeInv
        <5>3. CASE \E k \in Jobs : ResumePending(k)
          BY <5>1, <5>3 DEF ResumePending, EngineStates, OutcomeInv
        <5>4. CASE OpenStore
          BY <5>4 DEF OpenStore, At, OutcomeInv
        <5>5. CASE StartPending
          BY <5>5 DEF StartPending, At, OutcomeInv
        <5>6. CASE PendingDone
          BY <5>6, AtType DEF PendingDone, OutcomeInv
        <5> QED BY <4>1, <5>2, <5>3, <5>4, <5>5, <5>6 DEF BootStep
      <4>2. CASE StoreError
        BY <4>2, ReturnedOutcome DEF StoreError, DeployInv, AgentInv, EngineInv
      <4> QED BY <2>2, <4>1, <4>2
    <3> QED BY <3>2, <3>3, <3>4
  <2> QED BY <1>1, <2>1, <2>2
<1>6. HandInv'
  BY <1>1, <1>2 DEF DeployInv, LinkInv, HandInv
<1> QED BY <1>1, <1>3, <1>4, <1>5, <1>6, EngineMovesLink

(* The process dies or is stopped, or takes what the engine returned.      *)
LEMMA EngineStopsInv ==
  ASSUME DeployInv, AgentInv', FaultStep \/ Collect \/ Shutdown,
         UNCHANGED <<registryVars, beat, unread>>, eng'.pc # "returned", HandInv'
  PROVE  DeployInv'
<1>1. UNCHANGED <<wal, current>> /\ jobs' = jobs
  BY BootLogStep DEF DeployInv, AgentInv, registryVars
<1>2. LogStep
  BY <1>1, LogStutters
<1>3. CloudInv'
  BY CloudStutters DEF DeployInv
<1>4. PointerInv'
  BY <1>1, <1>2, <1>3, PointerByEntry DEF DeployInv, LinkInv
<1>5. OutcomeInv'
  BY DEF OutcomeInv
<1> QED BY <1>2, <1>3, <1>4, <1>5, EngineMovesLink

LEMMA CrashInv ==
  ASSUME DeployInv, AgentCrash \/ Shutdown
  PROVE  DeployInv'
<1>1. CASE AgentCrash
  <2>1. Crash /\ run' = Idle /\ UNCHANGED <<registryVars, beat, unread>> /\ eng' = At("down")
    BY <1>1 DEF AgentCrash, Crash
  <2>2. AgentInv'
    BY <2>1, AgentMoves DEF DeployInv, EngineNext, FaultStep
  <2> QED BY <2>1, <2>2, HandIdle, AtType, EngineStopsInv DEF FaultStep
<1>2. CASE Shutdown
  <2>1. run' = Idle /\ UNCHANGED <<registryVars, beat, unread>> /\ eng' = At("down")
    BY <1>2 DEF Shutdown
  <2>2. AgentInv'
    BY <1>2, ShutdownMoves DEF DeployInv
  <2> QED BY <1>2, <2>1, <2>2, HandIdle, AtType, EngineStopsInv
<1> QED BY <1>1, <1>2

(* The runner turns to posting a result that is so.                        *)
LEMMA ReportingHand ==
  ASSUME HandInv, NEW j, j = run.job, j \in Jobs, NEW r, Factual(j, r)', Exists(j)',
         ~run.unsent, jobs'[j].attempts > 0, run' = Reporting(r), eng'.pc = "idle"
  PROVE  HandInv'
<1>1. r \in Results
  BY DEF Factual
<1>2. run' \in Hands /\ run'.pc = "report" /\ run'.job = j /\ ~run'.unsent
      /\ run'.result = r
  BY <1>1 DEF Reporting, HandInv, Hands
<1>3. Factual(run.job, run.result)'
  BY <1>2 DEF Factual
<1> QED BY <1>2, <1>3 DEF HandInv, Exists

LEMMA EngineReturnsInv ==
  ASSUME DeployInv, EngineReturns
  PROVE  DeployInv'
<1> SUFFICES ASSUME NEW j, j = run.job PROVE DeployInv'
  OBVIOUS
<1>1. /\ run.pc = "engine" /\ ~run.unsent /\ eng.pc = "returned"
      /\ run' = CASE eng.out = "record"  -> Reporting(ResultFromRollout(j))
                  [] eng.out = "refused" -> Reporting(PreMutationResult(j))
                  [] eng.out = "error" /\ run.calls < ReconcileAttempts -> [run EXCEPT !.pc = "call"]
                  [] OTHER -> Idle
      /\ eng' = At("idle") /\ Collect
      /\ UNCHANGED <<registryVars, beat, unread>> /\ jobs' = jobs /\ wal' = wal
  BY DEF EngineReturns, Collect, registryVars
<1>2. /\ j \in Jobs /\ Exists(j) /\ ~Resolved(j) /\ run \in Hands /\ jobs[j].attempts > 0
      /\ eng.job = j /\ HandInv
  BY <1>1 DEF DeployInv, LinkInv, HandInv
<1>3. AgentInv' /\ eng'.pc = "idle"
  BY <1>1, AgentMoves, AtType DEF DeployInv, EngineNext
<1>4. \A r : Factual(j, r) => Factual(j, r)'
  BY <1>1 DEF Factual, Recorded, Terminal
<1>5. HandInv'
  <2>1. CASE eng.out = "record"
    <3>1. Factual(j, ResultFromRollout(j))
      BY <1>1, <1>2, <2>1, FinishedFactual
         DEF DeployInv, AgentInv, EngineInv, RuntimeInv, LinkInv, OutcomeInv
    <3> SUFFICES ASSUME NEW r, r = ResultFromRollout(j) PROVE HandInv'
      OBVIOUS
    <3> QED BY <1>1, <1>2, <1>3, <1>4, <2>1, <3>1, ReportingHand DEF Exists
  <2>2. CASE eng.out = "refused"
    <3>1. Factual(j, PreMutationResult(j))
      BY <1>1, <1>2, <2>2, RefusedFactual DEF DeployInv, LinkInv, OutcomeInv
    <3> SUFFICES ASSUME NEW r, r = PreMutationResult(j) PROVE HandInv'
      OBVIOUS
    <3> QED BY <1>1, <1>2, <1>3, <1>4, <2>2, <3>1, ReportingHand DEF Exists
  <2>3. CASE eng.out \notin {"record", "refused"} /\ run' = [run EXCEPT !.pc = "call"]
    BY <1>1, <1>2, <1>3, <2>3 DEF HandInv, Hands, Exists, Resolved
  <2> QED BY <1>1, <2>1, <2>2, <2>3, HandIdle
<1> QED BY <1>1, <1>3, <1>5, EngineStopsInv

----------------------------------------------------------------------------
(* Cloud's transactions.  Those that accept no result leave every stamp    *)
(* and the known-good reference where they were.                           *)
LEMMA CloudKept ==
  ASSUME CloudInv, RegistryInv', retired' = retired, RowStep, LeasesActive', Unfinished
  PROVE  CloudInv'
<1>1. ASSUME NEW x \in Jobs, Exists(x)', Resolved(x)'
      PROVE  Exists(x) /\ Resolved(x) /\ jobs'[x].doneAt = jobs[x].doneAt
  BY <1>1 DEF RowStep, RowKept, RowFresh, Unfinished, Resolved
<1>2. StampsApart'
  BY <1>1 DEF CloudInv, StampsApart
<1> QED BY <1>2 DEF CloudInv

LEMMA CloudMovesLink ==
  ASSUME DeployInv, UNCHANGED engineVars, CloudInv', RowStep, Issued', HandInv',
         beat' \in {beat, None}, unread \subseteq unread', PointerInv'
  PROVE  DeployInv'
<1>1. UNCHANGED <<wal, current, eng>>
  BY DEF engineVars
<1>2. AgentInv'
  BY AgentMoves DEF DeployInv
<1>3. LogStep
  BY <1>1, LogStutters
<1>4. OutcomeInv'
  BY <1>1 DEF DeployInv, LinkInv, OutcomeInv, Terminal, Recorded
<1>5. BeatInv'
  BY <1>2, <1>3, BeatKept DEF DeployInv, LinkInv, AgentInv, EngineInv
<1> QED BY <1>2, <1>3, <1>4, <1>5, LinkKept

LEMMA RowsMoveLink ==
  ASSUME DeployInv, UNCHANGED engineVars, RegistryInv', retired' = retired, RowStep,
         LeasesActive', Unfinished, Issued', HandInv', beat' \in {beat, None},
         unread \subseteq unread'
  PROVE  DeployInv'
<1>1. CloudInv'
  BY CloudKept DEF DeployInv
<1>2. PointerInv'
  BY <1>1, PointerByRows DEF DeployInv, LinkInv, Unfinished, engineVars
<1> QED BY <1>1, <1>2, CloudMovesLink

LEMMA DraftsStand ==
  ASSUME DeployInv, RowStep, wal' = wal, drafts' = drafts, unread \subseteq unread',
         \A x \in Jobs : Exists(x)' => Exists(x)
  PROVE  Issued'
BY LogStutters, IssuedKept DEF DeployInv, LinkInv, AgentInv, RuntimeInv

LEMMA ClientRequestInv ==
  ASSUME DeployInv, ClientRequest
  PROVE  DeployInv'
<1>1. Request /\ retired' = retired /\ UNCHANGED <<engineVars, run, beat, unread>>
  <2>1. Node \in Nodes
    BY OneNode
  <2>2. Request
    BY <2>1 DEF ClientRequest, Request
  <2>3. CASE \E j \in Jobs, t \in Targets : ReadKnownGood(j, t, Node)
    BY <2>2, <2>3 DEF ClientRequest, ReadKnownGood
  <2>4. CASE \E j \in Jobs : StartImmutableDeployment(j)
    BY <2>2, <2>4 DEF ClientRequest, StartImmutableDeployment
  <2>5. CASE \E j, source \in Jobs : RollbackDeployment(j, source)
    BY <2>2, <2>5 DEF ClientRequest, RollbackDeployment
  <2>6. CASE \E j, base \in Jobs, op \in CleanupOperations : StartCleanupJob(j, base, op)
    BY <2>2, <2>6 DEF ClientRequest, StartCleanupJob
  <2>7. CASE \E j \in Jobs : CancelDeployment(j) \/ RetryDeployment(j)
    BY <2>2, <2>7 DEF ClientRequest, CancelDeployment, RetryDeployment
  <2> QED BY <2>3, <2>4, <2>5, <2>6, <2>7 DEF ClientRequest
<1>2. RegistryInv'
  BY <1>1, RegistryStepInv DEF DeployInv, CloudInv, RegistryNext
<1>3. RowStep /\ LeasesActive' /\ Unfinished
  BY <1>1, RequestRows DEF DeployInv, CloudInv
<1>4. UNCHANGED <<wal, eng>>
  BY <1>1 DEF engineVars
<1>5. Issued'
  BY <1>1, <1>3, <1>4, IssuedByRequest DEF DeployInv, LinkInv, AgentInv, RuntimeInv
<1>6. HandInv'
  BY <1>1, <1>3, <1>4, LogStutters, HandStutters DEF DeployInv, LinkInv, AgentInv, RuntimeInv
<1> QED BY <1>1, <1>2, <1>3, <1>5, <1>6, RowsMoveLink

LEMMA CloudTimeInv ==
  ASSUME DeployInv, CloudTime
  PROVE  DeployInv'
<1>1. PICK j \in Jobs : LeaseTimesOut(j) \/ BackoffEnds(j)
  BY DEF CloudTime
<1>2. /\ LeaseElapses(j) \/ BackoffPasses(j)
      /\ UNCHANGED <<engineVars, run, beat, unread>> /\ UNCHANGED <<wal, eng, drafts, retired>>
  BY <1>1 DEF LeaseTimesOut, BackoffEnds, LeaseElapses, BackoffPasses, engineVars
<1>3. RegistryInv'
  BY <1>2, TimeInv DEF DeployInv, CloudInv
<1>4. RowStep /\ LeasesActive' /\ Unfinished
  BY <1>2, TimeRows DEF DeployInv, CloudInv
<1>5. \A x \in Jobs : Exists(x)' => Exists(x)
  BY <1>2 DEF LeaseElapses, BackoffPasses, Exists, DeployInv, CloudInv, RegistryInv,
              RegistryTypeOK
<1>6. Issued'
  BY <1>2, <1>4, <1>5, DraftsStand
<1>7. HandInv'
  BY <1>2, <1>4, LogStutters, HandStutters DEF DeployInv, LinkInv, AgentInv, RuntimeInv
<1> QED BY <1>2, <1>3, <1>4, <1>6, <1>7, RowsMoveLink

LEMMA JobLoopInv ==
  ASSUME DeployInv, NEW j \in Jobs, PollJob(j) \/ PollNothing
  PROVE  DeployInv'
<1>1. /\ eng.pc = "idle" /\ run.pc = "idle" /\ UNCHANGED <<engineVars, beat, unread>>
      /\ LeaseDeployment(Node, j) \/ ExpireDeploymentLeases(Node)
      /\ UNCHANGED <<wal, eng>>
  BY DEF PollJob, PollNothing, engineVars
<1>2. Poll /\ UNCHANGED <<drafts, retired>>
  BY <1>1, OneNode DEF Poll, LeaseDeployment, ExpireDeploymentLeases
<1>3. RegistryInv'
  BY <1>2, RegistryStepInv DEF DeployInv, CloudInv, RegistryNext
<1>4. RowStep /\ LeasesActive' /\ Unfinished
  BY <1>2, PollRows DEF DeployInv, CloudInv
<1>5. \A x \in Jobs : Exists(x)' => Exists(x)
  BY <1>1 DEF LeaseDeployment, ExpireDeploymentLeases, AfterExpiry, LeaseLapsed, Leasable, Exists
<1>6. Issued'
  BY <1>1, <1>2, <1>4, <1>5, DraftsStand
<1>7. LogStep /\ LogInv /\ HandInv
  BY <1>1, LogStutters DEF DeployInv, LinkInv, AgentInv, RuntimeInv
<1>8. HandInv'
  <2>1. CASE run' = run
    BY <1>1, <1>4, <1>7, <2>1, HandStutters
  <2>2. CASE run' # run
    <3>1. /\ LeaseDeployment(Node, j)
          /\ run' = [Idle EXCEPT !.pc = "lease", !.job = j, !.token = jobs'[j].attempts]
      BY <2>2 DEF PollJob, PollNothing
    <3>2. Exists(j) /\ ~Resolved(j) /\ jobs[j].attempts \in Nat
          /\ AfterExpiry(j) \in JobRecords /\ AfterExpiry(j).attempts = jobs[j].attempts
          /\ AfterExpiry(j).result = None
      <4>1. Exists(j) /\ AfterExpiry(j).status \in {"queued", "rolling_back"}
        BY <3>1 DEF LeaseDeployment, Leasable
      <4>2. Resolved(j) => AfterExpiry(j) = jobs[j] /\ jobs[j].status \in FinalStates
        BY <4>1 DEF AfterExpiry, LeaseLapsed, Resolved, DeployInv, CloudInv, RegistryInv,
                    JobsInv, JobInv
      <4>3. ~Resolved(j)
        BY <4>1, <4>2 DEF FinalStates
      <4> QED BY <4>1, <4>3, JobType, AfterExpiryJob DEF DeployInv, CloudInv, RegistryInv, Resolved
    <3>3. jobs'[j] = [AfterExpiry(j) EXCEPT !.status = "leased", !.lease = "live",
                        !.attempts = @ + 1, !.backoff = FALSE]
      BY <3>1 DEF LeaseDeployment
    <3>4. jobs'[j].attempts = jobs[j].attempts + 1 /\ jobs'[j].result = None
      BY <3>2, <3>3 DEF JobRecords
    <3>5. jobs'[j].attempts \in Nat /\ jobs'[j].attempts > 0 /\ Exists(j)' /\ ~Resolved(j)'
      BY <1>4, <3>2, <3>4 DEF RowStep, RowKept, Resolved
    <3> DEFINE token == jobs'[j].attempts
    <3>6. run' = [Idle EXCEPT !.pc = "lease", !.job = j, !.token = token] /\ token \in Nat
      BY <3>1, <3>5
    <3> HIDE DEF token
    <3>7. run' \in Hands /\ run'.pc = "lease" /\ run'.job = j /\ ~run'.unsent
      BY <3>6 DEF Hands, Idle, KnownGoodRefs
    <3> QED BY <1>1, <3>5, <3>7 DEF HandInv, Exists, Resolved
  <2> QED BY <2>1, <2>2
<1> QED BY <1>1, <1>2, <1>3, <1>4, <1>6, <1>8, RowsMoveLink

(* A progress report of a recorded rollout, in a state it has been through. *)
LEMMA ReportArrives ==
  ASSUME DeployInv, NEW j \in Jobs, NEW token, NEW state \in RolloutStates, NEW m,
         ProgressImmutableDeployment(j, token, state, m),
         Recorded(j), CanCompleteRollout(state, wal[j].state),
         UNCHANGED <<engineVars, unread>>, beat' \in {beat, None}, run' \in Hands,
         run'.pc = run.pc, run'.job = run.job, run'.result = run.result,
         run'.unsent => run.unsent
  PROVE  DeployInv'
<1>1. RegistryInv'
  BY ProgressInv DEF DeployInv, CloudInv
<1>2. RowStep /\ LeasesActive' /\ Unfinished
  BY ProgressRows DEF DeployInv, CloudInv
<1>3. /\ UNCHANGED <<wal, eng, drafts, retired>>
      /\ \A x \in Jobs : Exists(x)' => Exists(x)
  BY DEF ProgressImmutableDeployment, HoldsLease, Exists, engineVars, DeployInv, CloudInv,
         RegistryInv, RegistryTypeOK
<1>4. Issued'
  BY <1>2, <1>3, DraftsStand
<1>5. HandInv'
  BY <1>2, <1>3, LogStutters, HandStays DEF DeployInv, LinkInv, AgentInv, RuntimeInv
<1> QED BY <1>1, <1>2, <1>3, <1>4, <1>5, RowsMoveLink

(* Nothing reaches Cloud.                                                  *)
LEMMA ReportLost ==
  ASSUME DeployInv, UNCHANGED <<engineVars, registryVars>>, beat' \in {beat, None},
         unread \subseteq unread', HandInv'
  PROVE  DeployInv'
<1>1. UNCHANGED <<wal, eng, jobs, drafts, retired>>
  BY DEF engineVars, registryVars
<1>2. CloudInv' /\ RowStep /\ LeasesActive' /\ Unfinished
  BY <1>1, CloudStutters, RowsSame DEF DeployInv, CloudInv
<1>3. Issued'
  BY <1>1, <1>2, DraftsStand DEF Exists
<1> QED BY <1>1, <1>2, <1>3, RowsMoveLink DEF CloudInv

LEMMA SendProgressInv ==
  ASSUME DeployInv, SendProgress
  PROVE  DeployInv'
<1> SUFFICES ASSUME NEW j, j = run.job PROVE DeployInv'
  OBVIOUS
<1>1. /\ run.unsent /\ run' = [run EXCEPT !.unsent = FALSE, !.emitted = TRUE]
      /\ UNCHANGED <<engineVars, beat, unread>> /\ UNCHANGED <<wal, eng>>
      /\ \/ ProgressImmutableDeployment(j, run.token, wal[j].state, wal[j].materialized)
         \/ UNCHANGED registryVars
  BY DEF SendProgress, engineVars
<1>2. /\ j \in Jobs /\ Recorded(j) /\ run \in Hands /\ LogInv /\ HandInv
      /\ wal[j].state \in RolloutStates
  BY <1>1, RecordType DEF DeployInv, LinkInv, HandInv, AgentInv, RuntimeInv, EngineInv, StoreInv
<1>3. run' \in Hands /\ run'.pc = run.pc /\ run'.job = run.job /\ run'.result = run.result
      /\ ~run'.unsent
  BY <1>1, <1>2 DEF Hands
<1>4. CASE UNCHANGED registryVars
  <2>1. HandInv'
    BY <1>1, <1>2, <1>3, <1>4, LogStutters, RowsStutter, HandStays DEF registryVars
  <2> QED BY <1>1, <1>4, <2>1, ReportLost
<1>5. CASE ProgressImmutableDeployment(j, run.token, wal[j].state, wal[j].materialized)
  BY <1>1, <1>2, <1>3, <1>5, ReportArrives DEF CanCompleteRollout
<1> QED BY <1>1, <1>4, <1>5

LEMMA HeartbeatInv ==
  ASSUME DeployInv, HeartbeatArrives
  PROVE  DeployInv'
<1>1. /\ beat # None /\ beat' = None /\ UNCHANGED <<engineVars, run, unread>>
      /\ UNCHANGED <<wal, eng>>
      /\ \/ ProgressImmutableDeployment(beat.job, beat.token, beat.state, beat.materialized)
         \/ UNCHANGED registryVars
  BY DEF HeartbeatArrives, engineVars
<1>2. /\ beat.job \in Jobs /\ Recorded(beat.job) /\ beat.state \in RolloutStates
      /\ CanCompleteRollout(beat.state, wal[beat.job].state)
      /\ LogInv /\ HandInv /\ run \in Hands
  BY <1>1 DEF DeployInv, LinkInv, BeatInv, HandInv, AgentInv, RuntimeInv
<1>3. CASE UNCHANGED registryVars
  <2>1. HandInv'
    BY <1>1, <1>2, <1>3, LogStutters, RowsStutter, HandStutters DEF registryVars
  <2> QED BY <1>1, <1>3, <2>1, ReportLost
<1>4. CASE ProgressImmutableDeployment(beat.job, beat.token, beat.state, beat.materialized)
  BY <1>1, <1>2, <1>4, ReportArrives
<1> QED BY <1>1, <1>3, <1>4

LEMMA CopyLatestInv ==
  ASSUME DeployInv, CopyLatest
  PROVE  DeployInv'
<1> SUFFICES ASSUME NEW j, j = run.job PROVE DeployInv'
  OBVIOUS
<1>1. /\ run.pc = "engine" /\ eng.pc \in {"running", "applied"}
      /\ beat' = [job |-> j, token |-> run.token, state |-> wal[j].state,
                  materialized |-> wal[j].materialized]
      /\ UNCHANGED <<engineVars, registryVars, run, unread>>
      /\ UNCHANGED <<wal, eng, jobs, current, drafts>>
  BY DEF CopyLatest, engineVars, registryVars
<1>2. /\ j \in Jobs /\ Recorded(j) /\ LogInv /\ HandInv
      /\ wal[j].state \in RolloutStates /\ wal[j].materialized \in BOOLEAN
  BY <1>1, RecordType DEF DeployInv, LinkInv, HandInv, AgentInv, RuntimeInv, EngineInv, StoreInv
<1>3. BeatInv'
  BY <1>1, <1>2 DEF BeatInv, CanCompleteRollout, Recorded
<1>4. CloudInv' /\ AgentInv' /\ LogStep /\ RowStep
  BY <1>1, CloudStutters, AgentMoves, LogStutters, RowsStutter DEF DeployInv
<1>5. Issued'
  BY <1>1, <1>4, DraftsStand DEF Exists
<1>6. OutcomeInv' /\ HandInv'
  BY <1>1, <1>2, <1>4, HandStutters DEF DeployInv, LinkInv, OutcomeInv, Terminal, Recorded
<1>7. PointerInv'
  BY <1>1, <1>4, PointerByEntry DEF DeployInv, LinkInv
<1> QED BY <1>3, <1>4, <1>5, <1>6, <1>7, LinkKept

LEMMA PostResultInv ==
  ASSUME DeployInv, PostResult
  PROVE  DeployInv'
<1> SUFFICES ASSUME NEW j, j = run.job, NEW r, r = run.result PROVE DeployInv'
  OBVIOUS
<1>1. /\ run.pc = "report" /\ run' \in {Idle, TryAgain}
      /\ UNCHANGED <<engineVars, beat, unread>> /\ UNCHANGED <<wal, eng, current>>
      /\ CompleteDeployment(j, run.token, r) \/ UNCHANGED registryVars
  BY DEF PostResult, engineVars
<1>2. /\ j \in Jobs /\ Exists(j) /\ Factual(j, r) /\ r \in Results /\ run \in Hands
      /\ LogInv /\ HandInv /\ LogStep /\ LoggedJobs
  BY <1>1, LogStutters DEF DeployInv, LinkInv, HandInv, AgentInv, RuntimeInv, Factual
<1>3. ASSUME RowStep PROVE HandInv'
  <2> DEFINE posts == run.posts + 1
  <2>1. run' = Idle \/ run' = [run EXCEPT !.posts = posts]
    BY <1>1 DEF TryAgain
  <2>2. posts \in Nat
    BY <1>2 DEF Hands
  <2> HIDE DEF posts
  <2>3. CASE run' = [run EXCEPT !.posts = posts]
    <3>1. run' \in Hands /\ run'.pc = run.pc /\ run'.job = run.job
          /\ run'.result = run.result /\ run'.unsent = run.unsent
      BY <1>2, <2>2, <2>3 DEF Hands
    <3> QED BY <1>1, <1>2, <1>3, <3>1, HandStays
  <2> QED BY <2>1, <2>3, HandIdle
<1>4. CASE UNCHANGED registryVars
  <2>1. HandInv'
    BY <1>3, <1>4, RowsStutter DEF registryVars
  <2> QED BY <1>1, <1>4, <2>1, ReportLost
<1>5. CASE CompleteDeployment(j, run.token, r)
  <2>1. RowStep /\ LeasesActive' /\ StampsApart'
    BY <1>1, <1>2, <1>5, ResultRows DEF DeployInv, CloudInv
  <2>2. RegistryInv' /\ UNCHANGED <<drafts, retired>>
    BY <1>2, <1>5, CompleteInv DEF DeployInv, CloudInv, CompleteDeployment
  <2>3. CloudInv'
    BY <2>1, <2>2 DEF DeployInv, CloudInv
  <2>4. PointerInv'
    BY <1>1, <1>2, <1>5, <2>1, <2>3, PointerByResult DEF DeployInv, LinkInv
  <2>5. \A x \in Jobs : Exists(x)' => Exists(x)
    BY <1>2, <1>5 DEF CompleteDeployment, Exists, DeployInv, CloudInv, RegistryInv, RegistryTypeOK
  <2>6. Issued'
    BY <1>1, <2>1, <2>2, <2>5, DraftsStand
  <2> QED BY <1>1, <1>3, <2>1, <2>3, <2>4, <2>6, CloudMovesLink
<1> QED BY <1>1, <1>4, <1>5

(* Secrets that cannot be had: the result says nothing was mutated, and a  *)
(* record of the rollout was left unread.                                  *)
LEMMA SecretsFailInv ==
  ASSUME DeployInv, SecretsFail
  PROVE  DeployInv'
<1> SUFFICES ASSUME NEW j, j = run.job, NEW r, r = PreMutationResult(j) PROVE DeployInv'
  OBVIOUS
<1>1. /\ run.pc = "lease" /\ run' = Reporting(r)
      /\ unread' = IF Recorded(j) THEN unread \cup {j} ELSE unread
      /\ UNCHANGED <<engineVars, registryVars, beat>> /\ UNCHANGED <<wal, eng, jobs>>
  BY DEF SecretsFail, engineVars, registryVars
<1>2. /\ j \in Jobs /\ Exists(j) /\ jobs[j].attempts > 0 /\ eng.pc = "idle" /\ ~run.unsent
      /\ jobs[j].intent.previous \in KnownGoodRefs /\ HandInv
  BY <1>1, JobType DEF DeployInv, LinkInv, HandInv, CloudInv, RegistryInv
<1>3. Factual(j, r)'
  <2>1. r \in Results /\ r.phase = "pre_mutation" /\ r.state = "failed"
        /\ r.known = jobs[j].intent.previous
    BY <1>2 DEF PreMutationResult, Results, RolloutStates
  <2> QED BY <1>1, <2>1 DEF Factual, Recorded
<1>4. HandInv'
  BY <1>1, <1>2, <1>3, ReportingHand DEF Exists
<1> QED BY <1>1, <1>4, ReportLost

----------------------------------------------------------------------------
LEMMA DeployInitInv == DeploymentInit => DeployInv
<1> SUFFICES ASSUME DeploymentInit PROVE DeployInv
  OBVIOUS
<1>1. /\ \A j \in Jobs : ~Recorded(j) /\ ~Exists(j) /\ drafts[j] = None
      /\ EngineInit /\ RegistryInit /\ run = Idle /\ beat = None /\ retired = {}
      /\ eng.pc = "down"
  BY AtType DEF DeploymentInit, EngineInit, RegistryInit, Recorded, Exists
<1>2. AgentInv
  BY <1>1, EngineInitInv, EngineInitChain, EngineInitRuns DEF AgentInv
<1>3. CloudInv
  BY <1>1, RegistryInitInv DEF CloudInv, LeasesActive, LeaseInOrder, StampsApart
<1>4. LoggedJobs /\ ResultsFactual /\ Issued /\ OutcomeInv /\ BeatInv /\ CloudNeverAhead
  BY <1>1 DEF LoggedJobs, ResultsFactual, Issued, OutcomeInv, BeatInv, CloudNeverAhead
<1>5. HandInv
  BY <1>1 DEF HandInv, Idle, Hands, KnownGoodRefs
<1>6. PointerInv
  <2> SUFFICES ASSUME NEW t \in Targets PROVE LatestKnownGood(t, Node) = current[t]
    BY <1>1 DEF PointerInv, PointerAt, Landed
  <2>1. KnownGoodCandidates(t, Node) = {}
    BY <1>1 DEF KnownGoodCandidates
  <2> QED BY <1>1, <2>1 DEF LatestKnownGood, EngineInit, NoPointers
<1> QED BY <1>2, <1>3, <1>4, <1>5, <1>6 DEF DeployInv, LinkInv

LEMMA DeployStepInv ==
  ASSUME DeployInv, [DeploymentNext]_deploymentVars
  PROVE  DeployInv'
<1>1. CASE UNCHANGED deploymentVars
  <2>1. UNCHANGED <<engineVars, registryVars, run, beat, unread>>
        /\ UNCHANGED <<wal, eng, jobs>>
    BY <1>1 DEF deploymentVars, engineVars, registryVars
  <2>2. HandInv'
    BY <2>1, LogStutters, RowsStutter, HandStutters DEF DeployInv, LinkInv, AgentInv, RuntimeInv
  <2> QED BY <2>1, <2>2, ReportLost
<1>2. CASE AgentStep
  <2>1. ASSUME NEW j \in Jobs, PollJob(j) PROVE DeployInv'
    BY <2>1, JobLoopInv
  <2>2. CASE PollNothing
    <3>1. PICK j \in Jobs : LeaseLapsed(j)
      BY <2>2 DEF PollNothing, ExpireDeploymentLeases
    <3> QED BY <2>2, <3>1, JobLoopInv
  <2>3. CASE SecretsFail
    BY <2>3, SecretsFailInv
  <2>4. CASE CallEngine \/ RunRollout
    BY <2>4, CallEngineInv, RunRolloutInv
  <2>5. CASE SendProgress \/ EngineReturns
    BY <2>5, SendProgressInv, EngineReturnsInv
  <2>6. CASE PostResult
    BY <2>6, PostResultInv
  <2>7. CASE Shutdown \/ Recover
    BY <2>7, CrashInv, RecoverInv
  <2> QED BY <1>2, <2>1, <2>2, <2>3, <2>4, <2>5, <2>6, <2>7 DEF AgentStep
<1>3. CASE Heartbeat
  BY <1>3, CopyLatestInv, HeartbeatInv DEF Heartbeat
<1>4. CASE AgentCrash
  BY <1>4, CrashInv
<1>5. CASE ClientRequest \/ CloudTime
  BY <1>5, ClientRequestInv, CloudTimeInv
<1> QED BY <1>1, <1>2, <1>3, <1>4, <1>5 DEF DeploymentNext

LEMMA DeployInvariance == DeploymentSpec => []DeployInv
<1>1. DeployInv /\ [DeploymentNext]_deploymentVars => DeployInv'
  BY DeployStepInv
<1> QED BY <1>1, DeployInitInv, PTL DEF DeploymentSpec

(* Through lost calls, lapsed leases, crashes and redelivery, the result   *)
(* Cloud has accepted of a job is what the Agent's log says of it, and     *)
(* "nothing was mutated" is claimed only of a rollout that never left      *)
(* prepared, or of one whose record executeRollout did not read because    *)
(* the secrets of a redelivered lease could not be had.                    *)
THEOREM ResultIsTruthful == DeploymentSpec => []TruthfulUnlessUnread
<1>1. DeployInv => TruthfulUnlessUnread
  BY DEF DeployInv, LinkInv, ResultsFactual, Factual, TruthfulUnlessUnread, Truthful, Misled
<1> QED BY <1>1, DeployInvariance, PTL

(* The progress Cloud has accepted, re-sent and overtaken copies included, *)
(* is a state the rollout has been through.                                *)
THEOREM CloudFollowsTheLog == DeploymentSpec => []CloudNeverAhead
<1>1. DeployInv => CloudNeverAhead
  BY DEF DeployInv, LinkInv
<1> QED BY <1>1, DeployInvariance, PTL

(* A rollout that ended well is accepted under a live lease however many   *)
(* progress reports were lost.                                             *)
THEOREM GoodResultAccepted == DeploymentSpec => []GoodResultIsAccepted
<1>1. DeployInv => GoodResultIsAccepted
  <2> SUFFICES ASSUME DeployInv, Posting, NEW j, j = run.job, NEW r, r = run.result,
                      r.state \in {"succeeded", "rolled_back", "cleaned"}
               PROVE  Accepts(j, run.token, r)
    BY DEF GoodResultIsAccepted
  <2>1. /\ j \in Jobs /\ Exists(j) /\ ~Resolved(j) /\ HoldsLease(j, run.token)
        /\ LeaseActive(j) /\ Factual(j, r) /\ r.materialized
    BY DEF Posting, HoldsLease, DeployInv, LinkInv, HandInv, CloudInv, LeasesActive,
           LeaseInOrder, Factual
  <2>2. r.phase # "pre_mutation" /\ Terminal(j) /\ wal[j].state = r.state
    BY <2>1 DEF Factual
  <2>3. CanCompleteRollout(jobs[j].rstate, r.state)
    BY <2>1, <2>2 DEF DeployInv, LinkInv, CloudNeverAhead, Terminal
  <2>4. ValidResult(j, r)
    <3>1. r.state = "rolled_back" =>
            /\ r.known = jobs[j].intent.previous /\ r.known # None
            /\ r.phase # "pre_mutation"
      BY <2>1, <2>2 DEF Factual
    <3>2. r.state = "succeeded" => r.phase = "none" /\ r.known # None
      BY <2>1, ProtocolAssumption DEF Factual
    <3>3. r.state = "cleaned" =>
            jobs[j].intent.op \in CleanupOperations /\ r.phase = "none" /\ r.known = None
      BY <2>1 DEF Factual
    <3> QED BY <2>1, <2>3, <3>1, <3>2, <3>3 DEF ValidResult
  <2> QED BY <2>1, <2>4 DEF Accepts
<1> QED BY <1>1, DeployInvariance, PTL

(* Unless a rollout of the target is unresolved, or a failed secret        *)
(* delivery misled Cloud about one, the known-good reference Cloud would   *)
(* write into the next intent is the Agent's pointer, so BeginRollout will *)
(* not refuse that intent as stale.                                        *)
THEOREM ReferencesAgree == DeploymentSpec => []KnownGoodAgrees
<1>1. DeployInv => KnownGoodAgrees
  <2> SUFFICES ASSUME DeployInv, NEW t \in Targets \ PreviewTargets,
                      LatestKnownGood(t, Node) # current[t], ~MisledAt(t)
               PROVE  \E j \in Jobs : OwnsService(j) /\ Mutating(j) /\ jobs[j].intent.target = t
    BY DEF KnownGoodAgrees, MisledAt
  <2>1. PICK j \in Jobs : Landed(j) /\ Target(j) = t
    BY DEF DeployInv, LinkInv, PointerInv, PointerAt
  <2>2. OwnsService(j) /\ Mutating(j) /\ jobs[j].intent.target = t
    BY <2>1, LandedOwns DEF Landed, Terminal, DeployInv, LinkInv, AgentInv, EngineInv, RuntimeInv
  <2> QED BY <2>2
<1> QED BY <1>1, DeployInvariance, PTL

----------------------------------------------------------------------------
(* A deployment seen from Cloud alone.                                     *)
LEMMA ReportedByToken ==
  ASSUME DeployInv, NEW j \in Jobs, NEW token, HoldsLease(j, token)
  PROVE  token \in 1..AttemptBound
BY DEF DeployInv, CloudInv, LeasesActive, LeaseInOrder, HoldsLease

LEMMA DeployStepOfRegistry ==
  ASSUME DeployInv, [DeploymentNext]_deploymentVars
  PROVE  [RegistryNext]_registryVars
<1>1. CASE UNCHANGED registryVars
  BY <1>1
<1>2. ASSUME NEW j \in Jobs, NEW token, NEW state \in RolloutStates, NEW m \in BOOLEAN,
             ProgressImmutableDeployment(j, token, state, m)
      PROVE  RegistryNext
  <2>1. HoldsLease(j, token)
    BY <1>2 DEF ProgressImmutableDeployment
  <2> QED BY <1>2, <2>1, ReportedByToken DEF RegistryNext, Report
<1>3. CASE \E j \in Jobs : PollJob(j)
  BY <1>3, OneNode DEF PollJob, Poll, RegistryNext
<1>4. CASE PollNothing
  BY <1>4, OneNode DEF PollNothing, Poll, RegistryNext
<1>5. CASE SendProgress
  <2>1. /\ run.job \in Jobs /\ wal[run.job].state \in RolloutStates
        /\ wal[run.job].materialized \in BOOLEAN
    BY <1>5, RecordType
       DEF SendProgress, DeployInv, LinkInv, HandInv, AgentInv, EngineInv, StoreInv
  <2> QED BY <1>1, <1>2, <1>5, <2>1 DEF SendProgress
<1>6. CASE HeartbeatArrives
  <2>1. beat.job \in Jobs /\ beat.state \in RolloutStates /\ beat.materialized \in BOOLEAN
    BY <1>6 DEF HeartbeatArrives, DeployInv, LinkInv, BeatInv
  <2> QED BY <1>1, <1>2, <1>6, <2>1 DEF HeartbeatArrives
<1>7. CASE PostResult
  <2>1. CASE CompleteDeployment(run.job, run.token, run.result)
    <3>1. run.job \in Jobs /\ Factual(run.job, run.result)
      BY <1>7 DEF PostResult, DeployInv, LinkInv, HandInv
    <3>2. HoldsLease(run.job, run.token) /\ run.token \in 1..AttemptBound
      BY <2>1, <3>1, ReportedByToken DEF CompleteDeployment
    <3>3. run.result \in ReportableResults(run.job)
      BY <3>1 DEF Factual, ReportableResults
    <3> QED BY <2>1, <3>1, <3>2, <3>3 DEF RegistryNext, Report
  <2> QED BY <1>1, <1>7, <2>1 DEF PostResult
<1>8. CASE ClientRequest
  <2>1. Node \in Nodes
    BY OneNode
  <2> QED BY <1>8, <2>1 DEF ClientRequest, Request, RegistryNext
<1>9. CASE CloudTime
  BY <1>9 DEF CloudTime, LeaseTimesOut, BackoffEnds, TimePasses, RegistryNext
<1>10. CASE CallEngine \/ RunRollout \/ EngineReturns \/ Shutdown \/ Recover
            \/ CopyLatest \/ AgentCrash \/ SecretsFail \/ UNCHANGED deploymentVars
  BY <1>10 DEF SecretsFail, CallEngine, RunRollout, EngineReturns, Shutdown, Recover, CopyLatest,
               AgentCrash, deploymentVars
<1> QED BY <1>3, <1>4, <1>5, <1>6, <1>7, <1>8, <1>9, <1>10
        DEF DeploymentNext, AgentStep, Heartbeat

(* Cloud with this Agent is Cloud with some Agent: the registry was        *)
(* modelled with Agents that report anything at any time, and every report *)
(* of the real runner is among theirs.  So a service has one owner, an     *)
(* accepted result is final and no lease is stolen here as well.           *)
THEOREM DeploymentIsRegistry ==
  DeploymentSpec => RegistrySpec /\ []SoleOwner /\ TerminalResultIsFinal
<1>1. DeploymentInit => RegistryInit
  BY DEF DeploymentInit
<1>2. DeployInv /\ [DeploymentNext]_deploymentVars => [RegistryNext]_registryVars
  BY DeployStepOfRegistry
<1>3. DeploymentSpec => RegistrySpec
  BY <1>1, <1>2, DeployInvariance, PTL DEF DeploymentSpec, RegistrySpec
<1> QED BY <1>3, SoleOwnership, ResultIsFinal, PTL
=============================================================================
