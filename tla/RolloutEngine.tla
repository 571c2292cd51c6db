--------------------------- MODULE RolloutEngine ---------------------------
(***************************************************************************)
(* The Agent's rollout engine (agent/internal/deploy): a write-ahead log   *)
(* of rollouts and a known-good pointer per runtime target in one SQLite   *)
(* file, and a single-threaded reconciler that drives Kubernetes from one  *)
(* snapshot to the next, rolls back on failure and resumes after a crash.  *)
(*                                                                         *)
(* One step of this module is one durable write of the store or one        *)
(* externally visible effect on the cluster; the process can die between   *)
(* any two of them.                                                        *)
(***************************************************************************)
EXTENDS RolloutProtocol

CONSTANTS
  KeepLimit,          \* newest snapshots pruneKnownGood keeps (32 in the code)
  MaxFaults,          \* bound: crashes and store errors in one behaviour
  RollbackMayTimeOut  \* may readiness outlast the deadline of a rollback?

ASSUME EngineAssumption ==
  /\ KeepLimit \in Nat \ {0}
  /\ MaxFaults \in Nat
  /\ RollbackMayTimeOut \in BOOLEAN

VARIABLES
  wal,        \* table rollouts: the record of a rollout, None before it begins
  snapshots,  \* table known_good_snapshots
  current,    \* table known_good_current: the pointer of each target
  runtime,    \* what the cluster runs for each target
  clock,      \* the next terminal_at stamp
  eng,        \* the engine's call in progress (volatile)
  faults      \* faults so far

engineVars == <<wal, snapshots, current, runtime, clock, eng, faults>>

WalRecords ==
  [intent: Intents, state: RolloutStates, terminalAt: Nat,
   error: {"none", "cancelled", "failure"}, materialized: BOOLEAN]

(* The empty reference stands for a missing row as well.                   *)
ASSUME WalAssumption == None \notin WalRecords

Pointers == [Targets -> KnownGoodRefs]

(* pc: down - no process; open - the store is being opened; pending - the  *)
(* recovery pass picks its next record; idle - waiting for a lease;        *)
(* running/applied - inside a rollout, before and after ApplyRollout       *)
(* returned; returned - the caller has not yet looked at the outcome.      *)
EngineStates ==
  [pc: {"down", "open", "pending", "idle", "running", "applied", "returned"},
   job: KnownGoodRefs, out: {"none", "record", "refused", "error"},
   boot: BOOLEAN, todo: SUBSET Jobs, scan: Nat, tx: Pointers]

NoPointers == [t \in Targets |-> None]

At(pc) ==
  [pc |-> pc, job |-> None, out |-> "none", boot |-> FALSE, todo |-> {},
   scan |-> 0, tx |-> NoPointers]

----------------------------------------------------------------------------
Recorded(j) == wal[j] # None
(* Faulty variant: a record is unfinished by its state, not terminal_at.   *)
ActiveByState(j) == Recorded(j) /\ ~IsTerminalRolloutState(wal[j].state)

Active(j)   == Recorded(j) /\ wal[j].terminalAt = 0
Terminal(j) == Recorded(j) /\ wal[j].terminalAt > 0
Target(j)   == wal[j].intent.target
Previous(j) == wal[j].intent.previous
Op(j)       == wal[j].intent.op

HasKnownGood(k, t) == k \in snapshots /\ Target(k) = t

(* ObserveReadiness: the objects of snapshot k, and no other, are ready.   *)
Ready(k, t) == runtime[t] = k

InCall(pc, state) == eng.pc = pc /\ Active(eng.job) /\ wal[eng.job].state = state

(* Where a finished reconciliation leaves the engine: back with the caller *)
(* of ReconcileRollout, or in ReconcilePending's loop, which goes on after *)
(* a nil error only.                                                       *)
Returned(outcome, ok) ==
  IF eng.boot
    THEN IF ok THEN [At("pending") EXCEPT !.boot = TRUE, !.todo = eng.todo]
               ELSE At("idle")
    ELSE [At("returned") EXCEPT !.job = eng.job, !.out = outcome]

Continue(pc) == [eng EXCEPT !.pc = pc]

----------------------------------------------------------------------------
(* Store.                                                                  *)
(* Faulty variant: a finished rollback leaves the pointer where it was.    *)
TransitionForgetsPointer(j, state, error, materialized, terminal) ==
  /\ Active(j)
  /\ CanTransitionRollout(wal[j].state, state)
  /\ LET ends == terminal \/ IsTerminalRolloutState(state)
     IN  /\ wal' = [wal EXCEPT ![j] =
                      [intent |-> wal[j].intent, state |-> state,
                       terminalAt |-> IF ends THEN clock ELSE 0,
                       error |-> error, materialized |-> materialized]]
         /\ clock' = IF ends THEN clock + 1 ELSE clock
  /\ UNCHANGED <<current, snapshots, faults>>

TransitionRollout(j, state, error, materialized, terminal) ==
  /\ Active(j)
  /\ CanTransitionRollout(wal[j].state, state)
  /\ state # "succeeded"
  /\ state = "rolled_back" => HasKnownGood(Previous(j), Target(j))
  /\ LET ends == terminal \/ IsTerminalRolloutState(state)
     IN  /\ wal' = [wal EXCEPT ![j] =
                      [intent |-> wal[j].intent, state |-> state,
                       terminalAt |-> IF ends THEN clock ELSE 0,
                       error |-> error, materialized |-> materialized]]
         /\ clock' = IF ends THEN clock + 1 ELSE clock
  /\ current' = IF state = "rolled_back"
                  THEN [current EXCEPT ![Target(j)] = Previous(j)]
                  ELSE current
  /\ UNCHANGED <<snapshots, faults>>

(* The snapshots of j's target that pruneKnownGood deletes once j, the     *)
(* newest, is among them: those that KeepLimit newer ones precede.         *)
Pruned(j) ==
  {k \in snapshots :
     /\ Target(k) = Target(j)
     /\ Cardinality({m \in snapshots \cup {j} :
           Target(m) = Target(j) /\ (m = j \/ wal[m].terminalAt > wal[k].terminalAt)})
          >= KeepLimit
     /\ \A t \in Targets \ {Target(j)} : current[t] # k}

(* Faulty variant: the pointer moves, the snapshot is not inserted.        *)
CommitWithoutSnapshot(j) ==
  /\ Active(j)
  /\ wal[j].state = "waiting"
  /\ current' = [current EXCEPT ![Target(j)] = j]
  /\ wal' = [wal EXCEPT ![j].state = "succeeded", ![j].terminalAt = clock,
                        ![j].error = "none", ![j].materialized = TRUE]
  /\ clock' = clock + 1
  /\ UNCHANGED <<snapshots, faults>>

CommitRolloutSuccess(j) ==
  /\ Active(j)
  /\ wal[j].state = "waiting"
  /\ snapshots' = (snapshots \ Pruned(j)) \cup {j}
  /\ current' = [current EXCEPT ![Target(j)] = j]
  /\ wal' = [wal EXCEPT ![j] =
               [intent |-> wal[j].intent, state |-> "succeeded",
                terminalAt |-> clock, error |-> "none", materialized |-> TRUE]]
  /\ clock' = clock + 1
  /\ UNCHANGED faults

----------------------------------------------------------------------------
(* Entry: ReconcileRollout and reconcileCleanup up to the first write.  A  *)
(* cleanup's errors carry no failure phase, so its caller cannot tell that *)
(* nothing was mutated.                                                    *)
Refusal(j, i) ==
  [At("returned") EXCEPT !.job = j,
     !.out = IF i.op \in CleanupOperations THEN "error" ELSE "refused"]

(* Faulty variants: no test of the target's owner, none of the pointer.    *)
CanBeginOnBusyTarget(i) == current[i.target] = ExpectedCurrent(i)

CanBeginWhenStale(i) == \A k \in Jobs : Active(k) => Target(k) # i.target

CanBegin(i) ==
  /\ \A k \in Jobs : Active(k) => Target(k) # i.target
  /\ current[i.target] = ExpectedCurrent(i)

RefuseRollout(j, i) ==
  /\ eng.pc = "idle"
  /\ \/ Recorded(j) /\ wal[j].intent # i
     \/ ~Recorded(j) /\ ~CanBegin(i)
  /\ eng' = Refusal(j, i)
  /\ UNCHANGED <<wal, snapshots, current, runtime, clock, faults>>

PreflightFails(j, i) ==
  /\ eng.pc = "idle"
  /\ ~Recorded(j)
  /\ i.op \notin CleanupOperations
  /\ eng' = Refusal(j, i)
  /\ UNCHANGED <<wal, snapshots, current, runtime, clock, faults>>

(* materialized: do all objects the plan observed exist already?           *)
BeginRollout(j, i) ==
  /\ eng.pc = "idle"
  /\ ~Recorded(j)
  /\ CanBegin(i)
  /\ \E m \in BOOLEAN :
       /\ i.op \in CleanupOperations => m
       /\ i.op \notin CleanupOperations /\ runtime[i.target] = None => ~m
       /\ wal' = [wal EXCEPT ![j] =
                    [intent |-> i, state |-> "prepared", terminalAt |-> 0,
                     error |-> "none", materialized |-> m]]
  /\ eng' = [At("running") EXCEPT !.job = j]
  /\ UNCHANGED <<snapshots, current, runtime, clock, faults>>

ResumeRollout(j, i) ==
  /\ eng.pc = "idle"
  /\ Recorded(j)
  /\ wal[j].intent = i
  /\ eng' = IF Terminal(j)
              THEN [At("returned") EXCEPT !.job = j, !.out = "record"]
              ELSE [At("running") EXCEPT !.job = j]
  /\ UNCHANGED <<wal, snapshots, current, runtime, clock, faults>>

ReconcileRollout(j, i) ==
  \/ RefuseRollout(j, i)
  \/ PreflightFails(j, i)
  \/ BeginRollout(j, i)
  \/ ResumeRollout(j, i)

----------------------------------------------------------------------------
(* resumeRollout, from prepared to succeeded or failed.                    *)
StartApply ==
  /\ InCall("running", "prepared")
  /\ Op(eng.job) = "apply"
  /\ TransitionRollout(eng.job, "applying", "none",
                       wal[eng.job].materialized, FALSE)
  /\ UNCHANGED <<runtime, eng>>

(* The caller's context is already done when the prepared rollout resumes. *)
CancelBeforeMutation ==
  /\ InCall("running", "prepared")
  /\ Op(eng.job) = "apply"
  /\ TransitionRollout(eng.job, "failed", "cancelled",
                       wal[eng.job].materialized, TRUE)
  /\ eng' = Returned("record", FALSE)
  /\ UNCHANGED runtime

(* ApplyRollout and the cleanups touch several objects one after another.  *)
MutateSome ==
  /\ \/ InCall("running", "applying")
     \/ InCall("running", "rolling_back") /\ HasKnownGood(Previous(eng.job), Target(eng.job))
  /\ runtime' = [runtime EXCEPT ![Target(eng.job)] = Partial]
  /\ UNCHANGED <<wal, snapshots, current, clock, eng, faults>>

ApplyRollout ==
  /\ InCall("running", "applying")
  /\ Op(eng.job) = "apply"
  /\ runtime' = [runtime EXCEPT ![Target(eng.job)] = eng.job]
  /\ eng' = Continue("applied")
  /\ UNCHANGED <<wal, snapshots, current, clock, faults>>

RecordApplied ==
  /\ InCall("applied", "applying")
  /\ TransitionRollout(eng.job, "waiting", "none", TRUE, FALSE)
  /\ eng' = Continue("running")
  /\ UNCHANGED runtime

ObserveReady ==
  /\ InCall("running", "waiting")
  /\ Op(eng.job) = "apply"
  /\ Ready(eng.job, Target(eng.job))
  /\ CommitRolloutSuccess(eng.job)
  /\ eng' = Returned("record", TRUE)
  /\ UNCHANGED runtime

(* failAndRollback: preflight, apply or readiness failed; without a        *)
(* previous known-good the failure is the end of the rollout.              *)
FailAndRollback ==
  /\ \/ InCall("running", "applying")
     \/ InCall("running", "waiting")
  /\ Op(eng.job) = "apply"
  /\ LET unavailable == Previous(eng.job) = None
     IN  /\ TransitionRollout(eng.job, "failed", "failure",
                              wal[eng.job].materialized, unavailable)
         /\ eng' = IF unavailable THEN Returned("record", FALSE) ELSE eng
  /\ UNCHANGED runtime

----------------------------------------------------------------------------
(* Rollback, explicit or after a failure.                                  *)
(* Faulty variant: a rollout found in failed is not picked up again.       *)
StartRollbackWhenAsked ==
  /\ InCall("running", "prepared")
  /\ Op(eng.job) = "rollback"
  /\ TransitionRollout(eng.job, "rolling_back", wal[eng.job].error,
                       wal[eng.job].materialized, FALSE)
  /\ UNCHANGED <<runtime, eng>>

StartRollback ==
  /\ \/ InCall("running", "failed")
     \/ InCall("running", "prepared") /\ Op(eng.job) = "rollback"
  /\ TransitionRollout(eng.job, "rolling_back", wal[eng.job].error,
                       wal[eng.job].materialized, FALSE)
  /\ UNCHANGED <<runtime, eng>>

RestorePrevious ==
  /\ InCall("running", "rolling_back")
  /\ HasKnownGood(Previous(eng.job), Target(eng.job))
  /\ runtime' = [runtime EXCEPT ![Target(eng.job)] = Previous(eng.job)]
  /\ eng' = Continue("applied")
  /\ UNCHANGED <<wal, snapshots, current, clock, faults>>

RestoredReady ==
  /\ InCall("applied", "rolling_back")
  /\ Ready(Previous(eng.job), Target(eng.job))
  /\ TransitionRollout(eng.job, "rolled_back", wal[eng.job].error, TRUE, TRUE)
  /\ eng' = Returned("record", wal[eng.job].error = "none")
  /\ UNCHANGED runtime

(* rollbackFailed: the snapshot is gone, or preparing, applying or         *)
(* observing it failed before the rollback's deadline.                     *)
RollbackFailed ==
  /\ InCall("running", "rolling_back") \/ InCall("applied", "rolling_back")
  /\ TransitionRollout(eng.job, "rollback_failed", "failure",
                       wal[eng.job].materialized, TRUE)
  /\ eng' = Returned("record", FALSE)
  /\ UNCHANGED runtime

(* The deadline that ends the readiness wait is the deadline of the very   *)
(* context rollbackFailed would write with, so nothing is written.         *)
RollbackTimesOut ==
  /\ RollbackMayTimeOut
  /\ InCall("running", "rolling_back") \/ InCall("applied", "rolling_back")
  /\ HasKnownGood(Previous(eng.job), Target(eng.job))
  /\ eng' = Returned("error", FALSE)
  /\ UNCHANGED <<wal, snapshots, current, runtime, clock, faults>>

----------------------------------------------------------------------------
(* resumeCleanup.                                                          *)
StartCleanup ==
  /\ InCall("running", "prepared")
  /\ Op(eng.job) \in CleanupOperations
  /\ TransitionRollout(eng.job, "applying", "none", TRUE, FALSE)
  /\ UNCHANGED <<runtime, eng>>

CleanupTarget ==
  /\ InCall("running", "applying")
  /\ Op(eng.job) \in CleanupOperations
  /\ runtime' = [runtime EXCEPT ![Target(eng.job)] = None]
  /\ eng' = Continue("applied")
  /\ UNCHANGED <<wal, snapshots, current, clock, faults>>

CleanupFails ==
  /\ InCall("running", "applying")
  /\ Op(eng.job) \in CleanupOperations
  /\ TransitionRollout(eng.job, "failed", "failure", TRUE, TRUE)
  /\ eng' = Returned("record", FALSE)
  /\ UNCHANGED runtime

RecordCleaned ==
  /\ InCall("running", "waiting")
  /\ Op(eng.job) \in CleanupOperations
  /\ TransitionRollout(eng.job, "cleaned", "none", TRUE, TRUE)
  /\ eng' = Returned("record", TRUE)
  /\ UNCHANGED runtime

----------------------------------------------------------------------------
(* A store call fails, or the context it runs under has expired: the call  *)
(* returns the record it last read and nothing is written.                 *)
StoreError ==
  /\ eng.pc \in {"running", "applied"}
  /\ faults < MaxFaults
  /\ faults' = faults + 1
  /\ eng' = Returned("error", FALSE)
  /\ UNCHANGED <<wal, snapshots, current, runtime, clock>>

Crash ==
  /\ eng.pc # "down"
  /\ faults < MaxFaults
  /\ faults' = faults + 1
  /\ eng' = At("down")
  /\ UNCHANGED <<wal, snapshots, current, runtime, clock>>

(* Faulty variant: the scan starts one record too far down.                *)
OpenStorePastEnd ==
  /\ eng.pc = "down"
  /\ eng' = [At("open") EXCEPT !.scan = clock - 2, !.tx = current]
  /\ UNCHANGED <<wal, snapshots, current, runtime, clock, faults>>

(* OpenSQLiteStore: one transaction repairs the pointers.                  *)
OpenStore ==
  /\ eng.pc = "down"
  /\ eng' = [At("open") EXCEPT !.scan = clock - 1, !.tx = current]
  /\ UNCHANGED <<wal, snapshots, current, runtime, clock, faults>>

(* Faulty variant: the repair replays rollbacks that newer rollouts have   *)
(* superseded.                                                             *)
RepairSupersededPointer ==
  /\ eng.pc = "open"
  /\ eng.scan > 0
  /\ LET hits == {k \in Jobs : /\ Terminal(k)
                               /\ wal[k].terminalAt = eng.scan
                               /\ wal[k].state = "rolled_back"
                               /\ Op(k) = "rollback"}
     IN  eng' = [eng EXCEPT !.scan = @ - 1,
                   !.tx = [t \in Targets |->
                             IF \E k \in hits : Target(k) = t
                               THEN Previous(CHOOSE k \in hits : Target(k) = t)
                               ELSE eng.tx[t]]]
  /\ UNCHANGED <<wal, snapshots, current, runtime, clock, faults>>

(* reconcileHistoricalRollbacks, one record of the scan, newest first: a   *)
(* finished explicit rollback whose expected snapshot is still current     *)
(* moves the pointer; a missing target snapshot keeps the store closed.    *)
RepairPointer ==
  /\ eng.pc = "open"
  /\ eng.scan > 0
  /\ LET hits == {k \in Jobs :
                    /\ Terminal(k)
                    /\ wal[k].terminalAt = eng.scan
                    /\ wal[k].state = "rolled_back"
                    /\ Op(k) = "rollback"
                    /\ eng.tx[Target(k)] = wal[k].intent.expected}
         lost == {k \in hits : ~HasKnownGood(Previous(k), Target(k))}
     IN  eng' = IF lost # {}
                  THEN At("down")
                  ELSE [eng EXCEPT !.scan = @ - 1,
                          !.tx = [t \in Targets |->
                                    IF \E k \in hits : Target(k) = t
                                      THEN Previous(CHOOSE k \in hits : Target(k) = t)
                                      ELSE eng.tx[t]]]
  /\ UNCHANGED <<wal, snapshots, current, runtime, clock, faults>>

(* The repair commits; Run starts with ReconcilePending.                   *)
StartPending ==
  /\ eng.pc = "open"
  /\ eng.scan = 0
  /\ current' = eng.tx
  /\ eng' = [At("pending") EXCEPT !.boot = TRUE, !.todo = {j \in Jobs : Active(j)}]
  /\ UNCHANGED <<wal, snapshots, runtime, clock, faults>>

ResumePending(j) ==
  /\ eng.pc = "pending"
  /\ j \in eng.todo
  /\ eng' = [eng EXCEPT !.pc = "running", !.job = j, !.todo = @ \ {j}]
  /\ UNCHANGED <<wal, snapshots, current, runtime, clock, faults>>

PendingDone ==
  /\ eng.pc = "pending"
  /\ eng.todo = {}
  /\ eng' = At("idle")
  /\ UNCHANGED <<wal, snapshots, current, runtime, clock, faults>>

----------------------------------------------------------------------------
EngineInit ==
  /\ wal = [j \in Jobs |-> None]
  /\ snapshots = {}
  /\ current = NoPointers
  /\ runtime = NoPointers
  /\ clock = 1
  /\ eng = At("down")
  /\ faults = 0

RolloutStep ==
  \/ StartApply
  \/ CancelBeforeMutation
  \/ MutateSome
  \/ ApplyRollout
  \/ RecordApplied
  \/ ObserveReady
  \/ FailAndRollback
  \/ StartRollback
  \/ RestorePrevious
  \/ RestoredReady
  \/ RollbackFailed
  \/ RollbackTimesOut
  \/ StartCleanup
  \/ CleanupTarget
  \/ CleanupFails
  \/ RecordCleaned

BootStep ==
  \/ OpenStore
  \/ RepairPointer
  \/ StartPending
  \/ \E j \in Jobs : ResumePending(j)
  \/ PendingDone

(* The engine moving on its own: what its goroutine does when scheduled.   *)
EngineStep == RolloutStep \/ BootStep

FaultStep == StoreError \/ Crash

----------------------------------------------------------------------------
(* The engine on its own.  Its caller hands it intents of the shape the    *)
(* Cloud registry issues, stale and repeated ones included: an apply names *)
(* some rollout that once succeeded, a rollback undoes a succeeded apply.  *)
IssuedByCloud(i) ==
  /\ i.op = "apply" /\ i.previous # None =>
       /\ Recorded(i.previous)
       /\ wal[i.previous].state = "succeeded"
       /\ Target(i.previous) = i.target
  /\ i.op = "rollback" =>
       /\ Recorded(i.expected)
       /\ wal[i.expected].state = "succeeded"
       /\ Target(i.expected) = i.target
       /\ Previous(i.expected) = i.previous

Submit(j, i) == IssuedByCloud(i) /\ ReconcileRollout(j, i)

Collect ==
  /\ eng.pc = "returned"
  /\ eng' = At("idle")
  /\ UNCHANGED <<wal, snapshots, current, runtime, clock, faults>>

EngineNext ==
  \/ EngineStep
  \/ FaultStep
  \/ Collect
  \/ \E j \in Jobs, i \in Intents : Submit(j, i)

EngineSpec == EngineInit /\ [][EngineNext]_engineVars

----------------------------------------------------------------------------
(* Types of the store, the pointers and the engine's volatile call state.  *)
EngineTypeOK ==
  /\ wal \in [Jobs -> WalRecords \cup {None}]
  /\ snapshots \subseteq Jobs
  /\ current \in Pointers
  /\ runtime \in [Targets -> KnownGoodRefs \cup {Partial}]
  /\ clock \in Nat \ {0}
  /\ eng \in EngineStates
  /\ faults \in 0..MaxFaults

(* BeginRollout's target check: however calls, crashes and recovery passes *)
(* interleave, two unfinished rollouts never share a runtime target.       *)
OneActivePerTarget ==
  \A j, k \in Jobs : Active(j) /\ Active(k) /\ Target(j) = Target(k) => j = k

(* known_good_current never dangles: it names a stored snapshot of its own *)
(* target, left by a rollout that succeeded, through pruning, rollbacks    *)
(* and pointer repair.                                                     *)
CurrentIsVerified ==
  \A t \in Targets : current[t] # None =>
    /\ current[t] \in snapshots
    /\ Recorded(current[t])
    /\ wal[current[t]].state = "succeeded"
    /\ Target(current[t]) = t

(* A deployment can always be undone: the snapshot an unfinished apply     *)
(* would roll back to is still stored, whatever pruning deleted meanwhile. *)
PreviousStaysAvailable ==
  \A j \in Jobs :
    Active(j) /\ Op(j) = "apply" /\ Previous(j) # None =>
      HasKnownGood(Previous(j), Target(j))

(* The rollout that last decided what target t runs: of the terminal       *)
(* records that reached the cluster, the one with the newest terminal_at.  *)
Mutated(j) == Terminal(j) /\ wal[j].error # "cancelled"

LastRollout(t) ==
  {j \in Jobs :
     /\ Mutated(j)
     /\ Target(j) = t
     /\ \A k \in Jobs : Mutated(k) /\ Target(k) = t =>
                           wal[k].terminalAt <= wal[j].terminalAt}

Undisturbed(t) ==
  /\ \A j \in Jobs : Active(j) /\ Target(j) = t => wal[j].state = "prepared"
  /\ \A j \in LastRollout(t) : wal[j].state \in {"succeeded", "rolled_back", "cleaned"}

(* The pointer is factual: a target that no rollout is mutating and whose  *)
(* last rollout ended well runs exactly the snapshot known_good_current    *)
(* names, and nothing when it names none.                                  *)
KnownGoodRuns ==
  \A t \in Targets : Undisturbed(t) => runtime[t] = current[t]

(* restoreCurrentKnownGood and CommitRolloutSuccess move the pointer only  *)
(* to what the cluster runs at that moment, and the historical repair run  *)
(* at every start never moves a pointer this engine wrote.                 *)
PointerFollowsRuntime ==
  [][\A t \in Targets : current'[t] # current[t] =>
       runtime[t] = current'[t] /\ eng.pc # "open"]_engineVars

(* A terminal record is immutable: no resume, replay or recovery pass      *)
(* rewrites a rollout whose terminal_at is set.                            *)
TerminalIsImmutable ==
  [][\A j \in Jobs : Terminal(j) => wal'[j] = wal[j]]_engineVars

(* The known-good history as a chain: what succeeded, and on top of what.  *)
Succeeded == {j \in Jobs : Recorded(j) /\ wal[j].state = "succeeded"}

Below == [j \in Jobs |-> IF j \in Succeeded THEN Previous(j) ELSE None]

Chain == INSTANCE KnownGood WITH
  Snapshots <- Jobs, Places <- Targets, Nothing <- None,
  good <- current, promoted <- Succeeded, below <- Below

(* The store implements the abstract chain of known-good snapshots: through *)
(* failures, crashes, stale intents and pointer repair, a success is placed *)
(* on the snapshot it replaced and an explicit rollback goes one step down, *)
(* while a failed deployment leaves the chain where it was.                *)
ImplementsKnownGood == Chain!Spec
=============================================================================
