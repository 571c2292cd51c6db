------------------------ MODULE RolloutEngine_proofs ------------------------
(***************************************************************************)
(* Proofs about the Agent's rollout engine.  The inductive invariant is    *)
(* StoreInv, what the SQLite file satisfies at every step, together with   *)
(* CallInv, what the engine's volatile state adds while a call or the      *)
(* repair transaction of OpenSQLiteStore is in progress.                   *)
(***************************************************************************)
EXTENDS RolloutEngine, TLAPS

StoreTypeOK ==
  /\ wal \in [Jobs -> WalRecords \cup {None}]
  /\ snapshots \subseteq Jobs
  /\ current \in Pointers
  /\ clock \in Nat \ {0}

(* A snapshot row is written with the success of its rollout only.         *)
SnapshotsSucceeded ==
  \A k \in snapshots : Terminal(k) /\ wal[k].state = "succeeded"

(* p points to stored snapshots of the right target, or nowhere.           *)
Verified(p) == \A t \in Targets : p[t] # None => HasKnownGood(p[t], t)

StoreInv ==
  /\ StoreTypeOK
  /\ OneActivePerTarget
  /\ SnapshotsSucceeded
  /\ Verified(current)
  /\ PreviousStaysAvailable

CallInv ==
  /\ eng \in EngineStates
  /\ eng.pc \in {"running", "applied", "returned"} => eng.job \in Jobs
  /\ eng.pc = "open" => Verified(eng.tx)

RestInv ==
  /\ runtime \in [Targets -> KnownGoodRefs \cup {Partial}]
  /\ faults \in 0..MaxFaults

EngineInv == StoreInv /\ CallInv /\ RestInv

----------------------------------------------------------------------------
(* What the type of the log says of one record.                            *)
LEMMA RecordType ==
  ASSUME StoreTypeOK, NEW j \in Jobs, Recorded(j)
  PROVE  /\ wal[j] \in WalRecords
         /\ wal[j].intent \in Intents
         /\ Target(j) \in Targets
         /\ Previous(j) \in KnownGoodRefs
         /\ Op(j) \in Operations
         /\ wal[j].state \in RolloutStates
         /\ wal[j].terminalAt \in Nat
         /\ wal[j].error \in {"none", "cancelled", "failure"}
         /\ wal[j].materialized \in BOOLEAN
<1>1. wal[j] \in WalRecords
  BY DEF StoreTypeOK, Recorded
<1>2. wal[j].intent \in Intents
  BY <1>1 DEF WalRecords
<1>3. wal[j].intent \in RawIntents
  BY <1>2 DEF Intents
<1> QED
  BY <1>1, <1>2, <1>3 DEF WalRecords, RawIntents, Target, Previous, Op

(* A record is a row: writing one makes its rollout Recorded.              *)
LEMMA NewRecord ==
  ASSUME NEW i \in Intents, NEW state \in RolloutStates, NEW at \in Nat,
         NEW error \in {"none", "cancelled", "failure"}, NEW m \in BOOLEAN
  PROVE  LET w == [intent |-> i, state |-> state, terminalAt |-> at,
                   error |-> error, materialized |-> m]
         IN  w \in WalRecords /\ w # None
BY WalAssumption DEF WalRecords

(* TransitionRollout preserves everything the store promises.              *)
LEMMA TransitionKeepsStore ==
  ASSUME StoreInv, NEW j \in Jobs, NEW state \in RolloutStates,
         NEW error \in {"none", "cancelled", "failure"},
         NEW materialized \in BOOLEAN, NEW terminal \in BOOLEAN,
         TransitionRollout(j, state, error, materialized, terminal)
  PROVE  StoreInv' /\ UNCHANGED faults
<1> DEFINE ends == terminal \/ IsTerminalRolloutState(state)
           at   == IF ends THEN clock ELSE 0
           w    == [intent |-> wal[j].intent, state |-> state, terminalAt |-> at,
                    error |-> error, materialized |-> materialized]
<1>1. /\ Active(j) /\ Recorded(j) /\ wal[j].terminalAt = 0 /\ state # "succeeded"
      /\ wal' = [wal EXCEPT ![j] = w]
      /\ clock' = IF ends THEN clock + 1 ELSE clock
      /\ snapshots' = snapshots /\ faults' = faults
  BY DEF TransitionRollout, Active
<1>2. wal[j] \in WalRecords /\ wal[j].intent \in Intents
      /\ Target(j) \in Targets /\ Previous(j) \in KnownGoodRefs
  BY <1>1, RecordType DEF StoreInv
<1>3. at \in Nat
  BY DEF StoreInv, StoreTypeOK
<1> HIDE DEF at
<1>4. w \in WalRecords /\ w # None
  BY <1>2, <1>3, NewRecord
<1>5. w.intent = wal[j].intent /\ w.state = state /\ w.terminalAt = at
  OBVIOUS
<1> HIDE DEF w
<1>6. \A k \in Jobs : wal'[k] = IF k = j THEN w ELSE wal[k]
  BY <1>1 DEF StoreInv, StoreTypeOK
<1>7. \A k \in Jobs : Recorded(k)' <=> Recorded(k)
  BY <1>1, <1>4, <1>6 DEF Recorded
<1>8. \A k \in Jobs : /\ Target(k)' = Target(k)
                      /\ Previous(k)' = Previous(k)
                      /\ Op(k)' = Op(k)
  BY <1>5, <1>6 DEF Target, Previous, Op
<1>9. \A k \in Jobs : Active(k)' => Active(k)
  BY <1>1, <1>6, <1>7 DEF Active
<1>10. \A k \in snapshots : k # j /\ k \in Jobs
  BY <1>1 DEF StoreInv, SnapshotsSucceeded, StoreTypeOK, Terminal
<1>11. \A k, t : HasKnownGood(k, t) => HasKnownGood(k, t)'
  BY <1>1, <1>8, <1>10 DEF HasKnownGood
<1>12. /\ current' \in Pointers
       /\ \A t \in Targets : \/ current'[t] = current[t]
                             \/ t = Target(j) /\ current'[t] = Previous(j)
                                /\ HasKnownGood(Previous(j), Target(j))
  BY <1>2 DEF TransitionRollout, StoreInv, StoreTypeOK, Pointers
<1>13. StoreTypeOK'
  <2>1. wal' \in [Jobs -> WalRecords \cup {None}]
    BY <1>1, <1>4 DEF StoreInv, StoreTypeOK
  <2>2. clock' \in Nat \ {0}
    BY <1>1 DEF StoreInv, StoreTypeOK
  <2> QED BY <1>1, <1>12, <2>1, <2>2 DEF StoreInv, StoreTypeOK
<1>14. OneActivePerTarget'
  BY <1>8, <1>9 DEF StoreInv, OneActivePerTarget
<1>15. SnapshotsSucceeded'
  BY <1>1, <1>6, <1>7, <1>10 DEF StoreInv, SnapshotsSucceeded, Terminal
<1>16. Verified(current)'
  BY <1>11, <1>12 DEF StoreInv, Verified
<1>17. PreviousStaysAvailable'
  BY <1>8, <1>9, <1>11 DEF StoreInv, PreviousStaysAvailable
<1> QED
  BY <1>1, <1>13, <1>14, <1>15, <1>16, <1>17 DEF StoreInv

(* So does CommitRolloutSuccess, pruning included: it deletes snapshots of *)
(* its own target only, where the commit ends the sole unfinished rollout. *)
LEMMA CommitKeepsStore ==
  ASSUME StoreInv, NEW j \in Jobs, CommitRolloutSuccess(j)
  PROVE  StoreInv' /\ UNCHANGED faults
<1> DEFINE w == [intent |-> wal[j].intent, state |-> "succeeded",
                 terminalAt |-> clock, error |-> "none", materialized |-> TRUE]
<1>1. /\ Active(j) /\ Recorded(j) /\ wal[j].terminalAt = 0
      /\ wal' = [wal EXCEPT ![j] = w]
      /\ clock' = clock + 1
      /\ snapshots' = (snapshots \ Pruned(j)) \cup {j}
      /\ current' = [current EXCEPT ![Target(j)] = j]
      /\ faults' = faults
  BY DEF CommitRolloutSuccess, Active
<1>2. wal[j].intent \in Intents /\ Target(j) \in Targets
  BY <1>1, RecordType DEF StoreInv
<1>3. clock \in Nat \ {0}
  BY DEF StoreInv, StoreTypeOK
<1>4. w \in WalRecords /\ w # None
  BY <1>2, <1>3, NewRecord DEF RolloutStates
<1>5. w.intent = wal[j].intent /\ w.state = "succeeded" /\ w.terminalAt = clock
  OBVIOUS
<1> HIDE DEF w
<1>6. \A k \in Jobs : wal'[k] = IF k = j THEN w ELSE wal[k]
  BY <1>1 DEF StoreInv, StoreTypeOK
<1>7. \A k \in Jobs : Recorded(k)' <=> Recorded(k)
  BY <1>1, <1>4, <1>6 DEF Recorded
<1>8. \A k \in Jobs : /\ Target(k)' = Target(k)
                      /\ Previous(k)' = Previous(k)
                      /\ Op(k)' = Op(k)
  BY <1>5, <1>6 DEF Target, Previous, Op
<1>9. \A k \in Jobs : Active(k)' => Active(k) /\ k # j
  BY <1>1, <1>3, <1>5, <1>6, <1>7 DEF Active
<1>10. \A k \in snapshots : k # j /\ k \in Jobs
  BY <1>1 DEF StoreInv, SnapshotsSucceeded, StoreTypeOK, Terminal
<1>11. \A k \in Pruned(j) : /\ Target(k) = Target(j)
                           /\ \A t \in Targets \ {Target(j)} : current[t] # k
  BY DEF Pruned
<1>12. \A k, t : HasKnownGood(k, t) /\ t # Target(j) => HasKnownGood(k, t)'
  BY <1>1, <1>8, <1>10, <1>11 DEF HasKnownGood
<1>13. StoreTypeOK'
  <2>1. wal' \in [Jobs -> WalRecords \cup {None}]
    BY <1>1, <1>4 DEF StoreInv, StoreTypeOK
  <2>2. current' \in Pointers
    BY <1>1 DEF StoreInv, StoreTypeOK, Pointers, KnownGoodRefs
  <2>3. snapshots' \subseteq Jobs
    BY <1>1 DEF StoreInv, StoreTypeOK
  <2>4. clock' \in Nat \ {0}
    BY <1>1, <1>3
  <2> QED BY <2>1, <2>2, <2>3, <2>4 DEF StoreTypeOK
<1>14. OneActivePerTarget'
  BY <1>8, <1>9 DEF StoreInv, OneActivePerTarget
<1>15. SnapshotsSucceeded'
  <2>1. Terminal(j)' /\ wal'[j].state = "succeeded"
    BY <1>1, <1>3, <1>5, <1>6, <1>7 DEF Terminal
  <2>2. \A k \in snapshots : Terminal(k)' /\ wal'[k].state = "succeeded"
    BY <1>6, <1>7, <1>10 DEF StoreInv, SnapshotsSucceeded, Terminal
  <2> QED BY <1>1, <2>1, <2>2 DEF SnapshotsSucceeded
<1>16. Verified(current)'
  <2> SUFFICES ASSUME NEW t \in Targets, current'[t] # None
               PROVE  HasKnownGood(current[t], t)'
    BY DEF Verified
  <2>1. CASE t = Target(j)
    <3>1. current'[t] = j
      BY <1>1, <1>2, <2>1 DEF StoreInv, StoreTypeOK, Pointers
    <3> QED BY <1>1, <1>8, <2>1, <3>1 DEF HasKnownGood
  <2>2. CASE t # Target(j)
    <3>1. current'[t] = current[t]
      BY <1>1, <2>2 DEF StoreInv, StoreTypeOK, Pointers
    <3> QED BY <1>12, <2>2, <3>1 DEF StoreInv, Verified
  <2> QED BY <2>1, <2>2
<1>17. PreviousStaysAvailable'
  <2> SUFFICES ASSUME NEW k \in Jobs, Active(k)', Op(k)' = "apply", Previous(k)' # None
               PROVE  HasKnownGood(Previous(k), Target(k))'
    BY DEF PreviousStaysAvailable
  <2>1. Active(k) /\ Target(k) # Target(j)
    BY <1>1, <1>9 DEF StoreInv, OneActivePerTarget
  <2>2. HasKnownGood(Previous(k), Target(k))
    BY <1>8, <2>1 DEF StoreInv, PreviousStaysAvailable
  <2> QED BY <1>8, <1>12, <2>1, <2>2
<1> QED
  BY <1>1, <1>13, <1>14, <1>15, <1>16, <1>17 DEF StoreInv

(* BeginRollout: the checks of its transaction are what makes the new      *)
(* record the target's only unfinished one and its way back available.     *)
LEMMA BeginKeepsStore ==
  ASSUME StoreInv, NEW j \in Jobs, NEW i \in Intents, BeginRollout(j, i)
  PROVE  StoreInv'
<1>1. PICK m \in BOOLEAN :
        wal' = [wal EXCEPT ![j] =
                  [intent |-> i, state |-> "prepared", terminalAt |-> 0,
                   error |-> "none", materialized |-> m]]
  BY DEF BeginRollout
<1> DEFINE w == [intent |-> i, state |-> "prepared", terminalAt |-> 0,
                 error |-> "none", materialized |-> m]
<1>2. w \in WalRecords /\ w # None
  BY NewRecord DEF RolloutStates
<1>3. w.intent = i /\ w.terminalAt = 0
  OBVIOUS
<1>4. wal' = [wal EXCEPT ![j] = w]
  BY <1>1
<1> HIDE DEF w
<1>5. /\ ~Recorded(j) /\ CanBegin(i)
      /\ snapshots' = snapshots /\ current' = current /\ clock' = clock
  BY DEF BeginRollout
<1>6. \A k \in Jobs : wal'[k] = IF k = j THEN w ELSE wal[k]
  BY <1>4 DEF StoreInv, StoreTypeOK
<1>7. \A k \in Jobs \ {j} :
        /\ Active(k)' <=> Active(k)
        /\ Terminal(k)' <=> Terminal(k)
        /\ Target(k)' = Target(k)
        /\ Previous(k)' = Previous(k)
        /\ Op(k)' = Op(k)
  BY <1>6 DEF Active, Terminal, Recorded, Target, Previous, Op
<1>8. Target(j)' = i.target /\ Previous(j)' = i.previous /\ Op(j)' = i.op
  BY <1>3, <1>6 DEF Target, Previous, Op
<1>9. \A k \in snapshots : k \in Jobs \ {j}
  BY <1>5 DEF StoreInv, SnapshotsSucceeded, StoreTypeOK, Terminal
<1>10. \A k, t : HasKnownGood(k, t) => HasKnownGood(k, t)'
  BY <1>5, <1>7, <1>9 DEF HasKnownGood
<1>11. StoreTypeOK'
  BY <1>2, <1>4, <1>5 DEF StoreInv, StoreTypeOK
<1>12. OneActivePerTarget'
  BY <1>5, <1>7, <1>8 DEF StoreInv, OneActivePerTarget, CanBegin
<1>13. SnapshotsSucceeded'
  BY <1>5, <1>6, <1>7, <1>9 DEF StoreInv, SnapshotsSucceeded
<1>14. Verified(current)'
  BY <1>5, <1>10 DEF StoreInv, Verified
<1>15. PreviousStaysAvailable'
  <2> SUFFICES ASSUME NEW k \in Jobs, Active(k)', Op(k)' = "apply", Previous(k)' # None
               PROVE  HasKnownGood(Previous(k), Target(k))'
    BY DEF PreviousStaysAvailable
  <2>1. CASE k = j
    <3>1. current[i.target] = i.previous /\ i.target \in Targets
      BY <1>5, <1>8, <2>1 DEF CanBegin, ExpectedCurrent, Intents, RawIntents
    <3> QED BY <1>8, <1>10, <2>1, <3>1 DEF StoreInv, Verified
  <2>2. CASE k # j
    BY <1>7, <1>10, <2>2 DEF StoreInv, PreviousStaysAvailable
  <2> QED BY <2>1, <2>2
<1> QED
  BY <1>11, <1>12, <1>13, <1>14, <1>15 DEF StoreInv

----------------------------------------------------------------------------
(* The volatile state: what each way of leaving it behind satisfies.       *)
LEMMA AtType ==
  ASSUME NEW pc \in {"down", "open", "pending", "idle", "running", "applied", "returned"}
  PROVE  At(pc) \in EngineStates /\ At(pc).pc = pc
BY DEF At, EngineStates, NoPointers, Pointers, KnownGoodRefs

LEMMA EnterInv ==
  ASSUME NEW pc \in {"running", "returned"}, NEW j \in Jobs,
         NEW out \in {"none", "record", "refused", "error"},
         eng' = [At(pc) EXCEPT !.job = j, !.out = out]
  PROVE  CallInv'
BY DEF CallInv, At, EngineStates, NoPointers, Pointers, KnownGoodRefs

LEMMA ReturnedInv ==
  ASSUME CallInv, eng.pc \in {"running", "applied"},
         NEW outcome \in {"none", "record", "refused", "error"}, NEW ok \in BOOLEAN,
         eng' = Returned(outcome, ok)
  PROVE  CallInv'
<1>1. eng.job \in Jobs /\ eng.todo \in SUBSET Jobs
  BY DEF CallInv, EngineStates
<1>2. CASE eng.boot /\ ok
  BY <1>1, <1>2 DEF CallInv, Returned, At, EngineStates, NoPointers, Pointers, KnownGoodRefs
<1>3. CASE eng.boot /\ ~ok
  BY <1>1, <1>3 DEF CallInv, Returned, At, EngineStates, NoPointers, Pointers, KnownGoodRefs
<1>4. CASE ~eng.boot
  BY <1>1, <1>4 DEF CallInv, Returned, At, EngineStates, NoPointers, Pointers, KnownGoodRefs
<1> QED BY <1>2, <1>3, <1>4

LEMMA ContinueInv ==
  ASSUME CallInv, eng.pc \in {"running", "applied"},
         NEW pc \in {"running", "applied"}, eng' = Continue(pc)
  PROVE  CallInv'
BY DEF CallInv, Continue, EngineStates

(* Where nothing is stored the store's invariant carries over.             *)
LEMMA StoreStutters ==
  ASSUME StoreInv, UNCHANGED <<wal, snapshots, current, clock>>
  PROVE  StoreInv'
BY DEF StoreInv, StoreTypeOK, OneActivePerTarget, SnapshotsSucceeded, Verified,
       PreviousStaysAvailable, HasKnownGood, Active, Terminal, Recorded, Target,
       Previous, Op

LEMMA CallStutters ==
  ASSUME CallInv, UNCHANGED <<wal, snapshots, eng>>
  PROVE  CallInv'
BY DEF CallInv, Verified, HasKnownGood, Target

(* Outside the repair transaction only the engine's own record matters.    *)
LEMMA CallUnchanged ==
  ASSUME CallInv, eng.pc # "open", eng' = eng
  PROVE  CallInv'
BY DEF CallInv

----------------------------------------------------------------------------
(* Every step of the engine's call in progress.                            *)
LEMMA RolloutStepInv ==
  ASSUME StoreInv, CallInv, RestInv, RolloutStep
  PROVE  StoreInv' /\ CallInv' /\ RestInv'
<1>1. /\ eng.pc \in {"running", "applied"}
      /\ eng.job \in Jobs
      /\ Recorded(eng.job)
      /\ Target(eng.job) \in Targets
      /\ Previous(eng.job) \in KnownGoodRefs
      /\ wal[eng.job].error \in {"none", "cancelled", "failure"}
      /\ wal[eng.job].materialized \in BOOLEAN
  <2>1. eng.pc \in {"running", "applied"} /\ Active(eng.job)
    BY DEF RolloutStep, InCall, StartApply, CancelBeforeMutation, MutateSome,
           ApplyRollout, RecordApplied, ObserveReady, FailAndRollback, StartRollback,
           RestorePrevious, RestoredReady, RollbackFailed, RollbackTimesOut,
           StartCleanup, CleanupTarget, CleanupFails, RecordCleaned
  <2>2. eng.job \in Jobs /\ Recorded(eng.job)
    BY <2>1 DEF CallInv, Active
  <2> QED BY <2>1, <2>2, RecordType DEF StoreInv
<1>2. CASE StartApply
  <2>1. StoreInv' /\ UNCHANGED <<faults, runtime>>
    BY <1>1, <1>2, TransitionKeepsStore DEF StartApply, InCall, RolloutStates
  <2>2. CallInv'
    BY <1>1, <1>2, CallUnchanged DEF StartApply, InCall
  <2> QED BY <2>1, <2>2 DEF RestInv
<1>3. CASE CancelBeforeMutation
  <2>1. StoreInv' /\ UNCHANGED <<faults, runtime>>
    BY <1>1, <1>3, TransitionKeepsStore DEF CancelBeforeMutation, InCall, RolloutStates
  <2>2. CallInv'
    BY <1>1, <1>3, ReturnedInv DEF CancelBeforeMutation, InCall
  <2> QED BY <2>1, <2>2 DEF RestInv
<1>4. CASE MutateSome
  <2>1. StoreInv' /\ UNCHANGED faults
    BY <1>4, StoreStutters DEF MutateSome
  <2>2. CallInv'
    BY <1>1, <1>4, CallUnchanged DEF MutateSome, InCall
  <2>3. runtime' \in [Targets -> KnownGoodRefs \cup {Partial}]
    BY <1>1, <1>4 DEF MutateSome, RestInv, KnownGoodRefs
  <2> QED BY <2>1, <2>2, <2>3 DEF RestInv
<1>5. CASE ApplyRollout
  <2>1. StoreInv' /\ UNCHANGED faults
    BY <1>5, StoreStutters DEF ApplyRollout
  <2>2. CallInv'
    BY <1>1, <1>5, ContinueInv DEF ApplyRollout, InCall
  <2>3. runtime' \in [Targets -> KnownGoodRefs \cup {Partial}]
    BY <1>1, <1>5 DEF ApplyRollout, RestInv, KnownGoodRefs
  <2> QED BY <2>1, <2>2, <2>3 DEF RestInv
<1>6. CASE RecordApplied
  <2>1. StoreInv' /\ UNCHANGED <<faults, runtime>>
    BY <1>1, <1>6, TransitionKeepsStore DEF RecordApplied, InCall, RolloutStates
  <2>2. CallInv'
    BY <1>1, <1>6, ContinueInv DEF RecordApplied, InCall
  <2> QED BY <2>1, <2>2 DEF RestInv
<1>7. CASE ObserveReady
  <2>1. StoreInv' /\ UNCHANGED <<faults, runtime>>
    BY <1>1, <1>7, CommitKeepsStore DEF ObserveReady, InCall
  <2>2. CallInv'
    BY <1>1, <1>7, ReturnedInv DEF ObserveReady, InCall
  <2> QED BY <2>1, <2>2 DEF RestInv
<1>8. CASE FailAndRollback
  <2>1. StoreInv' /\ UNCHANGED <<faults, runtime>>
    BY <1>1, <1>8, TransitionKeepsStore DEF FailAndRollback, InCall, RolloutStates
  <2>2. CallInv'
    BY <1>1, <1>8, ReturnedInv, CallUnchanged DEF FailAndRollback, InCall
  <2> QED BY <2>1, <2>2 DEF RestInv
<1>9. CASE StartRollback
  <2>1. StoreInv' /\ UNCHANGED <<faults, runtime>>
    BY <1>1, <1>9, TransitionKeepsStore DEF StartRollback, InCall, RolloutStates
  <2>2. CallInv'
    BY <1>1, <1>9, CallUnchanged DEF StartRollback, InCall
  <2> QED BY <2>1, <2>2 DEF RestInv
<1>10. CASE RestorePrevious
  <2>1. StoreInv' /\ UNCHANGED faults
    BY <1>10, StoreStutters DEF RestorePrevious
  <2>2. CallInv'
    BY <1>1, <1>10, ContinueInv DEF RestorePrevious, InCall
  <2>3. runtime' \in [Targets -> KnownGoodRefs \cup {Partial}]
    BY <1>1, <1>10 DEF RestorePrevious, RestInv, KnownGoodRefs
  <2> QED BY <2>1, <2>2, <2>3 DEF RestInv
<1>11. CASE RestoredReady
  <2>1. StoreInv' /\ UNCHANGED <<faults, runtime>>
    BY <1>1, <1>11, TransitionKeepsStore DEF RestoredReady, InCall, RolloutStates
  <2>2. CallInv'
    BY <1>1, <1>11, ReturnedInv DEF RestoredReady, InCall
  <2> QED BY <2>1, <2>2 DEF RestInv
<1>12. CASE RollbackFailed
  <2>1. StoreInv' /\ UNCHANGED <<faults, runtime>>
    BY <1>1, <1>12, TransitionKeepsStore DEF RollbackFailed, InCall, RolloutStates
  <2>2. CallInv'
    BY <1>1, <1>12, ReturnedInv DEF RollbackFailed, InCall
  <2> QED BY <2>1, <2>2 DEF RestInv
<1>13. CASE RollbackTimesOut
  <2>1. StoreInv' /\ UNCHANGED <<faults, runtime>>
    BY <1>13, StoreStutters DEF RollbackTimesOut
  <2>2. CallInv'
    BY <1>1, <1>13, ReturnedInv DEF RollbackTimesOut, InCall
  <2> QED BY <2>1, <2>2 DEF RestInv
<1>14. CASE StartCleanup
  <2>1. StoreInv' /\ UNCHANGED <<faults, runtime>>
    BY <1>1, <1>14, TransitionKeepsStore DEF StartCleanup, InCall, RolloutStates
  <2>2. CallInv'
    BY <1>1, <1>14, CallUnchanged DEF StartCleanup, InCall
  <2> QED BY <2>1, <2>2 DEF RestInv
<1>15. CASE CleanupTarget
  <2>1. StoreInv' /\ UNCHANGED faults
    BY <1>15, StoreStutters DEF CleanupTarget
  <2>2. CallInv'
    BY <1>1, <1>15, ContinueInv DEF CleanupTarget, InCall
  <2>3. runtime' \in [Targets -> KnownGoodRefs \cup {Partial}]
    BY <1>1, <1>15 DEF CleanupTarget, RestInv, KnownGoodRefs
  <2> QED BY <2>1, <2>2, <2>3 DEF RestInv
<1>16. CASE CleanupFails
  <2>1. StoreInv' /\ UNCHANGED <<faults, runtime>>
    BY <1>1, <1>16, TransitionKeepsStore DEF CleanupFails, InCall, RolloutStates
  <2>2. CallInv'
    BY <1>1, <1>16, ReturnedInv DEF CleanupFails, InCall
  <2> QED BY <2>1, <2>2 DEF RestInv
<1>17. CASE RecordCleaned
  <2>1. StoreInv' /\ UNCHANGED <<faults, runtime>>
    BY <1>1, <1>17, TransitionKeepsStore DEF RecordCleaned, InCall, RolloutStates
  <2>2. CallInv'
    BY <1>1, <1>17, ReturnedInv DEF RecordCleaned, InCall
  <2> QED BY <2>1, <2>2 DEF RestInv
<1> QED
  BY <1>2, <1>3, <1>4, <1>5, <1>6, <1>7, <1>8, <1>9, <1>10,
     <1>11, <1>12, <1>13, <1>14, <1>15, <1>16, <1>17 DEF RolloutStep

(* Opening the store: the pointers the repair computes are verified before *)
(* they are committed.                                                     *)
LEMMA BootStepInv ==
  ASSUME StoreInv, CallInv, RestInv, BootStep
  PROVE  StoreInv' /\ CallInv' /\ RestInv'
<1>1. CASE OpenStore
  <2>1. StoreInv' /\ RestInv'
    BY <1>1, StoreStutters DEF OpenStore, RestInv
  <2>2. clock - 1 \in Nat /\ current \in Pointers
    BY DEF StoreInv, StoreTypeOK
  <2>3. eng'.pc = "open" /\ eng'.tx = current /\ eng' \in EngineStates
    BY <1>1, <2>2 DEF OpenStore, At, EngineStates, NoPointers, KnownGoodRefs
  <2>4. Verified(eng.tx)'
    BY <1>1, <2>3 DEF OpenStore, StoreInv, Verified, HasKnownGood, Target
  <2> QED BY <2>1, <2>3, <2>4 DEF CallInv
<1>2. CASE RepairPointer
  <2> DEFINE hits == {k \in Jobs :
                        /\ Terminal(k)
                        /\ wal[k].terminalAt = eng.scan
                        /\ wal[k].state = "rolled_back"
                        /\ Op(k) = "rollback"
                        /\ eng.tx[Target(k)] = wal[k].intent.expected}
             lost == {k \in hits : ~HasKnownGood(Previous(k), Target(k))}
             tx   == [t \in Targets |-> IF \E k \in hits : Target(k) = t
                                          THEN Previous(CHOOSE k \in hits : Target(k) = t)
                                          ELSE eng.tx[t]]
  <2>1. StoreInv' /\ RestInv'
    BY <1>2, StoreStutters DEF RepairPointer, RestInv
  <2>2. /\ eng.pc = "open" /\ eng.scan > 0
        /\ eng' = IF lost # {} THEN At("down")
                   ELSE [eng EXCEPT !.scan = @ - 1, !.tx = tx]
    BY <1>2 DEF RepairPointer
  <2>3. eng.tx \in Pointers /\ eng.scan \in Nat /\ Verified(eng.tx)
    BY <2>2 DEF CallInv, EngineStates
  <2>4. \A k \in hits : k \in Jobs /\ Recorded(k)
    BY DEF Terminal
  <2>5. \A t \in Targets :
          \/ tx[t] = eng.tx[t]
          \/ \E k \in hits : Target(k) = t /\ tx[t] = Previous(k)
    OBVIOUS
  <2> HIDE DEF hits, tx
  <2>6. CASE lost # {}
    <3>1. eng' = At("down")
      BY <2>2, <2>6
    <3>2. eng' \in EngineStates /\ eng'.pc = "down"
      BY <3>1, AtType
    <3> QED BY <2>1, <3>2 DEF CallInv
  <2>7. CASE lost = {}
    <3>1. \A t \in Targets : tx[t] \in KnownGoodRefs
      BY <2>3, <2>4, <2>5, RecordType DEF Pointers, StoreInv
    <3>2. tx \in Pointers
      BY <3>1 DEF Pointers, tx
    <3> DEFINE next == eng.scan - 1
    <3>3. eng' = [eng EXCEPT !.scan = next, !.tx = tx] /\ next \in Nat
      BY <2>2, <2>3, <2>7
    <3> HIDE DEF next
    <3>4. eng' \in EngineStates /\ eng'.pc = "open" /\ eng'.tx = tx
      BY <2>2, <3>2, <3>3 DEF CallInv, EngineStates
    <3>5. Verified(tx)
      BY <2>3, <2>5, <2>7 DEF Verified
    <3>6. Verified(eng.tx)'
      BY <1>2, <3>4, <3>5 DEF Verified, HasKnownGood, Target, RepairPointer
    <3> QED BY <2>1, <3>4, <3>6 DEF CallInv
  <2> QED BY <2>6, <2>7
<1>3. CASE StartPending
  <2>1. /\ eng.pc = "open" /\ current' = eng.tx
        /\ UNCHANGED <<wal, snapshots, runtime, clock, faults>>
        /\ eng' = [At("pending") EXCEPT !.boot = TRUE, !.todo = {j \in Jobs : Active(j)}]
    BY <1>3 DEF StartPending
  <2>2. eng.tx \in Pointers /\ Verified(eng.tx)
    BY <2>1 DEF CallInv, EngineStates
  <2>3. StoreTypeOK' /\ Verified(current)'
    BY <2>1, <2>2 DEF StoreInv, StoreTypeOK, Verified, HasKnownGood, Target
  <2>4. OneActivePerTarget' /\ SnapshotsSucceeded' /\ PreviousStaysAvailable'
    BY <2>1 DEF StoreInv, OneActivePerTarget, SnapshotsSucceeded,
       PreviousStaysAvailable, HasKnownGood, Active, Terminal, Recorded, Target,
       Previous, Op
  <2>5. CallInv'
    BY <2>1 DEF CallInv, At, EngineStates, NoPointers, Pointers, KnownGoodRefs
  <2> QED BY <2>1, <2>3, <2>4, <2>5 DEF StoreInv, RestInv
<1>4. ASSUME NEW j \in Jobs, ResumePending(j)
      PROVE  StoreInv' /\ CallInv' /\ RestInv'
  <2>1. StoreInv' /\ RestInv'
    BY <1>4, StoreStutters DEF ResumePending, RestInv
  <2>2. CallInv'
    BY <1>4 DEF ResumePending, CallInv, EngineStates, KnownGoodRefs
  <2> QED BY <2>1, <2>2
<1>5. CASE PendingDone
  <2>1. StoreInv' /\ RestInv' /\ eng' = At("idle")
    BY <1>5, StoreStutters DEF PendingDone, RestInv
  <2> QED BY <2>1, AtType DEF CallInv
<1> QED BY <1>1, <1>2, <1>3, <1>4, <1>5 DEF BootStep

(* A call enters the engine, is refused, or its outcome is collected.      *)
LEMMA EntryInv ==
  ASSUME StoreInv, CallInv, RestInv, NEW j \in Jobs, NEW i \in Intents,
         ReconcileRollout(j, i)
  PROVE  StoreInv' /\ CallInv' /\ RestInv'
<1>1. CASE RefuseRollout(j, i) \/ PreflightFails(j, i)
  <2>1. StoreInv' /\ RestInv' /\ eng' = Refusal(j, i)
    BY <1>1, StoreStutters DEF RefuseRollout, PreflightFails, RestInv
  <2> QED BY <2>1, EnterInv DEF Refusal
<1>2. CASE BeginRollout(j, i)
  <2>1. StoreInv' /\ RestInv'
    BY <1>2, BeginKeepsStore DEF BeginRollout, RestInv
  <2>2. CallInv'
    BY <1>2 DEF BeginRollout, CallInv, At, EngineStates, NoPointers, Pointers, KnownGoodRefs
  <2> QED BY <2>1, <2>2
<1>3. CASE ResumeRollout(j, i)
  <2>1. StoreInv' /\ RestInv'
    BY <1>3, StoreStutters DEF ResumeRollout, RestInv
  <2>2. CASE Terminal(j)
    BY <1>3, <2>1, <2>2, EnterInv DEF ResumeRollout
  <2>3. CASE ~Terminal(j)
    <3>1. eng' = [At("running") EXCEPT !.job = j]
      BY <1>3, <2>3 DEF ResumeRollout
    <3>2. CallInv'
      BY <3>1 DEF CallInv, At, EngineStates, NoPointers, Pointers, KnownGoodRefs
    <3> QED BY <2>1, <3>2
  <2> QED BY <2>2, <2>3
<1> QED BY <1>1, <1>2, <1>3 DEF ReconcileRollout

LEMMA FaultStepInv ==
  ASSUME StoreInv, CallInv, RestInv, FaultStep \/ Collect
  PROVE  StoreInv' /\ CallInv' /\ RestInv'
<1>1. StoreInv'
  BY StoreStutters DEF FaultStep, StoreError, Crash, Collect
<1>2. RestInv'
  <2>1. /\ runtime' = runtime
        /\ \/ faults' = faults
           \/ faults < MaxFaults /\ faults' = faults + 1
    BY DEF FaultStep, StoreError, Crash, Collect
  <2>2. faults' \in 0..MaxFaults
    BY <2>1, EngineAssumption DEF RestInv
  <2> QED BY <2>1, <2>2 DEF RestInv
<1>3. CASE StoreError
  BY <1>1, <1>2, <1>3, ReturnedInv DEF StoreError
<1>4. CASE Crash \/ Collect
  <2>1. eng' = At("down") \/ eng' = At("idle")
    BY <1>4 DEF Crash, Collect
  <2> QED BY <1>1, <1>2, <2>1, AtType DEF CallInv
<1> QED BY <1>3, <1>4 DEF FaultStep

----------------------------------------------------------------------------
LEMMA EngineInitInv == EngineInit => EngineInv
<1> SUFFICES ASSUME EngineInit PROVE EngineInv
  OBVIOUS
<1>1. \A j \in Jobs : ~Recorded(j)
  BY DEF EngineInit, Recorded
<1>2. StoreTypeOK
  BY DEF EngineInit, StoreTypeOK, NoPointers, Pointers, KnownGoodRefs
<1>3. OneActivePerTarget /\ PreviousStaysAvailable
  BY <1>1 DEF OneActivePerTarget, PreviousStaysAvailable, Active
<1>4. SnapshotsSucceeded /\ Verified(current)
  BY DEF EngineInit, SnapshotsSucceeded, Verified, NoPointers
<1>5. CallInv
  BY AtType DEF EngineInit, CallInv
<1>6. RestInv
  BY EngineAssumption DEF EngineInit, RestInv, NoPointers, KnownGoodRefs
<1> QED BY <1>2, <1>3, <1>4, <1>5, <1>6 DEF EngineInv, StoreInv

LEMMA EngineStepInv == EngineInv /\ [EngineNext]_engineVars => EngineInv'
<1> SUFFICES ASSUME EngineInv, [EngineNext]_engineVars PROVE EngineInv'
  OBVIOUS
<1>1. CASE RolloutStep
  BY <1>1, RolloutStepInv DEF EngineInv
<1>2. CASE BootStep
  BY <1>2, BootStepInv DEF EngineInv
<1>3. CASE FaultStep \/ Collect
  BY <1>3, FaultStepInv DEF EngineInv
<1>4. ASSUME NEW j \in Jobs, NEW i \in Intents, Submit(j, i) PROVE EngineInv'
  BY <1>4, EntryInv DEF EngineInv, Submit
<1>5. CASE UNCHANGED engineVars
  BY <1>5, StoreStutters, CallStutters DEF EngineInv, RestInv, engineVars
<1> QED BY <1>1, <1>2, <1>3, <1>4, <1>5 DEF EngineNext, EngineStep

LEMMA EngineInvariance == EngineSpec => []EngineInv
BY EngineInitInv, EngineStepInv, PTL DEF EngineSpec

(* The store, the pointers and the engine's call state keep their types.   *)
THEOREM EngineTypes == EngineSpec => []EngineTypeOK
<1>1. EngineInv => EngineTypeOK
  BY DEF EngineInv, StoreInv, StoreTypeOK, CallInv, RestInv, EngineTypeOK
<1> QED BY <1>1, EngineInvariance, PTL

(* No interleaving of calls, crashes and recovery passes leaves two        *)
(* unfinished rollouts on one runtime target.                              *)
THEOREM OneActive == EngineSpec => []OneActivePerTarget
<1>1. EngineInv => OneActivePerTarget
  BY DEF EngineInv, StoreInv
<1> QED BY <1>1, EngineInvariance, PTL

(* known_good_current always names a stored snapshot of its own target     *)
(* that a succeeded rollout left.                                          *)
THEOREM CurrentVerified == EngineSpec => []CurrentIsVerified
<1>1. EngineInv => CurrentIsVerified
  BY DEF EngineInv, StoreInv, Verified, HasKnownGood, SnapshotsSucceeded, Terminal,
         CurrentIsVerified
<1> QED BY <1>1, EngineInvariance, PTL

(* The snapshot an unfinished apply would return to is never pruned.       *)
THEOREM WayBackStays == EngineSpec => []PreviousStaysAvailable
<1>1. EngineInv => PreviousStaysAvailable
  BY DEF EngineInv, StoreInv
<1> QED BY <1>1, EngineInvariance, PTL

(* The log is written by TransitionRollout, CommitRolloutSuccess and       *)
(* BeginRollout only, and none of them touches a terminal record.          *)
LEMMA TerminalKept ==
  ASSUME EngineInv, [EngineNext]_engineVars, NEW j \in Jobs, Terminal(j)
  PROVE  wal'[j] = wal[j]
<1>1. wal \in [Jobs -> WalRecords \cup {None}] /\ Recorded(j) /\ ~Active(j)
  BY DEF EngineInv, StoreInv, StoreTypeOK, Terminal, Active
<1>2. ASSUME NEW k, NEW state, NEW error, NEW materialized, NEW terminal,
             TransitionRollout(k, state, error, materialized, terminal)
      PROVE  wal'[j] = wal[j]
  BY <1>1, <1>2 DEF TransitionRollout
<1>3. ASSUME NEW k, CommitRolloutSuccess(k)
      PROVE  wal'[j] = wal[j]
  BY <1>1, <1>3 DEF CommitRolloutSuccess
<1>4. ASSUME NEW k \in Jobs, NEW i \in Intents, Submit(k, i)
      PROVE  wal'[j] = wal[j]
  <2>1. CASE BeginRollout(k, i)
    <3>1. ~Recorded(k)
      BY <2>1 DEF BeginRollout
    <3> QED BY <1>1, <2>1, <3>1 DEF BeginRollout
  <2> QED BY <1>4, <2>1 DEF Submit, ReconcileRollout, RefuseRollout, PreflightFails,
                            ResumeRollout
<1>5. CASE RolloutStep
  <2>1. CASE wal' = wal
    BY <2>1
  <2>2. CASE ObserveReady
    BY <1>3, <2>2 DEF ObserveReady
  <2>3. CASE StartApply \/ CancelBeforeMutation \/ RecordApplied \/ StartRollback
    BY <1>2, <2>3 DEF StartApply, CancelBeforeMutation, RecordApplied, StartRollback
  <2>4. CASE FailAndRollback \/ RestoredReady \/ RollbackFailed
    BY <1>2, <2>4 DEF FailAndRollback, RestoredReady, RollbackFailed
  <2>5. CASE StartCleanup \/ CleanupFails \/ RecordCleaned
    BY <1>2, <2>5 DEF StartCleanup, CleanupFails, RecordCleaned
  <2>6. CASE MutateSome \/ ApplyRollout \/ RestorePrevious \/ RollbackTimesOut \/ CleanupTarget
    BY <2>1, <2>6 DEF MutateSome, ApplyRollout, RestorePrevious, RollbackTimesOut,
                      CleanupTarget
  <2> QED BY <1>5, <2>2, <2>3, <2>4, <2>5, <2>6 DEF RolloutStep
<1>6. CASE BootStep \/ FaultStep \/ Collect \/ UNCHANGED engineVars
  BY <1>6 DEF BootStep, OpenStore, RepairPointer, StartPending, ResumePending,
              PendingDone, FaultStep, StoreError, Crash, Collect, engineVars
<1> QED BY <1>4, <1>5, <1>6 DEF EngineNext, EngineStep

(* No resume, replay or recovery pass rewrites a finished rollout.         *)
THEOREM TerminalImmutable == EngineSpec => TerminalIsImmutable
<1>1. EngineInv /\ [EngineNext]_engineVars =>
        [\A j \in Jobs : Terminal(j) => wal'[j] = wal[j]]_engineVars
  BY TerminalKept
<1> QED BY <1>1, EngineInvariance, PTL DEF EngineSpec, TerminalIsImmutable
=============================================================================
