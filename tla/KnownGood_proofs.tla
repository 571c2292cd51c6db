-------------------------- MODULE KnownGood_proofs --------------------------
(***************************************************************************)
(* The rollout engine implements KnownGood.  The argument follows the      *)
(* snapshots an explicit rollback has left, Undone: a snapshot once left   *)
(* never becomes current again, because whatever was deployed on top of it *)
(* had been left before.  That is what keeps the repair at every start of  *)
(* the Agent, which replays all finished rollbacks, from moving a pointer. *)
(***************************************************************************)
EXTENDS RolloutEngine_proofs

Expected(j) == wal[j].intent.expected

Undone ==
  {e \in Jobs : \E k \in Jobs : /\ Recorded(k)
                                /\ wal[k].state = "rolled_back"
                                /\ Op(k) = "rollback"
                                /\ Expected(k) = e}

(* The references of a record: the snapshot below is one that succeeded on *)
(* the same target, and a rollback undoes one deployment on top of it.     *)
ReferencesInv ==
  \A j \in Jobs : Recorded(j) =>
    /\ Previous(j) # None => Previous(j) \in Succeeded /\ Target(Previous(j)) = Target(j)
    /\ Op(j) = "rollback" => /\ Expected(j) \in Succeeded
                             /\ Target(Expected(j)) = Target(j)
                             /\ Previous(Expected(j)) = Previous(j)

(* The pointer an unfinished rollout was checked against has not moved.    *)
ActiveInv ==
  \A j \in Jobs : Active(j) => current[Target(j)] = ExpectedCurrent(wal[j].intent)

(* The deployments that were not undone form a chain that ends in current. *)
ChainInv ==
  /\ \A t \in Targets : current[t] \notin Undone
  /\ \A x \in Succeeded : Previous(x) = current[Target(x)] => x \in Undone
  /\ \A x, y \in Succeeded :
       Target(x) = Target(y) /\ Previous(x) = Previous(y) =>
         x = y \/ x \in Undone \/ y \in Undone
  /\ \A x \in Succeeded : Previous(x) \in Undone => x \in Undone

HistoryInv == ReferencesInv /\ ActiveInv /\ ChainInv

(* The repair transaction has not changed any pointer so far.              *)
RepairIdle == eng.pc = "open" => eng.tx = current

----------------------------------------------------------------------------
(* What a transition changes of the log, as far as the chain is concerned. *)
LEMMA TransitionFacts ==
  ASSUME StoreInv, NEW j \in Jobs, NEW state \in RolloutStates,
         NEW error \in {"none", "cancelled", "failure"},
         NEW materialized \in BOOLEAN, NEW terminal \in BOOLEAN,
         TransitionRollout(j, state, error, materialized, terminal)
  PROVE  /\ Active(j) /\ Recorded(j)
         /\ \A k \in Jobs : /\ Recorded(k)' <=> Recorded(k)
                            /\ wal'[k].intent = wal[k].intent
                            /\ Active(k)' => Active(k)
         /\ state = "rolled_back" => ~Active(j)'
         /\ Succeeded' = Succeeded
         /\ Undone' = IF state = "rolled_back" /\ Op(j) = "rollback"
                        THEN Undone \cup ({Expected(j)} \cap Jobs) ELSE Undone
<1> DEFINE ends == terminal \/ IsTerminalRolloutState(state)
           at   == IF ends THEN clock ELSE 0
           w    == [intent |-> wal[j].intent, state |-> state, terminalAt |-> at,
                    error |-> error, materialized |-> materialized]
<1>1. /\ Active(j) /\ Recorded(j) /\ wal[j].terminalAt = 0 /\ state # "succeeded"
      /\ wal' = [wal EXCEPT ![j] = w]
      /\ CanTransitionRollout(wal[j].state, state)
  BY DEF TransitionRollout, Active
<1>2. wal[j].intent \in Intents /\ wal[j].state \in RolloutStates
  BY <1>1, RecordType DEF StoreInv
<1>3. at \in Nat /\ (state = "rolled_back" => at # 0)
  BY DEF StoreInv, StoreTypeOK, IsTerminalRolloutState
<1>4. wal[j].state \notin {"succeeded", "rolled_back"}
  BY <1>1, <1>2 DEF CanTransitionRollout, AllowedTransitions
<1> HIDE DEF at
<1>5. w \in WalRecords /\ w # None
  BY <1>2, <1>3, NewRecord
<1>6. w.intent = wal[j].intent /\ w.state = state /\ w.terminalAt = at
  OBVIOUS
<1> HIDE DEF w
<1>7. \A k \in Jobs : wal'[k] = IF k = j THEN w ELSE wal[k]
  BY <1>1 DEF StoreInv, StoreTypeOK
<1>8. \A k \in Jobs : /\ Recorded(k)' <=> Recorded(k)
                      /\ wal'[k].intent = wal[k].intent
                      /\ k # j => wal'[k] = wal[k]
  BY <1>1, <1>5, <1>6, <1>7 DEF Recorded
<1>9. wal'[j].state = state /\ wal'[j].terminalAt = at
  BY <1>6, <1>7
<1>10. \A k \in Jobs : Active(k)' => Active(k)
  BY <1>1, <1>8 DEF Active
<1>11. state = "rolled_back" => ~Active(j)'
  BY <1>3, <1>9 DEF Active
<1>12. Succeeded' = Succeeded
  BY <1>1, <1>4, <1>8, <1>9 DEF Succeeded
<1>13. \A k \in Jobs : Op(k)' = Op(k) /\ Expected(k)' = Expected(k)
  BY <1>8 DEF Op, Expected
<1>14. Undone' = IF state = "rolled_back" /\ Op(j) = "rollback"
                   THEN Undone \cup ({Expected(j)} \cap Jobs) ELSE Undone
  <2>1. \A k \in Jobs \ {j} : wal'[k].state = wal[k].state
    BY <1>8
  <2> QED BY <1>1, <1>4, <1>8, <1>9, <1>13, <2>1 DEF Undone
<1> QED BY <1>1, <1>8, <1>10, <1>11, <1>12, <1>14

(* Nothing of the chain changes where the log and the pointers stay.       *)
LEMMA HistoryStutters ==
  ASSUME HistoryInv, UNCHANGED <<wal, current>>
  PROVE  HistoryInv' /\ UNCHANGED Chain!vars
<1>1. \A k : /\ Target(k)' = Target(k) /\ Previous(k)' = Previous(k)
             /\ Op(k)' = Op(k) /\ Expected(k)' = Expected(k)
             /\ Recorded(k)' = Recorded(k) /\ Active(k)' = Active(k)
  BY DEF Target, Previous, Op, Expected, Recorded, Active
<1>2. Succeeded' = Succeeded
  BY <1>1 DEF Succeeded
<1>3. Undone' = Undone
  BY <1>1 DEF Undone
<1>4. Below' = Below
  BY <1>1, <1>2 DEF Below
<1>5. HistoryInv'
  BY <1>1, <1>2, <1>3 DEF HistoryInv, ReferencesInv, ActiveInv, ChainInv
<1> QED BY <1>2, <1>4, <1>5 DEF Chain!vars

(* TransitionRollout moves the pointer at the end of an explicit rollback  *)
(* only, and then one step down the chain.                                 *)
LEMMA TransitionKeepsHistory ==
  ASSUME StoreInv, HistoryInv, NEW j \in Jobs, NEW state \in RolloutStates,
         NEW error \in {"none", "cancelled", "failure"},
         NEW materialized \in BOOLEAN, NEW terminal \in BOOLEAN,
         TransitionRollout(j, state, error, materialized, terminal)
  PROVE  /\ HistoryInv'
         /\ [Chain!Next]_(Chain!vars)
         /\ state # "rolled_back" => current' = current
<1> DEFINE t == Target(j)
<1>1. /\ Active(j) /\ Recorded(j)
      /\ \A k \in Jobs : /\ Recorded(k)' <=> Recorded(k)
                         /\ wal'[k].intent = wal[k].intent
                         /\ Active(k)' => Active(k)
      /\ state = "rolled_back" => ~Active(j)'
      /\ Succeeded' = Succeeded
      /\ Undone' = IF state = "rolled_back" /\ Op(j) = "rollback"
                     THEN Undone \cup ({Expected(j)} \cap Jobs) ELSE Undone
  BY TransitionFacts
<1>2. /\ current' = IF state = "rolled_back" THEN [current EXCEPT ![t] = Previous(j)]
                                             ELSE current
      /\ state = "rolled_back" => HasKnownGood(Previous(j), t)
  BY DEF TransitionRollout
<1>3. \A k \in Jobs : /\ Target(k)' = Target(k) /\ Previous(k)' = Previous(k)
                      /\ Op(k)' = Op(k) /\ Expected(k)' = Expected(k)
  BY <1>1 DEF Target, Previous, Op, Expected
<1>4. Succeeded \subseteq Jobs /\ Undone \subseteq Jobs
  BY DEF Succeeded, Undone
<1>5. Below' = Below
  BY <1>1, <1>3, <1>4 DEF Below
<1>6. ReferencesInv'
  <2>1. \A k \in Jobs : Recorded(k) =>
          /\ Previous(k) # None => Previous(k) \in Jobs
          /\ Op(k) = "rollback" => Expected(k) \in Jobs
    BY <1>4 DEF HistoryInv, ReferencesInv
  <2> QED BY <1>1, <1>3, <2>1 DEF HistoryInv, ReferencesInv
<1>7. t \in Targets /\ current \in [Targets -> KnownGoodRefs] /\ Op(j) \in Operations
      /\ wal[j].intent \in Intents /\ Canonical(wal[j].intent)
  BY <1>1, RecordType DEF StoreInv, StoreTypeOK, Pointers, Intents
<1>8. CASE current' = current /\ Undone' = Undone
  <2>1. ActiveInv'
    BY <1>1, <1>3, <1>8 DEF HistoryInv, ActiveInv
  <2>2. ChainInv'
    BY <1>1, <1>3, <1>4, <1>8 DEF HistoryInv, ChainInv
  <2>3. UNCHANGED Chain!vars
    BY <1>1, <1>5, <1>8 DEF Chain!vars
  <2> QED BY <1>6, <1>8, <2>1, <2>2, <2>3 DEF HistoryInv
<1>9. CASE state # "rolled_back"
  BY <1>1, <1>2, <1>8, <1>9
<1>10. CASE state = "rolled_back" /\ Op(j) # "rollback"
  <2>1. current[t] = Previous(j)
    BY <1>1, <1>10 DEF HistoryInv, ActiveInv, ExpectedCurrent, Op, Previous
  <2>2. current' = current
    BY <1>2, <1>7, <1>10, <2>1
  <2> QED BY <1>1, <1>8, <1>10, <2>2
<1>11. CASE state = "rolled_back" /\ Op(j) = "rollback"
  <2> DEFINE e == Expected(j)
             p == Previous(j)
  <2>1. /\ e \in Succeeded /\ e \in Jobs /\ Target(e) = t /\ Previous(e) = p
        /\ current[t] = e
    BY <1>1, <1>4, <1>11 DEF HistoryInv, ReferencesInv, ActiveInv, ExpectedCurrent,
                             Op, Expected
  <2>2. p # None /\ e # None
    BY <1>7, <1>11 DEF Canonical, Op, Previous, Expected
  <2>3. Undone' = Undone \cup {e} /\ current' = [current EXCEPT ![t] = p]
    BY <1>1, <1>2, <1>11, <2>1
  <2>4. e \notin Undone
    BY <1>7, <2>1 DEF HistoryInv, ChainInv
  <2>5. p \notin Undone
    BY <2>1, <2>4 DEF HistoryInv, ChainInv
  <2>6. p # e
    BY <2>1, <2>4 DEF HistoryInv, ChainInv
  <2> HIDE DEF t, e, p
  <2>7. \A u \in Targets : current'[u] = IF u = t THEN p ELSE current[u]
    BY <1>7, <2>3
  <2>8. \A x \in Succeeded : x \in Jobs /\ Recorded(x) /\ Target(x) \in Targets
    BY RecordType DEF Succeeded, StoreInv
  <2>9. ActiveInv'
    <3> SUFFICES ASSUME NEW k \in Jobs, Active(k)'
                 PROVE  current'[Target(k)] = ExpectedCurrent(wal'[k].intent)
      BY <1>3 DEF ActiveInv
    <3>1. Active(k) /\ k # j
      BY <1>1, <1>11
    <3>2. Target(k) # t /\ Target(k) \in Targets
      BY <1>1, <3>1, RecordType DEF StoreInv, OneActivePerTarget, Active, t
    <3> QED BY <1>1, <2>7, <3>1, <3>2 DEF HistoryInv, ActiveInv
  <2>10. ChainInv'
    <3>1. \A u \in Targets : current'[u] \notin Undone'
      <4>1. \A u \in Targets \ {t} : current[u] # e
        <5> SUFFICES ASSUME NEW u \in Targets \ {t}, current[u] = e PROVE FALSE
          OBVIOUS
        <5>1. HasKnownGood(e, u)
          BY <2>2 DEF StoreInv, Verified
        <5> QED BY <2>1, <5>1 DEF HasKnownGood
      <4> QED BY <2>3, <2>5, <2>6, <2>7, <4>1 DEF HistoryInv, ChainInv
    <3>2. \A x \in Succeeded : Previous(x) = current'[Target(x)] => x \in Undone'
      <4> SUFFICES ASSUME NEW x \in Succeeded, Previous(x) = current'[Target(x)]
                   PROVE  x \in Undone'
        OBVIOUS
      <4>1. CASE Target(x) = t
        BY <1>7, <2>1, <2>3, <2>4, <2>7, <4>1 DEF HistoryInv, ChainInv
      <4>2. CASE Target(x) # t
        BY <2>3, <2>7, <2>8, <4>2 DEF HistoryInv, ChainInv
      <4> QED BY <4>1, <4>2
    <3>3. \A x \in Succeeded : Previous(x) \in Undone' => x \in Undone'
      <4> SUFFICES ASSUME NEW x \in Succeeded, Previous(x) = e
                   PROVE  x \in Undone'
        BY <2>3 DEF HistoryInv, ChainInv
      <4>1. Target(x) = t
        BY <2>1, <2>2, <2>8 DEF HistoryInv, ReferencesInv
      <4> QED BY <2>1, <2>3, <4>1 DEF HistoryInv, ChainInv
    <3>4. \A x, y \in Succeeded :
            Target(x) = Target(y) /\ Previous(x) = Previous(y) =>
              x = y \/ x \in Undone' \/ y \in Undone'
      BY <2>3 DEF HistoryInv, ChainInv
    <3>5. \A x \in Succeeded : Target(x)' = Target(x) /\ Previous(x)' = Previous(x)
      BY <1>3, <1>4
    <3> QED BY <1>1, <3>1, <3>2, <3>3, <3>4, <3>5 DEF ChainInv
  <2>11. Chain!Next
    <3>1. Below[e] = p
      BY <2>1 DEF Below
    <3>2. Chain!Undo(t)
      BY <1>1, <1>5, <2>1, <2>2, <2>3, <3>1 DEF Chain!Undo
    <3> QED BY <1>7, <3>2 DEF Chain!Next, t
  <2> QED BY <1>6, <1>11, <2>9, <2>10, <2>11 DEF HistoryInv
<1> QED BY <1>9, <1>10, <1>11

(* CommitRolloutSuccess puts a new snapshot on top of the current one.     *)
LEMMA CommitKeepsHistory ==
  ASSUME StoreInv, HistoryInv, NEW j \in Jobs, Op(j) = "apply", CommitRolloutSuccess(j)
  PROVE  HistoryInv' /\ Chain!Next
<1> DEFINE t == Target(j)
           p == Previous(j)
           w == [intent |-> wal[j].intent, state |-> "succeeded",
                 terminalAt |-> clock, error |-> "none", materialized |-> TRUE]
<1>1. /\ Active(j) /\ Recorded(j) /\ wal[j].state = "waiting"
      /\ wal' = [wal EXCEPT ![j] = w]
      /\ current' = [current EXCEPT ![t] = j]
  BY DEF CommitRolloutSuccess, Active
<1>2. wal[j].intent \in Intents /\ t \in Targets /\ current \in [Targets -> KnownGoodRefs]
  BY <1>1, RecordType DEF StoreInv, StoreTypeOK, Pointers
<1>3. clock \in Nat /\ clock # 0
  BY DEF StoreInv, StoreTypeOK
<1>4. w # None /\ w.intent = wal[j].intent /\ w.state = "succeeded" /\ w.terminalAt = clock
  BY <1>2, <1>3, NewRecord DEF RolloutStates
<1> HIDE DEF w
<1>5. \A k \in Jobs : wal'[k] = IF k = j THEN w ELSE wal[k]
  BY <1>1 DEF StoreInv, StoreTypeOK
<1>6. \A k \in Jobs : /\ Recorded(k)' <=> Recorded(k)
                      /\ wal'[k].intent = wal[k].intent
                      /\ Active(k)' <=> (Active(k) /\ k # j)
  BY <1>1, <1>3, <1>4, <1>5 DEF Recorded, Active
<1>7. \A k \in Jobs : /\ Target(k)' = Target(k) /\ Previous(k)' = Previous(k)
                      /\ Op(k)' = Op(k) /\ Expected(k)' = Expected(k)
  BY <1>6 DEF Target, Previous, Op, Expected
<1>8. Succeeded' = Succeeded \cup {j} /\ j \notin Succeeded
  BY <1>1, <1>4, <1>5, <1>6 DEF Succeeded
<1>9. Undone' = Undone
  BY <1>1, <1>4, <1>5, <1>6, <1>7 DEF Undone
<1>10. Succeeded \subseteq Jobs /\ Undone \subseteq Succeeded
  BY DEF Succeeded, Undone, HistoryInv, ReferencesInv
<1>11. current[t] = p
  BY <1>1 DEF HistoryInv, ActiveInv, ExpectedCurrent, Op, Previous
<1> HIDE DEF t, p
<1>12. \A u \in Targets : current'[u] = IF u = t THEN j ELSE current[u]
  BY <1>1, <1>2
<1>13. \A x \in Succeeded : Target(x) \in Targets /\ Recorded(x) /\ Previous(x) # j
  <2>1. \A x \in Succeeded : Recorded(x)
    BY DEF Succeeded
  <2>2. None \notin Jobs
    BY ProtocolAssumption
  <2> QED BY <1>8, <1>10, <2>1, <2>2, RecordType DEF HistoryInv, ReferencesInv, StoreInv
<1>14. ReferencesInv'
  <2>1. \A k \in Jobs : Recorded(k) =>
          /\ Previous(k) # None => Previous(k) \in Jobs
          /\ Op(k) = "rollback" => Expected(k) \in Jobs
    BY <1>10 DEF HistoryInv, ReferencesInv
  <2> QED BY <1>6, <1>7, <1>8, <2>1 DEF HistoryInv, ReferencesInv
<1>15. ActiveInv'
  <2> SUFFICES ASSUME NEW k \in Jobs, Active(k)'
               PROVE  current'[Target(k)] = ExpectedCurrent(wal'[k].intent)
    BY <1>7 DEF ActiveInv
  <2>1. Active(k) /\ k # j
    BY <1>6
  <2>2. Target(k) # t /\ Target(k) \in Targets
    BY <1>1, <2>1, RecordType DEF StoreInv, OneActivePerTarget, Active, t
  <2> QED BY <1>6, <1>12, <2>1, <2>2 DEF HistoryInv, ActiveInv
<1>16. ChainInv'
  <2>1. \A u \in Targets : current'[u] \notin Undone'
    BY <1>8, <1>9, <1>10, <1>12 DEF HistoryInv, ChainInv
  <2>2. ASSUME NEW x \in Succeeded', Previous(x) = current'[Target(x)]
        PROVE  x \in Undone'
    <3>1. CASE x = j
      <4>1. p = j
        BY <1>2, <1>12, <2>2, <3>1 DEF t, p
      <4>2. p # None
        BY <4>1, ProtocolAssumption
      <4>3. p \in Succeeded
        BY <1>1, <4>2 DEF HistoryInv, ReferencesInv, p
      <4> QED BY <1>8, <4>1, <4>3
    <3>2. CASE x # j
      <4>1. x \in Succeeded
        BY <1>8, <3>2
      <4>2. Target(x) # t
        BY <1>2, <1>12, <1>13, <2>2, <4>1
      <4> QED BY <1>9, <1>12, <1>13, <2>2, <4>1, <4>2 DEF HistoryInv, ChainInv
    <3> QED BY <3>1, <3>2
  <2>3. ASSUME NEW x \in Succeeded, Target(x) = t, Previous(x) = p
        PROVE  x \in Undone'
    BY <1>9, <1>11, <2>3 DEF HistoryInv, ChainInv
  <2>4. ASSUME NEW x \in Succeeded', NEW y \in Succeeded',
               Target(x) = Target(y), Previous(x) = Previous(y)
        PROVE  x = y \/ x \in Undone' \/ y \in Undone'
    <3>1. CASE x # j /\ y # j
      BY <1>8, <1>9, <2>4, <3>1 DEF HistoryInv, ChainInv
    <3>2. CASE x = j \/ y = j
      BY <1>8, <2>3, <2>4, <3>2 DEF t, p
    <3> QED BY <3>1, <3>2
  <2>5. ASSUME NEW x \in Succeeded', Previous(x) \in Undone'
        PROVE  x \in Undone'
    <3>1. CASE x = j
      BY <1>2, <1>9, <1>11, <2>5, <3>1 DEF HistoryInv, ChainInv, p
    <3>2. CASE x # j
      BY <1>8, <1>9, <2>5, <3>2 DEF HistoryInv, ChainInv
    <3> QED BY <3>1, <3>2
  <2>6. \A x \in Succeeded' : Target(x)' = Target(x) /\ Previous(x)' = Previous(x)
    BY <1>7, <1>8, <1>10
  <2> QED BY <2>1, <2>2, <2>4, <2>5, <2>6 DEF ChainInv
<1>17. Chain!Next
  <2>1. Below' = [Below EXCEPT ![j] = p]
    <3>1. \A k \in Jobs : Below'[k] = IF k = j THEN p ELSE Below[k]
      BY <1>7, <1>8 DEF Below, p
    <3> QED BY <3>1 DEF Below
  <2>2. Chain!Deploy(t, j)
    BY <1>1, <1>8, <1>11, <2>1 DEF Chain!Deploy, t
  <2> QED BY <1>2, <2>2 DEF Chain!Next
<1> QED BY <1>14, <1>15, <1>16, <1>17 DEF HistoryInv

(* BeginRollout adds a record whose references Cloud took from results.    *)
LEMMA BeginKeepsHistory ==
  ASSUME StoreInv, HistoryInv, NEW j \in Jobs, NEW i \in Intents,
         IssuedByCloud(i), BeginRollout(j, i)
  PROVE  HistoryInv' /\ UNCHANGED Chain!vars
<1>1. PICK m \in BOOLEAN :
        wal' = [wal EXCEPT ![j] =
                  [intent |-> i, state |-> "prepared", terminalAt |-> 0,
                   error |-> "none", materialized |-> m]]
  BY DEF BeginRollout
<1> DEFINE w == [intent |-> i, state |-> "prepared", terminalAt |-> 0,
                 error |-> "none", materialized |-> m]
<1>2. w # None
  BY NewRecord DEF RolloutStates
<1>3. w.intent = i /\ w.state = "prepared"
  OBVIOUS
<1>4. wal' = [wal EXCEPT ![j] = w]
  BY <1>1
<1> HIDE DEF w
<1>5. ~Recorded(j) /\ current' = current /\ current[i.target] = ExpectedCurrent(i)
  BY DEF BeginRollout, CanBegin
<1>6. \A k \in Jobs : wal'[k] = IF k = j THEN w ELSE wal[k]
  BY <1>4 DEF StoreInv, StoreTypeOK
<1>7. \A k \in Jobs : Recorded(k) => k # j /\ Recorded(k)'
  BY <1>5, <1>6 DEF Recorded
<1>8. \A k \in Jobs \ {j} : /\ Recorded(k)' <=> Recorded(k)
                            /\ Active(k)' <=> Active(k)
                            /\ wal'[k] = wal[k]
                            /\ Target(k)' = Target(k) /\ Previous(k)' = Previous(k)
                            /\ Op(k)' = Op(k) /\ Expected(k)' = Expected(k)
  BY <1>6 DEF Recorded, Active, Target, Previous, Op, Expected
<1>9. /\ Target(j)' = i.target /\ Previous(j)' = i.previous
      /\ Op(j)' = i.op /\ Expected(j)' = i.expected /\ wal'[j].intent = i
      /\ wal'[j].state = "prepared"
  BY <1>3, <1>6 DEF Target, Previous, Op, Expected
<1>10. Succeeded' = Succeeded /\ j \notin Succeeded
  BY <1>5, <1>8, <1>9 DEF Succeeded
<1>11. Undone' = Undone
  BY <1>5, <1>8, <1>9 DEF Undone
<1>12. Succeeded \subseteq Jobs \ {j}
  BY <1>10 DEF Succeeded
<1>13. \A x \in Succeeded : Target(x)' = Target(x) /\ Previous(x)' = Previous(x)
  BY <1>8, <1>12
<1>14. Below' = Below
  BY <1>10, <1>12, <1>13 DEF Below
<1>15. i \in RawIntents /\ Canonical(i)
  BY DEF Intents
<1>16. i.previous # None => i.previous \in Succeeded /\ Target(i.previous) = i.target
  <2>1. CASE i.op = "apply"
    BY <1>15, <2>1 DEF IssuedByCloud, Succeeded, RawIntents, KnownGoodRefs
  <2>2. CASE i.op = "rollback"
    <3>1. i.expected \in Jobs /\ Recorded(i.expected)
          /\ Target(i.expected) = i.target /\ Previous(i.expected) = i.previous
      BY <1>15, <2>2 DEF IssuedByCloud, RawIntents, KnownGoodRefs, Canonical
    <3> QED BY <3>1 DEF HistoryInv, ReferencesInv
  <2> QED BY <1>15, <2>1, <2>2 DEF RawIntents, Operations, Canonical
<1>17. i.op = "rollback" => /\ i.expected \in Succeeded
                            /\ Target(i.expected) = i.target
                            /\ Previous(i.expected) = i.previous
  BY <1>15 DEF IssuedByCloud, Succeeded, RawIntents, KnownGoodRefs, Canonical
<1>18. ReferencesInv'
  <2> SUFFICES ASSUME NEW k \in Jobs, Recorded(k)'
               PROVE  (/\ Previous(k) # None =>
                            Previous(k) \in Succeeded /\ Target(Previous(k)) = Target(k)
                       /\ Op(k) = "rollback" =>
                            /\ Expected(k) \in Succeeded
                            /\ Target(Expected(k)) = Target(k)
                            /\ Previous(Expected(k)) = Previous(k))'
    BY DEF ReferencesInv
  <2>1. CASE k = j
    BY <1>9, <1>10, <1>13, <1>16, <1>17, <2>1
  <2>2. CASE k # j
    BY <1>8, <1>10, <1>13, <2>2 DEF HistoryInv, ReferencesInv
  <2> QED BY <2>1, <2>2
<1>19. ActiveInv'
  BY <1>5, <1>8, <1>9 DEF HistoryInv, ActiveInv
<1>20. ChainInv'
  BY <1>5, <1>10, <1>11, <1>13 DEF HistoryInv, ChainInv
<1> QED BY <1>5, <1>10, <1>14, <1>18, <1>19, <1>20 DEF HistoryInv, Chain!vars

----------------------------------------------------------------------------
(* What the pointers may do in a step: follow what the cluster runs.       *)
Follows ==
  \A t \in Targets : current'[t] # current[t] =>
    runtime[t] = current'[t] /\ eng.pc # "open"

LEMMA ReturnedCloses ==
  ASSUME CallInv, NEW outcome, NEW ok, eng' = Returned(outcome, ok)
  PROVE  eng'.pc # "open"
BY DEF CallInv, Returned, At, EngineStates

LEMMA RolloutStepChain ==
  ASSUME StoreInv, CallInv, HistoryInv, RolloutStep
  PROVE  HistoryInv' /\ eng'.pc # "open" /\ [Chain!Next]_(Chain!vars) /\ Follows
<1>1. /\ eng.pc \in {"running", "applied"}
      /\ eng.job \in Jobs
      /\ Recorded(eng.job)
      /\ Target(eng.job) \in Targets
      /\ wal[eng.job].error \in {"none", "cancelled", "failure"}
      /\ wal[eng.job].materialized \in BOOLEAN
  <2>1. eng.pc \in {"running", "applied"} /\ Active(eng.job)
    BY DEF RolloutStep, InCall, StartApply, CancelBeforeMutation, MutateSome,
           ApplyRollout, RecordApplied, ObserveReady, FailAndRollback, StartRollback,
           RestorePrevious, RestoredReady, RollbackFailed, RollbackTimesOut,
           StartCleanup, CleanupTarget, CleanupFails, RecordCleaned
  <2>2. eng.job \in Jobs /\ Recorded(eng.job)
    BY <2>1 DEF CallInv, Active
  <2> QED BY <2>1, <2>2, RecordType DEF StoreInv
<1>2. \A pc \in {"running", "applied"} : eng' = Continue(pc) => eng'.pc # "open"
  BY DEF Continue, CallInv, EngineStates
<1>3. CASE StartApply \/ RecordApplied \/ StartRollback \/ StartCleanup
  <2>1. /\ HistoryInv' /\ [Chain!Next]_(Chain!vars) /\ current' = current
    BY <1>1, <1>3, TransitionKeepsHistory
       DEF StartApply, RecordApplied, StartRollback, StartCleanup, RolloutStates
  <2>2. eng' = eng \/ eng' = Continue("running")
    BY <1>3 DEF StartApply, RecordApplied, StartRollback, StartCleanup
  <2> QED BY <1>1, <1>2, <2>1, <2>2 DEF Follows
<1>4. CASE CancelBeforeMutation \/ FailAndRollback \/ RollbackFailed \/ CleanupFails
           \/ RecordCleaned
  <2>1. HistoryInv' /\ [Chain!Next]_(Chain!vars) /\ current' = current
    <3>1. CASE CancelBeforeMutation
      BY <1>1, <3>1, TransitionKeepsHistory DEF CancelBeforeMutation, RolloutStates
    <3>2. CASE FailAndRollback
      BY <1>1, <3>2, TransitionKeepsHistory DEF FailAndRollback, RolloutStates
    <3>3. CASE RollbackFailed
      BY <1>1, <3>3, TransitionKeepsHistory DEF RollbackFailed, RolloutStates
    <3>4. CASE CleanupFails
      BY <1>1, <3>4, TransitionKeepsHistory DEF CleanupFails, RolloutStates
    <3>5. CASE RecordCleaned
      BY <1>1, <3>5, TransitionKeepsHistory DEF RecordCleaned, RolloutStates
    <3> QED BY <1>4, <3>1, <3>2, <3>3, <3>4, <3>5
  <2>2. eng' = eng \/ \E outcome, ok : eng' = Returned(outcome, ok)
    BY <1>4 DEF CancelBeforeMutation, FailAndRollback, RollbackFailed, CleanupFails,
                RecordCleaned
  <2> QED BY <1>1, <2>1, <2>2, ReturnedCloses DEF Follows
<1>5. CASE MutateSome \/ ApplyRollout \/ RestorePrevious \/ RollbackTimesOut
           \/ CleanupTarget
  <2>1. UNCHANGED <<wal, current>>
    BY <1>5 DEF MutateSome, ApplyRollout, RestorePrevious, RollbackTimesOut, CleanupTarget
  <2>2. eng' = eng \/ eng' = Continue("applied") \/ eng' = Returned("error", FALSE)
    BY <1>5 DEF MutateSome, ApplyRollout, RestorePrevious, RollbackTimesOut, CleanupTarget
  <2> QED BY <1>1, <1>2, <2>1, <2>2, HistoryStutters, ReturnedCloses DEF Follows
<1>6. CASE ObserveReady
  <2>1. /\ Op(eng.job) = "apply" /\ CommitRolloutSuccess(eng.job)
        /\ runtime[Target(eng.job)] = eng.job
        /\ eng' = Returned("record", TRUE)
    BY <1>6 DEF ObserveReady, Ready
  <2>2. HistoryInv' /\ Chain!Next
    BY <1>1, <2>1, CommitKeepsHistory
  <2>3. Follows
    BY <1>1, <2>1 DEF Follows, CommitRolloutSuccess, StoreInv, StoreTypeOK, Pointers
  <2> QED BY <2>1, <2>2, <2>3, ReturnedCloses
<1>7. CASE RestoredReady
  <2>1. /\ TransitionRollout(eng.job, "rolled_back", wal[eng.job].error, TRUE, TRUE)
        /\ runtime[Target(eng.job)] = Previous(eng.job)
        /\ eng' = Returned("record", wal[eng.job].error = "none")
    BY <1>7 DEF RestoredReady, Ready
  <2>2. HistoryInv' /\ [Chain!Next]_(Chain!vars)
    BY <1>1, <2>1, TransitionKeepsHistory DEF RolloutStates
  <2>3. Follows
    BY <1>1, <2>1 DEF Follows, TransitionRollout, StoreInv, StoreTypeOK, Pointers
  <2> QED BY <2>1, <2>2, <2>3, ReturnedCloses
<1> QED BY <1>3, <1>4, <1>5, <1>6, <1>7 DEF RolloutStep

(* The repair finds no rollback to replay: what one left is not current.   *)
LEMMA BootStepChain ==
  ASSUME StoreInv, CallInv, HistoryInv, RepairIdle, BootStep
  PROVE  HistoryInv' /\ RepairIdle' /\ [Chain!Next]_(Chain!vars) /\ Follows
<1>1. UNCHANGED <<wal, current>>
  BY DEF BootStep, OpenStore, RepairPointer, StartPending, ResumePending, PendingDone,
         RepairIdle
<1>2. RepairIdle'
  <2>1. CASE OpenStore
    BY <2>1 DEF OpenStore, At, RepairIdle
  <2>2. CASE RepairPointer
    <3> DEFINE hits == {k \in Jobs :
                          /\ Terminal(k)
                          /\ wal[k].terminalAt = eng.scan
                          /\ wal[k].state = "rolled_back"
                          /\ Op(k) = "rollback"
                          /\ eng.tx[Target(k)] = wal[k].intent.expected}
               lost == {k \in hits : ~HasKnownGood(Previous(k), Target(k))}
               tx   == [t \in Targets |-> IF \E k \in hits : Target(k) = t
                                            THEN Previous(CHOOSE k \in hits : Target(k) = t)
                                            ELSE eng.tx[t]]
    <3>1. /\ eng.pc = "open"
          /\ eng' = IF lost # {} THEN At("down")
                     ELSE [eng EXCEPT !.scan = @ - 1, !.tx = tx]
      BY <2>2 DEF RepairPointer
    <3>2. eng.tx = current /\ eng.tx \in Pointers /\ eng \in EngineStates
      BY <3>1 DEF RepairIdle, CallInv, EngineStates
    <3>3. hits = {}
      <4> SUFFICES ASSUME NEW k \in hits PROVE FALSE
        OBVIOUS
      <4>1. /\ k \in Jobs /\ Recorded(k) /\ wal[k].state = "rolled_back"
            /\ Op(k) = "rollback" /\ current[Target(k)] = Expected(k)
        BY <3>2 DEF Terminal, Expected
      <4>2. Target(k) \in Targets
        BY <4>1, RecordType DEF StoreInv
      <4>3. Expected(k) \in Jobs
        BY <4>1 DEF HistoryInv, ReferencesInv, Succeeded
      <4>4. Expected(k) \in Undone
        BY <4>1, <4>3 DEF Undone
      <4> QED BY <4>1, <4>2, <4>4 DEF HistoryInv, ChainInv
    <3>4. lost = {}
      BY <3>3
    <3>5. tx = eng.tx
      BY <3>2, <3>3 DEF Pointers
    <3> HIDE DEF hits, lost, tx
    <3>6. eng'.tx = eng.tx
      BY <3>1, <3>2, <3>4, <3>5 DEF EngineStates
    <3> QED BY <1>1, <3>2, <3>6 DEF RepairIdle
  <2>3. CASE StartPending \/ PendingDone \/ \E j \in Jobs : ResumePending(j)
    <3>1. CASE StartPending
      <4>1. eng' = [At("pending") EXCEPT !.boot = TRUE, !.todo = {j \in Jobs : Active(j)}]
        BY <3>1 DEF StartPending
      <4>2. eng'.pc = At("pending").pc
        BY <4>1 DEF At
      <4> QED BY <4>2, AtType DEF RepairIdle
    <3>3. CASE PendingDone
      <4>1. eng' = At("idle")
        BY <3>3 DEF PendingDone
      <4> QED BY <4>1, AtType DEF RepairIdle
    <3>2. CASE \E j \in Jobs : ResumePending(j)
      BY <3>2 DEF ResumePending, CallInv, EngineStates, RepairIdle
    <3> QED BY <2>3, <3>1, <3>2, <3>3
  <2> QED BY <2>1, <2>2, <2>3 DEF BootStep
<1> QED BY <1>1, <1>2, HistoryStutters DEF Follows

LEMMA EngineStepChain ==
  ASSUME EngineInv, HistoryInv, RepairIdle, [EngineNext]_engineVars
  PROVE  HistoryInv' /\ RepairIdle' /\ [Chain!Next]_(Chain!vars) /\ Follows
<1>1. CASE RolloutStep
  BY <1>1, RolloutStepChain DEF EngineInv, RepairIdle
<1>2. CASE BootStep
  BY <1>2, BootStepChain DEF EngineInv
<1>3. CASE FaultStep \/ Collect
  <2>1. UNCHANGED <<wal, current>>
    BY <1>3 DEF FaultStep, StoreError, Crash, Collect
  <2>2. (\E outcome, ok : eng' = Returned(outcome, ok)) \/ eng' = At("down") \/ eng' = At("idle")
    BY <1>3 DEF FaultStep, StoreError, Crash, Collect
  <2>3. eng'.pc # "open"
    BY <2>2, ReturnedCloses DEF EngineInv, At
  <2> QED BY <2>1, <2>3, HistoryStutters DEF Follows, RepairIdle
<1>4. ASSUME NEW j \in Jobs, NEW i \in Intents, Submit(j, i)
      PROVE  HistoryInv' /\ RepairIdle' /\ [Chain!Next]_(Chain!vars) /\ Follows
  <2>1. eng'.pc # "open" /\ current' = current
    BY <1>4 DEF Submit, ReconcileRollout, RefuseRollout, PreflightFails, BeginRollout,
                ResumeRollout, Refusal, At
  <2>2. CASE BeginRollout(j, i)
    BY <1>4, <2>1, <2>2, BeginKeepsHistory DEF Submit, EngineInv, RepairIdle, Follows
  <2>3. CASE ~BeginRollout(j, i)
    <3>1. UNCHANGED <<wal, current>>
      BY <1>4, <2>3 DEF Submit, ReconcileRollout, RefuseRollout, PreflightFails,
                        ResumeRollout
    <3> QED BY <2>1, <3>1, HistoryStutters DEF RepairIdle, Follows
  <2> QED BY <2>2, <2>3
<1>5. CASE UNCHANGED engineVars
  BY <1>5, HistoryStutters DEF engineVars, RepairIdle, Follows
<1> QED BY <1>1, <1>2, <1>3, <1>4, <1>5 DEF EngineNext, EngineStep

LEMMA EngineInitChain == EngineInit => HistoryInv /\ RepairIdle /\ Chain!Init
<1> SUFFICES ASSUME EngineInit PROVE HistoryInv /\ RepairIdle /\ Chain!Init
  OBVIOUS
<1>1. \A j \in Jobs : ~Recorded(j) /\ ~Active(j)
  BY DEF EngineInit, Recorded, Active
<1>2. Succeeded = {} /\ Undone = {}
  BY <1>1 DEF Succeeded, Undone
<1>3. HistoryInv
  BY <1>1, <1>2 DEF HistoryInv, ReferencesInv, ActiveInv, ChainInv
<1>4. RepairIdle
  BY DEF EngineInit, RepairIdle, At
<1>5. Chain!Init
  BY <1>2 DEF EngineInit, Chain!Init, NoPointers, Below
<1> QED BY <1>3, <1>4, <1>5

LEMMA HistoryInvariance == EngineSpec => [](EngineInv /\ HistoryInv /\ RepairIdle)
<1>1. EngineInit => EngineInv /\ HistoryInv /\ RepairIdle
  BY EngineInitInv, EngineInitChain
<1>2. EngineInv /\ HistoryInv /\ RepairIdle /\ [EngineNext]_engineVars
        => (EngineInv /\ HistoryInv /\ RepairIdle)'
  BY EngineStepInv, EngineStepChain
<1> QED BY <1>1, <1>2, PTL DEF EngineSpec

(* The engine implements the abstract chain of known-good snapshots:       *)
(* CommitRolloutSuccess deploys on top of the current one, the end of an   *)
(* explicit rollback undoes it, every other step leaves the chain alone.   *)
THEOREM EngineImplementsChain == EngineSpec => ImplementsKnownGood
<1>1. EngineInit => Chain!Init
  BY EngineInitChain
<1>2. EngineInv /\ HistoryInv /\ RepairIdle /\ [EngineNext]_engineVars
        => [Chain!Next]_(Chain!vars)
  BY EngineStepChain
<1> QED
  BY <1>1, <1>2, HistoryInvariance, PTL DEF EngineSpec, ImplementsKnownGood, Chain!Spec

(* The known-good pointer moves only to what the cluster runs, and the     *)
(* repair at the start of the Agent never moves it.                        *)
THEOREM PointerIsFactual == EngineSpec => PointerFollowsRuntime
<1>1. EngineInv /\ HistoryInv /\ RepairIdle /\ [EngineNext]_engineVars
        => [Follows]_engineVars
  BY EngineStepChain
<1> QED
  BY <1>1, HistoryInvariance, PTL DEF EngineSpec, PointerFollowsRuntime, Follows

----------------------------------------------------------------------------
(* What the cluster runs.  KnownGoodRuns is inductive once three things    *)
(* are known: terminal_at stamps lie below the clock, so that the rollout  *)
(* which ends now is the last one of its target; the columns of a record   *)
(* agree; and a cleanup about to be recorded has emptied its target.       *)
LogRecord(j) ==
  /\ wal[j].terminalAt < clock
  /\ IsTerminalRolloutState(wal[j].state) => Terminal(j)
  /\ wal[j].error = "cancelled" => wal[j].state = "failed" /\ Terminal(j)
  /\ wal[j].state \in {"succeeded", "cleaned", "prepared"} => wal[j].error = "none"
  /\ wal[j].state \in {"succeeded", "rolled_back", "cleaned"} => wal[j].materialized
  /\ wal[j].state = "succeeded" => Op(j) = "apply"
  /\ wal[j].state = "cleaned" => Op(j) \in CleanupOperations
  /\ wal[j].state = "rolled_back" => Previous(j) # None

LogInv == \A j \in Jobs : Recorded(j) => LogRecord(j)

Emptied(j) ==
  /\ Active(j)
  /\ Op(j) \in CleanupOperations
  /\ \/ wal[j].state = "waiting"
     \/ wal[j].state = "applying" /\ eng.pc = "applied" /\ eng.job = j

CleanedUp == \A j \in Jobs : Emptied(j) => runtime[Target(j)] = None

RuntimeInv == LogInv /\ CleanedUp /\ KnownGoodRuns

(* The log after one record was written, every other one as it was.        *)
LEMMA OneRecordWritten ==
  ASSUME StoreInv, LogInv, NEW j \in Jobs, NEW w,
         w \in WalRecords, w # None, wal' = [wal EXCEPT ![j] = w],
         clock' \in {clock, clock + 1}, LogRecord(j)'
  PROVE  LogInv'
<1>1. \A k \in Jobs : wal'[k] = IF k = j THEN w ELSE wal[k]
  BY DEF StoreInv, StoreTypeOK
<1>2. clock \in Nat
  BY DEF StoreInv, StoreTypeOK
<1>3. ASSUME NEW k \in Jobs, Recorded(k)', k # j
      PROVE  LogRecord(k)'
  <2>1. wal'[k] = wal[k] /\ Recorded(k) /\ LogRecord(k)
    BY <1>1, <1>3 DEF Recorded, LogInv
  <2>2. wal[k].terminalAt \in Nat
    BY <2>1, RecordType DEF StoreInv
  <2>3. wal'[k].terminalAt < clock'
    BY <1>2, <2>1, <2>2 DEF LogRecord
  <2> QED BY <2>1, <2>3 DEF LogRecord, Terminal, Recorded, Op, Previous
<1> QED BY <1>3 DEF LogInv

LEMMA TransitionKeepsLog ==
  ASSUME StoreInv, LogInv, NEW j \in Jobs, NEW state \in RolloutStates,
         NEW error \in {"none", "cancelled", "failure"},
         NEW materialized \in BOOLEAN, NEW terminal \in BOOLEAN,
         TransitionRollout(j, state, error, materialized, terminal),
         error = "cancelled" => state = "failed" /\ terminal,
         state = "cleaned" => error = "none" /\ Op(j) \in CleanupOperations,
         state \in {"rolled_back", "cleaned"} => materialized
  PROVE  LogInv'
<1> DEFINE ends == terminal \/ IsTerminalRolloutState(state)
           at   == IF ends THEN clock ELSE 0
           w    == [intent |-> wal[j].intent, state |-> state, terminalAt |-> at,
                    error |-> error, materialized |-> materialized]
<1>1. /\ Active(j) /\ Recorded(j) /\ state # "succeeded"
      /\ wal' = [wal EXCEPT ![j] = w]
      /\ clock' = IF ends THEN clock + 1 ELSE clock
      /\ CanTransitionRollout(wal[j].state, state)
      /\ state = "rolled_back" => HasKnownGood(Previous(j), Target(j))
  BY DEF TransitionRollout, Active
<1>2. wal[j].intent \in Intents /\ wal[j].state \in RolloutStates
  BY <1>1, RecordType DEF StoreInv
<1>3. at \in Nat /\ (ends => at > 0) /\ at < clock' /\ clock' \in {clock, clock + 1}
  BY <1>1 DEF StoreInv, StoreTypeOK
<1>4. state # "prepared"
  BY <1>1, <1>2 DEF CanTransitionRollout, AllowedTransitions, RolloutStates
<1>5. state = "rolled_back" => Previous(j) # None
  BY <1>1, ProtocolAssumption DEF HasKnownGood, StoreInv, StoreTypeOK
<1>6. terminal => ends
  OBVIOUS
<1>7. IsTerminalRolloutState(state) => ends
  OBVIOUS
<1> HIDE DEF at, ends
<1>8. w \in WalRecords /\ w # None
  BY <1>2, <1>3, NewRecord
<1>9. /\ w.intent = wal[j].intent /\ w.state = state /\ w.terminalAt = at
      /\ w.error = error /\ w.materialized = materialized
  OBVIOUS
<1> HIDE DEF w
<1>10. wal'[j] = w
  BY <1>1 DEF StoreInv, StoreTypeOK
<1>11. Recorded(j)' /\ (ends => Terminal(j)') /\ Op(j)' = Op(j) /\ Previous(j)' = Previous(j)
  BY <1>3, <1>8, <1>9, <1>10 DEF Recorded, Terminal, Op, Previous
<1>12. LogRecord(j)'
  BY <1>1, <1>3, <1>4, <1>5, <1>6, <1>7, <1>9, <1>10, <1>11 DEF LogRecord
<1> QED BY <1>1, <1>3, <1>8, <1>12, OneRecordWritten

LEMMA CommitKeepsLog ==
  ASSUME StoreInv, LogInv, NEW j \in Jobs, Op(j) = "apply", CommitRolloutSuccess(j)
  PROVE  LogInv'
<1> DEFINE w == [intent |-> wal[j].intent, state |-> "succeeded",
                 terminalAt |-> clock, error |-> "none", materialized |-> TRUE]
<1>1. Recorded(j) /\ wal' = [wal EXCEPT ![j] = w] /\ clock' = clock + 1
  BY DEF CommitRolloutSuccess, Active
<1>2. wal[j].intent \in Intents /\ clock \in Nat /\ clock > 0
  BY <1>1, RecordType DEF StoreInv, StoreTypeOK
<1>3. w \in WalRecords /\ w # None
  BY <1>2, NewRecord DEF RolloutStates
<1>4. /\ w.intent = wal[j].intent /\ w.state = "succeeded" /\ w.terminalAt = clock
      /\ w.error = "none" /\ w.materialized = TRUE
  OBVIOUS
<1> HIDE DEF w
<1>5. wal'[j] = w
  BY <1>1 DEF StoreInv, StoreTypeOK
<1>6. LogRecord(j)'
  BY <1>1, <1>2, <1>3, <1>4, <1>5 DEF LogRecord, Terminal, Recorded, Op
<1> QED BY <1>1, <1>3, <1>6, OneRecordWritten

LEMMA BeginKeepsLog ==
  ASSUME StoreInv, LogInv, NEW j \in Jobs, NEW i \in Intents, BeginRollout(j, i)
  PROVE  LogInv'
<1>1. PICK m \in BOOLEAN :
        wal' = [wal EXCEPT ![j] =
                  [intent |-> i, state |-> "prepared", terminalAt |-> 0,
                   error |-> "none", materialized |-> m]]
  BY DEF BeginRollout
<1> DEFINE w == [intent |-> i, state |-> "prepared", terminalAt |-> 0,
                 error |-> "none", materialized |-> m]
<1>2. w \in WalRecords /\ w # None
  BY NewRecord DEF RolloutStates
<1>3. w.state = "prepared" /\ w.error = "none" /\ w.terminalAt = 0
  OBVIOUS
<1>4. wal' = [wal EXCEPT ![j] = w]
  BY <1>1
<1> HIDE DEF w
<1>5. wal'[j] = w /\ clock' = clock /\ clock \in Nat \ {0}
  BY <1>4 DEF StoreInv, StoreTypeOK, BeginRollout
<1>6. LogRecord(j)'
  BY <1>3, <1>5 DEF LogRecord, IsTerminalRolloutState
<1> QED BY <1>2, <1>4, <1>5, <1>6, OneRecordWritten

(* A target whose finished rollouts, runtime and pointer stay as they are, *)
(* and which no rollout stops mutating.                                    *)
LEMMA TargetUndisturbed ==
  ASSUME KnownGoodRuns, NEW t \in Targets,
         runtime'[t] = runtime[t], current'[t] = current[t],
         \A j \in Jobs : Active(j) /\ Target(j) = t /\ wal[j].state # "prepared" =>
           (Active(j) /\ Target(j) = t /\ wal[j].state # "prepared")',
         \A j \in Jobs : /\ (Mutated(j) /\ Target(j) = t)' <=> Mutated(j) /\ Target(j) = t
                         /\ Mutated(j) /\ Target(j) = t => wal'[j] = wal[j]
  PROVE  Undisturbed(t)' => runtime'[t] = current'[t]
<1> SUFFICES ASSUME Undisturbed(t)' PROVE Undisturbed(t)
  BY DEF KnownGoodRuns
<1>1. \A j \in Jobs : Active(j) /\ Target(j) = t => wal[j].state = "prepared"
  BY DEF Undisturbed
<1>2. ASSUME NEW j \in LastRollout(t)
      PROVE  wal[j].state \in {"succeeded", "rolled_back", "cleaned"}
  <2>1. j \in Jobs /\ Mutated(j) /\ Target(j) = t /\ wal'[j] = wal[j]
    BY <1>2 DEF LastRollout
  <2>2. \A k \in Jobs : (Mutated(k) /\ Target(k) = t)' =>
          wal'[k].terminalAt <= wal'[j].terminalAt
    BY <1>2, <2>1 DEF LastRollout
  <2>3. j \in LastRollout(t)'
    BY <2>1, <2>2 DEF LastRollout
  <2> QED BY <2>1, <2>3 DEF Undisturbed
<1> QED BY <1>1, <1>2 DEF Undisturbed

(* The end of a mutating rollout makes it the last one of its target.      *)
LEMMA EndedIsLast ==
  ASSUME StoreInv, LogInv, NEW j \in Jobs, Active(j), NEW w,
         w \in WalRecords, w # None, wal' = [wal EXCEPT ![j] = w],
         w.terminalAt = clock, w.error # "cancelled", w.intent = wal[j].intent
  PROVE  j \in LastRollout(Target(j))'
<1>1. \A k \in Jobs : wal'[k] = IF k = j THEN w ELSE wal[k]
  BY DEF StoreInv, StoreTypeOK
<1>2. clock \in Nat /\ clock > 0
  BY DEF StoreInv, StoreTypeOK
<1>3. Mutated(j)' /\ Target(j)' = Target(j)
  BY <1>1, <1>2 DEF Mutated, Terminal, Recorded, Target
<1>4. ASSUME NEW k \in Jobs, Mutated(k)'
      PROVE  wal'[k].terminalAt <= wal'[j].terminalAt
  <2>1. CASE k = j
    BY <1>1, <1>2, <2>1
  <2>2. CASE k # j
    <3>1. wal'[k] = wal[k] /\ Recorded(k) /\ LogRecord(k) /\ wal[k].terminalAt \in Nat
      BY <1>1, <1>4, <2>2, RecordType DEF Mutated, Terminal, Recorded, LogInv, StoreInv
    <3> QED BY <1>1, <1>2, <3>1 DEF LogRecord
  <2> QED BY <2>1, <2>2
<1> QED BY <1>3, <1>4 DEF LastRollout

LEMMA TransitionKeepsRuns ==
  ASSUME StoreInv, LogInv, KnownGoodRuns, NEW j \in Jobs, NEW state \in RolloutStates,
         NEW error \in {"none", "cancelled", "failure"},
         NEW materialized \in BOOLEAN, NEW terminal \in BOOLEAN,
         TransitionRollout(j, state, error, materialized, terminal),
         runtime' = runtime,
         error = "cancelled" => terminal /\ state = "failed" /\ wal[j].state = "prepared",
         state = "rolled_back" => runtime[Target(j)] = Previous(j),
         state = "cleaned" => runtime[Target(j)] = current[Target(j)]
  PROVE  KnownGoodRuns'
<1> DEFINE ends == terminal \/ IsTerminalRolloutState(state)
           at   == IF ends THEN clock ELSE 0
           w    == [intent |-> wal[j].intent, state |-> state, terminalAt |-> at,
                    error |-> error, materialized |-> materialized]
<1>1. /\ Active(j) /\ Recorded(j) /\ wal[j].terminalAt = 0 /\ state # "succeeded"
      /\ wal' = [wal EXCEPT ![j] = w]
      /\ CanTransitionRollout(wal[j].state, state)
      /\ current' = IF state = "rolled_back"
                      THEN [current EXCEPT ![Target(j)] = Previous(j)] ELSE current
  BY DEF TransitionRollout, Active
<1>2. wal[j].intent \in Intents /\ wal[j].state \in RolloutStates /\ Target(j) \in Targets
  BY <1>1, RecordType DEF StoreInv
<1>3. clock \in Nat /\ clock > 0 /\ current \in Pointers
  BY DEF StoreInv, StoreTypeOK
<1>4. state # "prepared"
  BY <1>1, <1>2 DEF CanTransitionRollout, AllowedTransitions, RolloutStates
<1>5. at \in Nat /\ (ends => at = clock) /\ (~ends => at = 0)
  BY <1>3
<1>6. terminal => ends
  OBVIOUS
<1> HIDE DEF at, ends
<1>7. w \in WalRecords /\ w # None
  BY <1>2, <1>5, NewRecord
<1>8. w.intent = wal[j].intent /\ w.state = state /\ w.terminalAt = at /\ w.error = error
  OBVIOUS
<1> HIDE DEF w
<1>9. \A k \in Jobs : wal'[k] = IF k = j THEN w ELSE wal[k]
  BY <1>1 DEF StoreInv, StoreTypeOK
<1>10. \A k \in Jobs : Target(k)' = Target(k)
  BY <1>8, <1>9 DEF Target
<1>11. \A k \in Jobs \ {j} : (Active(k)' <=> Active(k)) /\ (Mutated(k)' <=> Mutated(k))
  BY <1>9 DEF Active, Mutated, Terminal, Recorded
<1>12. ~Mutated(j)
  BY <1>1 DEF Mutated, Terminal
<1> SUFFICES ASSUME NEW t \in Targets, Undisturbed(t)'
             PROVE  runtime'[t] = current'[t]
  BY DEF KnownGoodRuns
<1>13. CASE t # Target(j)
  <2>1. current'[t] = current[t]
    BY <1>1, <1>13 DEF Pointers
  <2> QED BY <1>9, <1>10, <1>11, <1>12, <1>13, <2>1, TargetUndisturbed
<1>14. CASE t = Target(j) /\ ~ends
  <2>1. Active(j)' /\ Target(j)' = t /\ wal'[j].state # "prepared"
    BY <1>4, <1>5, <1>7, <1>8, <1>9, <1>10, <1>14 DEF Active, Recorded
  <2> QED BY <2>1 DEF Undisturbed
<1>15. CASE t = Target(j) /\ ends /\ error # "cancelled"
  <2>1. j \in LastRollout(t)'
    <3>1. w.terminalAt = clock /\ w.error # "cancelled"
      BY <1>5, <1>8, <1>15
    <3> QED BY <1>1, <1>7, <1>8, <1>10, <1>15, <3>1, EndedIsLast
  <2>2. state \in {"succeeded", "rolled_back", "cleaned"}
    BY <1>8, <1>9, <2>1 DEF Undisturbed
  <2> QED BY <1>1, <1>2, <1>3, <1>15, <2>2 DEF Pointers
<1>16. CASE t = Target(j) /\ error = "cancelled"
  <2>1. state = "failed" /\ wal[j].state = "prepared" /\ current' = current
    BY <1>1, <1>16
  <2>2. \A k \in Jobs : Active(k) /\ Target(k) = t => k = j
    BY <1>1, <1>16 DEF StoreInv, OneActivePerTarget
  <2>3. ~Mutated(j)'
    BY <1>8, <1>9, <1>16 DEF Mutated
  <2> QED BY <1>9, <1>10, <1>11, <1>12, <2>1, <2>2, <2>3, TargetUndisturbed
<1> QED BY <1>13, <1>14, <1>15, <1>16

LEMMA CommitKeepsRuns ==
  ASSUME StoreInv, LogInv, KnownGoodRuns, NEW j \in Jobs, CommitRolloutSuccess(j),
         runtime[Target(j)] = j, runtime' = runtime
  PROVE  KnownGoodRuns'
<1> DEFINE w == [intent |-> wal[j].intent, state |-> "succeeded",
                 terminalAt |-> clock, error |-> "none", materialized |-> TRUE]
<1>1. /\ Active(j) /\ wal' = [wal EXCEPT ![j] = w]
      /\ current' = [current EXCEPT ![Target(j)] = j]
  BY DEF CommitRolloutSuccess
<1>2. w.intent = wal[j].intent
  OBVIOUS
<1> HIDE DEF w
<1>3. \A k \in Jobs : wal'[k] = IF k = j THEN w ELSE wal[k]
  BY <1>1 DEF StoreInv, StoreTypeOK
<1>4. \A k \in Jobs : Target(k)' = Target(k)
  BY <1>2, <1>3 DEF Target
<1>5. \A k \in Jobs \ {j} : (Active(k)' <=> Active(k)) /\ (Mutated(k)' <=> Mutated(k))
  BY <1>3 DEF Active, Mutated, Terminal, Recorded
<1>6. current \in Pointers
  BY DEF StoreInv, StoreTypeOK
<1> SUFFICES ASSUME NEW t \in Targets, Undisturbed(t)'
             PROVE  runtime'[t] = current'[t]
  BY DEF KnownGoodRuns
<1>7. CASE t = Target(j)
  BY <1>1, <1>6, <1>7 DEF Pointers
<1>8. CASE t # Target(j)
  <2>1. current'[t] = current[t]
    BY <1>1, <1>6, <1>8 DEF Pointers
  <2> QED BY <1>3, <1>4, <1>5, <1>8, <2>1, TargetUndisturbed
<1> QED BY <1>7, <1>8

LEMMA BeginKeepsRuns ==
  ASSUME StoreInv, KnownGoodRuns, NEW j \in Jobs, NEW i \in Intents, BeginRollout(j, i)
  PROVE  KnownGoodRuns'
<1>1. PICK m \in BOOLEAN :
        wal' = [wal EXCEPT ![j] =
                  [intent |-> i, state |-> "prepared", terminalAt |-> 0,
                   error |-> "none", materialized |-> m]]
  BY DEF BeginRollout
<1>2. /\ ~Recorded(j) /\ runtime' = runtime /\ current' = current
      /\ wal'[j].terminalAt = 0
      /\ \A k \in Jobs \ {j} : wal'[k] = wal[k]
  BY <1>1 DEF BeginRollout, StoreInv, StoreTypeOK
<1>3. ~Active(j) /\ ~Mutated(j) /\ ~Mutated(j)'
  BY <1>2 DEF Active, Mutated, Terminal
<1>4. \A k \in Jobs \ {j} : /\ Active(k)' <=> Active(k)
                            /\ Mutated(k)' <=> Mutated(k)
                            /\ Target(k)' = Target(k)
  BY <1>2 DEF Active, Mutated, Terminal, Recorded, Target
<1> SUFFICES ASSUME NEW t \in Targets, Undisturbed(t)'
             PROVE  runtime'[t] = current'[t]
  BY DEF KnownGoodRuns
<1> QED BY <1>2, <1>3, <1>4, TargetUndisturbed

(* While its own rollout mutates it, a target is not undisturbed.          *)
LEMMA RuntimeWritten ==
  ASSUME StoreInv, KnownGoodRuns, NEW j \in Jobs, Active(j), wal[j].state # "prepared",
         UNCHANGED <<wal, current>>,
         \A t \in Targets : t # Target(j) => runtime'[t] = runtime[t]
  PROVE  KnownGoodRuns'
<1>1. Active(j)' /\ Target(j)' = Target(j) /\ wal'[j].state # "prepared"
  BY DEF Active, Recorded, Target
<1> SUFFICES ASSUME NEW t \in Targets, Undisturbed(t)'
             PROVE  runtime'[t] = current'[t]
  BY DEF KnownGoodRuns
<1>2. t # Target(j)
  BY <1>1 DEF Undisturbed
<1> QED
  BY <1>2, TargetUndisturbed DEF Mutated, Terminal, Active, Recorded, Target

LEMMA RuntimeStutters ==
  ASSUME LogInv, KnownGoodRuns, UNCHANGED <<wal, current, runtime, clock>>
  PROVE  LogInv' /\ KnownGoodRuns'
<1>1. LogInv'
  BY DEF LogInv, LogRecord, Terminal, Recorded, Op, Previous
<1>2. KnownGoodRuns'
  BY TargetUndisturbed DEF KnownGoodRuns, Mutated, Terminal, Active, Recorded, Target
<1> QED BY <1>1, <1>2

(* What can make a cleanup's target occupied again: nothing but the same   *)
(* cleanup, before it is applied.                                          *)
LEMMA StaysEmptied ==
  ASSUME CleanedUp,
         \A j \in Jobs : Emptied(j)' => Emptied(j) /\ Target(j)' = Target(j)
                                        /\ runtime'[Target(j)] = runtime[Target(j)]
  PROVE  CleanedUp'
BY DEF CleanedUp

LEMMA TransitionStaysEmptied ==
  ASSUME StoreInv, CleanedUp, NEW j \in Jobs, NEW state \in RolloutStates,
         NEW error \in {"none", "cancelled", "failure"},
         NEW materialized \in BOOLEAN, NEW terminal \in BOOLEAN,
         TransitionRollout(j, state, error, materialized, terminal),
         runtime' = runtime,
         state = "waiting" => Emptied(j) \/ Op(j) \notin CleanupOperations,
         state = "applying" => eng'.pc # "applied",
         eng'.pc = "applied" => eng' = eng
  PROVE  CleanedUp'
<1>1. /\ \A k \in Jobs : /\ wal'[k].intent = wal[k].intent
                         /\ Active(k)' => Active(k)
      /\ Active(j)
  BY TransitionFacts
<1>2. wal'[j].state = state /\ \A k \in Jobs \ {j} : wal'[k] = wal[k]
  BY DEF TransitionRollout, StoreInv, StoreTypeOK
<1>3. \A k \in Jobs : Target(k)' = Target(k) /\ Op(k)' = Op(k)
  BY <1>1 DEF Target, Op
<1>4. ASSUME NEW k \in Jobs, Emptied(k)'
      PROVE  Emptied(k)
  <2>1. CASE k = j
    BY <1>2, <1>3, <1>4, <2>1 DEF Emptied
  <2>2. CASE k # j
    BY <1>1, <1>2, <1>3, <1>4, <2>2 DEF Emptied
  <2> QED BY <2>1, <2>2
<1> QED BY <1>3, <1>4, StaysEmptied

(* Writing the runtime of a target leaves the others' cleanups alone.      *)
LEMMA RuntimeWrittenStaysEmptied ==
  ASSUME StoreInv, CallInv, CleanedUp, eng.pc \in {"running", "applied"},
         Active(eng.job), wal' = wal, eng' = eng \/ eng' = Continue("applied"),
         \A t \in Targets : t # Target(eng.job) => runtime'[t] = runtime[t],
         Emptied(eng.job)' => runtime'[Target(eng.job)] = None
  PROVE  CleanedUp'
<1>1. eng.job \in Jobs /\ eng'.job = eng.job
  BY DEF CallInv, Continue, EngineStates
<1>2. ASSUME NEW k \in Jobs, Emptied(k)', k # eng.job
      PROVE  Emptied(k) /\ Target(k)' = Target(k) /\ runtime'[Target(k)] = runtime[Target(k)]
  <2>1. Emptied(k) /\ Target(k)' = Target(k)
    BY <1>1, <1>2 DEF Emptied, Active, Recorded, Op, Target
  <2>2. Target(k) # Target(eng.job) /\ Target(k) \in Targets
    BY <1>1, <1>2, <2>1, RecordType DEF StoreInv, OneActivePerTarget, Emptied, Active
  <2> QED BY <2>1, <2>2
<1>3. Target(eng.job)' = Target(eng.job)
  BY <1>1 DEF Target
<1> QED BY <1>1, <1>2, <1>3 DEF CleanedUp

LEMMA NotAppliedStaysEmptied ==
  ASSUME CleanedUp, UNCHANGED <<wal, runtime>>, eng'.pc # "applied" \/ eng' = eng
  PROVE  CleanedUp'
BY StaysEmptied DEF Emptied, Active, Recorded, Op, Target

LEMMA RolloutStepRuns ==
  ASSUME StoreInv, CallInv, RestInv, HistoryInv, RuntimeInv, RolloutStep
  PROVE  RuntimeInv'
<1>1. /\ eng.pc \in {"running", "applied"}
      /\ eng.job \in Jobs
      /\ Active(eng.job)
      /\ Recorded(eng.job)
      /\ Target(eng.job) \in Targets
      /\ Previous(eng.job) \in KnownGoodRefs
      /\ wal[eng.job].error \in {"none", "failure"}
      /\ wal[eng.job].materialized \in BOOLEAN
  <2>1. eng.pc \in {"running", "applied"} /\ Active(eng.job)
    BY DEF RolloutStep, InCall, StartApply, CancelBeforeMutation, MutateSome,
           ApplyRollout, RecordApplied, ObserveReady, FailAndRollback, StartRollback,
           RestorePrevious, RestoredReady, RollbackFailed, RollbackTimesOut,
           StartCleanup, CleanupTarget, CleanupFails, RecordCleaned
  <2>2. eng.job \in Jobs /\ Recorded(eng.job)
    BY <2>1 DEF CallInv, Active
  <2>3. wal[eng.job].error # "cancelled"
    <3>1. wal[eng.job].terminalAt \in Nat /\ wal[eng.job].terminalAt = 0
      BY <2>1, <2>2, RecordType DEF StoreInv, Active
    <3> QED BY <2>2, <3>1 DEF RuntimeInv, LogInv, LogRecord, Terminal
  <2> QED BY <2>1, <2>2, <2>3, RecordType DEF StoreInv
<1>2. eng \in EngineStates
  BY DEF CallInv
<1>3. \A outcome, ok : Returned(outcome, ok).pc # "applied"
  BY <1>2 DEF Returned, At, EngineStates
<1>4. \A pc \in {"running", "applied"} : Continue(pc).pc = pc /\ Continue(pc).job = eng.job
  BY <1>2 DEF Continue, EngineStates
<1>20. \A v : LET written == [runtime EXCEPT ![Target(eng.job)] = v]
             IN  /\ written[Target(eng.job)] = v
                 /\ \A t \in Targets : t # Target(eng.job) => written[t] = runtime[t]
  BY <1>1 DEF RestInv
<1> USE DEF RuntimeInv
<1>5. CASE StartApply
  <2>1. /\ TransitionRollout(eng.job, "applying", "none", wal[eng.job].materialized, FALSE)
        /\ UNCHANGED <<runtime, eng>> /\ eng.pc = "running"
    BY <1>5 DEF StartApply, InCall
  <2>2. LogInv' /\ KnownGoodRuns' /\ CleanedUp'
    BY <1>1, <2>1, TransitionKeepsLog, TransitionKeepsRuns, TransitionStaysEmptied
       DEF RolloutStates
  <2> QED BY <2>2
<1>6. CASE CancelBeforeMutation
  <2>1. /\ TransitionRollout(eng.job, "failed", "cancelled", wal[eng.job].materialized, TRUE)
        /\ runtime' = runtime /\ eng' = Returned("record", FALSE)
        /\ wal[eng.job].state = "prepared"
    BY <1>6 DEF CancelBeforeMutation, InCall
  <2>2. LogInv' /\ KnownGoodRuns' /\ CleanedUp'
    BY <1>1, <1>3, <2>1, TransitionKeepsLog, TransitionKeepsRuns, TransitionStaysEmptied
       DEF RolloutStates
  <2> QED BY <2>2
<1>7. CASE MutateSome
  <2>1. /\ runtime' = [runtime EXCEPT ![Target(eng.job)] = Partial]
        /\ UNCHANGED <<wal, current, clock, eng>>
        /\ eng.pc = "running" /\ wal[eng.job].state \in {"applying", "rolling_back"}
    BY <1>7 DEF MutateSome, InCall
  <2>2. \A t \in Targets : t # Target(eng.job) => runtime'[t] = runtime[t]
    BY <1>20, <2>1
  <2>3. ~Emptied(eng.job)'
    BY <2>1 DEF Emptied
  <2>4. LogInv'
    BY <2>1 DEF LogInv, LogRecord, Terminal, Recorded, Op, Previous
  <2> QED BY <1>1, <2>1, <2>2, <2>3, <2>4, RuntimeWritten, RuntimeWrittenStaysEmptied
<1>8. CASE ApplyRollout \/ RestorePrevious
  <2>1. /\ UNCHANGED <<wal, current, clock>> /\ eng' = Continue("applied")
        /\ \E v : runtime' = [runtime EXCEPT ![Target(eng.job)] = v]
    BY <1>8 DEF ApplyRollout, RestorePrevious
  <2>2. \/ wal[eng.job].state = "applying" /\ Op(eng.job) = "apply"
        \/ wal[eng.job].state = "rolling_back"
    BY <1>8 DEF ApplyRollout, RestorePrevious, InCall
  <2>3. \A t \in Targets : t # Target(eng.job) => runtime'[t] = runtime[t]
    BY <1>20, <2>1
  <2>4. ~Emptied(eng.job)'
    BY <1>4, <2>1, <2>2 DEF Emptied, Op, CleanupOperations
  <2>5. LogInv'
    BY <2>1 DEF LogInv, LogRecord, Terminal, Recorded, Op, Previous
  <2>6. wal[eng.job].state # "prepared"
    BY <2>2
  <2> QED BY <1>1, <2>1, <2>3, <2>4, <2>5, <2>6, RuntimeWritten, RuntimeWrittenStaysEmptied
<1>9. CASE RecordApplied
  <2>1. /\ TransitionRollout(eng.job, "waiting", "none", TRUE, FALSE)
        /\ runtime' = runtime /\ eng' = Continue("running")
        /\ Emptied(eng.job) \/ Op(eng.job) \notin CleanupOperations
    BY <1>1, <1>9 DEF RecordApplied, InCall, Emptied
  <2>2. LogInv' /\ KnownGoodRuns' /\ CleanedUp'
    BY <1>1, <1>4, <2>1, TransitionKeepsLog, TransitionKeepsRuns, TransitionStaysEmptied
       DEF RolloutStates
  <2> QED BY <2>2
<1>10. CASE ObserveReady
  <2>1. /\ Op(eng.job) = "apply" /\ CommitRolloutSuccess(eng.job)
        /\ runtime[Target(eng.job)] = eng.job /\ runtime' = runtime
        /\ eng' = Returned("record", TRUE)
    BY <1>10 DEF ObserveReady, Ready
  <2>2. LogInv' /\ KnownGoodRuns'
    BY <1>1, <2>1, CommitKeepsLog, CommitKeepsRuns
  <2>3. CleanedUp'
    <3>1. /\ wal'[eng.job].state = "succeeded" /\ \A k \in Jobs \ {eng.job} : wal'[k] = wal[k]
          /\ eng'.pc # "applied"
      BY <1>1, <1>3, <2>1 DEF CommitRolloutSuccess, StoreInv, StoreTypeOK
    <3> QED BY <2>1, <3>1, StaysEmptied DEF Emptied, Active, Recorded, Op, Target
  <2> QED BY <2>2, <2>3
<1>11. CASE FailAndRollback
  <2> DEFINE unavailable == Previous(eng.job) = None
  <2>1. /\ TransitionRollout(eng.job, "failed", "failure", wal[eng.job].materialized,
                             unavailable)
        /\ runtime' = runtime /\ (eng' = eng \/ eng' = Returned("record", FALSE))
    BY <1>11 DEF FailAndRollback
  <2>3. unavailable \in BOOLEAN
    OBVIOUS
  <2> HIDE DEF unavailable
  <2>2. LogInv' /\ KnownGoodRuns' /\ CleanedUp'
    BY <1>1, <1>3, <2>1, <2>3, TransitionKeepsLog, TransitionKeepsRuns, TransitionStaysEmptied
       DEF RolloutStates
  <2> QED BY <2>2
<1>12. CASE StartRollback
  <2>1. /\ TransitionRollout(eng.job, "rolling_back", wal[eng.job].error,
                             wal[eng.job].materialized, FALSE)
        /\ UNCHANGED <<runtime, eng>>
    BY <1>12 DEF StartRollback
  <2>2. LogInv' /\ KnownGoodRuns' /\ CleanedUp'
    BY <1>1, <2>1, TransitionKeepsLog, TransitionKeepsRuns, TransitionStaysEmptied
       DEF RolloutStates
  <2> QED BY <2>2
<1>13. CASE RestoredReady
  <2>1. /\ TransitionRollout(eng.job, "rolled_back", wal[eng.job].error, TRUE, TRUE)
        /\ runtime[Target(eng.job)] = Previous(eng.job) /\ runtime' = runtime
        /\ eng' = Returned("record", wal[eng.job].error = "none")
    BY <1>13 DEF RestoredReady, Ready
  <2>2. LogInv' /\ KnownGoodRuns' /\ CleanedUp'
    BY <1>1, <1>3, <2>1, TransitionKeepsLog, TransitionKeepsRuns, TransitionStaysEmptied
       DEF RolloutStates
  <2> QED BY <2>2
<1>14. CASE RollbackFailed
  <2>1. /\ TransitionRollout(eng.job, "rollback_failed", "failure",
                             wal[eng.job].materialized, TRUE)
        /\ runtime' = runtime /\ eng' = Returned("record", FALSE)
    BY <1>14 DEF RollbackFailed
  <2>2. LogInv' /\ KnownGoodRuns' /\ CleanedUp'
    BY <1>1, <1>3, <2>1, TransitionKeepsLog, TransitionKeepsRuns, TransitionStaysEmptied
       DEF RolloutStates
  <2> QED BY <2>2
<1>15. CASE RollbackTimesOut
  <2>1. UNCHANGED <<wal, current, runtime, clock>> /\ eng' = Returned("error", FALSE)
    BY <1>15 DEF RollbackTimesOut
  <2> QED BY <1>3, <2>1, RuntimeStutters, NotAppliedStaysEmptied
<1>16. CASE StartCleanup
  <2>1. /\ TransitionRollout(eng.job, "applying", "none", TRUE, FALSE)
        /\ UNCHANGED <<runtime, eng>> /\ eng.pc = "running"
    BY <1>16 DEF StartCleanup, InCall
  <2>2. LogInv' /\ KnownGoodRuns' /\ CleanedUp'
    BY <1>1, <2>1, TransitionKeepsLog, TransitionKeepsRuns, TransitionStaysEmptied
       DEF RolloutStates
  <2> QED BY <2>2
<1>17. CASE CleanupTarget
  <2>1. /\ runtime' = [runtime EXCEPT ![Target(eng.job)] = None]
        /\ UNCHANGED <<wal, current, clock>> /\ eng' = Continue("applied")
        /\ wal[eng.job].state = "applying"
    BY <1>17 DEF CleanupTarget, InCall
  <2>2. runtime'[Target(eng.job)] = None
    BY <1>20, <2>1
  <2>3. \A t \in Targets : t # Target(eng.job) => runtime'[t] = runtime[t]
    BY <1>20, <2>1
  <2>4. LogInv'
    BY <2>1 DEF LogInv, LogRecord, Terminal, Recorded, Op, Previous
  <2>5. wal[eng.job].state # "prepared"
    BY <2>1
  <2> QED BY <1>1, <2>1, <2>2, <2>3, <2>4, <2>5, RuntimeWritten, RuntimeWrittenStaysEmptied
<1>18. CASE CleanupFails
  <2>1. /\ TransitionRollout(eng.job, "failed", "failure", TRUE, TRUE)
        /\ runtime' = runtime /\ eng' = Returned("record", FALSE)
    BY <1>18 DEF CleanupFails
  <2>2. LogInv' /\ KnownGoodRuns' /\ CleanedUp'
    BY <1>1, <1>3, <2>1, TransitionKeepsLog, TransitionKeepsRuns, TransitionStaysEmptied
       DEF RolloutStates
  <2> QED BY <2>2
<1>19. CASE RecordCleaned
  <2>1. /\ TransitionRollout(eng.job, "cleaned", "none", TRUE, TRUE)
        /\ runtime' = runtime /\ eng' = Returned("record", TRUE)
        /\ Op(eng.job) \in CleanupOperations /\ Emptied(eng.job)
    BY <1>1, <1>19 DEF RecordCleaned, InCall, Emptied
  <2>2. runtime[Target(eng.job)] = None /\ current[Target(eng.job)] = None
    <3>1. wal[eng.job].intent \in Intents
      BY <1>1, RecordType DEF StoreInv
    <3>2. ExpectedCurrent(wal[eng.job].intent) = None
      BY <2>1, <3>1 DEF Intents, Canonical, ExpectedCurrent, Op, CleanupOperations
    <3> QED BY <1>1, <2>1, <3>2 DEF CleanedUp, HistoryInv, ActiveInv
  <2>3. LogInv' /\ KnownGoodRuns' /\ CleanedUp'
    BY <1>1, <1>3, <2>1, <2>2, TransitionKeepsLog, TransitionKeepsRuns,
       TransitionStaysEmptied DEF RolloutStates
  <2> QED BY <2>3
<1> QED
  BY <1>5, <1>6, <1>7, <1>8, <1>9, <1>10, <1>11, <1>12, <1>13, <1>14, <1>15, <1>16,
     <1>17, <1>18, <1>19 DEF RolloutStep

(* Outside a call nothing is written to the cluster.                       *)
LEMMA BootStepRuns ==
  ASSUME StoreInv, CallInv, HistoryInv, RepairIdle, RuntimeInv, BootStep
  PROVE  RuntimeInv'
<1>1. UNCHANGED <<wal, runtime, clock>>
  BY DEF BootStep, OpenStore, RepairPointer, StartPending, ResumePending, PendingDone
<1>3. eng'.pc # "applied"
  <2>1. CASE RepairPointer
    <3>1. CASE eng' = At("down")
      BY <3>1, AtType
    <3>2. CASE eng' # At("down")
      <4>1. PICK n, tx : eng' = [eng EXCEPT !.scan = n, !.tx = tx]
        BY <2>1, <3>2 DEF RepairPointer
      <4> QED BY <2>1, <4>1 DEF RepairPointer, CallInv, EngineStates
    <3> QED BY <3>1, <3>2
  <2>2. CASE OpenStore \/ StartPending \/ PendingDone
    <3>1. eng'.pc \in {"open", "pending", "idle"}
      <4>1. CASE OpenStore
        BY <4>1 DEF OpenStore, At
      <4>2. CASE StartPending
        BY <4>2 DEF StartPending, At
      <4>3. CASE PendingDone
        BY <4>3 DEF PendingDone, At
      <4> QED BY <2>2, <4>1, <4>2, <4>3
    <3> QED BY <3>1
  <2>3. ASSUME NEW j \in Jobs, ResumePending(j) PROVE eng'.pc # "applied"
    BY <2>3 DEF ResumePending, CallInv, EngineStates
  <2> QED BY <2>1, <2>2, <2>3 DEF BootStep
<1>2. current' = current
  BY DEF BootStep, OpenStore, RepairPointer, StartPending, ResumePending, PendingDone,
         RepairIdle
<1> QED BY <1>1, <1>2, <1>3, RuntimeStutters, NotAppliedStaysEmptied DEF RuntimeInv

LEMMA BeginKeepsEmptied ==
  ASSUME StoreInv, CleanedUp, NEW j \in Jobs, NEW i \in Intents, BeginRollout(j, i)
  PROVE  CleanedUp'
<1>1. PICK m \in BOOLEAN :
        wal' = [wal EXCEPT ![j] =
                  [intent |-> i, state |-> "prepared", terminalAt |-> 0,
                   error |-> "none", materialized |-> m]]
  BY DEF BeginRollout
<1>2. /\ wal'[j].state = "prepared" /\ runtime' = runtime
      /\ \A k \in Jobs \ {j} : wal'[k] = wal[k]
      /\ eng'.pc # "applied"
  BY <1>1 DEF BeginRollout, StoreInv, StoreTypeOK, At
<1> QED BY <1>2, StaysEmptied DEF Emptied, Active, Recorded, Op, Target

LEMMA EntryRuns ==
  ASSUME StoreInv, RuntimeInv, NEW j \in Jobs, NEW i \in Intents, ReconcileRollout(j, i)
  PROVE  RuntimeInv'
<1>1. CASE BeginRollout(j, i)
  BY <1>1, BeginKeepsLog, BeginKeepsRuns, BeginKeepsEmptied DEF RuntimeInv
<1>2. CASE ~BeginRollout(j, i)
  <2>1. UNCHANGED <<wal, current, runtime, clock>> /\ eng'.pc # "applied"
    BY <1>2 DEF ReconcileRollout, RefuseRollout, PreflightFails, ResumeRollout, Refusal, At
  <2> QED BY <2>1, RuntimeStutters, NotAppliedStaysEmptied DEF RuntimeInv
<1> QED BY <1>1, <1>2

LEMMA FaultRuns ==
  ASSUME CallInv, RuntimeInv, FaultStep \/ Collect
  PROVE  RuntimeInv'
<1>1. UNCHANGED <<wal, current, runtime, clock>>
  BY DEF FaultStep, StoreError, Crash, Collect
<1>2. eng'.pc # "applied"
  <2>1. CASE StoreError
    BY <2>1 DEF StoreError, Returned, At, CallInv, EngineStates
  <2>2. CASE Crash \/ Collect
    BY <2>2 DEF Crash, Collect, At
  <2> QED BY <2>1, <2>2 DEF FaultStep
<1> QED BY <1>1, <1>2, RuntimeStutters, NotAppliedStaysEmptied DEF RuntimeInv

LEMMA EngineInitRuns == EngineInit => RuntimeInv
<1> SUFFICES ASSUME EngineInit PROVE RuntimeInv
  OBVIOUS
<1>1. \A j \in Jobs : ~Recorded(j)
  BY DEF EngineInit, Recorded
<1> QED
  BY <1>1 DEF EngineInit, RuntimeInv, LogInv, CleanedUp, Emptied, Active, KnownGoodRuns,
              NoPointers

LEMMA EngineStepRuns ==
  ASSUME EngineInv, HistoryInv, RepairIdle, RuntimeInv, [EngineNext]_engineVars
  PROVE  RuntimeInv'
<1>1. CASE RolloutStep
  BY <1>1, RolloutStepRuns DEF EngineInv
<1>2. CASE BootStep
  BY <1>2, BootStepRuns DEF EngineInv
<1>3. CASE FaultStep \/ Collect
  BY <1>3, FaultRuns DEF EngineInv
<1>4. ASSUME NEW j \in Jobs, NEW i \in Intents, Submit(j, i)
      PROVE  RuntimeInv'
  BY <1>4, EntryRuns DEF EngineInv, Submit
<1>5. CASE UNCHANGED engineVars
  BY <1>5, RuntimeStutters, NotAppliedStaysEmptied DEF RuntimeInv, engineVars
<1> QED BY <1>1, <1>2, <1>3, <1>4, <1>5 DEF EngineNext, EngineStep

(* A target that no rollout is mutating and whose last rollout ended well  *)
(* runs exactly the snapshot known_good_current names.                     *)
THEOREM KnownGoodIsWhatRuns == EngineSpec => []KnownGoodRuns
<1>1. EngineInit => RuntimeInv
  BY EngineInitRuns
<1>2. EngineInv /\ HistoryInv /\ RepairIdle /\ RuntimeInv /\ [EngineNext]_engineVars
        => RuntimeInv'
  BY EngineStepRuns
<1>3. RuntimeInv => KnownGoodRuns
  BY DEF RuntimeInv
<1> QED BY <1>1, <1>2, <1>3, HistoryInvariance, PTL DEF EngineSpec
=============================================================================
