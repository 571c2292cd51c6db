---------------------------- MODULE ActionPlane ----------------------------
(***************************************************************************)
(* Actions a person approves on a running workload: restart, scale,        *)
(* gateway reconcile, incident resolve.  The CLI keeps device keys and     *)
(* signed grants in the OS secure store (cli/internal/commands/action.go), *)
(* Cloud keeps the devices (cloud/internal/actiondevice), and the Agent    *)
(* plans, reserves, executes and recovers actions over its SQLite store    *)
(* and Kubernetes (agent/internal/actionplane).  One user owns everything; *)
(* an Execute call runs concurrently with others and with the recovery     *)
(* loop, and the Agent may crash between any two of their steps.           *)
(***************************************************************************)
EXTENDS Naturals

CONSTANTS
  Actions,      \* actions preflighted in one behaviour
  Targets,      \* runtimes of services, by TargetIdentity.Key
  Devices,      \* approval devices
  Calls,        \* Execute calls under way at once
  MaxVersions,  \* bound: changes of a workload
  MaxFailures   \* bound: crashes, unreachable peers and lost answers

VARIABLES
  action,     \* action_plane_actions
  lock,       \* action_plane_target_locks (the action, or "free")
  device,     \* action_devices in Cloud
  keychain,   \* private keys and pending grants in the OS secure store
  expired,    \* actions whose challenge's ExpiresAt has passed
  workload,   \* the factual state of a target: its version
  call,       \* Execute calls
  recovery,   \* the recovery pass: the record it checked
  mutations,  \* history: executor runs of an action
  failures    \* crashes, unreachable peers and lost answers so far

actionPlaneVars ==
  <<action, lock, device, keychain, expired, workload, call, recovery,
    mutations, failures>>

Terminal == {"succeeded", "failed", "rejected"}
NoAction == [status |-> "none", target |-> "none", state |-> 0,
             consumed |-> FALSE, grant |-> "none", failure |-> "none"]
NoCall == [phase |-> "idle", action |-> "none", grant |-> "none",
           seen |-> "none"]
NoCheck == [action |-> "none", seen |-> "none",
            outcome |-> [status |-> "none", failure |-> "none"]]

Init ==
  /\ action = [a \in Actions |-> NoAction]
  /\ lock = [t \in Targets |-> "free"]
  /\ device = [d \in Devices |-> "absent"]
  /\ keychain = [keys |-> {}, pending |-> [a \in Actions |-> "none"]]
  /\ expired = {}
  /\ workload = [t \in Targets |-> 1]
  /\ call = [c \in Calls |-> NoCall]
  /\ recovery = NoCheck
  /\ mutations = [a \in Actions |-> 0]
  /\ failures = 0

Fail == failures < MaxFailures /\ failures' = failures + 1

StoreVars == <<action, lock>>
CliVars == <<device, keychain>>
RuntimeVars == <<workload, mutations>>

----------------------------------------------------------------------------
(* Devices: the CLI's commands and Cloud's rows *)

(* device register: Cloud's insert, then the key into the secure store; if *)
(* that fails the device is revoked again, if Cloud can be reached.        *)
Register(d) ==
  /\ device[d] = "absent"
  /\ \/ /\ device' = [device EXCEPT ![d] = "active"]
        /\ keychain' = [keychain EXCEPT !.keys = @ \cup {d}]
        /\ UNCHANGED failures
     \/ /\ Fail
        /\ \E status \in {"active", "revoked"} :
             device' = [device EXCEPT ![d] = status]
        /\ UNCHANGED keychain
  /\ UNCHANGED <<StoreVars, expired, RuntimeVars, call, recovery>>

(* device revoke: Cloud's row, then the local key, which may remain.       *)
Revoke(d) ==
  /\ device[d] = "active"
  /\ device' = [device EXCEPT ![d] = "revoked"]
  /\ \/ /\ keychain' = [keychain EXCEPT !.keys = @ \ {d}]
        /\ UNCHANGED failures
     \/ Fail /\ UNCHANGED keychain
  /\ UNCHANGED <<StoreVars, expired, RuntimeVars, call, recovery>>

(* handleAgentActionDevice: the Agent is told of active devices only.      *)
Resolves(d) == device[d] = "active"

----------------------------------------------------------------------------
(* Plans and approvals *)

(* Preflight: read the factual state and store plan and challenge.         *)
Preflight(a, t) ==
  /\ action[a] = NoAction
  /\ action' = [action EXCEPT ![a] =
       [NoAction EXCEPT !.status = "preflighted", !.target = t,
                        !.state = workload[t]]]
  /\ UNCHANGED <<lock, CliVars, expired, RuntimeVars, call, recovery,
                 failures>>

ChallengeExpires(a) ==
  /\ action[a] # NoAction /\ a \notin expired
  /\ expired' = expired \cup {a}
  /\ UNCHANGED <<StoreVars, CliVars, RuntimeVars, call, recovery, failures>>

(* approve: fetch the challenge, sign it if it is still valid, and keep    *)
(* the grant.  Signatures are deterministic: a device has one grant.       *)
Approve(a, d) ==
  /\ action[a] # NoAction /\ a \notin expired
  /\ d \in keychain.keys
  /\ keychain' = [keychain EXCEPT !.pending[a] = d]
  /\ UNCHANGED <<StoreVars, device, expired, RuntimeVars, call, recovery,
                 failures>>

----------------------------------------------------------------------------
(* The store's transactions *)

(* Faulty variant: the record's status is not compared.                    *)
CanCompleteAnyStatus(a, seen, grant) ==
  grant = "none" \/ action[a].grant \in {"none", grant}

(* Complete: a terminal record stays; the status the caller loaded must be *)
(* the current one.                                                        *)
CanComplete(a, seen, grant) ==
  /\ action[a].status = seen
  /\ \/ grant = "none"
     \/ action[a].grant \in {"none", grant}
Complete(a, seen, grant, result) ==
  IF action[a].status \in Terminal \/ ~CanComplete(a, seen, grant)
    THEN UNCHANGED StoreVars
    ELSE /\ action' = [action EXCEPT
              ![a].status = result.status, ![a].failure = result.failure,
              ![a].grant = IF grant # "none" THEN grant ELSE @]
         /\ lock' = [t \in Targets |->
                       IF lock[t] = a THEN "free" ELSE lock[t]]

Result(status, failure) == [status |-> status, failure |-> failure]
Rejected(failure) == Result("rejected", failure)

(* ReserveExecution: what the answer is, and the reservation itself.       *)
ReservationOf(a, grant) ==
  IF action[a].status \in Terminal
    THEN IF action[a].grant = grant THEN "replay" ELSE "conflict"
  ELSE IF action[a].grant \notin {"none", grant} THEN "conflict"
  ELSE IF action[a].status \in {"approved", "executing"}
            /\ action[a].grant = grant THEN "in_progress"
  ELSE IF action[a].status = "preflighted"
            /\ lock[action[a].target] # "free" THEN "locked"
  ELSE "acquired"

(* BeginExecution: consume the nonce of one's own reservation.             *)
CanBegin(a, grant) ==
  /\ action[a].status = "approved" /\ ~action[a].consumed
  /\ action[a].grant = grant
  /\ lock[action[a].target] = a

----------------------------------------------------------------------------
(* Execute *)

(* The call goes on; or it answers, and the CLI drops the grant of a       *)
(* terminal answer (if the secure store lets it) and keeps it otherwise.   *)
Step(c, phase) ==
  call' = [call EXCEPT ![c].phase = phase] /\ UNCHANGED keychain
Answer(c, result) ==
  /\ call' = [call EXCEPT ![c] = NoCall]
  /\ keychain' =
       IF result = "terminal"
         THEN [keychain EXCEPT !.pending[call[c].action] = "none"]
         ELSE keychain

(* execute: the CLI sends its pending grant; the Agent loads the record.   *)
Load(c, a) ==
  /\ call[c] = NoCall /\ keychain.pending[a] # "none"
  /\ call' = [call EXCEPT ![c] =
       [phase |-> "loaded", action |-> a, grant |-> keychain.pending[a],
        seen |-> action[a].status]]
  /\ UNCHANGED <<StoreVars, CliVars, expired, RuntimeVars, recovery,
                 failures>>

(* A terminal record answers at once, to the grant that ended it.          *)
Replay(c) ==
  /\ call[c].phase = "loaded" /\ call[c].seen \in Terminal
  /\ Answer(c, IF action[call[c].action].grant = call[c].grant
                 THEN "terminal" ELSE "none")
  /\ UNCHANGED <<StoreVars, device, expired, RuntimeVars, recovery,
                 failures>>

(* finish and rejectAndPersist: a stale transition is an error, after      *)
(* which the grant is kept.                                                *)
Persist(c, seen, result) ==
  LET a == call[c].action IN
  /\ Complete(a, seen, call[c].grant, result)
  /\ Answer(c, IF action[a].status \in Terminal
                  \/ CanComplete(a, seen, call[c].grant)
               THEN "terminal" ELSE "none")
Reject(c, failure) == Persist(c, call[c].seen, Rejected(failure))

Expired(c) ==
  /\ call[c].phase = "loaded" /\ call[c].seen \notin Terminal
  /\ call[c].action \in expired
  /\ Reject(c, "challenge_expired")
  /\ UNCHANGED <<device, expired, RuntimeVars, recovery, failures>>

ResolveDevice(c) ==
  /\ call[c].phase = "loaded" /\ call[c].seen \notin Terminal
  /\ call[c].action \notin expired
  /\ \/ /\ Resolves(call[c].grant)
        /\ Step(c, "resolved")
        /\ UNCHANGED <<StoreVars, failures>>
     \/ /\ ~Resolves(call[c].grant)
        /\ Reject(c, "device_unavailable")
        /\ UNCHANGED failures
     \/ /\ Fail
        /\ Reject(c, "device_unavailable")
  /\ UNCHANGED <<device, expired, RuntimeVars, recovery>>

Reserve(c) ==
  LET a == call[c].action
      outcome == ReservationOf(a, call[c].grant)
  IN /\ call[c].phase = "resolved"
     /\ \/ /\ outcome = "acquired"
           /\ action' = [action EXCEPT ![a].status = "approved",
                                       ![a].grant = call[c].grant]
           /\ lock' = [lock EXCEPT ![action[a].target] = a]
           /\ Step(c, "reserved")
        \/ /\ outcome = "locked"
           /\ Step(c, "locked")
           /\ UNCHANGED StoreVars
        \/ /\ outcome \in {"replay", "conflict", "in_progress"}
           /\ Answer(c, IF outcome = "replay" THEN "terminal" ELSE "none")
           /\ UNCHANGED StoreVars
     /\ UNCHANGED <<device, expired, RuntimeVars, recovery, failures>>

(* The target was another action's: reject this one.                       *)
FinishLocked(c) ==
  /\ call[c].phase = "locked"
  /\ Persist(c, "preflighted", Rejected("target_locked"))
  /\ UNCHANGED <<device, expired, RuntimeVars, recovery, failures>>

(* The recheck under the lock: the state is the approved one, or it is not *)
(* (rejected), or the workload is another's now (failed), or unavailable.  *)
Recheck(c) ==
  LET a == call[c].action
      fresh == workload[action[a].target] = action[a].state
  IN /\ call[c].phase = "reserved"
     /\ \/ /\ fresh
           /\ Step(c, "rechecked")
           /\ UNCHANGED <<StoreVars, failures>>
        \/ /\ ~fresh
           /\ Persist(c, "approved", Rejected("state_stale"))
           /\ UNCHANGED failures
        \/ /\ Fail
           /\ Persist(c, "approved", Result("failed", "execution_failed"))
        \/ /\ Fail
           /\ Answer(c, "none")
           /\ UNCHANGED StoreVars
     /\ UNCHANGED <<device, expired, RuntimeVars, recovery>>

Begin(c) ==
  LET a == call[c].action IN
  /\ call[c].phase = "rechecked"
  /\ \/ /\ CanBegin(a, call[c].grant)
        /\ action' = [action EXCEPT ![a].status = "executing",
                                    ![a].consumed = TRUE]
        /\ Step(c, "begun")
     \/ /\ ~CanBegin(a, call[c].grant)
        /\ Answer(c, IF action[a].status \in Terminal
                        /\ action[a].grant = call[c].grant
                     THEN "terminal" ELSE "none")
        /\ UNCHANGED action
  /\ UNCHANGED <<lock, device, expired, RuntimeVars, recovery, failures>>

(* executeTyped: one kubectl command, which may fail having done nothing.  *)
Mutate(c) ==
  LET a == call[c].action
      t == action[a].target
  IN /\ call[c].phase = "begun"
     /\ mutations' = [mutations EXCEPT ![a] = @ + 1]
     /\ \/ /\ workload[t] < MaxVersions
           /\ workload' = [workload EXCEPT ![t] = @ + 1]
           /\ UNCHANGED failures
        \/ Fail /\ UNCHANGED workload
     /\ Step(c, "executed")
     /\ UNCHANGED <<StoreVars, device, expired, recovery>>

(* PostCheck polls until the wanted state is there and ready (it may have  *)
(* been there before), or time is up; a state that cannot be read leaves   *)
(* the action executing.                                                   *)
Finish(c) ==
  /\ call[c].phase = "executed"
  /\ \/ /\ \E result \in {Result("succeeded", "none"),
                           Result("failed", "post_check_failed")} :
             Persist(c, "executing", result)
        /\ UNCHANGED failures
     \/ /\ Fail
        /\ Answer(c, "none")
        /\ UNCHANGED StoreVars
  /\ UNCHANGED <<device, expired, RuntimeVars, recovery>>

(* The CLI goes away: the call's context is cancelled, kubectl and the     *)
(* store's transactions with it, and the grant stays.                      *)
Cancel(c) ==
  /\ call[c] # NoCall
  /\ Fail
  /\ Answer(c, "none")
  /\ UNCHANGED <<StoreVars, device, expired, RuntimeVars, recovery>>

----------------------------------------------------------------------------
(* Recovery, every few seconds while the Agent runs *)

(* One of the Recoverable records: an approved one was interrupted; an     *)
(* executing one is resolved by a post-check that holds, or by a workload  *)
(* that is not Opsi's any more.  A post-check that does not hold runs into *)
(* the pass's own deadline, like a state that cannot be read, and leaves   *)
(* the record.  Listing and checking are one step: a listed record that    *)
(* has gone on since is refused by Complete whenever it was checked.       *)
CheckRecord(a) ==
  /\ recovery = NoCheck
  /\ \/ /\ action[a].status = "approved"
        /\ recovery' = [action |-> a, seen |-> "approved",
                         outcome |-> Rejected("interrupted_pre_mutation")]
        /\ UNCHANGED failures
     \/ /\ action[a].status = "executing"
        /\ recovery' = [action |-> a, seen |-> "executing",
                         outcome |-> Result("succeeded", "none")]
        /\ UNCHANGED failures
     \/ /\ action[a].status = "executing"
        /\ Fail
        /\ recovery' = [action |-> a, seen |-> "executing",
                         outcome |-> Result("failed", "execution_failed")]
  /\ UNCHANGED <<StoreVars, CliVars, expired, RuntimeVars, call>>

CompleteRecord ==
  /\ recovery # NoCheck
  /\ Complete(recovery.action, recovery.seen, "none", recovery.outcome)
  /\ recovery' = NoCheck
  /\ UNCHANGED <<CliVars, expired, RuntimeVars, call, failures>>

----------------------------------------------------------------------------
(* Faults and others *)

(* The Agent restarts: calls and the pass are gone, the store remains.     *)
Crash ==
  /\ Fail
  /\ call' = [c \in Calls |-> NoCall]
  /\ recovery' = NoCheck
  /\ UNCHANGED <<StoreVars, CliVars, expired, RuntimeVars>>

(* A rollout, or kubectl, changes the workload.                            *)
ChangeWorkload(t) ==
  /\ workload[t] < MaxVersions
  /\ workload' = [workload EXCEPT ![t] = @ + 1]
  /\ UNCHANGED <<StoreVars, CliVars, expired, call, recovery, mutations,
                 failures>>

----------------------------------------------------------------------------
People ==
  \/ \E d \in Devices : Register(d) \/ Revoke(d)
  \/ \E a \in Actions, t \in Targets : Preflight(a, t)
  \/ \E a \in Actions, d \in Devices : Approve(a, d)
  \/ \E a \in Actions, c \in Calls : Load(c, a)

ExecuteSteps(c) ==
  \/ Replay(c)
  \/ Expired(c)
  \/ ResolveDevice(c)
  \/ Reserve(c)
  \/ FinishLocked(c)
  \/ Recheck(c)
  \/ Begin(c)
  \/ Mutate(c)
  \/ Finish(c)
  \/ Cancel(c)

RecoverySteps ==
  \/ \E a \in Actions : CheckRecord(a)
  \/ CompleteRecord

Others ==
  \/ \E a \in Actions : ChallengeExpires(a)
  \/ \E t \in Targets : ChangeWorkload(t)
  \/ Crash

Next ==
  \/ People
  \/ \E c \in Calls : ExecuteSteps(c)
  \/ RecoverySteps
  \/ Others

Spec == Init /\ [][Next]_actionPlaneVars

----------------------------------------------------------------------------
(* Records, locks and calls hold values the code writes, and a lock is the *)
(* lock of an unfinished action on that target.                            *)
ActionTypeOK ==
  /\ \A a \in Actions :
       /\ action[a].status \in {"none", "preflighted", "approved",
                                "executing"} \cup Terminal
       /\ action[a].grant \in Devices \cup {"none"}
       /\ action[a].consumed \in BOOLEAN
  /\ \A t \in Targets :
       lock[t] # "free" =>
         /\ action[lock[t]].target = t
         /\ action[lock[t]].status \in {"approved", "executing"}
  /\ device \in [Devices -> {"absent", "active", "revoked"}]
  /\ failures \in 0..MaxFailures

(* The codes that say nothing was done to the workload.                    *)
BeforeMutation == {"target_locked", "state_stale", "interrupted_pre_mutation"}

(* Whatever calls, retries, recovery passes and crashes do, an action      *)
(* mutates its workload at most once, only with its nonce consumed under a *)
(* grant; a result that says the mutation was never reached is true, also  *)
(* of a call still under way; and no two unfinished actions hold a target  *)
(* (ReserveExecution, BeginExecution, Complete, Recover).                  *)
MutatedOnceAsApproved ==
  \A a \in Actions :
    /\ mutations[a] <= 1
    /\ mutations[a] = 1 => action[a].consumed /\ action[a].grant # "none"
    /\ action[a].failure \in BeforeMutation =>
         /\ mutations[a] = 0
         /\ \A c \in Calls : call[c].action = a =>
              call[c].phase \notin {"begun", "executed"}
    /\ action[a].status \in {"approved", "executing"} =>
         lock[action[a].target] = a

(* docs/current_state.md:225-230: an execution and its lock stay           *)
(* unresolved until factual state and a post-check prove a terminal        *)
(* result.  A begun action is thus never "rejected".                       *)
BegunIsResolvedFactually ==
  \A a \in Actions : action[a].consumed => action[a].status # "rejected"

=============================================================================
