------------------------------ MODULE Bootstrap ------------------------------
(* Bootstrap sessions of one host: Cloud's leased queue with checkpoints   *)
(* and retries, the SSH and command workers that carry out the plan, the   *)
(* registration of the new Agent, and the pinned host key.  All sessions   *)
(* target the same host and ask for its first server.                      *)
EXTENDS Integers, FiniteSets, FiniteSetsExt

CONSTANTS
  Sessions,      \* 1..n, in the order they are created
  Workers,       \* worker processes, and runners of bootstrap commands
  Steps,         \* length of the plan; the last step registers the Agent
  MaxAttempts,   \* leases before a session is dead-lettered
  HostKeys,      \* keys the host may present
  Plans,         \* 1..n, versions of the plan fingerprint
  MaxMishaps     \* crashes, lost messages, lapses and changes of the host

VARIABLES
  session,    \* table bootstrap_sessions
  vault,      \* sessions with a stored credential
  token,      \* the lease a session's unused registration token went to
  node,       \* status of the node row of each session
  agents,     \* sessions with an active Agent row
  worker,     \* what each worker process is doing (volatile)
  host,       \* the machine: its key, registered identity, completed steps
  trust,      \* the active host-key trust
  probe,      \* the latest host-key observation
  beats,      \* sessions whose Agent has reported a ready node
  plan,       \* the plan new worker processes are configured with
  mishaps

bootstrapVars ==
  <<session, vault, token, node, agents, worker, host, trust, probe, beats,
    plan, mishaps>>

None == "none"
NoProbe == [key |-> None, seen |-> None, status |-> None]

Leased == {"validating", "connecting", "installing", "waiting_agent",
           "verifying_agent", "verifying"}
Terminal == {"completed", "expired", "dead_letter"}
Waiting == {"pending", "waiting", "retry_wait", "waiting_host_key"}

NoSession ==
  [status |-> None, auth |-> "ssh", attempt |-> 0, lease |-> 0,
   live |-> FALSE, over |-> FALSE, next |-> -1, plan |-> 0, pin |-> None]
Idle ==
  [at |-> "idle", s |-> 1, lease |-> 0, next |-> -1, plan |-> 0,
   result |-> None]

Init ==
  /\ session = [s \in Sessions |-> NoSession]
  /\ vault = {}
  /\ token = [s \in Sessions |-> 0]
  /\ node = [s \in Sessions |-> None]
  /\ agents = {}
  /\ worker = [w \in Workers |-> Idle]
  /\ host = [key |-> CHOOSE k \in HostKeys : TRUE, marker |-> 0,
             done |-> [s \in Sessions |-> 0]]
  /\ trust = None
  /\ probe = NoProbe
  /\ beats = {}
  /\ plan = 1
  /\ mishaps = 0

Mishap == mishaps < MaxMishaps /\ mishaps' = mishaps + 1
Calm == UNCHANGED mishaps

-----------------------------------------------------------------------------
(* Host keys *)

(* A probe of the host, compared with the active trust.                    *)
CreateSSHHostKeyObservation ==
  /\ probe' = [key |-> host.key, status |-> "pending",
               seen |-> IF trust = None THEN "first_seen"
                        ELSE IF trust = host.key THEN "matched"
                        ELSE "changed"]
  /\ UNCHANGED <<session, vault, token, node, agents, worker, host, trust,
                 beats, plan, mishaps>>

(* The observed key replaces the active trust.                             *)
ConfirmSSHHostKeyRotation ==
  /\ probe.status \in {"pending", "confirmed"}
  /\ trust' = probe.key
  /\ probe' = [probe EXCEPT !.status = "confirmed"]
  /\ UNCHANGED <<session, vault, token, node, agents, worker, host, beats,
                 plan, mishaps>>

(* The host is reinstalled or its key replaced.                            *)
HostKeyChanges ==
  /\ Mishap
  /\ \E k \in HostKeys \ {host.key} : host' = [host EXCEPT !.key = k]
  /\ UNCHANGED <<session, vault, token, node, agents, worker, trust, probe,
                 beats, plan>>

ProbeExpires ==
  /\ probe # NoProbe /\ probe' = NoProbe
  /\ UNCHANGED <<session, vault, token, node, agents, worker, host, trust,
                 beats, plan, mishaps>>

-----------------------------------------------------------------------------
(* Creation: the host is tested before the transaction, the credential is  *)
(* stored after it.                                                        *)

validateBootstrap(s) ==
  /\ session[s].status = None
  /\ \A r \in Sessions : r < s => session[r].status # None
  /\ \A r \in Sessions : /\ session[r].status \notin
                               Leased \cup {"pending", "waiting"}
                         /\ node[r] # "healthy"
  /\ session' = [session EXCEPT ![s].status = "checked"]
  /\ UNCHANGED <<vault, token, node, agents, worker, host, trust, probe,
                 beats, plan, mishaps>>

(* Whether the observation allows a session to be pinned to its key.       *)
ProbeAccepted ==
  CASE probe.seen = "first_seen" -> trust = None
    [] probe.seen = "matched"    -> trust = probe.key
    [] probe.seen = "changed"    -> /\ probe.status = "confirmed"
                                    /\ trust = probe.key
    [] OTHER                     -> FALSE

CreateBootstrapSession(s) ==
  /\ session[s].status = "checked"
  /\ \/ /\ ProbeAccepted
        /\ trust' = probe.key
        /\ probe' = [probe EXCEPT !.status = "consumed"]
        /\ session' = [session EXCEPT ![s].status = "pending",
                                      ![s].pin = probe.key]
     \/ /\ session' = [session EXCEPT ![s].status = "waiting",
                                      ![s].auth = "command"]
        /\ UNCHANGED <<trust, probe>>
  /\ node' = [node EXCEPT ![s] = "pending"]
  /\ UNCHANGED <<vault, token, agents, worker, host, beats, plan, mishaps>>

(* The handler stores the credential, and a registration token nobody has  *)
(* been given, once the session is committed, and again whenever the       *)
(* request is repeated under its idempotency key.                          *)
handleBootstrapSessions(s) ==
  /\ session[s].status \notin {None, "checked"}
  /\ vault' = vault \cup {s}
  /\ token' = [token EXCEPT ![s] = 0]
  /\ UNCHANGED <<session, node, agents, worker, host, trust, probe, beats,
                 plan, mishaps>>

-----------------------------------------------------------------------------
(* Recovery of lapsed leases and expired sessions *)

Lapsed(s) ==
  session[s].status \in Leased /\ session[s].lease # 0 /\ ~session[s].live

Released(v, status) ==
  [v EXCEPT !.status = status, !.lease = 0, !.live = FALSE]

RecoveredSession(s) ==
  LET v == session[s]
  IN  CASE Lapsed(s) /\ v.over -> Released(v, "expired")
        [] Lapsed(s) /\ ~v.over /\ v.attempt >= MaxAttempts ->
             Released(v, "dead_letter")
        [] Lapsed(s) /\ ~v.over /\ v.attempt < MaxAttempts ->
             Released(v, "retry_wait")
        [] v.over /\ v.lease = 0 /\ v.status \in {"pending", "retry_wait"} ->
             Released(v, "expired")
        [] OTHER -> v

(* Faulty variant: the node is retired although its Agent is active.       *)
retireAnyNode(s, status) ==
  IF status \in {"dead_letter", "expired"}
     /\ node[s] \in {"pending", "agent_connecting"}
  THEN "removed" ELSE node[s]

(* The node of a session that ended is retired, unless an Agent runs.      *)
retireBootstrapNode(s, status) ==
  IF status \in {"dead_letter", "expired"}
     /\ node[s] \in {"pending", "agent_connecting"} /\ s \notin agents
  THEN "removed" ELSE node[s]

Ended(s) == RecoveredSession(s).status # session[s].status
            /\ RecoveredSession(s).status \in Terminal

RecoveredNode(s) ==
  IF Ended(s) THEN retireBootstrapNode(s, RecoveredSession(s).status)
  ELSE node[s]

(* A poll deletes the secrets of what it ended; a read of a session        *)
(* recovers as well and keeps them.                                        *)
recoverExpiredBootstrapLeases(clean) ==
  LET gone == {s \in Sessions : Ended(s)}
  IN  /\ session' = [s \in Sessions |-> RecoveredSession(s)]
      /\ node' = [s \in Sessions |-> RecoveredNode(s)]
      /\ IF clean
         THEN /\ vault' = vault \ gone
              /\ token' = [s \in Sessions |-> IF s \in gone THEN 0
                                              ELSE token[s]]
         ELSE UNCHANGED <<vault, token>>

Recover ==
  /\ \E s \in Sessions : RecoveredSession(s) # session[s]
  /\ \E clean \in BOOLEAN : recoverExpiredBootstrapLeases(clean)
  /\ UNCHANGED <<agents, worker, host, trust, probe, beats, plan, mishaps>>

-----------------------------------------------------------------------------
(* Leases.  A poll recovers first; here nothing is left to recover.        *)

Recovered == \A s \in Sessions : RecoveredSession(s) = session[s]

Tokens == 1..(Cardinality(Workers) + 2 * Cardinality(Sessions) + 1)
FreshToken ==
  CHOOSE t \in Tokens :
    /\ \A s \in Sessions : session[s].lease # t /\ token[s] # t
    /\ \A w \in Workers : worker[w].lease # t

LeasedSession(s) ==
  [session[s] EXCEPT !.status = "validating", !.lease = FreshToken,
                     !.live = TRUE, !.attempt = session[s].attempt + 1]

(* The worker is handed the session, or never hears of it.                 *)
HandOut(w, s) ==
  /\ session' = [session EXCEPT ![s] = LeasedSession(s)]
  /\ token' = [token EXCEPT ![s] = FreshToken]
  /\ \/ /\ worker' = [worker EXCEPT ![w] =
             [at |-> "leased", s |-> s, lease |-> FreshToken,
              next |-> session[s].next, plan |-> plan, result |-> None]]
        /\ Calm
     \/ Mishap /\ UNCHANGED worker
  /\ UNCHANGED <<node, agents, host, trust, probe, beats, plan>>

(* The oldest SSH session that waits; one in retry_wait may not be due.    *)
LeaseNextBootstrapSession(s) ==
  LET eligible == {r \in Sessions :
        /\ session[r].auth = "ssh" /\ session[r].lease = 0
        /\ ~session[r].over
        /\ session[r].status \in {"pending", "retry_wait"}}
  IN  /\ s \in eligible
      /\ \A r \in eligible : r < s => session[r].status = "retry_wait"

(* The status a session ends in, or waits in, after a worker's result.     *)
FinishedStatus(v, result) ==
  CASE result = "hostkey"   -> "waiting_host_key"
    [] result = "completed" -> "completed"
    [] result = "retry" /\ v.auth = "ssh" /\ v.attempt < MaxAttempts ->
         "retry_wait"
    [] OTHER -> "dead_letter"

(* The lease is finished before anybody is told of it.                     *)
failLeasedBootstrap(s, result) ==
  LET v == LeasedSession(s)
      status == FinishedStatus(v, result)
  IN  /\ session' = [session EXCEPT ![s] = Released(v, status)]
      /\ node' = [node EXCEPT ![s] = retireBootstrapNode(s, status)]
      /\ token' = [token EXCEPT ![s] = 0]
      /\ vault' = IF status = "retry_wait" THEN vault ELSE vault \ {s}
      /\ UNCHANGED <<agents, worker, host, trust, probe, beats, plan>>

(* Without a credential for good; to be retried when the registration      *)
(* token just stored cannot be read back.                                  *)
handleBootstrapWorkerLease(w, s) ==
  /\ worker[w] = Idle /\ Recovered
  /\ LeaseNextBootstrapSession(s)
  /\ IF s \in vault
     THEN \/ HandOut(w, s) /\ UNCHANGED vault
          \/ failLeasedBootstrap(s, "retry") /\ Mishap
     ELSE failLeasedBootstrap(s, "fatal") /\ Calm

(* A bootstrap command claims its session with the one-time token.         *)
handleBootstrapCommandClaim(w, s) ==
  /\ worker[w] = Idle /\ Recovered
  /\ session[s].auth = "command" /\ session[s].status = "waiting"
  /\ session[s].lease = 0 /\ ~session[s].over
  /\ s \in vault
  /\ \/ HandOut(w, s) /\ vault' = vault \ {s}
     \/ failLeasedBootstrap(s, "retry") /\ Mishap

(* validateBootstrapLease: the row still belongs to this worker's lease.   *)
validateBootstrapLease(w) ==
  LET v == session[worker[w].s]
  IN  /\ v.status \in Leased /\ ~v.over
      /\ v.lease = worker[w].lease /\ v.live

-----------------------------------------------------------------------------
(* The worker *)

Goes(w, at) == worker' = [worker EXCEPT ![w].at = at]
Ends(w, result) ==
  worker' = [worker EXCEPT ![w].at = "finish", ![w].result = result]
Fails(w) == \E result \in {"retry", "fatal"} : Ends(w, result)
Reports(w, status) ==
  session' = [session EXCEPT ![worker[w].s].status = status]

(* A progress report; one that fails, except for the loss of the lease, is *)
(* ignored.                                                                *)
Progress(w, status) ==
  \/ validateBootstrapLease(w) /\ Reports(w, status) /\ Calm
  \/ Mishap /\ UNCHANGED session

(* What Cloud answers to a checkpoint.                                     *)
validateBootstrapCheckpointTransition(v, next, p) ==
  CASE v.next = -1 /\ next = 0       -> "stored"
    [] v.next = -1 /\ next # 0       -> "invalid"
    [] v.next # -1 /\ v.plan # p     -> "mismatch"
    [] v.next # -1 /\ v.plan = p     ->
         IF next = v.next \/ next = v.next + 1 THEN "stored" ELSE "invalid"

(* One checkpoint request of the worker; its reply or itself may be lost.  *)
UpdateBootstrapCheckpointForLease(w, next, then) ==
  LET s == worker[w].s
      answer == validateBootstrapCheckpointTransition(
                  session[s], next, worker[w].plan)
      written == session' = [session EXCEPT ![s].next = next,
                                            ![s].plan = worker[w].plan]
  IN  \/ /\ validateBootstrapLease(w)
         /\ IF answer = "stored"
            THEN /\ written
                 /\ worker' = [worker EXCEPT ![w].at = then,
                                             ![w].next = next]
            ELSE Ends(w, "fatal") /\ UNCHANGED session
         /\ Calm
      \/ /\ Mishap /\ Ends(w, "retry")
         /\ \/ UNCHANGED session
            \/ validateBootstrapLease(w) /\ answer = "stored" /\ written

(* A bundle no plan can be made of is refused; the plan is compared with   *)
(* the checkpoint of the bundle.                                           *)
ValidateBootstrapCheckpoint(w) ==
  /\ worker[w].at = "leased"
  /\ \/ Ends(w, "fatal")
     \/ worker[w].next = -1 /\ Goes(w, "init")
     \/ /\ worker[w].next # -1
        /\ session[worker[w].s].plan = worker[w].plan
        /\ Goes(w, IF worker[w].next < Steps THEN "connect" ELSE "verify")
  /\ UNCHANGED <<session, mishaps>>

InitCheckpoint(w) ==
  /\ worker[w].at = "init"
  /\ UpdateBootstrapCheckpointForLease(w, 0, "connect")

(* The pinned key is compared; a command runs on the host itself.          *)
Connect(w) ==
  LET v == session[worker[w].s]
  IN  /\ worker[w].at = "connect"
      /\ Progress(w, "connecting")
      /\ IF v.auth = "ssh" /\ v.pin # host.key THEN Ends(w, "hostkey")
         ELSE Goes(w, "step") \/ Fails(w)

StartStep(w) ==
  /\ worker[w].at = "step"
  /\ Progress(w, "installing")
  /\ Goes(w, IF worker[w].next = Steps - 1 THEN "register" ELSE "run")

(* The command of a step succeeds or fails on the host.                    *)
RunStep(w) ==
  /\ \/ /\ worker[w].at = "run"
        /\ host' = [host EXCEPT !.done[worker[w].s] =
                      Max({host.done[worker[w].s], worker[w].next + 1})]
        /\ Goes(w, "check")
     \/ worker[w].at \in {"run", "register"} /\ Fails(w) /\ UNCHANGED host
  /\ UNCHANGED <<session, mishaps>>

CheckpointStep(w) ==
  /\ worker[w].at = "check"
  /\ UpdateBootstrapCheckpointForLease(w, worker[w].next + 1,
       IF worker[w].next + 1 < Steps THEN "step" ELSE "verify")

Verify(w) ==
  /\ worker[w].at = "verify"
  /\ Progress(w, "verifying_agent")
  /\ Goes(w, "await")

(* The status is polled until a heartbeat made it verifying, or the job    *)
(* times out.                                                              *)
WaitForHeartbeat(w) ==
  /\ worker[w].at = "await"
  /\ \/ /\ validateBootstrapLease(w)
        /\ session[worker[w].s].status = "verifying"
        /\ Ends(w, "completed")
     \/ Ends(w, "retry")
  /\ UNCHANGED <<session, mishaps>>

(* The heartbeat loop or the next request finds the lease gone.            *)
LeaseLost(w) ==
  /\ worker[w].at \notin {"idle", "insert", "confirm", "write"}
  /\ ~validateBootstrapLease(w)
  /\ worker' = [worker EXCEPT ![w] = Idle]
  /\ UNCHANGED <<session, mishaps>>

(* processLease, except for the steps that touch other tables.             *)
processLease(w) ==
  /\ \/ ValidateBootstrapCheckpoint(w) /\ UNCHANGED host
     \/ InitCheckpoint(w) /\ UNCHANGED host
     \/ Connect(w) /\ UNCHANGED host
     \/ StartStep(w) /\ UNCHANGED host
     \/ RunStep(w)
     \/ CheckpointStep(w) /\ UNCHANGED host
     \/ Verify(w) /\ UNCHANGED host
     \/ WaitForHeartbeat(w) /\ UNCHANGED host
     \/ LeaseLost(w) /\ UNCHANGED host
  /\ UNCHANGED <<vault, token, node, agents, trust, probe, beats, plan>>

(* The result of the job, with the secrets it ends.  A mismatch leaves an  *)
(* observation of the new key behind.                                      *)
FinishBootstrapSessionForLease(w) ==
  LET s == worker[w].s
      status == FinishedStatus(session[s], worker[w].result)
      over == status # "retry_wait"
  IN  /\ worker[w].at = "finish"
      /\ \/ /\ validateBootstrapLease(w)
            /\ session' = [session EXCEPT ![s] = Released(session[s], status)]
            /\ node' = [node EXCEPT ![s] = retireBootstrapNode(s, status)]
            /\ vault' = IF over THEN vault \ {s} ELSE vault
            /\ token' = IF over THEN [token EXCEPT ![s] = 0] ELSE token
            /\ probe' = IF status = "waiting_host_key"
                        THEN [key |-> host.key, seen |-> "changed",
                              status |-> "pending"]
                        ELSE probe
            /\ Calm
         \/ /\ Mishap
            /\ UNCHANGED <<session, node, vault, token, probe>>
      /\ worker' = [worker EXCEPT ![w] = Idle]
      /\ UNCHANGED <<agents, host, trust, beats, plan>>

-----------------------------------------------------------------------------
(* Registration: the last step of the plan calls Cloud from the host.  A   *)
(* host that carries an identity skips the call or refuses another's.      *)

KeepsIdentity(w) ==
  LET s == worker[w].s
  IN  /\ worker[w].at = "register" /\ host.marker # 0
      /\ IF host.marker = s
         THEN /\ host' = [host EXCEPT !.done[s] = Steps]
              /\ Goes(w, "check")
         ELSE Ends(w, "fatal") /\ UNCHANGED host
      /\ UNCHANGED <<session, token, node, agents, mishaps>>

(* The one-time token is used up; the session must be under a live lease.  *)
Exchange(w) ==
  LET s == worker[w].s
  IN  /\ worker[w].at = "register" /\ host.marker = 0
      /\ IF token[s] = worker[w].lease
         THEN /\ token' = [token EXCEPT ![s] = 0]
              /\ IF session[s].status \in Leased \cup {"pending"}
                    /\ session[s].live
                 THEN Goes(w, "insert") ELSE Ends(w, "retry")
         ELSE Ends(w, "retry") /\ UNCHANGED token
      /\ UNCHANGED <<session, node, agents, host, mishaps>>

(* One Agent per session: a second registration is refused.                *)
RegisterAgent(w) ==
  LET s == worker[w].s
  IN  /\ worker[w].at = "insert"
      /\ IF s \in agents
         THEN Ends(w, "retry") /\ UNCHANGED <<node, agents>>
         ELSE /\ agents' = agents \cup {s}
              /\ node' = [node EXCEPT ![s] = "agent_connecting"]
              /\ Goes(w, "confirm")
      /\ UNCHANGED <<session, token, host, mishaps>>

(* UpdateBootstrapSession reads the row ...                                *)
ReadBootstrapSession(w) ==
  LET v == session[worker[w].s]
  IN  /\ worker[w].at = "confirm"
      /\ IF v.status \in Leased /\ v.live THEN Goes(w, "write")
         ELSE Ends(w, "retry")
      /\ UNCHANGED <<session, token, node, agents, host, mishaps>>

(* ... and writes it whatever has become of it.  The reply carries the     *)
(* Agent's credential; if it is lost the host has none.  The Agent's       *)
(* service is set up after the identity is stored, and that may fail.      *)
UpdateBootstrapSession(w) ==
  LET s == worker[w].s
  IN  /\ worker[w].at = "write"
      /\ Reports(w, "waiting_agent")
      /\ \/ /\ host' = [host EXCEPT !.marker = s, !.done[s] = Steps]
            /\ Goes(w, "check") /\ Calm
         \/ host' = [host EXCEPT !.marker = s] /\ Fails(w) /\ Calm
         \/ Mishap /\ Fails(w) /\ UNCHANGED host
      /\ UNCHANGED <<token, node, agents>>

handleAgentRegister(w) ==
  /\ \/ KeepsIdentity(w) \/ Exchange(w) \/ RegisterAgent(w)
     \/ ReadBootstrapSession(w) \/ UpdateBootstrapSession(w)
  /\ UNCHANGED <<vault, trust, probe, beats, plan>>

(* The Agent on the host reports whether its node is ready.                *)
RecordAgentHeartbeat(s, ready) ==
  /\ host.marker = s /\ s \in agents
  /\ node' = [node EXCEPT ![s] = IF ready THEN "healthy"
                                 ELSE "agent_connecting"]
  /\ beats' = IF ready THEN beats \cup {s} ELSE beats
  /\ session' = IF ready /\ session[s].status \in Leased \cup {"pending"}
                THEN [session EXCEPT ![s].status = "verifying"]
                ELSE session
  /\ UNCHANGED <<vault, token, agents, worker, host, trust, probe, plan,
                 mishaps>>

-----------------------------------------------------------------------------
(* Operators *)

(* A dead-lettered session starts over with its checkpoint.  An SSH        *)
(* session needs its old credential, a command gets a new token.           *)
ManualRetryBootstrapSession(s) ==
  LET v == session[s]
  IN  /\ v.status = "dead_letter" /\ ~v.over
      /\ v.auth = "ssh" => s \in vault
      /\ node[s] \in {"pending", "removed"}
      /\ node[s] = "removed" => s \notin agents
      /\ node' = [node EXCEPT ![s] = "pending"]
      /\ session' = [session EXCEPT
           ![s].status = IF v.auth = "ssh" THEN "pending" ELSE "waiting",
           ![s].attempt = 0, ![s].lease = 0, ![s].live = FALSE]
      /\ vault' = vault \cup {s}
      /\ UNCHANGED <<token, agents, worker, host, trust, probe, beats, plan,
                     mishaps>>

(* A session that met another host key goes on with the confirmed one.     *)
ResumeBootstrapSession(s) ==
  /\ session[s].status = "waiting_host_key"
  /\ probe.status = "confirmed" /\ trust = probe.key
  /\ session' = [session EXCEPT ![s].status = "pending",
                                ![s].pin = trust, ![s].lease = 0,
                                ![s].live = FALSE]
  /\ vault' = vault \cup {s}
  /\ token' = [token EXCEPT ![s] = 0]
  /\ UNCHANGED <<node, agents, worker, host, trust, probe, beats, plan,
                 mishaps>>

(* A process dies; another version of the worker is rolled out.            *)
CrashWorker(w) ==
  /\ worker[w] # Idle /\ Mishap
  /\ worker' = [worker EXCEPT ![w] = Idle]
  /\ UNCHANGED <<session, vault, token, node, agents, host, trust, probe,
                 beats, plan>>

UpgradePlan ==
  /\ plan + 1 \in Plans /\ plan' = plan + 1
  /\ UNCHANGED <<session, vault, token, node, agents, worker, host, trust,
                 probe, beats, mishaps>>

(* Ninety seconds without a renewal: nobody holds the lease any more, or   *)
(* its worker cannot reach Cloud.                                          *)
LeaseLapses(s) ==
  /\ session[s].lease # 0 /\ session[s].live
  /\ IF session[s].over \/ \A w \in Workers :
          worker[w].lease # session[s].lease
     THEN Calm ELSE Mishap
  /\ session' = [session EXCEPT ![s].live = FALSE]
  /\ UNCHANGED <<vault, token, node, agents, worker, host, trust, probe,
                 beats, plan>>

(* Thirty minutes after its creation.                                      *)
SessionExpires(s) ==
  /\ session[s].status \notin {None, "checked"} \cup Terminal
  /\ ~session[s].over
  /\ session' = [session EXCEPT ![s].over = TRUE]
  /\ vault' = vault \ {s}
  /\ token' = [token EXCEPT ![s] = 0]
  /\ UNCHANGED <<node, agents, worker, host, trust, probe, beats, plan,
                 mishaps>>

Queue ==
  \/ Recover
  \/ \E w \in Workers, s \in Sessions :
       \/ handleBootstrapWorkerLease(w, s)
       \/ handleBootstrapCommandClaim(w, s)

WorkerSteps ==
  \E w \in Workers :
    processLease(w) \/ FinishBootstrapSessionForLease(w)
    \/ handleAgentRegister(w) \/ CrashWorker(w)

Clients ==
  \/ \E s \in Sessions :
       \/ validateBootstrap(s) \/ CreateBootstrapSession(s)
       \/ handleBootstrapSessions(s)
       \/ ManualRetryBootstrapSession(s) \/ ResumeBootstrapSession(s)
  \/ CreateSSHHostKeyObservation \/ ConfirmSSHHostKeyRotation

Environment ==
  \/ \E s \in Sessions, ready \in BOOLEAN : RecordAgentHeartbeat(s, ready)
  \/ \E s \in Sessions : LeaseLapses(s) \/ SessionExpires(s)
  \/ HostKeyChanges \/ ProbeExpires \/ UpgradePlan

Next == Queue \/ WorkerSteps \/ Clients \/ Environment

Spec == Init /\ [][Next]_bootstrapVars

-----------------------------------------------------------------------------
Statuses == {None, "checked"} \cup Leased \cup Terminal \cup Waiting

(* Rows and processes hold values the code writes.                         *)
BootstrapTypeOK ==
  /\ session \in [Sessions ->
       [status : Statuses, auth : {"ssh", "command"},
        attempt : 0..(MaxAttempts + MaxMishaps), lease : {0} \cup Tokens,
        live : BOOLEAN, over : BOOLEAN, next : -1..Steps,
        plan : {0} \cup Plans, pin : HostKeys \cup {None}]]
  /\ vault \subseteq Sessions /\ agents \subseteq Sessions
  /\ token \in [Sessions -> {0} \cup Tokens]
  /\ node \in [Sessions -> {None, "pending", "agent_connecting", "healthy",
                            "removed"}]

(* What a session says of its host is so, through lapsed leases, lost      *)
(* replies, retries, two workers at one session and two sessions of one    *)
(* host: a persisted checkpoint lies behind what the host has completed, a *)
(* completed session has carried out the whole plan and has a registered   *)
(* Agent that reported a ready node, and no node is retired under an       *)
(* active Agent.  The host carries the identity of the completed session   *)
(* if no other session registered an Agent for it; two sessions installed  *)
(* side by side may each complete, and the later identity stays.           *)
BootstrapIsFactual ==
  \A s \in Sessions :
    /\ session[s].next <= host.done[s]
    /\ session[s].status = "completed" =>
         /\ s \in agents \cap beats /\ host.done[s] = Steps
         /\ agents = {s} => host.marker = s
    /\ node[s] = "removed" => s \notin agents
=============================================================================
