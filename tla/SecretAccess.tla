---------------------------- MODULE SecretAccess ----------------------------
(***************************************************************************)
(* Revealing and rotating the secret of a workload through the Agent.      *)
(* Both need a second factor: a one-time code Cloud keeps in PostgreSQL    *)
(* and sends by mail, verified by the Agent over HTTP with a timeout, or,  *)
(* when that fails, a code of the authenticator the person set up.  A      *)
(* rotation then writes the secret to Kubernetes and, if the Agent is      *)
(* configured to, restarts the workload, which reads it when it starts.    *)
(***************************************************************************)
EXTENDS Naturals

CONSTANTS
  Calls,         \* reveals and rotations under way
  Codes,         \* one-time codes requested
  Limit,         \* requests of a code per window
  MaxSecrets,    \* bound: secrets and authenticator seeds generated
  MaxMishaps     \* bound: expiries, timeouts, failures, restarts

VARIABLES
  code,          \* otp_requests: the status of each code
  attempts,      \* Cloud's in-memory count of requests in the window
  seedMemory,    \* the authenticator seed in the Agent's memory, or 0
  seedStored,    \* the one in its Kubernetes Secret
  seedHeld,      \* the one the person's authenticator has
  secretStored,  \* the workload's Secret: which version
  running,       \* the version the workload read when it started
  rolling,       \* the version stored when its restart began, or 0
  restarts,      \* RolloutRestartOnRotate of the Agent's configuration
  generated,     \* versions and seeds generated so far
  request,       \* the calls
  accepted,      \* history: the calls each code let through
  troubles

secretVars ==
  <<code, attempts, seedMemory, seedStored, seedHeld, secretStored, running,
    rolling, restarts, generated, request, accepted, troubles>>

NoRequest == [phase |-> "none", kind |-> "none", code |-> "none", seed |-> 0,
              value |-> 0]

Init ==
  /\ code = [k \in Codes |-> "none"]
  /\ attempts = 0
  /\ seedMemory = 0 /\ seedStored = 0 /\ seedHeld = 0
  /\ secretStored = 1 /\ running = 1 /\ rolling = 0
  /\ restarts \in BOOLEAN
  /\ generated = 1
  /\ request = [c \in Calls |-> NoRequest]
  /\ accepted = [k \in Codes |-> {}]
  /\ troubles = 0

Trouble == troubles < MaxMishaps /\ troubles' = troubles + 1
Seeds == <<seedMemory, seedStored, seedHeld>>
Workload == <<secretStored, running, rolling, restarts>>
Goes(c, phase) == request' = [request EXCEPT ![c].phase = phase]
Fresh == generated < MaxSecrets /\ generated' = generated + 1

----------------------------------------------------------------------------
(* Cloud *)

(* RequestOTP under the service's mutex: the attempt counts, the code is   *)
(* stored and then mailed; a mail that fails leaves the code stored.       *)
RequestOTP(k) ==
  /\ code[k] = "none" /\ attempts < Limit
  /\ attempts' = attempts + 1
  /\ code' = [code EXCEPT ![k] = "unused"]
  /\ UNCHANGED <<Seeds, Workload, generated, request, accepted, troubles>>

(* allowLocked: the window passes, or Cloud restarts and forgets it.       *)
WindowPasses ==
  /\ attempts > 0 /\ attempts' = 0 /\ Trouble
  /\ UNCHANGED <<code, Seeds, Workload, generated, request, accepted>>

CodeExpires(k) ==
  /\ code[k] = "unused" /\ code' = [code EXCEPT ![k] = "expired"]
  /\ Trouble
  /\ UNCHANGED <<attempts, Seeds, Workload, generated, request, accepted>>

(* verifyStoredOTP reads the row and checks it ...                         *)
VerifyStoredOTP(c) ==
  /\ request[c].phase = "sent"
  /\ Goes(c, IF code[request[c].code] = "unused" THEN "checked"
                                                 ELSE "refused")
  /\ UNCHANGED <<code, attempts, Seeds, Workload, generated, accepted,
                 troubles>>

(* Faulty variant: the row is updated whether or not it was used since.    *)
MarkUsedAgain(c) ==
  LET k == request[c].code IN
  /\ request[c].phase = "checked"
  /\ code' = [code EXCEPT ![k] = "used"]
  /\ accepted' = [accepted EXCEPT ![k] = @ \cup {c}]
  /\ Goes(c, "verified")
  /\ UNCHANGED <<attempts, Seeds, Workload, generated, troubles>>

(* ... and MarkUsed decides: only the first to find it unused succeeds.    *)
(* The check of the expiry was before.                                     *)
MarkUsed(c) ==
  LET k == request[c].code IN
  /\ request[c].phase = "checked"
  /\ IF code[k] = "used"
       THEN Goes(c, "refused") /\ UNCHANGED <<code, accepted>>
       ELSE /\ code' = [code EXCEPT ![k] = "used"]
            /\ accepted' = [accepted EXCEPT ![k] = @ \cup {c}]
            /\ Goes(c, "verified")
  /\ UNCHANGED <<attempts, Seeds, Workload, generated, troubles>>

----------------------------------------------------------------------------
(* The Agent *)

(* Reveal or Rotate arrives with a code, an authenticator code, or both.   *)
Start(c, kind, k, withSeed) ==
  /\ request[c].phase = "none"
  /\ k # "none" => code[k] # "none"
  /\ request' = [request EXCEPT ![c] =
       [phase |-> IF k = "none" THEN "refused" ELSE "sent", kind |-> kind,
        code |-> k, seed |-> IF withSeed THEN seedHeld ELSE 0, value |-> 0]]
  /\ UNCHANGED <<code, attempts, Seeds, Workload, generated, accepted,
                 troubles>>

(* The answer of Cloud is late: the code may have been used all the same.  *)
VerifyTimesOut(c) ==
  /\ request[c].phase \in {"sent", "checked"} /\ Goes(c, "refused")
  /\ code' \in {code, [code EXCEPT ![request[c].code] =
                         IF @ = "unused" THEN "used" ELSE @]}
  /\ Trouble
  /\ UNCHANGED <<attempts, Seeds, Workload, generated, accepted>>

(* verifySecondFactor after Cloud refused: the seed in memory, or, when    *)
(* there is none, the stored one, which is then remembered.                *)
VerifyTOTP(c) ==
  LET seed == IF seedMemory # 0 THEN seedMemory ELSE seedStored IN
  /\ request[c].phase = "refused"
  /\ seedMemory' = seed
  /\ Goes(c, IF seed # 0 /\ request[c].seed = seed THEN "verified"
                                                   ELSE "failed")
  /\ UNCHANGED <<code, attempts, seedStored, seedHeld, Workload, generated,
                 accepted, troubles>>

(* SetupTOTP remembers the seed before it stores it; a person who is       *)
(* answered an error never sees it.                                        *)
SetupTOTP ==
  /\ Fresh /\ seedMemory' = generated + 1
  /\ \/ /\ seedStored' = generated + 1 /\ seedHeld' = generated + 1
        /\ UNCHANGED troubles
     \/ Trouble /\ UNCHANGED <<seedStored, seedHeld>>
  /\ UNCHANGED <<code, attempts, Workload, request, accepted>>

Reveal(c) ==
  /\ request[c].phase = "verified" /\ request[c].kind = "reveal"
  /\ request' = [request EXCEPT ![c].phase = "answered",
                                ![c].value = secretStored]
  /\ UNCHANGED <<code, attempts, Seeds, Workload, generated, accepted,
                 troubles>>

(* Rotate: the new credentials are stored; an apply that is answered by an *)
(* error may have stored them all the same ...                             *)
RotatePut(c) ==
  /\ request[c].phase = "verified" /\ request[c].kind = "rotate"
  /\ Fresh
  /\ \/ /\ secretStored' = generated + 1
        /\ request' = [request EXCEPT ![c].phase = "stored",
                                      ![c].value = generated + 1]
        /\ UNCHANGED troubles
     \/ /\ secretStored' \in {secretStored, generated + 1}
        /\ Trouble /\ Goes(c, "failed")
  /\ UNCHANGED <<code, attempts, Seeds, running, rolling, restarts, accepted>>

(* ... and, unless the Agent has no restarter, the pods are replaced; what *)
(* fails from here on is answered as a failed rotation, with the new       *)
(* secret stored.                                                          *)
RolloutRestart(c) ==
  /\ request[c].phase = "stored"
  /\ \/ ~restarts /\ Goes(c, "answered") /\ UNCHANGED <<rolling, troubles>>
     \/ /\ restarts /\ rolling' = secretStored
        /\ Goes(c, "restarting") /\ UNCHANGED troubles
     \/ /\ restarts /\ rolling' \in {rolling, secretStored}
        /\ Goes(c, "failed") /\ Trouble
  /\ UNCHANGED <<code, attempts, Seeds, secretStored, running, restarts,
                 generated, accepted>>

(* A pod reads the secret as it is when the pod starts.                    *)
PodsRestart ==
  /\ rolling # 0
  /\ running' \in rolling..secretStored /\ rolling' = 0
  /\ UNCHANGED <<code, attempts, Seeds, secretStored, restarts, generated,
                 request, accepted, troubles>>

(* kubectl waits until no restart is under way, or gives up.               *)
RolloutStatus(c) ==
  /\ request[c].phase = "restarting"
  /\ \/ rolling = 0 /\ Goes(c, "answered") /\ UNCHANGED troubles
     \/ Trouble /\ Goes(c, "failed")
  /\ UNCHANGED <<code, attempts, Seeds, Workload, generated, accepted>>

(* The Agent restarts: the seed in memory and the calls are gone.          *)
AgentRestart ==
  /\ Trouble /\ seedMemory' = 0
  /\ request' = [c \in Calls |->
       IF request[c].phase \in {"none", "answered", "failed"} THEN request[c]
       ELSE [request[c] EXCEPT !.phase = "failed"]]
  /\ UNCHANGED <<code, attempts, seedStored, seedHeld, Workload, generated,
                 accepted>>

CodeSteps ==
  \/ \E k \in Codes : RequestOTP(k) \/ CodeExpires(k)
  \/ WindowPasses
  \/ \E c \in Calls : VerifyStoredOTP(c) \/ MarkUsed(c)

AgentSteps ==
  \/ \E c \in Calls, kind \in {"reveal", "rotate"},
        k \in Codes \cup {"none"}, s \in BOOLEAN : Start(c, kind, k, s)
  \/ \E c \in Calls :
       \/ VerifyTimesOut(c) \/ VerifyTOTP(c) \/ Reveal(c) \/ RotatePut(c)
       \/ RolloutRestart(c) \/ RolloutStatus(c)
  \/ SetupTOTP \/ AgentRestart \/ PodsRestart

Next == CodeSteps \/ AgentSteps
Spec == Init /\ [][Next]_secretVars

----------------------------------------------------------------------------
(* A one-time code lets at most one call through, however the calls that   *)
(* were given it interleave between reading the row and marking it.        *)
CodesWorkOnce == \A k \in Codes : \A c, d \in accepted[k] : c = d

(* A rotation that was answered has its credentials, or later ones, stored *)
(* and, if the Agent restarts workloads, in the running one, however       *)
(* rotations overlap with each other's restarts.                           *)
RotatedIsRunning ==
  \A c \in Calls :
    request[c].phase = "answered" /\ request[c].kind = "rotate" =>
      /\ secretStored >= request[c].value
      /\ restarts => running >= request[c].value

SecretsHonoured == CodesWorkOnce /\ RotatedIsRunning
=============================================================================
