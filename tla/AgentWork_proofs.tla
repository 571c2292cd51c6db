-------------------------- MODULE AgentWork_proofs --------------------------
(***************************************************************************)
(* Proofs about what Agents do for Cloud and for people beside             *)
(* deployments: for any number of requests, ids, leases and faults.        *)
(***************************************************************************)
EXTENDS MCAgentWork, TLAPS

----------------------------------------------------------------------------
(* Secrets of workloads                                                    *)

AskRows ==
  [phase: {"none", "sent", "checked", "refused", "verified", "stored", "answered",
           "restarting", "failed"},
   kind: {"none", "reveal", "rotate"}, code: Codes \cup {"none"}, seed: Nat, value: Nat]

(* The version that runs once the pods are replaced.                       *)
Coming == IF rolling = 0 THEN running ELSE rolling

(* What a call may say of the secret that is stored, of the one that will  *)
(* run and of the one that runs, where workloads are restarted.            *)
AskInv(r, stored, comes, runs, on) ==
  /\ r.phase \in {"stored", "restarting"} => r.value <= stored
  /\ r.phase = "restarting" => on /\ r.value <= comes
  /\ r.phase = "answered" /\ r.kind = "rotate" =>
       r.value <= stored /\ (on => r.value <= runs)

SecretRows ==
  /\ asked \in [Clients -> AskRows] /\ accepted \in [Codes -> SUBSET Clients]
  /\ code \in [Codes -> {"none", "unused", "expired", "used"}]
  /\ seedMemory \in Nat /\ seedStored \in Nat /\ seedHeld \in Nat
  /\ generated \in Nat /\ secretStored \in Nat /\ running \in Nat
  /\ rolling \in Nat /\ restarts \in BOOLEAN
  /\ running <= Coming /\ Coming <= secretStored /\ secretStored <= generated

SecretsInv ==
  /\ SecretRows /\ Secrets!CodesWorkOnce
  /\ \A k \in Codes : accepted[k] # {} => code[k] = "used"
  /\ \A c \in Clients : AskInv(asked[c], secretStored, Coming, running, restarts)
SecretsHold == part = "secrets" => SecretsInv

LEMMA SecretsInitInv == ASSUME Secrets!Init PROVE SecretsInv
BY DEF Secrets!Init, Secrets!NoRequest, SecretsInv, SecretRows, AskRows, AskInv,
       Secrets!CodesWorkOnce, Coming

(* A call changes; versions only grow.                                     *)
LEMMA CallGoes ==
  ASSUME SecretsInv, NEW c \in Clients, NEW r \in AskRows,
         asked' = [asked EXCEPT ![c] = r],
         UNCHANGED <<seedStored, seedHeld, restarts>>,
         seedMemory' \in Nat, generated' \in Nat, secretStored' \in Nat, running' \in Nat,
         rolling' \in Nat, running <= running', secretStored <= secretStored',
         Coming <= Coming', running' <= Coming', Coming' <= secretStored',
         secretStored' <= generated',
         AskInv(r, secretStored', Coming', running', restarts),
         accepted' \in [Codes -> SUBSET Clients], Secrets!CodesWorkOnce',
         code' \in [Codes -> {"none", "unused", "expired", "used"}],
         \A k \in Codes : accepted'[k] # {} => code'[k] = "used"
  PROVE  SecretsInv'
<1>1. SecretRows'
  BY DEF SecretsInv, SecretRows
<1>2. ASSUME NEW d \in Clients PROVE AskInv(asked'[d], secretStored', Coming', running', restarts)
  <2>1. asked[d] \in AskRows /\ AskInv(asked[d], secretStored, Coming, running, restarts)
        /\ asked'[d] = IF d = c THEN r ELSE asked[d]
    BY DEF SecretsInv, SecretRows
  <2>2. /\ running \in Nat /\ secretStored \in Nat /\ Coming \in Nat /\ Coming' \in Nat
    BY DEF SecretsInv, SecretRows, Coming
  <2>3. CASE d = c
    BY <2>1, <2>3
  <2>4. CASE d # c
    BY <2>1, <2>2, <2>4 DEF AskInv, AskRows
  <2> QED BY <2>3, <2>4
<1> QED BY <1>1, <1>2 DEF SecretsInv

LEMMA VersionsStand ==
  ASSUME SecretRows, UNCHANGED <<secretStored, generated, running>>,
         rolling' \in {rolling, secretStored}
  PROVE  /\ running' \in Nat /\ secretStored' \in Nat /\ generated' \in Nat
         /\ rolling' \in Nat
         /\ running <= running' /\ secretStored <= secretStored' /\ Coming <= Coming'
         /\ running' <= Coming' /\ Coming' <= secretStored' /\ secretStored' <= generated'
BY DEF SecretRows, Coming

(* Only the phase of a call changes, to one that promises nothing.         *)
LEMMA CallMoves ==
  ASSUME SecretsInv, NEW c \in Clients,
         NEW p \in {"sent", "checked", "refused", "verified", "failed"},
         Secrets!Goes(c, p),
         UNCHANGED <<seedStored, seedHeld, running, restarts>>,
         rolling' \in {rolling, secretStored},
         seedMemory' \in Nat, generated' \in Nat, secretStored' \in Nat,
         secretStored <= secretStored', secretStored' <= generated',
         accepted' \in [Codes -> SUBSET Clients], Secrets!CodesWorkOnce',
         code' \in [Codes -> {"none", "unused", "expired", "used"}],
         \A k \in Codes : accepted'[k] # {} => code'[k] = "used"
  PROVE  SecretsInv'
<1> DEFINE r == [asked[c] EXCEPT !.phase = p]
<1>1. asked' = [asked EXCEPT ![c] = r] /\ asked[c] \in AskRows
  BY DEF Secrets!Goes, SecretsInv, SecretRows
<1>2. r \in AskRows /\ r.phase = p
  BY <1>1 DEF AskRows
<1> HIDE DEF r
<1>3. AskInv(r, secretStored', Coming', running', restarts)
  BY <1>2 DEF AskInv
<1>4. /\ running \in Nat /\ rolling \in Nat /\ secretStored \in Nat
      /\ running <= Coming /\ Coming <= secretStored
  BY DEF SecretsInv, SecretRows
<1>5. /\ running' \in Nat /\ rolling' \in Nat /\ running <= running'
      /\ Coming <= Coming' /\ running' <= Coming' /\ Coming' <= secretStored'
  BY <1>4 DEF Coming
<1> QED BY <1>1, <1>2, <1>3, <1>5, CallGoes

(* Codes change, no call does, and no used one becomes anything else.      *)
LEMMA CodesMove ==
  ASSUME SecretsInv,
         UNCHANGED <<seedMemory, seedStored, seedHeld, secretStored, running, rolling, restarts,
                     generated, asked, accepted>>,
         NEW k \in Codes, NEW s \in {"unused", "expired"}, code[k] \in {"none", "unused"},
         code' = [code EXCEPT ![k] = s]
  PROVE  SecretsInv'
<1>1. /\ code' \in [Codes -> {"none", "unused", "expired", "used"}]
      /\ \A x \in Codes : code[x] = "used" => code'[x] = "used"
  BY DEF SecretsInv, SecretRows
<1>2. SecretRows'
  BY <1>1 DEF SecretsInv, SecretRows, Coming
<1> QED BY <1>1, <1>2 DEF SecretsInv, Secrets!CodesWorkOnce, Coming

(* MarkUsed takes a code only if nobody was let through before.            *)
LEMMA MarkUsedInv ==
  ASSUME SecretsInv, NEW c \in Clients, Secrets!MarkUsed(c) PROVE SecretsInv'
<1> DEFINE k == asked[c].code
<1>1. UNCHANGED <<seedMemory, seedStored, seedHeld, secretStored, running, rolling, restarts,
                  generated>>
  BY DEF Secrets!MarkUsed, Secrets!Seeds, Secrets!Workload
<1>2. /\ secretStored \in Nat /\ generated \in Nat /\ secretStored <= generated
      /\ seedMemory \in Nat
  BY DEF SecretsInv, SecretRows
<1>3. CASE code[k] = "used"
  <2>1. Secrets!Goes(c, "refused") /\ UNCHANGED <<code, accepted>>
    BY <1>3 DEF Secrets!MarkUsed
  <2> QED BY <1>1, <1>2, <2>1, CallMoves
          DEF SecretsInv, SecretRows, Secrets!CodesWorkOnce
<1>4. CASE code[k] # "used"
  <2>1. /\ code' = [code EXCEPT ![k] = "used"]
        /\ accepted' = [accepted EXCEPT ![k] = @ \cup {c}]
        /\ Secrets!Goes(c, "verified")
    BY <1>4 DEF Secrets!MarkUsed
  <2> HIDE DEF k
  <2>2. /\ \A x \in Codes : code'[x] = IF x = k THEN "used" ELSE code[x]
        /\ \A x \in Codes : accepted'[x] = IF x = k THEN {c} ELSE accepted[x]
        /\ code' \in [Codes -> {"none", "unused", "expired", "used"}]
        /\ accepted' \in [Codes -> SUBSET Clients]
    BY <1>4, <2>1 DEF SecretsInv, SecretRows
  <2>3. Secrets!CodesWorkOnce'
    BY <2>2 DEF SecretsInv, Secrets!CodesWorkOnce
  <2>4. \A x \in Codes : accepted'[x] # {} => code'[x] = "used"
    BY <2>2 DEF SecretsInv
  <2> QED BY <1>1, <1>2, <2>1, <2>2, <2>3, <2>4, CallMoves
<1> QED BY <1>3, <1>4

LEMMA CodeStepsInv == ASSUME SecretsInv, Secrets!CodeSteps PROVE SecretsInv'
<1>1. ASSUME NEW k \in Codes, Secrets!RequestOTP(k) \/ Secrets!CodeExpires(k)
      PROVE  SecretsInv'
  BY <1>1, CodesMove
     DEF Secrets!RequestOTP, Secrets!CodeExpires, Secrets!Seeds, Secrets!Workload
<1>2. CASE Secrets!WindowPasses
  BY <1>2 DEF Secrets!WindowPasses, Secrets!Seeds, Secrets!Workload, SecretsInv,
              SecretRows, Secrets!CodesWorkOnce, Coming
<1>3. ASSUME NEW c \in Clients, Secrets!VerifyStoredOTP(c) PROVE SecretsInv'
  <2>1. /\ UNCHANGED <<code, seedMemory, seedStored, seedHeld, secretStored, running,
                       rolling, restarts, generated, accepted>>
        /\ Secrets!Goes(c, "checked") \/ Secrets!Goes(c, "refused")
    BY <1>3 DEF Secrets!VerifyStoredOTP, Secrets!Seeds, Secrets!Workload
  <2>2. /\ secretStored \in Nat /\ generated \in Nat /\ secretStored <= generated
        /\ seedMemory \in Nat
        /\ code \in [Codes -> {"none", "unused", "expired", "used"}]
        /\ accepted \in [Codes -> SUBSET Clients] /\ Secrets!CodesWorkOnce'
        /\ \A k \in Codes : accepted[k] # {} => code[k] = "used"
    BY <2>1 DEF SecretsInv, SecretRows, Secrets!CodesWorkOnce
  <2> QED BY <2>1, <2>2, CallMoves
<1> QED BY <1>1, <1>2, <1>3, MarkUsedInv DEF Secrets!CodeSteps

LEMMA StartInv ==
  ASSUME SecretsInv, NEW c \in Clients, NEW kind \in {"reveal", "rotate"},
         NEW k \in Codes \cup {"none"}, NEW s \in BOOLEAN, Secrets!Start(c, kind, k, s)
  PROVE  SecretsInv'
<1> DEFINE p == IF k = "none" THEN "refused" ELSE "sent"
           x == IF s THEN seedHeld ELSE 0
           r == [phase |-> p, kind |-> kind, code |-> k, seed |-> x, value |-> 0]
<1>1. /\ asked' = [asked EXCEPT ![c] = r]
      /\ UNCHANGED <<code, seedMemory, seedStored, seedHeld, secretStored, running,
                     rolling, restarts, generated, accepted>>
  BY DEF Secrets!Start, Secrets!Seeds, Secrets!Workload
<1>2. p \in {"refused", "sent"} /\ x \in Nat
  BY DEF SecretsInv, SecretRows
<1> HIDE DEF p, x
<1>3. r \in AskRows /\ AskInv(r, secretStored', Coming', running', restarts)
  BY <1>2 DEF AskRows, AskInv
<1> HIDE DEF r
<1>4. /\ SecretRows /\ Secrets!CodesWorkOnce'
      /\ \A y \in Codes : accepted[y] # {} => code[y] = "used"
  BY <1>1 DEF SecretsInv, Secrets!CodesWorkOnce
<1> QED BY <1>1, <1>3, <1>4, VersionsStand, CallGoes DEF SecretRows

LEMMA VerifyTimesOutInv ==
  ASSUME SecretsInv, NEW c \in Clients, Secrets!VerifyTimesOut(c) PROVE SecretsInv'
<1> DEFINE k == asked[c].code
<1>1. /\ Secrets!Goes(c, "refused")
      /\ code' \in {code, [code EXCEPT ![k] = IF @ = "unused" THEN "used" ELSE @]}
      /\ UNCHANGED <<seedMemory, seedStored, seedHeld, secretStored, running,
                     rolling, restarts, generated, accepted>>
  BY DEF Secrets!VerifyTimesOut, Secrets!Seeds, Secrets!Workload
<1> HIDE DEF k
<1>2. /\ code' \in [Codes -> {"none", "unused", "expired", "used"}]
      /\ \A x \in Codes : code[x] = "used" => code'[x] = "used"
  BY <1>1 DEF SecretsInv, SecretRows
<1>3. /\ SecretRows /\ Secrets!CodesWorkOnce'
      /\ \A y \in Codes : accepted'[y] # {} => code'[y] = "used"
  BY <1>1, <1>2 DEF SecretsInv, Secrets!CodesWorkOnce
<1> QED BY <1>1, <1>2, <1>3, CallMoves DEF SecretRows

LEMMA VerifyTOTPInv ==
  ASSUME SecretsInv, NEW c \in Clients, Secrets!VerifyTOTP(c) PROVE SecretsInv'
<1>1. /\ Secrets!Goes(c, "verified") \/ Secrets!Goes(c, "failed")
      /\ seedMemory' \in {seedMemory, seedStored}
      /\ UNCHANGED <<code, seedStored, seedHeld, secretStored, running,
                     rolling, restarts, generated, accepted>>
  BY DEF Secrets!VerifyTOTP, Secrets!Workload
<1>2. /\ SecretRows /\ Secrets!CodesWorkOnce'
      /\ \A y \in Codes : accepted'[y] # {} => code'[y] = "used"
  BY <1>1 DEF SecretsInv, Secrets!CodesWorkOnce
<1> QED BY <1>1, <1>2, CallMoves DEF SecretRows

LEMMA RevealInv ==
  ASSUME SecretsInv, NEW c \in Clients, Secrets!Reveal(c) PROVE SecretsInv'
<1> DEFINE r == [asked[c] EXCEPT !.phase = "answered", !.value = secretStored]
<1>1. /\ asked[c].kind = "reveal" /\ asked' = [asked EXCEPT ![c] = r]
      /\ UNCHANGED <<code, seedMemory, seedStored, seedHeld, secretStored, running,
                     rolling, restarts, generated, accepted>>
      /\ asked[c] \in AskRows /\ secretStored \in Nat
  BY DEF Secrets!Reveal, Secrets!Seeds, Secrets!Workload, SecretsInv, SecretRows
<1>2. r \in AskRows /\ r.kind = "reveal" /\ r.phase = "answered"
  BY <1>1 DEF AskRows
<1> HIDE DEF r
<1>3. AskInv(r, secretStored', Coming', running', restarts)
  BY <1>2 DEF AskInv
<1>4. /\ SecretRows /\ Secrets!CodesWorkOnce'
      /\ \A y \in Codes : accepted[y] # {} => code[y] = "used"
  BY <1>1 DEF SecretsInv, Secrets!CodesWorkOnce
<1> QED BY <1>1, <1>2, <1>3, <1>4, VersionsStand, CallGoes DEF SecretRows

(* The version a rotation stores is newer than all that were stored.       *)
LEMMA RotatePutInv ==
  ASSUME SecretsInv, NEW c \in Clients, Secrets!RotatePut(c) PROVE SecretsInv'
<1>1. /\ generated' = generated + 1
      /\ UNCHANGED <<code, seedMemory, seedStored, seedHeld, running, rolling, restarts,
                     accepted>>
      /\ asked[c] \in AskRows /\ SecretRows /\ Secrets!CodesWorkOnce'
      /\ \A y \in Codes : accepted'[y] # {} => code'[y] = "used"
  BY DEF Secrets!RotatePut, Secrets!Fresh, Secrets!Seeds, SecretsInv, SecretRows,
         Secrets!CodesWorkOnce
<1>2. /\ generated \in Nat /\ secretStored \in Nat /\ running \in Nat
      /\ rolling \in Nat /\ Coming \in Nat /\ Coming' = Coming
      /\ running <= Coming /\ Coming <= secretStored /\ secretStored <= generated
      /\ generated + 1 \in Nat /\ secretStored <= generated + 1
      /\ Coming <= generated + 1
  BY <1>1 DEF SecretRows, Coming
<1>3. CASE Secrets!Goes(c, "failed") /\ secretStored' \in {secretStored, generated + 1}
  <2>1. /\ secretStored' \in Nat /\ secretStored <= secretStored'
        /\ secretStored' <= generated' /\ generated' \in Nat
    BY <1>1, <1>2, <1>3
  <2> QED BY <1>1, <1>3, <2>1, CallMoves DEF SecretRows
<1>4. CASE /\ secretStored' = generated + 1
           /\ asked' = [asked EXCEPT ![c].phase = "stored", ![c].value = generated + 1]
  <2> DEFINE v == generated + 1
             r == [asked[c] EXCEPT !.phase = "stored", !.value = v]
  <2>1. asked' = [asked EXCEPT ![c] = r]
    BY <1>4
  <2>2. v \in Nat /\ secretStored' = v /\ generated' = v
    BY <1>1, <1>2, <1>4
  <2> HIDE DEF v
  <2>3. r \in AskRows /\ r.phase = "stored" /\ r.value = v
    BY <1>1, <2>2 DEF AskRows
  <2> HIDE DEF r
  <2>4. AskInv(r, secretStored', Coming', running', restarts) /\ secretStored' <= generated'
    BY <2>2, <2>3 DEF AskInv
  <2>5. /\ Coming' <= secretStored' /\ secretStored <= secretStored'
        /\ running <= running' /\ running' <= Coming' /\ Coming <= Coming'
    BY <1>1, <1>2, <2>2 DEF v
  <2> QED BY <1>1, <1>2, <2>1, <2>2, <2>3, <2>4, <2>5, CallGoes DEF SecretRows
<1> QED BY <1>3, <1>4 DEF Secrets!RotatePut

LEMMA RolloutRestartInv ==
  ASSUME SecretsInv, NEW c \in Clients, Secrets!RolloutRestart(c) PROVE SecretsInv'
<1>1. /\ asked[c].phase = "stored" /\ rolling' \in {rolling, secretStored}
      /\ UNCHANGED <<code, seedMemory, seedStored, seedHeld, secretStored, running,
                     restarts, generated, accepted>>
      /\ asked[c] \in AskRows
      /\ AskInv(asked[c], secretStored, Coming, running, restarts)
      /\ SecretRows /\ Secrets!CodesWorkOnce'
      /\ \A y \in Codes : accepted'[y] # {} => code'[y] = "used"
  BY DEF Secrets!RolloutRestart, Secrets!Seeds, SecretsInv, SecretRows,
         Secrets!CodesWorkOnce
<1>2. PICK p \in {"answered", "restarting", "failed"} :
        /\ asked' = [asked EXCEPT ![c].phase = p]
        /\ p = "answered" => ~restarts
        /\ p = "restarting" => restarts /\ rolling' = secretStored
  BY DEF Secrets!RolloutRestart, Secrets!Goes
<1> DEFINE r == [asked[c] EXCEPT !.phase = p]
<1>3. asked' = [asked EXCEPT ![c] = r]
  BY <1>2
<1>4. /\ r \in AskRows /\ r.phase = p /\ r.value = asked[c].value
      /\ r.value <= secretStored /\ r.value \in Nat
  BY <1>1 DEF AskRows, AskInv
<1> HIDE DEF r
<1>5. p = "restarting" => r.value <= Coming'
  BY <1>1, <1>2, <1>4 DEF Coming, SecretRows
<1>6. AskInv(r, secretStored', Coming', running', restarts)
  BY <1>1, <1>2, <1>4, <1>5 DEF AskInv
<1> QED BY <1>1, <1>3, <1>4, <1>6, VersionsStand, CallGoes DEF SecretRows

LEMMA RolloutStatusInv ==
  ASSUME SecretsInv, NEW c \in Clients, Secrets!RolloutStatus(c) PROVE SecretsInv'
<1>1. /\ asked[c].phase = "restarting"
      /\ UNCHANGED <<code, seedMemory, seedStored, seedHeld, secretStored, running,
                     rolling, restarts, generated, accepted>>
      /\ asked[c] \in AskRows
      /\ AskInv(asked[c], secretStored, Coming, running, restarts)
      /\ SecretRows /\ Secrets!CodesWorkOnce'
      /\ \A y \in Codes : accepted'[y] # {} => code'[y] = "used"
  BY DEF Secrets!RolloutStatus, Secrets!Seeds, Secrets!Workload, SecretsInv, SecretRows,
         Secrets!CodesWorkOnce
<1>2. PICK p \in {"answered", "failed"} :
        /\ asked' = [asked EXCEPT ![c].phase = p]
        /\ p = "answered" => rolling = 0
  BY DEF Secrets!RolloutStatus, Secrets!Goes
<1> DEFINE r == [asked[c] EXCEPT !.phase = p]
<1>3. asked' = [asked EXCEPT ![c] = r]
  BY <1>2
<1>4. r \in AskRows /\ r.phase = p /\ r.value = asked[c].value
  BY <1>1 DEF AskRows
<1> HIDE DEF r
<1>5. AskInv(r, secretStored', Coming', running', restarts)
  BY <1>1, <1>2, <1>4 DEF AskInv, Coming
<1> QED BY <1>1, <1>3, <1>4, <1>5, VersionsStand, CallGoes DEF SecretRows

(* The pods read the version stored when their restart began, or a later.  *)
LEMMA PodsRestartInv == ASSUME SecretsInv, Secrets!PodsRestart PROVE SecretsInv'
<1>1. /\ rolling # 0 /\ running' \in rolling..secretStored /\ rolling' = 0
      /\ UNCHANGED <<code, seedMemory, seedStored, seedHeld, secretStored, restarts,
                     generated, asked, accepted>>
  BY DEF Secrets!PodsRestart, Secrets!Seeds
<1>2. /\ running' \in Nat /\ running <= running' /\ Coming' = running'
      /\ Coming <= Coming' /\ Coming' <= secretStored' /\ Coming \in Nat
      /\ running \in Nat
  BY <1>1 DEF SecretsInv, SecretRows, Coming
<1>3. SecretRows'
  BY <1>1, <1>2 DEF SecretsInv, SecretRows
<1>4. ASSUME NEW c \in Clients
      PROVE  AskInv(asked[c], secretStored, Coming', running', restarts)
  <2>1. asked[c].value \in Nat /\ AskInv(asked[c], secretStored, Coming, running, restarts)
    BY DEF SecretsInv, SecretRows, AskRows
  <2> QED BY <1>2, <2>1 DEF AskInv
<1> QED BY <1>1, <1>3, <1>4 DEF SecretsInv, Secrets!CodesWorkOnce

LEMMA AgentRestartInv ==
  ASSUME SecretsInv, Secrets!AgentRestart PROVE SecretsInv'
<1>1. /\ seedMemory' = 0
      /\ asked' = [c \in Clients |->
           IF asked[c].phase \in {"none", "answered", "failed"} THEN asked[c]
           ELSE [asked[c] EXCEPT !.phase = "failed"]]
      /\ UNCHANGED <<code, seedStored, seedHeld, secretStored, running,
                     rolling, restarts, generated, accepted>>
  BY DEF Secrets!AgentRestart, Secrets!Workload
<1>2. ASSUME NEW c \in Clients
      PROVE  asked'[c] \in AskRows /\ AskInv(asked'[c], secretStored, Coming, running, restarts)
  <2>1. asked[c] \in AskRows /\ AskInv(asked[c], secretStored, Coming, running, restarts)
    BY DEF SecretsInv, SecretRows
  <2>2. /\ [asked[c] EXCEPT !.phase = "failed"] \in AskRows
        /\ [asked[c] EXCEPT !.phase = "failed"].phase = "failed"
    BY <2>1 DEF AskRows
  <2> QED BY <1>1, <2>1, <2>2 DEF AskInv
<1>3. asked' \in [Clients -> AskRows]
  BY <1>1, <1>2
<1> QED BY <1>1, <1>2, <1>3 DEF SecretsInv, SecretRows, Secrets!CodesWorkOnce, Coming

LEMMA SetupTOTPInv == ASSUME SecretsInv, Secrets!SetupTOTP PROVE SecretsInv'
BY DEF Secrets!SetupTOTP, Secrets!Fresh, Secrets!Workload, SecretsInv, SecretRows,
       Secrets!CodesWorkOnce, Coming

LEMMA AgentStepsInv == ASSUME SecretsInv, Secrets!AgentSteps PROVE SecretsInv'
BY StartInv, VerifyTimesOutInv, VerifyTOTPInv, RevealInv, RotatePutInv, RolloutRestartInv,
   RolloutStatusInv, PodsRestartInv, SetupTOTPInv, AgentRestartInv
   DEF Secrets!AgentSteps

(* A one-time code lets at most one of the calls that carry it through,    *)
(* and a rotation answered as done is stored and runs, for any number of   *)
(* calls and codes (verifyStoredOTP, MarkUsed, Service.Rotate).            *)
THEOREM SecretsAreHonoured == AgentWorkSpec => []SecretsHonoured
<1>1. AgentWorkInit => SecretsHold
  BY SecretsInitInv DEF AgentWorkInit, NodeParts, SecretsHold
<1>2. SecretsHold /\ [AgentWorkNext]_agentWorkVars => SecretsHold'
  <2> SUFFICES ASSUME SecretsHold, [AgentWorkNext]_agentWorkVars, part' = "secrets"
               PROVE  SecretsInv'
    BY DEF SecretsHold
  <2>1. CASE UNCHANGED agentWorkVars
    BY <2>1 DEF agentWorkVars, secretVars, SecretsHold, SecretsInv, SecretRows,
                Secrets!CodesWorkOnce, Coming
  <2>2. CASE AgentWorkNext
    <3>1. part = "secrets" /\ (Secrets!CodeSteps \/ Secrets!AgentSteps)
      BY <2>2 DEF AgentWorkNext, ResourcesMove, CopiesMove, SwitchMoves, ActionsMove,
                  NodesMove, NodeParts, SecretsMove
    <3> QED BY <3>1, CodeStepsInv, AgentStepsInv DEF SecretsHold
  <2> QED BY <2>1, <2>2
<1>3. SecretsHold => SecretsHonoured
  BY DEF SecretsHold, SecretsInv, SecretRows, AskInv, AskRows, SecretsHonoured,
         Secrets!RotatedIsRunning
<1> QED BY <1>1, <1>2, <1>3, PTL DEF AgentWorkSpec

----------------------------------------------------------------------------
(* Nodes and their Agents                                                  *)

NodeRow ==
  [status: {"pending", "agent_connecting", "healthy", "offline", "draining", "removed"},
   agent: Clients \cup {"none"}]
AgentRowType ==
  [node: Nodes \cup {"none"}, status: {"absent", "active", "revoked"}, rotated: BOOLEAN]
JobRow ==
  [status: {"absent", "checked", "requested", "accepted"} \cup Machines!Terminal,
   action: {"none", "drain", "remove"}, target: Nodes \cup {"none"},
   executor: Nodes \cup {"none"}, attempts: 0..MaxAttempts, lapsed: BOOLEAN]
RunnerRow ==
  [pc: {"idle", "polling", "present", "cordon", "drain", "unschedulable", "delete",
        "gone", "report", "reporting"},
   agent: Clients \cup {"none"}, old: BOOLEAN, job: Jobs \cup {"none"}, token: Nat,
   result: {"none"} \cup Machines!Terminal, posts: Nat]

NodeRows ==
  /\ node \in [Nodes -> NodeRow] /\ agentRow \in [Clients -> AgentRowType]
  /\ runtime \in Servers \cup {"none"} /\ job \in [Jobs -> JobRow]
  /\ beat \in [Nodes -> BOOLEAN] /\ runner \in [Nodes -> RunnerRow]
  /\ objects \in [Nodes -> {"joined", "cordoned", "gone"}]

(* A job knows its node and has an attempt left until it is leased.        *)
JobInv(r) ==
  /\ r.status # "absent" => r.target \in Nodes
  /\ r.status \in {"absent", "checked", "requested"} => r.attempts < MaxAttempts

(* What a runner is doing is a job's; only a drain is verified without     *)
(* deleting, and a removal is reported as completed when the object is     *)
(* gone.                                                                   *)
RunnerInv(r, jobs, objs) ==
  /\ r.pc \notin {"idle", "polling"} =>
       r.job \in Jobs /\ jobs[r.job].status # "absent"
  /\ r.pc = "unschedulable" => jobs[r.job].action = "drain"
  /\ r.pc \in {"report", "reporting"} => r.result # "none"
  /\ r.pc \in {"report", "reporting"} /\ r.result = "completed"
       /\ jobs[r.job].action = "remove" => objs[jobs[r.job].target] = "gone"

NodesInv ==
  /\ NodeRows /\ Machines!RemovedIsLockedOut
  /\ \A j \in Jobs : JobInv(job[j])
  /\ \A n \in Nodes : RunnerInv(runner[n], job, objects)
NodesHold == part \in NodeParts => NodesInv

LEMMA NodesInitInv == ASSUME Machines!Init PROVE NodesInv
<1>1. /\ node = [n \in Nodes |-> [status |-> "pending", agent |-> "none"]]
      /\ agentRow = [a \in Clients |-> Machines!NoAgent] /\ runtime = "none"
      /\ job = [j \in Jobs |-> Machines!NoJob] /\ beat = [n \in Nodes |-> FALSE]
      /\ runner = [n \in Nodes |-> Machines!Idle("none", FALSE)]
      /\ objects = [n \in Nodes |-> "joined"]
  BY DEF Machines!Init
<1>2. NodeRows
  BY <1>1, AgentWorkAssumption
     DEF NodeRows, NodeRow, AgentRowType, JobRow, RunnerRow, Machines!NoAgent,
         Machines!NoJob, Machines!Idle
<1>3. \A j \in Jobs : JobInv(job[j])
  BY <1>1, AgentWorkAssumption DEF JobInv, Machines!NoJob
<1>4. \A n \in Nodes : RunnerInv(runner[n], job, objects)
  BY <1>1 DEF RunnerInv, Machines!Idle
<1>5. Machines!RemovedIsLockedOut
  BY <1>1 DEF Machines!RemovedIsLockedOut, Machines!NoJob
<1> QED BY <1>2, <1>3, <1>4, <1>5 DEF NodesInv

(* Jobs keep what they ask for, and objects that are gone stay gone.       *)
JobsKept ==
  \A j \in Jobs : job[j].status # "absent" =>
    /\ job'[j].status # "absent"
    /\ job'[j].action = job[j].action /\ job'[j].target = job[j].target
NoneCompleted == \A j \in Jobs : job'[j].status = "completed" => job'[j] = job[j]
JobsWait == JobsKept /\ NoneCompleted
GoneStays == \A m \in Nodes : objects[m] = "gone" => objects'[m] = "gone"

LEMMA RunnersStay ==
  ASSUME NodesInv, JobsKept, GoneStays, NEW n \in Nodes
  PROVE  RunnerInv(runner[n], job', objects')
<1>1. RunnerInv(runner[n], job, objects) /\ \A j \in Jobs : JobInv(job[j])
  BY DEF NodesInv
<1> QED BY <1>1 DEF RunnerInv, JobInv, JobsKept, GoneStays

(* One runner moves.                                                       *)
LEMMA RunnerGoes ==
  ASSUME NodesInv, JobsKept, GoneStays, NEW n \in Nodes, NEW r \in RunnerRow,
         runner' = [runner EXCEPT ![n] = r], RunnerInv(r, job', objects')
  PROVE  /\ runner' \in [Nodes -> RunnerRow]
         /\ \A m \in Nodes : RunnerInv(runner'[m], job', objects')
<1>1. /\ runner' \in [Nodes -> RunnerRow]
      /\ \A m \in Nodes : runner'[m] = IF m = n THEN r ELSE runner[m]
  BY DEF NodesInv, NodeRows
<1> QED BY <1>1, RunnersStay

(* A step of a runner alone, and perhaps of an object.                     *)
LEMMA RunnerAlone ==
  ASSUME NodesInv, GoneStays, UNCHANGED <<node, agentRow, runtime, job>>,
         beat' \in [Nodes -> BOOLEAN],
         objects' \in [Nodes -> {"joined", "cordoned", "gone"}],
         NEW n \in Nodes, NEW r \in RunnerRow,
         runner' = [runner EXCEPT ![n] = r], RunnerInv(r, job, objects')
  PROVE  NodesInv'
<1>1. JobsKept
  BY DEF JobsKept
<1>2. /\ runner' \in [Nodes -> RunnerRow]
      /\ \A m \in Nodes : RunnerInv(runner'[m], job', objects')
  BY <1>1, RunnerGoes
<1>3. NodeRows' /\ \A j \in Jobs : JobInv(job'[j])
  BY <1>2 DEF NodesInv, NodeRows
<1>4. Machines!RemovedIsLockedOut'
  BY DEF NodesInv, JobInv, Machines!RemovedIsLockedOut, GoneStays
<1> QED BY <1>2, <1>3, <1>4 DEF NodesInv

(* Rows change and no runner does: a node is shown as removed only as it   *)
(* was, and no Agent becomes active at such a node.                        *)
LEMMA RowsMove ==
  ASSUME NodesInv, UNCHANGED <<runner, objects>>, JobsWait,
         node' \in [Nodes -> NodeRow], agentRow' \in [Clients -> AgentRowType],
         runtime' \in Servers \cup {"none"}, job' \in [Jobs -> JobRow],
         beat' \in [Nodes -> BOOLEAN],
         \A j \in Jobs : JobInv(job'[j]),
         \A n \in Nodes : node'[n].status = "removed" =>
           /\ node[n].status = "removed"
           /\ \A a \in Clients : agentRow'[a].node = n =>
                /\ agentRow[a].node = n
                /\ agentRow[a].status = "revoked" => agentRow'[a].status = "revoked"
  PROVE  NodesInv'
<1>1. \A n \in Nodes : RunnerInv(runner'[n], job', objects')
  BY RunnersStay DEF GoneStays, JobsWait
<1>2. NodeRows'
  BY DEF NodesInv, NodeRows
<1>3. Machines!RemovedIsLockedOut'
  BY DEF NodesInv, Machines!RemovedIsLockedOut, JobsWait, NoneCompleted
<1> QED BY <1>1, <1>2, <1>3 DEF NodesInv

(* The status of one node, to anything but removed.                        *)
LEMMA NodeGoes ==
  ASSUME NodesInv, NEW n \in Nodes,
         NEW s \in {"agent_connecting", "healthy", "offline", "draining"},
         node' = [node EXCEPT ![n].status = s]
  PROVE  /\ node' \in [Nodes -> NodeRow]
         /\ \A m \in Nodes : node'[m].status = "removed" => node[m].status = "removed"
<1> DEFINE r == [node[n] EXCEPT !.status = s]
<1>1. r \in NodeRow /\ r.status = s /\ node' = [node EXCEPT ![n] = r]
  BY DEF NodesInv, NodeRows, NodeRow
<1> HIDE DEF r
<1> QED BY <1>1 DEF NodesInv, NodeRows

LEMMA RegisterAgentInv ==
  ASSUME NodesInv, NEW n \in Nodes, NEW a \in Clients, Machines!RegisterAgent(n, a)
  PROVE  NodesInv'
<1> DEFINE r == [Machines!NoAgent EXCEPT !.node = n, !.status = "active"]
           v == [status |-> "agent_connecting", agent |-> a]
<1>1. /\ agentRow' = [agentRow EXCEPT ![a] = r] /\ node' = [node EXCEPT ![n] = v]
      /\ UNCHANGED <<runtime, job, beat, runner, objects>>
  BY DEF Machines!RegisterAgent
<1>2. r \in AgentRowType /\ r.node = n /\ v \in NodeRow /\ v.status = "agent_connecting"
  BY DEF AgentRowType, NodeRow, Machines!NoAgent
<1> HIDE DEF r, v
<1>3. /\ node' \in [Nodes -> NodeRow] /\ agentRow' \in [Clients -> AgentRowType]
      /\ \A m \in Nodes : node'[m] = IF m = n THEN v ELSE node[m]
      /\ \A x \in Clients : agentRow'[x] = IF x = a THEN r ELSE agentRow[x]
  BY <1>1, <1>2 DEF NodesInv, NodeRows
<1>4. JobsWait
  BY <1>1 DEF JobsWait, JobsKept, NoneCompleted
<1> QED BY <1>1, <1>2, <1>3, <1>4, RowsMove DEF NodesInv, NodeRows

LEMMA CredentialsInv ==
  ASSUME NodesInv, NEW a \in Clients, Machines!RotateAgent(a) \/ Machines!RevokeAgent(a)
  PROVE  NodesInv'
<1>1. PICK r \in AgentRowType :
        /\ agentRow' = [agentRow EXCEPT ![a] = r] /\ r.node = agentRow[a].node
        /\ agentRow[a].status = "active"
  <2>1. CASE Machines!RotateAgent(a)
    <3> DEFINE r == [agentRow[a] EXCEPT !.rotated = TRUE]
    <3>1. r \in AgentRowType /\ r.node = agentRow[a].node
      BY DEF NodesInv, NodeRows, AgentRowType
    <3> QED BY <2>1, <3>1 DEF Machines!RotateAgent
  <2>2. CASE Machines!RevokeAgent(a)
    <3> DEFINE r == [agentRow[a] EXCEPT !.status = "revoked"]
    <3>1. r \in AgentRowType /\ r.node = agentRow[a].node
      BY DEF NodesInv, NodeRows, AgentRowType
    <3> QED BY <2>2, <3>1 DEF Machines!RevokeAgent
  <2> QED BY <2>1, <2>2
<1>2. UNCHANGED <<node, runtime, job, beat, runner, objects>>
  BY DEF Machines!RotateAgent, Machines!RevokeAgent
<1>3. /\ agentRow' \in [Clients -> AgentRowType]
      /\ \A x \in Clients : agentRow'[x] = IF x = a THEN r ELSE agentRow[x]
  BY <1>1 DEF NodesInv, NodeRows
<1>4. JobsWait
  BY <1>2 DEF JobsWait, JobsKept, NoneCompleted
<1> QED BY <1>1, <1>2, <1>3, <1>4, RowsMove DEF NodesInv, NodeRows

LEMMA MarkNodeOfflineInv ==
  ASSUME NodesInv, NEW n \in Nodes, Machines!MarkNodeOffline(n) PROVE NodesInv'
<1>1. /\ node' = [node EXCEPT ![n].status = "offline"]
      /\ agentRow' = [a \in Clients |->
           IF a = node[n].agent THEN [agentRow[a] EXCEPT !.status = "revoked"]
           ELSE agentRow[a]]
      /\ runtime' \in {runtime, "none"}
      /\ UNCHANGED <<job, beat, runner, objects>>
  BY DEF Machines!MarkNodeOffline
<1>2. ASSUME NEW a \in Clients
      PROVE  /\ agentRow'[a] \in AgentRowType /\ agentRow'[a].node = agentRow[a].node
             /\ agentRow[a].status = "revoked" => agentRow'[a].status = "revoked"
  BY <1>1 DEF NodesInv, NodeRows, AgentRowType
<1>3. JobsWait /\ agentRow' \in [Clients -> AgentRowType]
  BY <1>1, <1>2 DEF JobsWait, JobsKept, NoneCompleted
<1> QED BY <1>1, <1>2, <1>3, NodeGoes, RowsMove DEF NodesInv, NodeRows

----------------------------------------------------------------------------
LEMMA RestartAgentInv ==
  ASSUME NodesInv, NEW n \in Nodes, NEW a \in Clients, Machines!Restart(n, a)
  PROVE  NodesInv'
<1> DEFINE r == Machines!Idle(a, agentRow[a].rotated)
<1>1. runner' = [runner EXCEPT ![n] = r]
      /\ UNCHANGED <<node, agentRow, runtime, job, beat, objects>>
  BY DEF Machines!Restart, Machines!rowVars
<1>2. agentRow[a].rotated \in BOOLEAN
  BY DEF NodesInv, NodeRows, AgentRowType
<1>3. r \in RunnerRow /\ r.pc = "idle"
  BY <1>2 DEF RunnerRow, Machines!Idle
<1> HIDE DEF r
<1>4. RunnerInv(r, job, objects) /\ GoneStays /\ beat' \in [Nodes -> BOOLEAN]
      /\ objects' \in [Nodes -> {"joined", "cordoned", "gone"}]
  BY <1>1, <1>3 DEF RunnerInv, GoneStays, NodesInv, NodeRows
<1> QED BY <1>1, <1>3, <1>4, RunnerAlone

(* Requests and their jobs.                                                *)
LEMMA JobsGo ==
  ASSUME NodesInv, UNCHANGED <<node, agentRow, runtime, beat, runner, objects>>,
         job' \in [Jobs -> JobRow],
         \A i \in Jobs : JobInv(job'[i]) /\
           (job'[i].status = "completed" => job'[i] = job[i]) /\
           (job[i].status # "absent" =>
              /\ job'[i].status # "absent" /\ job'[i].action = job[i].action
              /\ job'[i].target = job[i].target)
  PROVE  NodesInv'
<1>1. JobsWait
  BY DEF JobsWait, JobsKept, NoneCompleted
<1> QED BY <1>1, RowsMove DEF NodesInv, NodeRows

LEMMA RequestsInv ==
  ASSUME NodesInv, NEW j \in Jobs,
         \/ \E n \in Nodes, action_ \in {"drain", "remove"} :
              Machines!CheckRequest(j, n, action_)
         \/ Machines!InsertJob(j)
         \/ Machines!LeaseLapses(j)
  PROVE  NodesInv'
<1>1. MaxAttempts \in Nat /\ 0 < MaxAttempts /\ job[j] \in JobRow /\ JobInv(job[j])
  BY AgentWorkAssumption DEF NodesInv, NodeRows
<1>2. PICK r \in JobRow :
        /\ job' = [job EXCEPT ![j] = r] /\ JobInv(r) /\ r.status # "completed"
        /\ job[j].status # "absent" =>
             /\ r.status # "absent" /\ r.action = job[j].action
             /\ r.target = job[j].target
  <2>1. ASSUME NEW n \in Nodes, NEW x \in {"drain", "remove"},
               Machines!CheckRequest(j, n, x)
        PROVE  \E r \in JobRow :
                 /\ job' = [job EXCEPT ![j] = r] /\ JobInv(r) /\ r.status # "completed"
                 /\ job[j].status # "absent" =>
                      /\ r.status # "absent" /\ r.action = job[j].action
                      /\ r.target = job[j].target
    <3>1. PICK e \in Nodes :
            job' = [job EXCEPT ![j] = [Machines!NoJob EXCEPT !.status = "checked",
                                         !.action = x, !.target = n, !.executor = e]]
            /\ job[j] = Machines!NoJob
      BY <2>1 DEF Machines!CheckRequest
    <3> DEFINE r == [Machines!NoJob EXCEPT !.status = "checked", !.action = x,
                                           !.target = n, !.executor = e]
    <3>2. Machines!NoJob \in JobRow /\ Machines!NoJob.attempts = 0
      BY <1>1 DEF JobRow, Machines!NoJob
    <3>3. /\ r \in JobRow /\ r.status = "checked" /\ r.target = n
          /\ r.attempts = Machines!NoJob.attempts
      BY <3>2 DEF JobRow
    <3>4. job' = [job EXCEPT ![j] = r] /\ job[j].status = "absent"
      BY <3>1 DEF Machines!NoJob
    <3> HIDE DEF r
    <3>5. JobInv(r)
      BY <1>1, <3>2, <3>3 DEF JobInv
    <3> QED BY <3>3, <3>4, <3>5
  <2>2. CASE Machines!InsertJob(j)
    <3> DEFINE r == [job[j] EXCEPT !.status = "requested"]
    <3>1. job' = [job EXCEPT ![j] = r] /\ job[j].status = "checked"
      BY <2>2 DEF Machines!InsertJob
    <3>2. /\ r \in JobRow /\ r.status = "requested" /\ r.action = job[j].action
          /\ r.target = job[j].target /\ r.attempts = job[j].attempts
      BY <1>1 DEF JobRow
    <3> HIDE DEF r
    <3> QED BY <1>1, <3>1, <3>2 DEF JobInv
  <2>3. CASE Machines!LeaseLapses(j)
    <3> DEFINE r == [job[j] EXCEPT !.lapsed = TRUE]
    <3>1. job' = [job EXCEPT ![j] = r] /\ job[j].status = "accepted"
      BY <2>3 DEF Machines!LeaseLapses
    <3>2. /\ r \in JobRow /\ r.status = "accepted" /\ r.action = job[j].action
          /\ r.target = job[j].target /\ r.attempts = job[j].attempts
      BY <1>1, <3>1 DEF JobRow
    <3> HIDE DEF r
    <3> QED BY <1>1, <3>1, <3>2 DEF JobInv
  <2> QED BY <2>1, <2>2, <2>3
<1>3. UNCHANGED <<node, agentRow, runtime, beat, runner, objects>>
  BY DEF Machines!CheckRequest, Machines!InsertJob, Machines!LeaseLapses
<1>4. /\ job' \in [Jobs -> JobRow]
      /\ \A i \in Jobs : job'[i] = IF i = j THEN r ELSE job[i]
  BY <1>2 DEF NodesInv, NodeRows
<1> QED BY <1>2, <1>3, <1>4, JobsGo DEF NodesInv

LEMMA NodeOperatorsInv == ASSUME NodesInv, Machines!Operators PROVE NodesInv'
BY RegisterAgentInv, RestartAgentInv, CredentialsInv, MarkNodeOfflineInv, RequestsInv
   DEF Machines!Operators

LEMMA HeartbeatsInv == ASSUME NodesInv, Machines!Heartbeats PROVE NodesInv'
<1>1. ASSUME NEW n \in Nodes, Machines!AuthorizeHeartbeat(n) PROVE NodesInv'
  <2>1. /\ UNCHANGED <<node, agentRow, runtime, job, runner, objects>>
        /\ beat' \in [Nodes -> BOOLEAN]
    BY <1>1 DEF Machines!AuthorizeHeartbeat, Machines!rowVars, NodesInv, NodeRows
  <2>2. JobsWait
    BY <2>1 DEF JobsWait, JobsKept, NoneCompleted
  <2> QED BY <2>1, <2>2, RowsMove DEF NodesInv, NodeRows
<1>2. ASSUME NEW n \in Nodes, Machines!RecordAgentHeartbeat(n) PROVE NodesInv'
  <2>1. /\ UNCHANGED <<agentRow, job, runner, objects>>
        /\ beat' \in [Nodes -> BOOLEAN] /\ runtime' \in Servers \cup {"none"}
    BY <1>2 DEF Machines!RecordAgentHeartbeat, NodesInv, NodeRows
  <2>2. PICK s \in {"healthy", "agent_connecting"} : node' = [node EXCEPT ![n].status = s]
    BY <1>2 DEF Machines!RecordAgentHeartbeat
  <2>3. JobsWait
    BY <2>1 DEF JobsWait, JobsKept, NoneCompleted
  <2> QED BY <2>1, <2>2, <2>3, NodeGoes, RowsMove DEF NodesInv, NodeRows
<1> QED BY <1>1, <1>2 DEF Machines!Heartbeats

(* Expiry and lease of jobs.                                               *)
LEMMA ExpiredJob ==
  ASSUME NEW r \in JobRow, JobInv(r)
  PROVE  /\ Machines!Expired(r) \in JobRow /\ JobInv(Machines!Expired(r))
         /\ Machines!Expired(r).action = r.action
         /\ Machines!Expired(r).target = r.target
         /\ Machines!Expired(r).executor = r.executor
         /\ r.status # "absent" => Machines!Expired(r).status # "absent"
         /\ Machines!Expired(r).status = "completed" => Machines!Expired(r) = r
<1>1. CASE r.status = "accepted" /\ r.lapsed
  <2> DEFINE s == IF r.attempts >= MaxAttempts THEN "failed" ELSE "requested"
             v == [r EXCEPT !.lapsed = FALSE, !.status = s]
  <2>1. Machines!Expired(r) = v
    BY <1>1 DEF Machines!Expired
  <2>2. /\ s \in {"failed", "requested"}
        /\ s = "requested" => r.attempts < MaxAttempts
    BY AgentWorkAssumption DEF JobRow
  <2> HIDE DEF s
  <2>3. /\ v \in JobRow /\ v.status = s /\ v.attempts = r.attempts
        /\ v.action = r.action /\ v.target = r.target /\ v.executor = r.executor
    BY <2>2 DEF JobRow, Machines!Terminal
  <2> HIDE DEF v
  <2>4. JobInv(v)
    BY <1>1, <2>2, <2>3 DEF JobInv
  <2> QED BY <2>1, <2>2, <2>3, <2>4
<1>2. CASE ~(r.status = "accepted" /\ r.lapsed)
  BY <1>2 DEF Machines!Expired
<1> QED BY <1>1, <1>2

LEMMA LeaseNodeLifecycleInv ==
  ASSUME NodesInv, NEW n \in Nodes, Machines!LeaseNodeLifecycle(n) PROVE NodesInv'
<1> DEFINE jobs == Machines!expireNodeLifecycleLeases
<1>1. ASSUME NEW j \in Jobs
      PROVE  /\ jobs[j] \in JobRow /\ JobInv(jobs[j])
             /\ jobs[j].action = job[j].action /\ jobs[j].target = job[j].target
             /\ job[j].status # "absent" => jobs[j].status # "absent"
             /\ jobs[j].status = "completed" => jobs[j] = job[j]
  <2>1. job[j] \in JobRow /\ JobInv(job[j]) /\ jobs[j] = Machines!Expired(job[j])
    BY DEF NodesInv, NodeRows, Machines!expireNodeLifecycleLeases
  <2> QED BY <2>1, ExpiredJob
<1>2. jobs \in [Jobs -> JobRow]
  <2>1. jobs = [j \in Jobs |-> Machines!Expired(job[j])]
    BY DEF Machines!expireNodeLifecycleLeases
  <2> QED BY <1>1, <2>1
<1>3. UNCHANGED <<node, agentRow, runtime, beat, objects>>
      /\ runner[n].pc = "polling" /\ GoneStays
  BY DEF Machines!LeaseNodeLifecycle, GoneStays
<1>4. ASSUME NEW p \in RunnerRow, runner' = [runner EXCEPT ![n] = p],
             RunnerInv(p, job', objects'),
             job' \in [Jobs -> JobRow], JobsKept, NoneCompleted,
             \A j \in Jobs : JobInv(job'[j])
      PROVE  NodesInv'
  <2>1. /\ runner' \in [Nodes -> RunnerRow]
        /\ \A m \in Nodes : RunnerInv(runner'[m], job', objects')
    BY <1>3, <1>4, RunnerGoes
  <2>2. NodeRows' /\ Machines!RemovedIsLockedOut'
    BY <1>3, <1>4, <2>1 DEF NodesInv, NodeRows, Machines!RemovedIsLockedOut, NoneCompleted
  <2> QED BY <1>4, <2>1, <2>2 DEF NodesInv
<1> DEFINE idle == [runner[n] EXCEPT !.pc = "idle"]
<1>5. idle \in RunnerRow /\ RunnerInv(idle, job', objects') /\ runner[n] \in RunnerRow
  <2>1. runner[n] \in RunnerRow
    BY DEF NodesInv, NodeRows
  <2>2. idle \in RunnerRow /\ idle.pc = "idle"
    BY <2>1 DEF RunnerRow
  <2> HIDE DEF idle
  <2> QED BY <2>1, <2>2 DEF RunnerInv
<1>6. CASE job' = jobs /\ runner' = [runner EXCEPT ![n].pc = "idle"]
  <2>1. runner' = [runner EXCEPT ![n] = idle]
    BY <1>6
  <2>2. JobsKept /\ NoneCompleted /\ \A j \in Jobs : JobInv(job'[j])
    BY <1>1, <1>6 DEF JobsKept, NoneCompleted
  <2> HIDE DEF idle, jobs
  <2> QED BY <1>2, <1>4, <1>5, <1>6, <2>1, <2>2
<1>7. ASSUME NEW j \in Jobs, jobs[j].status = "requested",
             job' = [jobs EXCEPT ![j].status = "accepted", ![j].attempts = @ + 1],
             \/ runner' = [runner EXCEPT ![n].pc = "present", ![n].job = j,
                                         ![n].token = jobs[j].attempts + 1]
             \/ runner' = [runner EXCEPT ![n].pc = "idle"]
      PROVE  NodesInv'
  <2> HIDE DEF jobs
  <2> DEFINE v == jobs[j].attempts + 1
             r == [jobs[j] EXCEPT !.status = "accepted", !.attempts = v]
             p == [runner[n] EXCEPT !.pc = "present", !.job = j, !.token = v]
  <2>1. v \in 0..MaxAttempts /\ v \in Nat
    BY <1>1, <1>7, AgentWorkAssumption DEF JobInv, JobRow
  <2>2. job' = [jobs EXCEPT ![j] = r]
    BY <1>7
  <2>3. /\ runner' = [runner EXCEPT ![n] = p] \/ runner' = [runner EXCEPT ![n] = idle]
    BY <1>7
  <2> HIDE DEF v
  <2>4. /\ r \in JobRow /\ r.status = "accepted" /\ r.action = jobs[j].action
        /\ r.target = jobs[j].target
    BY <1>1, <2>1 DEF JobRow
  <2>5. p \in RunnerRow /\ p.pc = "present" /\ p.job = j
    BY <1>5, <2>1 DEF RunnerRow
  <2> HIDE DEF r, p, idle
  <2>6. /\ job' \in [Jobs -> JobRow]
        /\ \A i \in Jobs : job'[i] = IF i = j THEN r ELSE jobs[i]
    BY <1>2, <2>2, <2>4
  <2>7. JobInv(r)
    BY <1>1, <1>7, <2>4 DEF JobInv
  <2>8. JobsKept /\ NoneCompleted /\ \A i \in Jobs : JobInv(job'[i])
    BY <1>1, <2>4, <2>6, <2>7 DEF JobsKept, NoneCompleted
  <2>9. RunnerInv(p, job', objects')
    BY <2>4, <2>5, <2>6 DEF RunnerInv
  <2> QED BY <1>4, <1>5, <2>3, <2>5, <2>6, <2>8, <2>9
<1> QED BY <1>6, <1>7 DEF Machines!LeaseNodeLifecycle

----------------------------------------------------------------------------
(* Commands and results                                                    *)

(* A runner that works on a job goes on to another command, or ends with a *)
(* result it may report.                                                   *)
LEMMA CommandGoes ==
  ASSUME NodesInv, NEW n \in Nodes, runner[n].pc \notin {"idle", "polling"},
         NEW p \in {"cordon", "drain", "unschedulable", "delete", "gone", "report"},
         NEW x \in {"completed", "failed"},
         \/ /\ Machines!Goes(n, p) /\ p # "report"
            /\ p = "unschedulable" => Machines!Action(n) = "drain"
         \/ /\ Machines!Ends(n, x)
            /\ x = "completed" /\ Machines!Action(n) = "remove"
                 => objects'[Machines!Target(n)] = "gone",
         GoneStays, UNCHANGED <<node, agentRow, runtime, job, beat>>,
         objects' \in [Nodes -> {"joined", "cordoned", "gone"}]
  PROVE  NodesInv'
<1> DEFINE r1 == [runner[n] EXCEPT !.pc = p]
           r2 == [runner[n] EXCEPT !.pc = "report", !.result = x]
<1>1. /\ runner[n] \in RunnerRow /\ RunnerInv(runner[n], job, objects)
      /\ beat' \in [Nodes -> BOOLEAN]
  BY DEF NodesInv, NodeRows
<1>2. /\ r1 \in RunnerRow /\ r1.pc = p /\ r1.job = runner[n].job
      /\ r2 \in RunnerRow /\ r2.pc = "report" /\ r2.job = runner[n].job /\ r2.result = x
  BY <1>1 DEF RunnerRow, Machines!Terminal
<1>3. CASE Machines!Goes(n, p) /\ p # "report"
           /\ (p = "unschedulable" => Machines!Action(n) = "drain")
  <2>1. runner' = [runner EXCEPT ![n] = r1]
    BY <1>3 DEF Machines!Goes
  <2> HIDE DEF r1
  <2>2. RunnerInv(r1, job, objects')
    BY <1>1, <1>2, <1>3 DEF RunnerInv, Machines!Action
  <2> QED BY <1>1, <1>2, <2>1, <2>2, RunnerAlone
<1>4. CASE Machines!Ends(n, x) /\ (x = "completed" /\ Machines!Action(n) = "remove"
                                     => objects'[Machines!Target(n)] = "gone")
  <2>1. runner' = [runner EXCEPT ![n] = r2]
    BY <1>4 DEF Machines!Ends
  <2> HIDE DEF r2
  <2>2. RunnerInv(r2, job, objects')
    BY <1>1, <1>2, <1>4 DEF RunnerInv, Machines!Action, Machines!Target
  <2> QED BY <1>1, <1>2, <2>1, <2>2, RunnerAlone
<1> QED BY <1>3, <1>4

(* The object of the target changes, unless it is gone.                    *)
LEMMA ObjectGoes ==
  ASSUME NodesInv, NEW n \in Nodes,
         objects[Machines!Target(n)] # "gone" \/ objects' = objects,
         NEW s \in {"cordoned", "gone"},
         objects' \in {objects, [objects EXCEPT ![Machines!Target(n)] = s]}
  PROVE  GoneStays /\ objects' \in [Nodes -> {"joined", "cordoned", "gone"}]
BY DEF NodesInv, NodeRows, GoneStays

LEMMA ExecutionInv == ASSUME NodesInv, Machines!Execution PROVE NodesInv'
<1>1. PICK n \in Nodes :
        \/ Machines!VerifyPresent(n) \/ Machines!Cordon(n) \/ Machines!Drain(n)
        \/ Machines!VerifyUnschedulable(n) \/ Machines!Delete(n)
        \/ Machines!VerifyRemoved(n)
  BY DEF Machines!Execution
<1>2. UNCHANGED <<node, agentRow, runtime, job, beat>>
  BY <1>1 DEF Machines!VerifyPresent, Machines!Cordon, Machines!Drain,
              Machines!VerifyUnschedulable, Machines!Delete, Machines!VerifyRemoved,
              Machines!rowVars
<1>3. /\ RunnerInv(runner[n], job, objects) /\ runner[n] \in RunnerRow
      /\ objects \in [Nodes -> {"joined", "cordoned", "gone"}]
  BY DEF NodesInv, NodeRows
<1>4. CASE Machines!VerifyPresent(n)
  <2>1. /\ runner[n].pc = "present" /\ objects' = objects
        /\ Machines!Goes(n, "cordon") \/ Machines!Ends(n, "failed")
    BY <1>4 DEF Machines!VerifyPresent
  <2> QED BY <1>2, <1>3, <2>1, CommandGoes DEF GoneStays
<1>5. CASE Machines!Cordon(n)
  <2>1. /\ runner[n].pc = "cordon"
        /\ objects[Machines!Target(n)] # "gone" \/ objects' = objects
        /\ objects' \in {objects, [objects EXCEPT ![Machines!Target(n)] = "cordoned"]}
        /\ Machines!Goes(n, "drain") \/ Machines!Ends(n, "failed")
    <3>1. Machines!Target(n) \in Nodes
      BY <1>3, <1>5 DEF Machines!Cordon, Machines!Target, RunnerInv, NodesInv, JobInv
    <3>2. objects[Machines!Target(n)] = "gone"
            => [objects EXCEPT ![Machines!Target(n)] = "gone"] = objects
      BY <1>3, <3>1
    <3>3. [objects EXCEPT ![Machines!Target(n)] = objects[Machines!Target(n)]] = objects
      BY <1>3, <3>1
    <3> QED BY <1>5, <3>2, <3>3 DEF Machines!Cordon
  <2>2. GoneStays /\ objects' \in [Nodes -> {"joined", "cordoned", "gone"}]
    BY <2>1, ObjectGoes
  <2> QED BY <1>2, <2>1, <2>2, CommandGoes
<1>6. CASE Machines!Drain(n)
  <2>1. /\ runner[n].pc = "drain" /\ objects' = objects
        /\ \/ Machines!Action(n) = "drain" /\ Machines!Goes(n, "unschedulable")
           \/ Machines!Goes(n, "delete") \/ Machines!Ends(n, "failed")
    BY <1>6 DEF Machines!Drain
  <2> QED BY <1>2, <1>3, <2>1, CommandGoes DEF GoneStays
<1>7. CASE Machines!VerifyUnschedulable(n)
  <2>1. /\ runner[n].pc = "unschedulable" /\ objects' = objects
        /\ Machines!Ends(n, "completed") \/ Machines!Ends(n, "failed")
    BY <1>7 DEF Machines!VerifyUnschedulable
  <2>2. Machines!Action(n) = "drain"
    BY <1>3, <2>1 DEF RunnerInv, Machines!Action
  <2> QED BY <1>2, <1>3, <2>1, <2>2, CommandGoes DEF GoneStays
<1>8. CASE Machines!Delete(n)
  <2>1. /\ runner[n].pc = "delete"
        /\ objects[Machines!Target(n)] # "gone" \/ objects' = objects
        /\ objects' \in {objects, [objects EXCEPT ![Machines!Target(n)] = "gone"]}
        /\ Machines!Goes(n, "gone") \/ Machines!Ends(n, "failed")
    <3>1. Machines!Target(n) \in Nodes
      BY <1>3, <1>8 DEF Machines!Delete, Machines!Target, RunnerInv, NodesInv, JobInv
    <3>2. objects[Machines!Target(n)] = "gone"
            => [objects EXCEPT ![Machines!Target(n)] = "gone"] = objects
      BY <1>3, <3>1
    <3>3. [objects EXCEPT ![Machines!Target(n)] = objects[Machines!Target(n)]] = objects
      BY <1>3, <3>1
    <3> QED BY <1>8, <3>2, <3>3 DEF Machines!Delete
  <2>2. GoneStays /\ objects' \in [Nodes -> {"joined", "cordoned", "gone"}]
    BY <2>1, ObjectGoes
  <2> QED BY <1>2, <2>1, <2>2, CommandGoes
<1>9. CASE Machines!VerifyRemoved(n)
  <2>1. /\ runner[n].pc = "gone" /\ objects' = objects
        /\ \/ objects[Machines!Target(n)] = "gone" /\ Machines!Ends(n, "completed")
           \/ Machines!Ends(n, "failed")
    BY <1>9 DEF Machines!VerifyRemoved
  <2> QED BY <1>2, <1>3, <2>1, CommandGoes DEF GoneStays
<1> QED BY <1>1, <1>4, <1>5, <1>6, <1>7, <1>8, <1>9

(* After a post the runner is idle, or posts the same result again.        *)
LEMMA Posted ==
  ASSUME NodesInv, NEW n \in Nodes, runner[n].pc \in {"report", "reporting"},
         runner' \in {Machines!PostFailed(n), Machines!PostEnds(n)}
  PROVE  \E r \in RunnerRow :
           /\ runner' = [runner EXCEPT ![n] = r]
           /\ \/ r.pc = "idle"
              \/ /\ r.pc = "report" /\ r.job = runner[n].job
                 /\ r.result = runner[n].result
<1>1. runner[n] \in RunnerRow
  BY DEF NodesInv, NodeRows
<1> DEFINE idle == Machines!Idle(runner[n].agent, runner[n].old)
           v == runner[n].posts + 1
           again == [runner[n] EXCEPT !.pc = "report", !.posts = v]
<1>2. idle \in RunnerRow /\ idle.pc = "idle"
  BY <1>1 DEF RunnerRow, Machines!Idle
<1>3. v \in Nat
  BY <1>1 DEF RunnerRow
<1>4. \/ runner' = [runner EXCEPT ![n] = idle]
      \/ runner' = [runner EXCEPT ![n].pc = "report", ![n].posts = v]
  BY DEF Machines!PostFailed, Machines!PostEnds
<1> HIDE DEF v, idle
<1>5. /\ again \in RunnerRow /\ again.pc = "report" /\ again.job = runner[n].job
      /\ again.result = runner[n].result
  BY <1>1, <1>3 DEF RunnerRow
<1>6. runner' = [runner EXCEPT ![n] = idle] \/ runner' = [runner EXCEPT ![n] = again]
  BY <1>4
<1> HIDE DEF again
<1> QED BY <1>2, <1>5, <1>6

(* A completed removal finds the object gone, and revokes every Agent of   *)
(* the node.                                                               *)
LEMMA CompleteNodeLifecycleInv ==
  ASSUME NodesInv, NEW n \in Nodes, Machines!CompleteNodeLifecycle(n) PROVE NodesInv'
<1> DEFINE j == runner[n].job
           r == job[j]
           x == runner[n].result
           removed == x = "completed" /\ r.action = "remove"
<1>1. /\ runner[n].pc = "reporting" /\ runner[n] \in RunnerRow
      /\ RunnerInv(runner[n], job, objects)
      /\ runner' \in {Machines!PostFailed(n), Machines!PostEnds(n)}
      /\ UNCHANGED <<runtime, beat, objects>> /\ GoneStays
  BY DEF Machines!CompleteNodeLifecycle, NodesInv, NodeRows, GoneStays
<1>2. /\ j \in Jobs /\ r \in JobRow /\ JobInv(r) /\ r.status # "absent" /\ r.target \in Nodes
      /\ removed => objects[r.target] = "gone"
  BY <1>1 DEF RunnerInv, NodesInv, NodeRows, JobInv
<1>3. PICK p \in RunnerRow :
        /\ runner' = [runner EXCEPT ![n] = p]
        /\ p.pc = "idle" \/ (p.pc = "report" /\ p.job = j /\ p.result = x)
  BY <1>1, Posted
<1>4. CASE UNCHANGED <<job, node, agentRow>>
  <2>1. RunnerInv(p, job, objects)
    BY <1>1, <1>3 DEF RunnerInv
  <2> QED BY <1>1, <1>3, <1>4, <2>1, RunnerAlone DEF NodesInv, NodeRows
<1>5. CASE Machines!Accepts(n) /\ Machines!CompleteRows(n)
  <2> DEFINE s == IF removed THEN "removed" ELSE "draining"
             q == [r EXCEPT !.status = x]
  <2>1. /\ r.status = "accepted" /\ job' = [job EXCEPT ![j] = q]
        /\ node' = IF x = "completed" THEN [node EXCEPT ![r.target].status = s] ELSE node
        /\ agentRow' = IF removed
             THEN [a \in Clients |->
                     IF agentRow[a].node = r.target
                       THEN [agentRow[a] EXCEPT !.status = "revoked"] ELSE agentRow[a]]
             ELSE agentRow
    BY <1>5 DEF Machines!Accepts, Machines!CompleteRows, Machines!RevokedByRemoval
  <2>2. /\ s \in {"removed", "draining"} /\ x \in Machines!Terminal
        /\ s = "removed" <=> removed
        /\ removed => objects[r.target] = "gone"
    BY <1>1, <1>2 DEF RunnerRow, RunnerInv
  <2>3. q \in JobRow /\ q.status = x /\ q.target = r.target /\ q.action = r.action
    BY <1>2, <2>2 DEF JobRow
  <2> DEFINE t == r.target
  <2>4. t \in Nodes /\ r.status # "absent"
    BY <1>2
  <2>5. JobInv(q)
    BY <2>2, <2>3, <2>4 DEF JobInv, Machines!Terminal
  <2>6. /\ node' \in [Nodes -> NodeRow] /\ agentRow' \in [Clients -> AgentRowType]
        /\ \A m \in Nodes : node'[m].status = "removed" =>
             node[m].status = "removed" \/ (removed /\ m = t)
        /\ \A a \in Clients :
             /\ agentRow'[a].node = agentRow[a].node
             /\ agentRow[a].status = "revoked" => agentRow'[a].status = "revoked"
             /\ removed /\ agentRow[a].node = t => agentRow'[a].status = "revoked"
    <3> DEFINE gone == removed
               v == [node[t] EXCEPT !.status = s]
    <3>1. v \in NodeRow /\ v.status = s
      BY <2>2, <2>4 DEF NodesInv, NodeRows, NodeRow
    <3>2. node' \in {node, [node EXCEPT ![t] = v]}
      BY <2>1
    <3>3. agentRow' = [a \in Clients |->
             IF removed /\ agentRow[a].node = t
               THEN [agentRow[a] EXCEPT !.status = "revoked"] ELSE agentRow[a]]
      BY <2>1 DEF NodesInv, NodeRows
    <3> HIDE DEF removed, v, s, t
    <3>4. /\ node' \in [Nodes -> NodeRow]
          /\ \A m \in Nodes : node'[m].status = "removed" =>
               node[m].status = "removed" \/ (removed /\ m = t)
      BY <2>2, <2>4, <3>1, <3>2 DEF NodesInv, NodeRows
    <3>5. ASSUME NEW a \in Clients
          PROVE  /\ agentRow'[a] \in AgentRowType /\ agentRow'[a].node = agentRow[a].node
                 /\ agentRow[a].status = "revoked" => agentRow'[a].status = "revoked"
                 /\ removed /\ agentRow[a].node = t => agentRow'[a].status = "revoked"
      BY <3>3 DEF NodesInv, NodeRows, AgentRowType
    <3>6. agentRow' \in [Clients -> AgentRowType]
      BY <3>3, <3>5
    <3> QED BY <3>4, <3>5, <3>6
  <2> HIDE DEF q, removed, s, t
  <2>7. /\ job' \in [Jobs -> JobRow]
        /\ \A i \in Jobs : job'[i] = IF i = j THEN q ELSE job[i]
    BY <1>2, <2>1, <2>3 DEF NodesInv, NodeRows
  <2>8. JobsKept /\ \A i \in Jobs : JobInv(job'[i])
    BY <2>2, <2>3, <2>5, <2>7 DEF JobsKept, NodesInv, Machines!Terminal
  <2>9. RunnerInv(p, job', objects')
    <3>1. RunnerInv(p, job, objects)
      BY <1>1, <1>3 DEF RunnerInv
    <3> QED BY <1>1, <1>2, <2>2, <2>3, <2>7, <3>1 DEF RunnerInv, Machines!Terminal
  <2>10. /\ runner' \in [Nodes -> RunnerRow]
         /\ \A m \in Nodes : RunnerInv(runner'[m], job', objects')
    BY <1>1, <1>3, <2>8, <2>9, RunnerGoes
  <2>11. NodeRows'
    BY <1>1, <2>6, <2>7, <2>10 DEF NodesInv, NodeRows
  <2>a. removed => objects[t] = "gone"
    BY <2>2 DEF t
  <2>12. Machines!RemovedIsLockedOut'
    <3>1. ASSUME NEW m \in Nodes, node'[m].status = "removed"
          PROVE  /\ objects[m] = "gone"
                 /\ \A a \in Clients : agentRow'[a].node = m =>
                      agentRow'[a].status = "revoked"
      <4>1. CASE node[m].status = "removed"
        BY <2>6, <4>1 DEF NodesInv, Machines!RemovedIsLockedOut
      <4>2. CASE removed /\ m = t
        BY <2>6, <2>a, <4>2
      <4> QED BY <2>6, <3>1, <4>1, <4>2
    <3>2. ASSUME NEW i \in Jobs, job'[i].status = "completed", job'[i].action = "remove"
          PROVE  objects[job'[i].target] = "gone"
      <4>1. CASE i = j
        BY <2>3, <2>7, <2>a, <3>2, <4>1 DEF removed, t
      <4>2. CASE i # j
        BY <2>7, <3>2, <4>2 DEF NodesInv, Machines!RemovedIsLockedOut
      <4> QED BY <4>1, <4>2
    <3> QED BY <1>1, <3>1, <3>2 DEF Machines!RemovedIsLockedOut
  <2> QED BY <2>8, <2>10, <2>11, <2>12 DEF NodesInv
<1> QED BY <1>4, <1>5 DEF Machines!CompleteNodeLifecycle

LEMMA PollsAndPostsInv ==
  ASSUME NodesInv, NEW n \in Nodes,
         \/ Machines!AuthorizePoll(n) \/ Machines!AuthorizeResult(n)
         \/ Machines!PostDenied(n)
  PROVE  NodesInv'
<1>1. /\ runner[n] \in RunnerRow /\ RunnerInv(runner[n], job, objects)
      /\ objects \in [Nodes -> {"joined", "cordoned", "gone"}] /\ beat \in [Nodes -> BOOLEAN]
  BY DEF NodesInv, NodeRows
<1>2. UNCHANGED <<node, agentRow, runtime, job, beat, objects>> /\ GoneStays
  BY DEF Machines!AuthorizePoll, Machines!AuthorizeResult, Machines!PostDenied,
         Machines!rowVars, GoneStays
<1>3. CASE Machines!AuthorizePoll(n)
  <2> DEFINE r == [runner[n] EXCEPT !.pc = "polling"]
  <2>1. r \in RunnerRow /\ r.pc = "polling"
    BY <1>1 DEF RunnerRow
  <2>2. runner' = [runner EXCEPT ![n] = r]
    BY <1>3 DEF Machines!AuthorizePoll
  <2> HIDE DEF r
  <2>3. RunnerInv(r, job, objects')
    BY <2>1 DEF RunnerInv
  <2> QED BY <1>1, <1>2, <2>1, <2>2, <2>3, RunnerAlone
<1>4. CASE Machines!AuthorizeResult(n)
  <2> DEFINE r == [runner[n] EXCEPT !.pc = "reporting"]
  <2>1. /\ r \in RunnerRow /\ r.pc = "reporting" /\ r.job = runner[n].job
        /\ r.result = runner[n].result
    BY <1>1 DEF RunnerRow
  <2>2. runner' = [runner EXCEPT ![n] = r] /\ runner[n].pc = "report"
    BY <1>4 DEF Machines!AuthorizeResult, Machines!Goes
  <2> HIDE DEF r
  <2>3. RunnerInv(r, job, objects')
    BY <1>1, <1>2, <2>1, <2>2 DEF RunnerInv
  <2> QED BY <1>1, <1>2, <2>1, <2>2, <2>3, RunnerAlone
<1>5. CASE Machines!PostDenied(n)
  <2>1. PICK r \in RunnerRow :
          /\ runner' = [runner EXCEPT ![n] = r]
          /\ \/ r.pc = "idle"
             \/ /\ r.pc = "report" /\ r.job = runner[n].job
                /\ r.result = runner[n].result
    BY <1>5, Posted DEF Machines!PostDenied
  <2>2. runner[n].pc = "report"
    BY <1>5 DEF Machines!PostDenied
  <2>3. RunnerInv(r, job, objects')
    BY <1>1, <1>2, <2>1, <2>2 DEF RunnerInv
  <2> QED BY <1>1, <1>2, <2>1, <2>3, RunnerAlone
<1> QED BY <1>3, <1>4, <1>5

LEMMA MachinesInv == ASSUME NodesInv, Machines!Next PROVE NodesInv'
<1>1. CASE Machines!Leases
  BY <1>1, RequestsInv, PollsAndPostsInv, LeaseNodeLifecycleInv DEF Machines!Leases
<1>2. CASE Machines!Results
  BY <1>2, PollsAndPostsInv, CompleteNodeLifecycleInv DEF Machines!Results
<1> QED BY <1>1, <1>2, NodeOperatorsInv, HeartbeatsInv, ExecutionInv DEF Machines!Next

(* A node Cloud shows as removed is gone from the cluster and no Agent     *)
(* that was ever registered for it is let in, whatever failed, was leased  *)
(* again or was reported late (verifyRemoved, CompleteNodeLifecycle).      *)
THEOREM RemovedNodesAreLockedOut == AgentWorkSpec => []RemovedIsLockedOut
<1>1. AgentWorkInit => NodesHold
  BY NodesInitInv DEF AgentWorkInit, NodesHold, NodeParts
<1>2. NodesHold /\ [AgentWorkNext]_agentWorkVars => NodesHold'
  <2> SUFFICES ASSUME NodesHold, part' \in NodeParts, [AgentWorkNext]_agentWorkVars
               PROVE  NodesInv'
    BY DEF NodesHold
  <2>1. CASE UNCHANGED agentWorkVars
    BY <2>1 DEF agentWorkVars, nodeVars, NodesHold, NodesInv, NodeRows,
                Machines!RemovedIsLockedOut
  <2>2. CASE AgentWorkNext
    <3>1. part \in NodeParts /\ Machines!Next
      BY <2>2 DEF AgentWorkNext, ResourcesMove, CopiesMove, SwitchMoves, ActionsMove,
                  NodesMove, NodeParts, SecretsMove
    <3> QED BY <3>1, MachinesInv DEF NodesHold
  <2> QED BY <2>1, <2>2
<1>3. NodesHold => RemovedIsLockedOut
  <2> SUFFICES ASSUME NodesInv PROVE Machines!NodeLifecycleTypeOK /\ Machines!RemovedIsLockedOut
    BY DEF NodesHold, RemovedIsLockedOut
  <2> QED BY DEF NodesInv, NodeRows, NodeRow, AgentRowType, JobRow,
                 Machines!NodeLifecycleTypeOK
<1> QED BY <1>1, <1>2, <1>3, PTL DEF AgentWorkSpec

----------------------------------------------------------------------------
(* Approved actions                                                        *)

FailureCodes ==
  {"none", "challenge_expired", "device_unavailable", "execution_failed",
   "post_check_failed"} \cup Approved!BeforeMutation
ActionRow ==
  [status: {"none", "preflighted", "approved", "executing"} \cup Approved!Terminal,
   target: Targets \cup {"none"}, state: Nat, consumed: BOOLEAN,
   grant: Devices \cup {"none"}, failure: FailureCodes]
ExecuteRow ==
  [phase: {"idle", "loaded", "resolved", "reserved", "locked", "rechecked", "begun",
           "executed"},
   action: RestoreIds \cup {"none"}, grant: Devices \cup {"none"},
   seen: {"none", "preflighted", "approved", "executing"} \cup Approved!Terminal]

(* A record holds a grant and its target's lock while it is unfinished,    *)
(* and its nonce is consumed by what then begins, so never by an action    *)
(* that ended before its mutation.                                         *)
RecordInv(a, r, locks) ==
  /\ r.status = "none" => r = Approved!NoAction
  /\ r.status # "none" => r.target \in Targets
  /\ r.status \in {"preflighted", "approved"} => ~r.consumed
  /\ r.status \in {"approved", "executing"} => r.grant # "none" /\ locks[r.target] = a
  /\ r.status \notin Approved!Terminal => r.failure = "none"
  /\ r.consumed => r.grant # "none" /\ r.failure \notin Approved!BeforeMutation

StoreInv(records, locks) ==
  /\ records \in [RestoreIds -> ActionRow]
  /\ locks \in [Targets -> RestoreIds \cup {"free"}]
  /\ \A a \in RestoreIds : RecordInv(a, records[a], locks)
  /\ \A t \in Targets : locks[t] # "free" =>
       /\ records[locks[t]].target = t
       /\ records[locks[t]].status \in {"approved", "executing"}

(* A call that has begun has consumed the nonce and not mutated yet, and   *)
(* is the only one to have begun the action.                               *)
CallInv(x, records, runs) ==
  /\ x.phase = "idle" => x = Approved!NoCall
  /\ x.phase # "idle" =>
       x.action \in RestoreIds /\ x.grant # "none" /\ records[x.action].status # "none"
  /\ x.phase \in {"begun", "executed"} => records[x.action].consumed
  /\ x.phase = "begun" => runs[x.action] = 0

CallsInv(calls, records, runs) ==
  /\ calls \in [Clients -> ExecuteRow]
  /\ \A c \in Clients : CallInv(calls[c], records, runs)
  /\ \A c, d \in Clients :
       (calls[c].phase = "begun" /\ calls[d].phase = "begun"
          /\ calls[c].action = calls[d].action) => c = d

RunsInv(runs, records) ==
  /\ runs \in [RestoreIds -> {0, 1}]
  /\ \A a \in RestoreIds : runs[a] = 1 => records[a].consumed

KeysInv(chain, records) ==
  /\ chain \in [keys: SUBSET Devices, pending: [RestoreIds -> Devices \cup {"none"}]]
  /\ \A a \in RestoreIds : chain.pending[a] # "none" => records[a].status # "none"

(* The recovery pass says of an approved record only that it was           *)
(* interrupted before its mutation.                                        *)
PassInv(pass, records) ==
  pass # Approved!NoCheck =>
    /\ pass.action \in RestoreIds /\ records[pass.action].status # "none"
    /\ pass.outcome.status \in Approved!Terminal /\ pass.outcome.failure \in FailureCodes
    /\ pass.outcome.failure \in Approved!BeforeMutation => pass.seen = "approved"

ActionsInv ==
  /\ StoreInv(action, lock) /\ CallsInv(execution, action, mutations)
  /\ RunsInv(mutations, action) /\ KeysInv(keychain, action) /\ PassInv(recovery, action)
  /\ device \in [Devices -> {"absent", "active", "revoked"}]
  /\ workload \in [Targets -> Nat] /\ failures \in 0..MaxFailures
ActionsHold == part = "actions" => ActionsInv
LEMMA ActionsInitInv == ASSUME Approved!Init PROVE ActionsInv
<1>1. /\ action = [a \in RestoreIds |-> Approved!NoAction]
      /\ lock = [t \in Targets |-> "free"] /\ device = [d \in Devices |-> "absent"]
      /\ keychain = [keys |-> {}, pending |-> [a \in RestoreIds |-> "none"]]
      /\ workload = [t \in Targets |-> 1]
      /\ execution = [c \in Clients |-> Approved!NoCall] /\ recovery = Approved!NoCheck
      /\ mutations = [a \in RestoreIds |-> 0] /\ failures = 0
  BY DEF Approved!Init
<1>2. Approved!NoAction \in ActionRow /\ Approved!NoAction.failure = "none"
      /\ Approved!NoAction.status = "none" /\ ~Approved!NoAction.consumed
  BY DEF ActionRow, FailureCodes, Approved!NoAction
<1>3. Approved!NoCall \in ExecuteRow /\ Approved!NoCall.phase = "idle"
  BY DEF ExecuteRow, Approved!NoCall
<1>4. StoreInv(action, lock)
  BY <1>1, <1>2 DEF StoreInv, RecordInv, Approved!Terminal
<1>5. CallsInv(execution, action, mutations)
  BY <1>1, <1>3 DEF CallsInv, CallInv
<1>6. RunsInv(mutations, action) /\ PassInv(recovery, action)
  BY <1>1 DEF RunsInv, PassInv
<1>7. KeysInv(keychain, action)
  BY <1>1 DEF KeysInv
<1>8. failures \in 0..MaxFailures
  BY <1>1, AgentWorkAssumption
<1> QED BY <1>1, <1>4, <1>5, <1>6, <1>7, <1>8 DEF ActionsInv

LEMMA FailGoes ==
  ASSUME ActionsInv, Approved!Fail \/ failures' = failures
  PROVE  failures' \in 0..MaxFailures
BY AgentWorkAssumption DEF ActionsInv, Approved!Fail

(* No record disappears, and no nonce is given back.                       *)
Grows ==
  \A a \in RestoreIds :
    /\ action[a].status # "none" => action'[a].status # "none"
    /\ action[a].consumed => action'[a].consumed

(* One record moves, with its own lock.                                    *)
LEMMA RecordGoes ==
  ASSUME StoreInv(action, lock), NEW a \in RestoreIds, NEW r \in ActionRow,
         action' = [action EXCEPT ![a] = r], RecordInv(a, r, lock'),
         action[a].status # "none" => r.status # "none",
         action[a].consumed => r.consumed,
         lock' \in [Targets -> RestoreIds \cup {"free"}],
         \A t \in Targets :
           /\ lock'[t] = lock[t] \/ lock[t] \in {a, "free"}
           /\ lock'[t] \in {a, lock[t], "free"}
           /\ lock'[t] = a => r.target = t /\ r.status \in {"approved", "executing"}
  PROVE  StoreInv(action', lock') /\ Grows
<1>1. /\ action' \in [RestoreIds -> ActionRow]
      /\ \A b \in RestoreIds : action'[b] = IF b = a THEN r ELSE action[b]
  BY DEF StoreInv
<1>2. Grows
  BY <1>1 DEF Grows
<1>3. ASSUME NEW b \in RestoreIds PROVE RecordInv(b, action'[b], lock')
  <2>1. CASE b = a
    BY <1>1, <2>1
  <2>2. CASE b # a
    BY <1>1, <2>2, AgentWorkAssumption DEF StoreInv, RecordInv
  <2> QED BY <2>1, <2>2
<1>4. ASSUME NEW t \in Targets, lock'[t] # "free"
      PROVE  /\ action'[lock'[t]].target = t
             /\ action'[lock'[t]].status \in {"approved", "executing"}
  BY <1>1, <1>4 DEF StoreInv
<1> QED BY <1>1, <1>2, <1>3, <1>4 DEF StoreInv

(* Complete leaves a terminal record alone, and says "before the mutation" *)
(* only of one whose nonce is not consumed.                                *)
LEMMA CompleteInv ==
  ASSUME StoreInv(action, lock), NEW a \in RestoreIds, action[a].status # "none",
         NEW seen, NEW g \in Devices \cup {"none"}, NEW x,
         x.status \in Approved!Terminal, x.failure \in FailureCodes,
         x.failure \in Approved!BeforeMutation => seen \in {"preflighted", "approved"},
         Approved!Complete(a, seen, g, x)
  PROVE  StoreInv(action', lock') /\ Grows
<1> DEFINE ends == action[a].status \notin Approved!Terminal
                     /\ Approved!CanComplete(a, seen, g)
<1>1. CASE ~ends
  <2>1. action' = action /\ lock' = lock
    BY <1>1 DEF Approved!Complete, Approved!StoreVars
  <2> QED BY <2>1 DEF Grows
<1>2. CASE ends
  <2> DEFINE s == x.status
             f == x.failure
             h == IF g # "none" THEN g ELSE action[a].grant
             r == [action[a] EXCEPT !.status = s, !.failure = f, !.grant = h]
  <2>1. /\ action[a].status = seen /\ action[a].status \notin Approved!Terminal
        /\ action' = [action EXCEPT ![a] = r]
        /\ lock' = [t \in Targets |-> IF lock[t] = a THEN "free" ELSE lock[t]]
    <3>1. action[a].status = seen /\ action[a].status \notin Approved!Terminal
      BY <1>2 DEF Approved!CanComplete
    <3>2. /\ action' = [action EXCEPT ![a] =
                [action[a] EXCEPT !.status = x.status, !.failure = x.failure,
                   !.grant = IF g # "none" THEN g ELSE action[a].grant]]
          /\ lock' = [t \in Targets |-> IF lock[t] = a THEN "free" ELSE lock[t]]
      BY <1>2 DEF Approved!Complete
    <3> QED BY <3>1, <3>2
  <2>2. action[a] \in ActionRow /\ RecordInv(a, action[a], lock)
    BY DEF StoreInv
  <2>3. /\ h \in Devices \cup {"none"} /\ (action[a].consumed => h # "none")
        /\ f \in FailureCodes /\ s \in Approved!Terminal
    BY <2>2 DEF ActionRow, RecordInv
  <2>4. f \in Approved!BeforeMutation => ~action[a].consumed
    BY <2>1, <2>2 DEF RecordInv
  <2> HIDE DEF s, f, h
  <2>5. /\ r \in ActionRow /\ r.status = s /\ r.failure = f /\ r.grant = h
        /\ r.target = action[a].target /\ r.consumed = action[a].consumed
    BY <2>2, <2>3 DEF ActionRow
  <2> HIDE DEF r
  <2>6. RecordInv(a, r, lock')
    BY <2>2, <2>3, <2>4, <2>5 DEF RecordInv, Approved!Terminal
  <2>7. lock' \in [Targets -> RestoreIds \cup {"free"}]
        /\ \A t \in Targets : /\ lock'[t] = lock[t] \/ lock[t] \in {a, "free"}
                              /\ lock'[t] \in {lock[t], "free"}
                              /\ lock'[t] # a
    BY <2>1, AgentWorkAssumption DEF StoreInv
  <2>8. r.status # "none" /\ (action[a].consumed => r.consumed)
    BY <2>3, <2>5 DEF Approved!Terminal
  <2>9. \A t \in Targets :
          /\ lock'[t] = lock[t] \/ lock[t] \in {a, "free"}
          /\ lock'[t] \in {a, lock[t], "free"}
          /\ lock'[t] = a => r.target = t /\ r.status \in {"approved", "executing"}
    BY <2>7
  <2> QED BY <2>1, <2>5, <2>6, <2>7, <2>8, <2>9, RecordGoes
<1> QED BY <1>1, <1>2

(* Calls                                                                   *)
LEMMA ExecutionGoes ==
  ASSUME ActionsInv, Grows, NEW c \in Clients, NEW x \in ExecuteRow,
         execution' = [execution EXCEPT ![c] = x], CallInv(x, action', mutations),
         x.phase = "begun" => \A d \in Clients \ {c} :
           ~(execution[d].phase = "begun" /\ execution[d].action = x.action)
  PROVE  CallsInv(execution', action', mutations)
<1>1. /\ execution' \in [Clients -> ExecuteRow]
      /\ \A d \in Clients : execution'[d] = IF d = c THEN x ELSE execution[d]
  BY DEF ActionsInv, CallsInv
<1>2. ASSUME NEW d \in Clients PROVE CallInv(execution'[d], action', mutations)
  <2>1. CASE d = c
    BY <1>1, <2>1
  <2>2. CASE d # c
    BY <1>1, <2>2 DEF ActionsInv, CallsInv, CallInv, Grows, ExecuteRow, RunsInv, StoreInv,
                      ActionRow
  <2> QED BY <2>1, <2>2
<1>3. \A d, e \in Clients :
        (execution'[d].phase = "begun" /\ execution'[e].phase = "begun"
           /\ execution'[d].action = execution'[e].action) => d = e
  BY <1>1 DEF ActionsInv, CallsInv
<1> QED BY <1>1, <1>2, <1>3 DEF CallsInv

LEMMA StepGoes ==
  ASSUME ActionsInv, Grows, NEW c \in Clients, execution[c].phase # "idle",
         NEW p \in {"resolved", "reserved", "locked", "rechecked"}, Approved!Step(c, p)
  PROVE  CallsInv(execution', action', mutations) /\ KeysInv(keychain', action')
<1> DEFINE x == [execution[c] EXCEPT !.phase = p]
<1>1. execution[c] \in ExecuteRow /\ CallInv(execution[c], action, mutations)
  BY DEF ActionsInv, CallsInv
<1>2. /\ x \in ExecuteRow /\ x.phase = p /\ x.action = execution[c].action
      /\ x.grant = execution[c].grant
  BY <1>1 DEF ExecuteRow
<1>3. execution' = [execution EXCEPT ![c] = x] /\ keychain' = keychain
  BY DEF Approved!Step
<1> HIDE DEF x
<1>4. CallInv(x, action', mutations)
  BY <1>1, <1>2 DEF CallInv, Grows
<1>5. KeysInv(keychain', action')
  BY <1>3 DEF ActionsInv, KeysInv, Grows
<1> QED BY <1>2, <1>3, <1>4, <1>5, ExecutionGoes

LEMMA AnswerGoes ==
  ASSUME ActionsInv, Grows, NEW c \in Clients, execution[c].phase # "idle",
         NEW x, Approved!Answer(c, x)
  PROVE  CallsInv(execution', action', mutations) /\ KeysInv(keychain', action')
<1>1. /\ Approved!NoCall \in ExecuteRow
      /\ CallInv(Approved!NoCall, action', mutations) /\ Approved!NoCall.phase = "idle"
  BY DEF ExecuteRow, CallInv, Approved!NoCall
<1>2. CallsInv(execution', action', mutations)
  <2>1. execution' = [execution EXCEPT ![c] = Approved!NoCall]
    BY DEF Approved!Answer
  <2> QED BY <1>1, <2>1, ExecutionGoes
<1>3. KeysInv(keychain', action')
  <2> DEFINE a == execution[c].action
             v == [keychain.pending EXCEPT ![a] = "none"]
             w == [keychain EXCEPT !.pending = v]
  <2>1. keychain' \in {keychain, w} /\ KeysInv(keychain, action)
    BY DEF Approved!Answer, ActionsInv
  <2>2. /\ v \in [RestoreIds -> Devices \cup {"none"}]
        /\ \A b \in RestoreIds : v[b] # "none" => keychain.pending[b] # "none"
    BY <2>1 DEF KeysInv
  <2> HIDE DEF v
  <2>3. /\ w \in [keys: SUBSET Devices, pending: [RestoreIds -> Devices \cup {"none"}]]
        /\ w.pending = v
    BY <2>1, <2>2 DEF KeysInv
  <2> HIDE DEF w
  <2> QED BY <2>1, <2>2, <2>3 DEF KeysInv, Grows
<1> QED BY <1>2, <1>3

(* The store, the calls and the CLI move; the workloads do not.            *)
LEMMA ActionsMoveOn ==
  ASSUME ActionsInv, StoreInv(action', lock'), Grows,
         CallsInv(execution', action', mutations), KeysInv(keychain', action'),
         UNCHANGED <<device, workload, recovery, mutations>>,
         Approved!Fail \/ failures' = failures
  PROVE  ActionsInv'
<1>1. RunsInv(mutations', action')
  BY DEF ActionsInv, RunsInv, Grows
<1>2. PassInv(recovery', action')
  BY DEF ActionsInv, PassInv, Grows
<1>3. CallsInv(execution', action', mutations')
  BY DEF CallsInv
<1> QED BY <1>1, <1>2, <1>3, FailGoes DEF ActionsInv

LEMMA StoreStays ==
  ASSUME ActionsInv, UNCHANGED <<action, lock>>
  PROVE  StoreInv(action', lock') /\ Grows
BY DEF ActionsInv, Grows

(* finish and rejectAndPersist.                                            *)
LEMMA PersistInv ==
  ASSUME ActionsInv, NEW c \in Clients, execution[c].phase # "idle", NEW seen, NEW x,
         x.status \in Approved!Terminal, x.failure \in FailureCodes,
         x.failure \in Approved!BeforeMutation => seen \in {"preflighted", "approved"},
         Approved!Persist(c, seen, x), UNCHANGED <<device, workload, recovery, mutations>>,
         Approved!Fail \/ failures' = failures
  PROVE  ActionsInv'
<1>1. /\ execution[c].action \in RestoreIds /\ action[execution[c].action].status # "none"
      /\ execution[c].grant \in Devices \cup {"none"}
  BY DEF ActionsInv, CallsInv, CallInv, ExecuteRow
<1>2. /\ Approved!Complete(execution[c].action, seen, execution[c].grant, x)
      /\ \E y : Approved!Answer(c, y)
  BY DEF Approved!Persist
<1>3. StoreInv(action', lock') /\ Grows
  BY <1>1, <1>2, CompleteInv DEF ActionsInv
<1> QED BY <1>2, <1>3, AnswerGoes, ActionsMoveOn

LEMMA AnswersInv ==
  ASSUME ActionsInv, NEW c \in Clients, execution[c].phase # "idle",
         \E y : Approved!Answer(c, y),
         UNCHANGED <<action, lock, device, workload, recovery, mutations>>,
         Approved!Fail \/ failures' = failures
  PROVE  ActionsInv'
BY StoreStays, AnswerGoes, ActionsMoveOn

LEMMA StepsInv ==
  ASSUME ActionsInv, NEW c \in Clients, execution[c].phase # "idle",
         NEW p \in {"resolved", "reserved", "locked", "rechecked"}, Approved!Step(c, p),
         UNCHANGED <<action, lock, device, workload, recovery, mutations>>,
         Approved!Fail \/ failures' = failures
  PROVE  ActionsInv'
BY StoreStays, StepGoes, ActionsMoveOn

(* What a call does to end an action, or to leave it.                      *)
LEMMA EndsInv ==
  ASSUME ActionsInv, NEW c \in Clients,
         \/ Approved!Replay(c) \/ Approved!Expired(c) \/ Approved!ResolveDevice(c)
         \/ Approved!FinishLocked(c) \/ Approved!Recheck(c) \/ Approved!Finish(c)
         \/ Approved!Cancel(c)
  PROVE  ActionsInv'
<1> USE DEF Approved!StoreVars, Approved!RuntimeVars
<1>1. CASE Approved!Replay(c)
  <2>1. /\ execution[c].phase = "loaded" /\ \E y : Approved!Answer(c, y)
        /\ UNCHANGED <<action, lock, device, workload, recovery, mutations, failures>>
    BY <1>1 DEF Approved!Replay
  <2> QED BY <2>1, AnswersInv
<1>2. ASSUME NEW f \in {"challenge_expired", "device_unavailable"},
             execution[c].phase = "loaded", Approved!Reject(c, f),
             UNCHANGED <<device, workload, recovery, mutations>>,
             Approved!Fail \/ failures' = failures
      PROVE  ActionsInv'
  <2> DEFINE x == Approved!Rejected(f)
  <2>1. x.status = "rejected" /\ x.failure = f
    BY DEF Approved!Rejected, Approved!Result
  <2>2. Approved!Persist(c, execution[c].seen, x)
    BY <1>2 DEF Approved!Reject
  <2> HIDE DEF x
  <2>3. x.status \in Approved!Terminal /\ x.failure \in FailureCodes
        /\ x.failure \notin Approved!BeforeMutation
    BY <1>2, <2>1 DEF FailureCodes, Approved!BeforeMutation, Approved!Terminal
  <2> QED BY <1>2, <2>2, <2>3, PersistInv
<1>3. CASE Approved!Expired(c)
  <2>1. /\ execution[c].phase = "loaded" /\ Approved!Reject(c, "challenge_expired")
        /\ UNCHANGED <<device, workload, recovery, mutations, failures>>
    BY <1>3 DEF Approved!Expired
  <2> QED BY <1>2, <2>1
<1>4. CASE Approved!ResolveDevice(c)
  <2>1. /\ execution[c].phase = "loaded"
        /\ \/ Approved!Reject(c, "device_unavailable")
           \/ Approved!Step(c, "resolved") /\ UNCHANGED <<action, lock>>
        /\ UNCHANGED <<device, workload, recovery, mutations>>
        /\ Approved!Fail \/ failures' = failures
    BY <1>4 DEF Approved!ResolveDevice
  <2> QED BY <1>2, <2>1, StepsInv
<1>5. ASSUME execution[c].phase # "idle", NEW s \in {"preflighted", "approved", "executing"},
             NEW x, x = [status |-> x.status, failure |-> x.failure],
             Approved!Persist(c, s, x),
             \/ x.status = "rejected" /\ x.failure = "target_locked" /\ s = "preflighted"
             \/ x.status = "rejected" /\ x.failure = "state_stale" /\ s = "approved"
             \/ x.status = "failed" /\ x.failure \in {"execution_failed", "post_check_failed"}
             \/ x.status = "succeeded" /\ x.failure = "none",
             UNCHANGED <<device, workload, recovery, mutations>>,
             Approved!Fail \/ failures' = failures
      PROVE  ActionsInv'
  <2>1. /\ x.status \in Approved!Terminal /\ x.failure \in FailureCodes
        /\ x.failure \in Approved!BeforeMutation => s \in {"preflighted", "approved"}
    BY <1>5 DEF FailureCodes, Approved!BeforeMutation, Approved!Terminal
  <2> QED BY <1>5, <2>1, PersistInv
<1>6. CASE Approved!FinishLocked(c)
  <2>1. /\ execution[c].phase = "locked"
        /\ Approved!Persist(c, "preflighted", Approved!Rejected("target_locked"))
        /\ UNCHANGED <<device, workload, recovery, mutations, failures>>
    BY <1>6 DEF Approved!FinishLocked
  <2> QED BY <1>5, <2>1 DEF Approved!Rejected, Approved!Result
<1>7. CASE Approved!Recheck(c)
  <2>1. /\ execution[c].phase = "reserved"
        /\ \/ Approved!Step(c, "rechecked") /\ UNCHANGED <<action, lock>>
           \/ Approved!Persist(c, "approved", Approved!Rejected("state_stale"))
           \/ Approved!Persist(c, "approved", Approved!Result("failed", "execution_failed"))
           \/ Approved!Answer(c, "none") /\ UNCHANGED <<action, lock>>
        /\ UNCHANGED <<device, workload, recovery, mutations>>
        /\ Approved!Fail \/ failures' = failures
    BY <1>7 DEF Approved!Recheck
  <2>2. CASE Approved!Persist(c, "approved", Approved!Rejected("state_stale"))
    BY <1>5, <2>1, <2>2 DEF Approved!Rejected, Approved!Result
  <2>3. CASE Approved!Persist(c, "approved", Approved!Result("failed", "execution_failed"))
    BY <1>5, <2>1, <2>3 DEF Approved!Result
  <2> QED BY <2>1, <2>2, <2>3, StepsInv, AnswersInv
<1>8. CASE Approved!Finish(c)
  <2>1. /\ execution[c].phase = "executed"
        /\ \/ Approved!Persist(c, "executing", Approved!Result("succeeded", "none"))
           \/ Approved!Persist(c, "executing", Approved!Result("failed", "post_check_failed"))
           \/ Approved!Answer(c, "none") /\ UNCHANGED <<action, lock>>
        /\ UNCHANGED <<device, workload, recovery, mutations>>
        /\ Approved!Fail \/ failures' = failures
    BY <1>8 DEF Approved!Finish
  <2>2. CASE Approved!Persist(c, "executing", Approved!Result("succeeded", "none"))
    BY <1>5, <2>1, <2>2 DEF Approved!Result
  <2>3. CASE Approved!Persist(c, "executing", Approved!Result("failed", "post_check_failed"))
    BY <1>5, <2>1, <2>3 DEF Approved!Result
  <2> QED BY <2>1, <2>2, <2>3, AnswersInv
<1>9. CASE Approved!Cancel(c)
  <2>1. execution[c] # Approved!NoCall
    BY <1>9 DEF Approved!Cancel
  <2>2. execution[c].phase # "idle"
    BY <2>1 DEF ActionsInv, CallsInv, CallInv
  <2>3. /\ Approved!Answer(c, "none") /\ Approved!Fail
        /\ UNCHANGED <<action, lock, device, workload, recovery, mutations>>
    BY <1>9 DEF Approved!Cancel
  <2> QED BY <2>2, <2>3, AnswersInv
<1> QED BY <1>1, <1>3, <1>4, <1>6, <1>7, <1>8, <1>9

(* ReserveExecution: the target was free, or it is another's.              *)
LEMMA ReserveInv ==
  ASSUME ActionsInv, NEW c \in Clients, Approved!Reserve(c) PROVE ActionsInv'
<1> DEFINE a == execution[c].action
           g == execution[c].grant
           o == Approved!ReservationOf(a, g)
<1>1. /\ execution[c].phase = "resolved"
      /\ UNCHANGED <<device, workload, recovery, mutations, failures>>
  BY DEF Approved!Reserve, Approved!RuntimeVars
<1>2. /\ a \in RestoreIds /\ g \in Devices /\ g # "none" /\ action[a].status # "none"
      /\ action[a] \in ActionRow /\ RecordInv(a, action[a], lock)
      /\ lock \in [Targets -> RestoreIds \cup {"free"}]
  BY <1>1 DEF ActionsInv, CallsInv, CallInv, ExecuteRow, StoreInv
<1>3. CASE o = "acquired" /\ action' = [action EXCEPT ![a].status = "approved",
                                                      ![a].grant = g]
           /\ lock' = [lock EXCEPT ![action[a].target] = a]
           /\ Approved!Step(c, "reserved")
  <2> DEFINE r == [action[a] EXCEPT !.status = "approved", !.grant = g]
             t == action[a].target
  <2>1. action[a].status = "preflighted" /\ lock[t] = "free"
    BY <1>2, <1>3 DEF Approved!ReservationOf, ActionRow, RecordInv
  <2>2. action' = [action EXCEPT ![a] = r] /\ lock' = [lock EXCEPT ![t] = a]
    BY <1>3
  <2>3. /\ r \in ActionRow /\ r.status = "approved" /\ r.grant = g /\ r.target = t
        /\ r.consumed = action[a].consumed /\ r.failure = action[a].failure
    BY <1>2 DEF ActionRow
  <2>4. t \in Targets /\ ~action[a].consumed /\ action[a].failure = "none"
    BY <1>2, <2>1 DEF RecordInv, Approved!Terminal
  <2> HIDE DEF r, t, a, g, o
  <2>5. lock' \in [Targets -> RestoreIds \cup {"free"}] /\ lock'[t] = a
        /\ \A u \in Targets : u # t => lock'[u] = lock[u]
    BY <1>2, <2>2, <2>4
  <2>6. RecordInv(a, r, lock')
    BY <1>2, <2>3, <2>4, <2>5 DEF RecordInv, Approved!Terminal
  <2>7. \A u \in Targets : lock[u] = a =>
          action[a].target = u /\ action[a].status \in {"approved", "executing"}
    BY <1>2, AgentWorkAssumption DEF ActionsInv, StoreInv
  <2>8. \A u \in Targets :
          /\ lock'[u] = lock[u] \/ lock[u] \in {a, "free"}
          /\ lock'[u] \in {a, lock[u], "free"}
          /\ lock'[u] = a => r.target = u /\ r.status \in {"approved", "executing"}
    BY <2>1, <2>3, <2>5, <2>7
  <2>9. StoreInv(action', lock') /\ Grows
    BY <1>2, <2>2, <2>3, <2>4, <2>5, <2>6, <2>8, RecordGoes DEF ActionsInv
  <2> QED BY <1>1, <1>3, <2>9, StepGoes, ActionsMoveOn
<1>4. CASE o # "acquired" \/ UNCHANGED <<action, lock>>
  <2>1. UNCHANGED <<action, lock>>
        /\ (Approved!Step(c, "locked") \/ Approved!Step(c, "reserved")
              \/ \E y : Approved!Answer(c, y))
    BY <1>4 DEF Approved!Reserve, Approved!StoreVars
  <2> QED BY <1>1, <2>1, StepsInv, AnswersInv
<1> QED BY <1>3, <1>4 DEF Approved!Reserve, Approved!StoreVars

(* BeginExecution consumes the nonce of its own reservation.               *)
LEMMA BeginInv ==
  ASSUME ActionsInv, NEW c \in Clients, Approved!Begin(c) PROVE ActionsInv'
<1> DEFINE a == execution[c].action
<1>1. /\ execution[c].phase = "rechecked"
      /\ UNCHANGED <<lock, device, workload, recovery, mutations, failures>>
  BY DEF Approved!Begin, Approved!RuntimeVars
<1>2. /\ a \in RestoreIds /\ action[a].status # "none"
      /\ action[a] \in ActionRow /\ RecordInv(a, action[a], lock)
      /\ lock \in [Targets -> RestoreIds \cup {"free"}]
      /\ execution[c] \in ExecuteRow /\ CallInv(execution[c], action, mutations)
  BY <1>1 DEF ActionsInv, CallsInv, CallInv, ExecuteRow, StoreInv
<1>3. CASE Approved!CanBegin(a, execution[c].grant)
           /\ action' = [action EXCEPT ![a].status = "executing", ![a].consumed = TRUE]
           /\ Approved!Step(c, "begun")
  <2> DEFINE r == [action[a] EXCEPT !.status = "executing", !.consumed = TRUE]
             x == [execution[c] EXCEPT !.phase = "begun"]
  <2>1. /\ action[a].status = "approved" /\ ~action[a].consumed
        /\ lock[action[a].target] = a
    BY <1>3 DEF Approved!CanBegin
  <2>2. /\ action' = [action EXCEPT ![a] = r] /\ keychain' = keychain
        /\ execution' = [execution EXCEPT ![c] = x]
    BY <1>3 DEF Approved!Step
  <2>3. /\ r \in ActionRow /\ r.status = "executing" /\ r.consumed
        /\ r.grant = action[a].grant /\ r.target = action[a].target
        /\ r.failure = action[a].failure
    BY <1>2 DEF ActionRow
  <2>4. /\ x \in ExecuteRow /\ x.phase = "begun" /\ x.action = a
        /\ x.grant = execution[c].grant
    BY <1>2 DEF ExecuteRow
  <2>5. /\ action[a].failure = "none" /\ action[a].grant # "none"
        /\ action[a].target \in Targets /\ mutations[a] = 0
    BY <1>2, <2>1 DEF RecordInv, Approved!Terminal, ActionsInv, RunsInv
  <2>a. a = execution[c].action
    OBVIOUS
  <2> HIDE DEF r, x, a
  <2>6. RecordInv(a, r, lock')
    BY <1>1, <2>1, <2>3, <2>5
       DEF RecordInv, Approved!Terminal, Approved!BeforeMutation
  <2>7. \A u \in Targets : lock[u] = a => action[a].target = u
    BY <1>2, AgentWorkAssumption DEF ActionsInv, StoreInv
  <2>8. StoreInv(action', lock') /\ Grows
    <3>1. \A u \in Targets :
            /\ lock'[u] = lock[u] \/ lock[u] \in {a, "free"}
            /\ lock'[u] \in {a, lock[u], "free"}
            /\ lock'[u] = a => r.target = u /\ r.status \in {"approved", "executing"}
      BY <1>1, <2>3, <2>7
    <3> QED BY <1>1, <1>2, <2>2, <2>3, <2>6, <3>1, RecordGoes DEF ActionsInv
  <2>9. action'[a].consumed /\ action'[a].status # "none"
    BY <1>2, <2>2, <2>3 DEF ActionsInv, StoreInv
  <2>10. CallInv(x, action', mutations)
    BY <1>1, <1>2, <2>4, <2>5, <2>9, <2>a DEF CallInv
  <2>11. \A d \in Clients \ {c} :
           ~(execution[d].phase = "begun" /\ execution[d].action = x.action)
    BY <2>1, <2>4 DEF ActionsInv, CallsInv, CallInv
  <2>12. CallsInv(execution', action', mutations)
    BY <2>2, <2>4, <2>8, <2>10, <2>11, ExecutionGoes
  <2>13. KeysInv(keychain', action')
    BY <2>2, <2>8 DEF ActionsInv, KeysInv, Grows
  <2> QED BY <1>1, <2>8, <2>12, <2>13, ActionsMoveOn
<1>4. CASE UNCHANGED action /\ \E y : Approved!Answer(c, y)
  BY <1>1, <1>4, AnswersInv
<1> QED BY <1>3, <1>4 DEF Approved!Begin

(* executeTyped runs once: only this call had begun the action.            *)
LEMMA MutateInv ==
  ASSUME ActionsInv, NEW c \in Clients, Approved!Mutate(c) PROVE ActionsInv'
<1> DEFINE a == execution[c].action
           x == [execution[c] EXCEPT !.phase = "executed"]
<1>1. /\ execution[c].phase = "begun" /\ mutations' = [mutations EXCEPT ![a] = @ + 1]
      /\ UNCHANGED <<action, lock, keychain, device, recovery>>
      /\ execution' = [execution EXCEPT ![c] = x]
      /\ \/ workload' = [workload EXCEPT ![action[a].target] = @ + 1]
         \/ workload' = workload
      /\ Approved!Fail \/ failures' = failures
  BY DEF Approved!Mutate, Approved!Step, Approved!StoreVars
<1>2. /\ a \in RestoreIds /\ mutations[a] = 0 /\ action[a].consumed
      /\ execution[c] \in ExecuteRow /\ CallInv(execution[c], action, mutations)
      /\ mutations \in [RestoreIds -> {0, 1}]
  BY <1>1 DEF ActionsInv, CallsInv, CallInv, RunsInv
<1>3. /\ x \in ExecuteRow /\ x.phase = "executed" /\ x.action = a
      /\ x.grant = execution[c].grant
  BY <1>2 DEF ExecuteRow
<1>a. a = execution[c].action
  OBVIOUS
<1> HIDE DEF x, a
<1>4. /\ mutations' \in [RestoreIds -> {0, 1}]
      /\ \A b \in RestoreIds : mutations'[b] = IF b = a THEN 1 ELSE mutations[b]
  BY <1>1, <1>2
<1>5. RunsInv(mutations', action')
  BY <1>1, <1>2, <1>4 DEF ActionsInv, RunsInv
<1>6. /\ execution' \in [Clients -> ExecuteRow]
      /\ \A d \in Clients : execution'[d] = IF d = c THEN x ELSE execution[d]
  BY <1>1, <1>3 DEF ActionsInv, CallsInv
<1>7. ASSUME NEW d \in Clients PROVE CallInv(execution'[d], action', mutations')
  <2>1. CASE d = c
    BY <1>1, <1>2, <1>3, <1>6, <1>a, <2>1 DEF CallInv
  <2>2. CASE d # c
    <3>1. CallInv(execution[d], action, mutations)
          /\ ~(execution[d].phase = "begun" /\ execution[d].action = a)
      BY <1>1, <1>a, <2>2 DEF ActionsInv, CallsInv
    <3> QED BY <1>1, <1>4, <1>6, <2>2, <3>1 DEF CallInv
  <2> QED BY <2>1, <2>2
<1>8. CallsInv(execution', action', mutations')
  BY <1>1, <1>3, <1>6, <1>7 DEF ActionsInv, CallsInv
<1>9. workload' \in [Targets -> Nat]
  BY <1>1 DEF ActionsInv
<1>10. failures' \in 0..MaxFailures
  BY <1>1, FailGoes
<1> QED BY <1>1, <1>5, <1>8, <1>9, <1>10 DEF ActionsInv

LEMMA PeopleInv == ASSUME ActionsInv, Approved!People PROVE ActionsInv'
<1> USE DEF Approved!StoreVars, Approved!RuntimeVars, Approved!CliVars
<1>1. ASSUME NEW d \in Devices, Approved!Register(d) \/ Approved!Revoke(d)
      PROVE  ActionsInv'
  <2>1. /\ UNCHANGED <<action, lock, workload, mutations, execution, recovery>>
        /\ Approved!Fail \/ failures' = failures
    BY <1>1 DEF Approved!Register, Approved!Revoke
  <2>2. PICK s \in {"active", "revoked"} : device' = [device EXCEPT ![d] = s]
    BY <1>1 DEF Approved!Register, Approved!Revoke
  <2>3. PICK k \in SUBSET Devices : keychain' = [keychain EXCEPT !.keys = k]
    <3>1. keychain.keys \in SUBSET Devices
          /\ keychain = [keychain EXCEPT !.keys = keychain.keys]
      BY DEF ActionsInv, KeysInv
    <3>2. /\ keychain.keys \cup {d} \in SUBSET Devices
          /\ keychain.keys \ {d} \in SUBSET Devices
      BY <3>1
    <3>3. \/ keychain' = [keychain EXCEPT !.keys = keychain.keys \cup {d}]
          \/ keychain' = [keychain EXCEPT !.keys = keychain.keys \ {d}]
          \/ keychain' = keychain
      BY <1>1 DEF Approved!Register, Approved!Revoke
    <3> QED BY <3>1, <3>2, <3>3
  <2>4. KeysInv(keychain', action')
    BY <2>1, <2>3 DEF ActionsInv, KeysInv
  <2>5. device' \in [Devices -> {"absent", "active", "revoked"}]
    BY <2>2 DEF ActionsInv
  <2>6. failures' \in 0..MaxFailures
    BY <2>1, FailGoes
  <2> QED BY <2>1, <2>4, <2>5, <2>6 DEF ActionsInv
<1>2. ASSUME NEW a \in RestoreIds, NEW t \in Targets, Approved!Preflight(a, t)
      PROVE  ActionsInv'
  <2> DEFINE w == workload[t]
             r == [Approved!NoAction EXCEPT !.status = "preflighted", !.target = t,
                                            !.state = w]
  <2>1. /\ action[a] = Approved!NoAction /\ action' = [action EXCEPT ![a] = r]
        /\ UNCHANGED <<lock, keychain, device, workload, mutations, execution, recovery,
                       failures>>
    BY <1>2 DEF Approved!Preflight
  <2>2. w \in Nat
    BY DEF ActionsInv
  <2>3. /\ Approved!NoAction \in ActionRow /\ Approved!NoAction.status = "none"
        /\ Approved!NoAction.failure = "none" /\ ~Approved!NoAction.consumed
    BY DEF ActionRow, FailureCodes, Approved!NoAction
  <2> HIDE DEF w
  <2>4. /\ r \in ActionRow /\ r.status = "preflighted" /\ r.target = t
        /\ r.failure = "none" /\ ~r.consumed
    BY <2>2, <2>3 DEF ActionRow
  <2> HIDE DEF r
  <2>5. RecordInv(a, r, lock')
    BY <2>4 DEF RecordInv
  <2>6. \A u \in Targets : lock[u] # a
    BY <2>1, <2>3, AgentWorkAssumption DEF ActionsInv, StoreInv
  <2>7. StoreInv(action', lock') /\ Grows
    <3>1. lock' \in [Targets -> RestoreIds \cup {"free"}]
          /\ \A u \in Targets :
               /\ lock'[u] = lock[u] \/ lock[u] \in {a, "free"}
               /\ lock'[u] \in {a, lock[u], "free"}
               /\ lock'[u] = a => r.target = u /\ r.status \in {"approved", "executing"}
      BY <2>1, <2>6 DEF ActionsInv, StoreInv
    <3>2. /\ action[a].status = "none" /\ ~action[a].consumed /\ StoreInv(action, lock)
          /\ r.status # "none" /\ action' = [action EXCEPT ![a] = r]
      BY <2>1, <2>3, <2>4 DEF ActionsInv
    <3> QED BY <2>4, <2>5, <3>1, <3>2, RecordGoes
  <2>8. CallsInv(execution', action', mutations)
    BY <2>1, <2>7 DEF ActionsInv, CallsInv, CallInv, Grows
  <2>9. KeysInv(keychain', action')
    BY <2>1, <2>7 DEF ActionsInv, KeysInv, Grows
  <2> QED BY <2>1, <2>7, <2>8, <2>9, ActionsMoveOn
<1>3. ASSUME NEW a \in RestoreIds, NEW d \in Devices, Approved!Approve(a, d)
      PROVE  ActionsInv'
  <2> DEFINE v == [keychain.pending EXCEPT ![a] = d]
             k == [keychain EXCEPT !.pending = v]
  <2>1. /\ action[a] # Approved!NoAction /\ keychain' = k
        /\ UNCHANGED <<action, lock, device, workload, mutations, execution, recovery,
                       failures>>
    BY <1>3 DEF Approved!Approve
  <2>2. action[a].status # "none" /\ KeysInv(keychain, action)
    BY <2>1 DEF ActionsInv, StoreInv, RecordInv
  <2>3. /\ v \in [RestoreIds -> Devices \cup {"none"}]
        /\ \A b \in RestoreIds : v[b] # "none" => b = a \/ keychain.pending[b] # "none"
    BY <2>2 DEF KeysInv
  <2> HIDE DEF v
  <2>4. /\ k \in [keys: SUBSET Devices, pending: [RestoreIds -> Devices \cup {"none"}]]
        /\ k.pending = v
    BY <2>2, <2>3 DEF KeysInv
  <2> HIDE DEF k
  <2>5. KeysInv(keychain', action')
    BY <2>1, <2>2, <2>3, <2>4 DEF KeysInv
  <2> QED BY <2>1, <2>5 DEF ActionsInv
<1>4. ASSUME NEW a \in RestoreIds, NEW c \in Clients, Approved!Load(c, a)
      PROVE  ActionsInv'
  <2> DEFINE g == keychain.pending[a]
             s == action[a].status
             x == [phase |-> "loaded", action |-> a, grant |-> g, seen |-> s]
  <2>1. /\ g # "none" /\ execution' = [execution EXCEPT ![c] = x]
        /\ UNCHANGED <<action, lock, device, keychain, workload, mutations, recovery,
                       failures>>
    BY <1>4 DEF Approved!Load
  <2>2. /\ g \in Devices \cup {"none"} /\ s # "none"
        /\ s \in {"preflighted", "approved", "executing"} \cup Approved!Terminal
    BY <2>1 DEF ActionsInv, KeysInv, StoreInv, ActionRow
  <2>3. s = action[a].status
    OBVIOUS
  <2> HIDE DEF g, s
  <2>4. /\ x \in ExecuteRow /\ x.phase = "loaded" /\ x.action = a /\ x.grant = g
    BY <2>2 DEF ExecuteRow
  <2> HIDE DEF x
  <2>5. CallInv(x, action', mutations)
    BY <2>1, <2>2, <2>3, <2>4 DEF CallInv
  <2>6. StoreInv(action', lock') /\ Grows
    BY <2>1, StoreStays
  <2>7. CallsInv(execution', action', mutations)
    BY <2>1, <2>4, <2>5, <2>6, ExecutionGoes
  <2>8. KeysInv(keychain', action')
    BY <2>1 DEF ActionsInv
  <2> QED BY <2>1, <2>6, <2>7, <2>8, ActionsMoveOn
<1> QED BY <1>1, <1>2, <1>3, <1>4 DEF Approved!People

LEMMA ExecuteStepsInv ==
  ASSUME ActionsInv, NEW c \in Clients, Approved!ExecuteSteps(c) PROVE ActionsInv'
BY EndsInv, ReserveInv, BeginInv, MutateInv DEF Approved!ExecuteSteps

(* Recovery ends what it saw, and only if that has not gone on.            *)
LEMMA RecoveryStepsInv == ASSUME ActionsInv, Approved!RecoverySteps PROVE ActionsInv'
<1> USE DEF Approved!StoreVars, Approved!RuntimeVars, Approved!CliVars
<1>1. ASSUME NEW a \in RestoreIds, Approved!CheckRecord(a) PROVE ActionsInv'
  <2>1. /\ UNCHANGED <<action, lock, device, keychain, workload, mutations, execution>>
        /\ Approved!Fail \/ failures' = failures
        /\ action[a].status \in {"approved", "executing"}
    BY <1>1 DEF Approved!CheckRecord
  <2>2. \/ recovery' = [action |-> a, seen |-> "approved",
              outcome |-> [status |-> "rejected", failure |-> "interrupted_pre_mutation"]]
        \/ recovery' = [action |-> a, seen |-> "executing",
              outcome |-> [status |-> "succeeded", failure |-> "none"]]
        \/ recovery' = [action |-> a, seen |-> "executing",
              outcome |-> [status |-> "failed", failure |-> "execution_failed"]]
    BY <1>1 DEF Approved!CheckRecord, Approved!Rejected, Approved!Result
  <2>3. PassInv(recovery', action')
    BY <2>1, <2>2 DEF PassInv, FailureCodes, Approved!BeforeMutation, Approved!Terminal
  <2>4. failures' \in 0..MaxFailures
    BY <2>1, FailGoes
  <2> QED BY <2>1, <2>3, <2>4 DEF ActionsInv
<1>2. CASE Approved!CompleteRecord
  <2> DEFINE a == recovery.action
             s == recovery.seen
             x == recovery.outcome
  <2>1. /\ Approved!Complete(a, s, "none", x) /\ recovery' = Approved!NoCheck
        /\ UNCHANGED <<device, keychain, workload, mutations, execution, failures>>
        /\ recovery # Approved!NoCheck
    BY <1>2 DEF Approved!CompleteRecord
  <2>2. /\ a \in RestoreIds /\ action[a].status # "none"
        /\ x.status \in Approved!Terminal /\ x.failure \in FailureCodes
        /\ x.failure \in Approved!BeforeMutation => s = "approved"
    BY <2>1 DEF ActionsInv, PassInv
  <2> HIDE DEF a, s, x
  <2>3. StoreInv(action', lock') /\ Grows
    BY <2>1, <2>2, CompleteInv DEF ActionsInv
  <2>4. CallsInv(execution', action', mutations')
    BY <2>1, <2>3 DEF ActionsInv, CallsInv, CallInv, Grows
  <2>5. KeysInv(keychain', action') /\ RunsInv(mutations', action')
    BY <2>1, <2>3 DEF ActionsInv, KeysInv, RunsInv, Grows
  <2>6. PassInv(recovery', action')
    BY <2>1 DEF PassInv
  <2> QED BY <2>1, <2>3, <2>4, <2>5, <2>6 DEF ActionsInv
<1> QED BY <1>1, <1>2 DEF Approved!RecoverySteps

LEMMA OthersInv == ASSUME ActionsInv, Approved!Others PROVE ActionsInv'
<1> USE DEF Approved!StoreVars, Approved!RuntimeVars, Approved!CliVars
<1>1. CASE \E a \in RestoreIds : Approved!ChallengeExpires(a)
  BY <1>1 DEF Approved!ChallengeExpires, ActionsInv
<1>2. ASSUME NEW t \in Targets, Approved!ChangeWorkload(t) PROVE ActionsInv'
  <2>1. workload' \in [Targets -> Nat]
    BY <1>2 DEF Approved!ChangeWorkload, ActionsInv
  <2> QED BY <1>2, <2>1 DEF Approved!ChangeWorkload, ActionsInv
<1>3. CASE Approved!Crash
  <2>1. /\ execution' = [c \in Clients |-> Approved!NoCall]
        /\ recovery' = Approved!NoCheck /\ Approved!Fail
        /\ UNCHANGED <<action, lock, device, keychain, workload, mutations>>
    BY <1>3 DEF Approved!Crash
  <2>2. Approved!NoCall \in ExecuteRow /\ Approved!NoCall.phase = "idle"
    BY DEF ExecuteRow, Approved!NoCall
  <2>3. CallsInv(execution', action', mutations')
    BY <2>1, <2>2 DEF CallsInv, CallInv
  <2>4. PassInv(recovery', action') /\ failures' \in 0..MaxFailures
    BY <2>1, FailGoes DEF PassInv
  <2> QED BY <2>1, <2>3, <2>4 DEF ActionsInv
<1> QED BY <1>1, <1>2, <1>3 DEF Approved!Others

(* Whatever calls, retries, recovery passes and crashes do, an action runs *)
(* at most once, under a grant whose nonce it consumed and under its       *)
(* target's lock, and a result that says "before the mutation" is true     *)
(* (ReserveExecution, BeginExecution, Complete, Recover).                  *)
THEOREM ActionsMutateOnce == AgentWorkSpec => []MutatedOnceAsApproved
<1>1. AgentWorkInit => ActionsHold
  BY ActionsInitInv DEF AgentWorkInit, ActionsHold, NodeParts
<1>2. ActionsHold /\ [AgentWorkNext]_agentWorkVars => ActionsHold'
  <2> SUFFICES ASSUME ActionsHold, part' = "actions", [AgentWorkNext]_agentWorkVars
               PROVE  ActionsInv'
    BY DEF ActionsHold
  <2>1. CASE UNCHANGED agentWorkVars
    BY <2>1 DEF agentWorkVars, actionPlaneVars, ActionsHold, ActionsInv
  <2>2. CASE AgentWorkNext
    <3>1. /\ part = "actions"
          /\ \/ Approved!People \/ Approved!RecoverySteps \/ Approved!Others
             \/ \E c \in Clients : Approved!ExecuteSteps(c)
      BY <2>2 DEF AgentWorkNext, ResourcesMove, CopiesMove, SwitchMoves, ActionsMove,
                  NodesMove, NodeParts, SecretsMove
    <3> QED BY <3>1, PeopleInv, ExecuteStepsInv, RecoveryStepsInv, OthersInv
            DEF ActionsHold
  <2> QED BY <2>1, <2>2
<1>3. ActionsHold => MutatedOnceAsApproved
  <2> SUFFICES ASSUME ActionsInv
               PROVE  Approved!ActionTypeOK /\ Approved!MutatedOnceAsApproved
    BY DEF ActionsHold, MutatedOnceAsApproved
  <2>1. Approved!ActionTypeOK
    BY DEF ActionsInv, StoreInv, ActionRow, Approved!ActionTypeOK
  <2>2. ASSUME NEW a \in RestoreIds
        PROVE  /\ mutations[a] <= 1
               /\ mutations[a] = 1 => action[a].consumed /\ action[a].grant # "none"
               /\ action[a].failure \in Approved!BeforeMutation =>
                    /\ mutations[a] = 0
                    /\ \A c \in Clients : execution[c].action = a =>
                         execution[c].phase \notin {"begun", "executed"}
               /\ action[a].status \in {"approved", "executing"} =>
                    lock[action[a].target] = a
    BY DEF ActionsInv, StoreInv, RecordInv, RunsInv, CallsInv, CallInv
  <2> QED BY <2>1, <2>2 DEF Approved!MutatedOnceAsApproved
<1> QED BY <1>1, <1>2, <1>3, PTL DEF AgentWorkSpec

----------------------------------------------------------------------------
(* Cutover                                                                 *)

Outcomes == {"none", "running", "succeeded", "failed"}
ReviewRow ==
  [state: {"absent", "queued", "leased", "succeeded", "failed"}, rev: Nat,
   specs: [Switch!Sides -> Nat], token: 0..MaxLeases, expired: BOOLEAN]
SideRow == [binding: {"ready", "deleting", "gone"}, ready: BOOLEAN, spec: Nat]
CutoverRow ==
  [state: {"absent", "applying", "deploying", "succeeded", "failed"},
   of: Reviews \cup {"none"}, result: Nat]
RollbackRow ==
  [state: {"absent", "applying", "deploying", "succeeded", "failed"},
   of: Reviews \cup Clients \cup {"none"}, result: Nat]
FinalizationRow ==
  [state: {"absent", "validating", "revoking", "succeeded", "failed"},
   of: Clients \cup {"none"}, result: Nat]
RequestRow ==
  [step: {"idle", "insert", "validate", "switch", "deploy", "record", "revoke", "delete",
          "plan", "seal"},
   of: Reviews \cup Clients \cup {"none"}, rev: Nat]
Lease == [of: Reviews \cup {"none"}, token: Nat,
          status: {"none", "leased", "succeeded", "failed"}]

PostRow == [of: Switch!Ops, status: {"succeeded", "failed"}, result: Nat]

SwitchRows ==
  /\ config \in [rev: Nat \ {0}, db: Switch!Sides]
  /\ data \in [Switch!Sides -> SideRow] /\ cutoverReview \in [Reviews -> ReviewRow]
  /\ probe \in Lease /\ (probe.status # "none" => probe.of \in Reviews)
  /\ cutover \in [Clients -> CutoverRow] /\ rollback \in [Rollbacks -> RollbackRow]
  /\ finalization \in [Finalizations -> FinalizationRow]
  /\ call \in [Switch!Ops -> RequestRow] /\ outcome \in [Switch!Ops -> Outcomes]
  /\ posted \subseteq PostRow

(* The revision a cutover has made, once it has switched.                  *)
Made(r, x) ==
  IF r.result > 0 THEN r.result
  ELSE IF x.step \in {"deploy", "record"} THEN x.rev + 1 ELSE 0

(* A request is ahead of its row, knows the reviewed revision from its     *)
(* check on, and what it has made is not newer than the configuration; a   *)
(* row with a result has no request any more.                              *)
ApplyInv(r, x, o, reviews, top) ==
  /\ r.state = "absent" => r.result = 0 /\ x.step \in {"idle", "insert"} /\ o = "none"
  /\ x.step = "insert" => r.state = "absent"
  /\ x.step # "idle" => x.of \in Reviews /\ reviews[x.of].state # "absent"
  /\ x.step \in {"validate", "switch", "deploy", "record"} => r.of = x.of
  /\ x.step \in {"switch", "deploy", "record"} => x.rev = reviews[x.of].rev
  /\ x.step \in {"insert", "validate", "switch", "deploy"} => o = "none"
  /\ r.result > 0 => /\ x.step = "idle" /\ r.of \in Reviews
                     /\ reviews[r.of].state # "absent"
                     /\ r.result = reviews[r.of].rev + 1
  /\ r.state = "succeeded" => o = "succeeded"
  /\ Made(r, x) <= top

(* A result that is being completed is about a row that exists, and says   *)
(* what the deployment did; the revision that was read was made.           *)
PostInv(p, r, x, o, reviews, top) ==
  /\ r.state # "absent"
  /\ p.status = "succeeded" => o = "succeeded"
  /\ p.result > 0 => /\ x.step = "idle" /\ r.of \in Reviews
                     /\ reviews[r.of].state # "absent"
                     /\ p.result = reviews[r.of].rev + 1
                     /\ p.result <= top

(* Every step of a finalization is about a cutover that has succeeded.     *)
FinalizeInv(r, x, cutovers) ==
  /\ x.step = "insert" => r.state = "absent"
  /\ x.step \in {"delete", "plan", "seal"} =>
       r.state \in {"revoking", "succeeded", "failed"}
  /\ x.step # "idle" => x.of \in Clients /\ cutovers[x.of].state = "succeeded"
  /\ r.of # "none" => r.of \in Clients /\ cutovers[r.of].state = "succeeded"

(* The revisions a cutover has made: its row, or a result that will be     *)
(* written to it, says so.                                                 *)
MadeBy(c, n, rows, requests, posts) ==
  \/ n = Made(rows[c], requests[c])
  \/ \E p \in posts : p.of = c /\ p.result = n
MadeOnce(rows, requests, posts) ==
  \A c, d \in Clients : \A n \in Nat \ {0} :
    MadeBy(c, n, rows, requests, posts) /\ MadeBy(d, n, rows, requests, posts) => c = d

SourceKept(sides, finals) ==
  sides["source"].binding # "ready" =>
    \E f \in Finalizations : finals[f].state \in {"revoking", "succeeded", "failed"}

SwitchInv ==
  /\ SwitchRows /\ MadeOnce(cutover, call, posted) /\ SourceKept(data, finalization)
  /\ \A c \in Clients :
       ApplyInv(cutover[c], call[c], outcome[c], cutoverReview, config.rev)
  /\ \A p \in posted : p.of \in Clients =>
       PostInv(p, cutover[p.of], call[p.of], outcome[p.of], cutoverReview, config.rev)
  /\ \A f \in Finalizations : FinalizeInv(finalization[f], call[f], cutover)
  /\ \A p \in posted : p.of \in Finalizations => finalization[p.of].state # "absent"
SwitchHolds == part = "cutover" => SwitchInv
LEMMA SwitchInitInv == ASSUME Switch!Init PROVE SwitchInv
<1>1. /\ config = [rev |-> 1, db |-> "source"]
      /\ data = [s \in Switch!Sides |-> [binding |-> "ready", ready |-> TRUE, spec |-> 1]]
      /\ cutoverReview = [v \in Reviews |-> Switch!NoReview]
      /\ probe = [of |-> "none", token |-> 0, status |-> "none"]
      /\ cutover = [c \in Clients |-> Switch!NoRow]
      /\ rollback = [r \in Rollbacks |-> Switch!NoRow]
      /\ finalization = [f \in Finalizations |-> Switch!NoRow]
      /\ call = [o \in Switch!Ops |-> Switch!Idle]
      /\ outcome = [o \in Switch!Ops |-> "none"] /\ posted = {}
  BY DEF Switch!Init
<1>2. /\ Switch!NoReview \in ReviewRow /\ Switch!NoRow \in CutoverRow
      /\ Switch!NoRow \in RollbackRow /\ Switch!NoRow \in FinalizationRow
      /\ Switch!NoRow.state = "absent" /\ Switch!NoRow.of = "none"
      /\ Switch!NoRow.result = 0
      /\ Switch!Idle \in RequestRow /\ Switch!Idle.step = "idle"
  BY AgentWorkAssumption
     DEF ReviewRow, CutoverRow, RollbackRow, FinalizationRow, RequestRow, Switch!NoReview,
         Switch!NoRow, Switch!Idle
<1>3. SwitchRows
  BY <1>1, <1>2 DEF SwitchRows, SideRow, Switch!Sides, Lease, Outcomes
<1>4. Clients \subseteq Switch!Ops /\ Finalizations \subseteq Switch!Ops
  BY DEF Switch!Ops
<1>5. \A c \in Clients :
        ApplyInv(cutover[c], call[c], outcome[c], cutoverReview, config.rev)
  BY <1>1, <1>2, <1>4 DEF ApplyInv, Made
<1>6. MadeOnce(cutover, call, posted)
  BY <1>1, <1>2, <1>4 DEF MadeOnce, MadeBy, Made
<1>7. SourceKept(data, finalization)
  BY <1>1 DEF SourceKept, Switch!Sides
<1>8. \A f \in Finalizations : FinalizeInv(finalization[f], call[f], cutover)
  BY <1>1, <1>2, <1>4 DEF FinalizeInv
<1> QED BY <1>1, <1>3, <1>5, <1>6, <1>7, <1>8 DEF SwitchInv

(* The revision only grows, and a review that exists keeps the one it saw. *)
ReviewsKept ==
  \A v \in Reviews : cutoverReview[v].state # "absent" =>
    /\ cutoverReview'[v].state # "absent"
    /\ cutoverReview'[v].rev = cutoverReview[v].rev

LEMMA ApplyStays ==
  ASSUME SwitchRows, NEW c \in Clients,
         ApplyInv(cutover[c], call[c], outcome[c], cutoverReview, config.rev),
         ReviewsKept, config'.rev \in Nat, config.rev <= config'.rev
  PROVE  ApplyInv(cutover[c], call[c], outcome[c], cutoverReview', config'.rev)
<1>1. /\ cutover[c] \in CutoverRow /\ call[c] \in RequestRow /\ config.rev \in Nat
      /\ Made(cutover[c], call[c]) \in Nat
  BY DEF SwitchRows, CutoverRow, RequestRow, Switch!Ops, Made
<1> DEFINE m == Made(cutover[c], call[c])
           t == config.rev
           u == config'.rev
<1>2. m <= t /\ t <= u => m <= u
  <2> HIDE DEF m, t, u
  <2> SUFFICES m \in Nat /\ t \in Nat /\ u \in Nat
    OBVIOUS
  <2> QED BY <1>1 DEF m, t, u
<1> QED BY <1>2 DEF ApplyInv, ReviewsKept

LEMMA PostStays ==
  ASSUME SwitchRows, NEW p \in PostRow, NEW r, NEW x, NEW o,
         PostInv(p, r, x, o, cutoverReview, config.rev),
         ReviewsKept, config'.rev \in Nat, config.rev <= config'.rev
  PROVE  PostInv(p, r, x, o, cutoverReview', config'.rev)
<1>1. config.rev \in Nat /\ p.result \in Nat
  BY DEF SwitchRows, PostRow
<1> DEFINE m == p.result
           t == config.rev
           u == config'.rev
<1>2. m <= t /\ t <= u => m <= u
  <2> HIDE DEF m, t, u
  <2> SUFFICES m \in Nat /\ t \in Nat /\ u \in Nat
    OBVIOUS
  <2> QED BY <1>1 DEF m, t, u
<1> QED BY <1>2 DEF PostInv, ReviewsKept

(* Reviews, data and the configuration move, no row and no request does.   *)
LEMMA SurroundingsGo ==
  ASSUME SwitchInv, UNCHANGED <<cutover, rollback, finalization, call, outcome, posted>>,
         config' \in [rev: Nat \ {0}, db: Switch!Sides], config.rev <= config'.rev,
         data' \in [Switch!Sides -> SideRow],
         data'["source"].binding # "ready" => data["source"].binding # "ready",
         cutoverReview' \in [Reviews -> ReviewRow], ReviewsKept,
         probe' \in Lease, probe'.status # "none" => probe'.of \in Reviews
  PROVE  SwitchInv'
<1>1. /\ SwitchRows' /\ MadeOnce(cutover', call', posted')
      /\ SourceKept(data', finalization')
  BY DEF SwitchInv, SwitchRows, MadeOnce, SourceKept
<1>2. config'.rev \in Nat
  OBVIOUS
<1>3. ASSUME NEW c \in Clients
      PROVE  ApplyInv(cutover'[c], call'[c], outcome'[c], cutoverReview', config'.rev)
  BY <1>2, ApplyStays DEF SwitchInv
<1>4. \A f \in Finalizations : FinalizeInv(finalization'[f], call'[f], cutover')
  BY DEF SwitchInv
<1>5. ASSUME NEW p \in posted', p.of \in Clients
      PROVE  PostInv(p, cutover'[p.of], call'[p.of], outcome'[p.of], cutoverReview',
                     config'.rev)
  <2>1. /\ p \in PostRow /\ p \in posted /\ SwitchRows
        /\ PostInv(p, cutover[p.of], call[p.of], outcome[p.of], cutoverReview, config.rev)
    BY <1>5 DEF SwitchInv, SwitchRows
  <2>2. PostInv(p, cutover[p.of], call[p.of], outcome[p.of], cutoverReview', config'.rev)
    BY <1>2, <2>1, PostStays
  <2> QED BY <2>2
<1>6. \A p \in posted' : p.of \in Finalizations => finalization'[p.of].state # "absent"
  BY DEF SwitchInv
<1> QED BY <1>1, <1>3, <1>4, <1>5, <1>6 DEF SwitchInv

(* What the other rows and the results of others say stands.               *)
LEMMA PostsStand ==
  ASSUME SwitchInv, posted' \subseteq posted, ReviewsKept,
         config'.rev \in Nat, config.rev <= config'.rev,
         NEW p \in posted', p.of \in Clients,
         cutover'[p.of] = cutover[p.of], call'[p.of] = call[p.of],
         outcome'[p.of] = outcome[p.of]
  PROVE  PostInv(p, cutover'[p.of], call'[p.of], outcome'[p.of], cutoverReview', config'.rev)
<1>1. p \in PostRow /\ SwitchRows
      /\ PostInv(p, cutover[p.of], call[p.of], outcome[p.of], cutoverReview, config.rev)
  BY DEF SwitchInv, SwitchRows
<1> QED BY <1>1, PostStays

LEMMA MadeIsOld ==
  ASSUME SwitchInv, NEW d \in Clients, NEW n \in Nat \ {0},
         MadeBy(d, n, cutover, call, posted)
  PROVE  n <= config.rev
<1>1. CASE n = Made(cutover[d], call[d])
  BY <1>1 DEF SwitchInv, ApplyInv
<1>2. ASSUME NEW p \in posted, p.of = d, p.result = n PROVE n <= config.rev
  <2>1. PostInv(p, cutover[p.of], call[p.of], outcome[p.of], cutoverReview, config.rev)
    BY <1>2 DEF SwitchInv
  <2> QED BY <1>2, <2>1 DEF PostInv
<1> QED BY <1>1, <1>2 DEF MadeBy

(* One cutover moves, and what it has made is new, or it had made it.      *)
LEMMA CutoverGoes ==
  ASSUME SwitchInv, NEW c \in Clients,
         UNCHANGED <<data, cutoverReview, probe, rollback, finalization>>,
         posted' \subseteq posted,
         config' \in [rev: Nat \ {0}, db: Switch!Sides], config.rev <= config'.rev,
         cutover' \in [Clients -> CutoverRow], call' \in [Switch!Ops -> RequestRow],
         outcome' \in [Switch!Ops -> Outcomes],
         \A d \in Clients \ {c} : cutover'[d] = cutover[d],
         \A o \in Switch!Ops \ {c} : call'[o] = call[o] /\ outcome'[o] = outcome[o],
         ApplyInv(cutover'[c], call'[c], outcome'[c], cutoverReview, config'.rev),
         \/ Made(cutover'[c], call'[c]) = 0
         \/ MadeBy(c, Made(cutover'[c], call'[c]), cutover, call, posted)
         \/ config.rev < Made(cutover'[c], call'[c]),
         cutover[c].state = "succeeded" => cutover'[c].state = "succeeded",
         cutover[c].state # "absent" =>
           /\ cutover'[c].state # "absent" /\ cutover'[c].of = cutover[c].of
           /\ call[c].step = "idle" => call'[c].step = "idle",
         outcome[c] = "succeeded" => outcome'[c] = "succeeded"
  PROVE  SwitchInv'
<1>1. SwitchRows' /\ ReviewsKept /\ config'.rev \in Nat /\ c \in Switch!Ops
  BY DEF SwitchInv, SwitchRows, ReviewsKept, Switch!Ops
<1>2. ASSUME NEW d \in Clients \ {c}
      PROVE  cutover'[d] = cutover[d] /\ call'[d] = call[d] /\ outcome'[d] = outcome[d]
  BY DEF Switch!Ops
<1>3. ASSUME NEW d \in Clients
      PROVE  ApplyInv(cutover'[d], call'[d], outcome'[d], cutoverReview', config'.rev)
  <2>1. CASE d = c
    BY <2>1
  <2>2. CASE d # c
    BY <1>1, <1>2, <2>2, ApplyStays DEF SwitchInv
  <2> QED BY <2>1, <2>2
<1>4. MadeOnce(cutover', call', posted')
  <2> DEFINE m == Made(cutover'[c], call'[c])
  <2>1. m \in Nat /\ config.rev \in Nat
    <3>1. cutover'[c] \in CutoverRow /\ call'[c] \in RequestRow
      BY <1>1
    <3>2. m \in Nat
      BY <3>1 DEF Made, CutoverRow, RequestRow
    <3> QED BY <3>2 DEF SwitchInv, SwitchRows
  <2>2. ASSUME NEW d \in Clients, d # c, NEW n \in Nat, MadeBy(d, n, cutover', call', posted')
        PROVE  MadeBy(d, n, cutover, call, posted)
    BY <1>2, <2>2 DEF MadeBy
  <2>3. ASSUME NEW n \in Nat \ {0}, MadeBy(c, n, cutover', call', posted')
        PROVE  MadeBy(c, n, cutover, call, posted) \/ (n = m /\ config.rev < n)
    BY <2>3 DEF MadeBy
  <2> HIDE DEF m
  <2>4. ASSUME NEW d \in Clients, NEW e \in Clients, NEW n \in Nat \ {0},
               MadeBy(d, n, cutover', call', posted'), MadeBy(e, n, cutover', call', posted')
        PROVE  d = e
    <3>1. \A x \in Clients : MadeBy(x, n, cutover, call, posted) => n <= config.rev
      BY MadeIsOld
    <3>2. \A x, y \in Clients : MadeBy(x, n, cutover, call, posted)
            /\ MadeBy(y, n, cutover, call, posted) => x = y
      BY DEF SwitchInv, MadeOnce
    <3>3. ~(n <= config.rev /\ config.rev < n)
      BY <2>1
    <3> QED BY <2>2, <2>3, <2>4, <3>1, <3>2, <3>3
  <2> QED BY <2>4 DEF MadeOnce
<1>5. ASSUME NEW f \in Finalizations
      PROVE  FinalizeInv(finalization'[f], call'[f], cutover')
  <2>1. f # c /\ f \in Switch!Ops
    BY AgentWorkAssumption DEF Switch!Ops
  <2>2. call'[f] = call[f] /\ finalization'[f] = finalization[f]
    BY <2>1
  <2> QED BY <2>2 DEF SwitchInv, FinalizeInv
<1>6. SourceKept(data', finalization')
  BY DEF SwitchInv
<1>7. ASSUME NEW p \in posted', p.of \in Clients
      PROVE  PostInv(p, cutover'[p.of], call'[p.of], outcome'[p.of], cutoverReview',
                     config'.rev)
  <2>1. CASE p.of = c
    <3>1. /\ p \in posted /\ p \in PostRow /\ SwitchRows
          /\ PostInv(p, cutover[c], call[c], outcome[c], cutoverReview, config.rev)
      BY <1>7, <2>1 DEF SwitchInv, SwitchRows
    <3>2. PostInv(p, cutover[c], call[c], outcome[c], cutoverReview', config'.rev)
      BY <1>1, <3>1, PostStays
    <3> QED BY <2>1, <3>2 DEF PostInv
  <2>2. CASE p.of # c
    BY <1>1, <1>2, <1>7, <2>2, PostsStand
  <2> QED BY <2>1, <2>2
<1>8. \A p \in posted' : p.of \in Finalizations => finalization'[p.of].state # "absent"
  BY DEF SwitchInv
<1> QED BY <1>1, <1>3, <1>4, <1>5, <1>6, <1>7, <1>8 DEF SwitchInv

(* No cutover moves.                                                       *)
LEMMA CutoversStay ==
  ASSUME SwitchInv, UNCHANGED <<cutoverReview, cutover>>, posted' \subseteq posted,
         config'.rev \in Nat, config.rev <= config'.rev,
         \A c \in Clients : call'[c] = call[c] /\ outcome'[c] = outcome[c]
  PROVE  /\ MadeOnce(cutover', call', posted')
         /\ \A c \in Clients :
              ApplyInv(cutover'[c], call'[c], outcome'[c], cutoverReview', config'.rev)
         /\ \A p \in posted' : p.of \in Clients =>
              PostInv(p, cutover'[p.of], call'[p.of], outcome'[p.of], cutoverReview',
                      config'.rev)
<1>1. SwitchRows /\ ReviewsKept
  BY DEF SwitchInv, ReviewsKept
<1>2. ASSUME NEW c \in Clients
      PROVE  ApplyInv(cutover'[c], call'[c], outcome'[c], cutoverReview', config'.rev)
  BY <1>1, ApplyStays DEF SwitchInv
<1>3. ASSUME NEW p \in posted', p.of \in Clients
      PROVE  PostInv(p, cutover'[p.of], call'[p.of], outcome'[p.of], cutoverReview',
                     config'.rev)
  BY <1>1, <1>3, PostsStand
<1>4. MadeOnce(cutover', call', posted')
  <2>1. ASSUME NEW d \in Clients, NEW n \in Nat, MadeBy(d, n, cutover', call', posted')
        PROVE  MadeBy(d, n, cutover, call, posted)
    BY <2>1 DEF MadeBy
  <2> QED BY <2>1 DEF SwitchInv, MadeOnce
<1> QED BY <1>2, <1>3, <1>4

(* One finalization moves.                                                 *)
LEMMA FinalizationGoes ==
  ASSUME SwitchInv, NEW f \in Finalizations,
         UNCHANGED <<config, cutoverReview, probe, cutover, rollback>>,
         posted' \subseteq posted,
         data' \in [Switch!Sides -> SideRow], outcome' \in [Switch!Ops -> Outcomes],
         finalization' \in [Finalizations -> FinalizationRow],
         call' \in [Switch!Ops -> RequestRow],
         \A g \in Finalizations \ {f} : finalization'[g] = finalization[g],
         \A o \in Switch!Ops \ {f} : call'[o] = call[o] /\ outcome'[o] = outcome[o],
         FinalizeInv(finalization'[f], call'[f], cutover),
         finalization[f].state \in {"revoking", "succeeded", "failed"}
           => finalization'[f].state \in {"revoking", "succeeded", "failed"},
         finalization[f].state # "absent" => finalization'[f].state # "absent",
         \/ data'["source"].binding = data["source"].binding
         \/ finalization'[f].state \in {"revoking", "succeeded", "failed"}
  PROVE  SwitchInv'
<1>1. SwitchRows' /\ config.rev \in Nat
  BY DEF SwitchInv, SwitchRows
<1>2. \A c \in Clients : call'[c] = call[c] /\ outcome'[c] = outcome[c]
  BY AgentWorkAssumption DEF Switch!Ops
<1>3. config'.rev \in Nat /\ config.rev <= config'.rev
  BY <1>1
<1>4. ASSUME NEW g \in Finalizations
      PROVE  FinalizeInv(finalization'[g], call'[g], cutover')
  BY DEF SwitchInv, Switch!Ops
<1>5. SourceKept(data', finalization')
  BY DEF SwitchInv, SourceKept
<1>6. \A p \in posted' : p.of \in Finalizations => finalization'[p.of].state # "absent"
  BY DEF SwitchInv
<1> QED BY <1>1, <1>2, <1>3, <1>4, <1>5, <1>6, CutoversStay DEF SwitchInv

(* One rollback moves.                                                     *)
LEMMA RollbackGoes ==
  ASSUME SwitchInv, NEW r \in Rollbacks,
         UNCHANGED <<data, cutoverReview, probe, cutover, finalization>>,
         posted' \subseteq posted,
         config' \in [rev: Nat \ {0}, db: Switch!Sides], config.rev <= config'.rev,
         rollback' \in [Rollbacks -> RollbackRow], call' \in [Switch!Ops -> RequestRow],
         outcome' \in [Switch!Ops -> Outcomes],
         \A o \in Switch!Ops \ {r} : call'[o] = call[o] /\ outcome'[o] = outcome[o]
  PROVE  SwitchInv'
<1>1. SwitchRows' /\ config'.rev \in Nat
  BY DEF SwitchInv, SwitchRows
<1>2. ASSUME NEW o \in Clients \cup Finalizations
      PROVE  call'[o] = call[o] /\ (o \in Clients => outcome'[o] = outcome[o])
  BY AgentWorkAssumption DEF Switch!Ops
<1>3. SourceKept(data', finalization')
  BY DEF SwitchInv
<1>4. \A f \in Finalizations : FinalizeInv(finalization'[f], call'[f], cutover')
  BY <1>2 DEF SwitchInv
<1>5. \A p \in posted' : p.of \in Finalizations => finalization'[p.of].state # "absent"
  BY DEF SwitchInv
<1> QED BY <1>1, <1>2, <1>3, <1>4, <1>5, CutoversStay DEF SwitchInv

(* Requests go a step further, or return.                                  *)
LEMMA RequestGoes ==
  ASSUME SwitchRows, NEW o \in Switch!Ops,
         NEW s \in {"insert", "validate", "switch", "deploy", "record", "revoke", "delete",
                 "plan", "seal"},
         Switch!Reaches(o, s)
  PROVE  /\ call' \in [Switch!Ops -> RequestRow] /\ call'[o].step = s
         /\ call'[o].of = call[o].of /\ call'[o].rev = call[o].rev
         /\ \A p \in Switch!Ops \ {o} : call'[p] = call[p]
<1> DEFINE x == [call[o] EXCEPT !.step = s]
<1>1. /\ x \in RequestRow /\ x.step = s /\ x.of = call[o].of /\ x.rev = call[o].rev
      /\ call' = [call EXCEPT ![o] = x]
  BY DEF SwitchRows, RequestRow, Switch!Reaches
<1> HIDE DEF x
<1> QED BY <1>1 DEF SwitchRows

LEMMA RequestReturns ==
  ASSUME SwitchRows, NEW o \in Switch!Ops, Switch!Returns(o)
  PROVE  /\ call' \in [Switch!Ops -> RequestRow] /\ call'[o].step = "idle"
         /\ \A p \in Switch!Ops \ {o} : call'[p] = call[p]
<1>1. /\ Switch!Idle \in RequestRow /\ Switch!Idle.step = "idle"
      /\ call' = [call EXCEPT ![o] = Switch!Idle]
  BY DEF RequestRow, Switch!Idle, Switch!Returns
<1> QED BY <1>1 DEF SwitchRows

LEMMA RequestBegins ==
  ASSUME SwitchRows, NEW o \in Switch!Ops, NEW v \in Reviews \cup Clients,
         call' = [call EXCEPT ![o] = [step |-> "insert", of |-> v, rev |-> 0]]
  PROVE  /\ call' \in [Switch!Ops -> RequestRow]
         /\ call'[o].step = "insert" /\ call'[o].of = v
         /\ \A p \in Switch!Ops \ {o} : call'[p] = call[p]
<1> DEFINE x == [step |-> "insert", of |-> v, rev |-> 0]
<1>1. x \in RequestRow /\ x.step = "insert" /\ x.of = v
  BY DEF RequestRow
<1> HIDE DEF x
<1> QED BY <1>1 DEF SwitchRows, x

(* A succeeded row is immutable, another gets what is written.             *)
CutoverMoves(c, s, n) ==
  /\ cutover' \in [Clients -> CutoverRow] /\ cutover'[c].of = cutover[c].of
  /\ \A d \in Clients \ {c} : cutover'[d] = cutover[d]
  /\ cutover[c].state = "succeeded" => cutover'[c] = cutover[c]
  /\ cutover[c].state # "succeeded" => cutover'[c].state = s /\ cutover'[c].result = n

LEMMA UpdateCutover ==
  ASSUME SwitchRows, NEW c \in Clients, NEW s \in {"deploying", "succeeded", "failed"},
         NEW n \in Nat,
         \/ cutover' = Switch!Update(cutover, c,
                         [cutover[c] EXCEPT !.state = s, !.result = n])
         \/ /\ cutover' = Switch!Update(cutover, c, [cutover[c] EXCEPT !.state = s])
            /\ n = cutover[c].result
  PROVE  CutoverMoves(c, s, n)
<1>1. cutover[c] \in CutoverRow
  BY DEF SwitchRows
<1>2. CASE cutover[c].state = "succeeded"
  <2>1. cutover' = cutover
    BY <1>2 DEF Switch!Update, Switch!SucceededImmutable
  <2> QED BY <1>2, <2>1 DEF SwitchRows, CutoverMoves
<1>3. CASE cutover[c].state # "succeeded"
  <2>1. PICK r \in CutoverRow : /\ cutover' = [cutover EXCEPT ![c] = r] /\ r.state = s
                                /\ r.result = n /\ r.of = cutover[c].of
    <3> DEFINE r1 == [cutover[c] EXCEPT !.state = s, !.result = n]
               r2 == [cutover[c] EXCEPT !.state = s]
    <3>1. /\ r1 \in CutoverRow /\ r1.state = s /\ r1.result = n /\ r1.of = cutover[c].of
          /\ r2 \in CutoverRow /\ r2.state = s /\ r2.result = cutover[c].result
          /\ r2.of = cutover[c].of
      BY <1>1 DEF CutoverRow
    <3>2. \/ cutover' = [cutover EXCEPT ![c] = r1]
          \/ cutover' = [cutover EXCEPT ![c] = r2] /\ n = cutover[c].result
      BY <1>3 DEF Switch!Update, Switch!SucceededImmutable
    <3> HIDE DEF r1, r2
    <3> QED BY <3>1, <3>2
  <2> QED BY <1>3, <2>1 DEF SwitchRows, CutoverMoves
<1> QED BY <1>2, <1>3

(* The rows of an Apply request.                                           *)
LEMMA ApplyRows ==
  ASSUME SwitchInv, NEW c \in Clients
  PROVE  /\ SwitchRows /\ c \in Switch!Ops /\ cutover[c] \in CutoverRow
         /\ call[c] \in RequestRow /\ config.rev \in Nat /\ config.rev <= config.rev
         /\ config \in [rev: Nat \ {0}, db: Switch!Sides]
         /\ outcome \in [Switch!Ops -> Outcomes] /\ cutover \in [Clients -> CutoverRow]
         /\ call \in [Switch!Ops -> RequestRow]
         /\ ApplyInv(cutover[c], call[c], outcome[c], cutoverReview, config.rev)
BY DEF SwitchInv, SwitchRows, Switch!Ops

LEMMA BeginApplyInv ==
  ASSUME SwitchInv, NEW c \in Clients, NEW v \in Reviews, Switch!BeginApply(c, v)
  PROVE  SwitchInv'
<1>1. /\ cutover[c].state = "absent" /\ cutoverReview[v].state = "succeeded"
      /\ call' = [call EXCEPT ![c] = [step |-> "insert", of |-> v, rev |-> 0]]
      /\ UNCHANGED <<config, data, cutoverReview, probe, cutover, rollback, finalization,
                     outcome, posted>>
  BY DEF Switch!BeginApply
<1>2. /\ call' \in [Switch!Ops -> RequestRow]
      /\ call'[c].step = "insert" /\ call'[c].of = v
      /\ \A p \in Switch!Ops \ {c} : call'[p] = call[p]
  BY <1>1, ApplyRows, RequestBegins
<1>3. ApplyInv(cutover'[c], call'[c], outcome'[c], cutoverReview, config'.rev)
  BY <1>1, <1>2, ApplyRows DEF ApplyInv, Made
<1>4. Made(cutover'[c], call'[c]) = 0
  BY <1>1, <1>2, ApplyRows DEF ApplyInv, Made
<1> QED BY <1>1, <1>2, <1>3, <1>4, ApplyRows, CutoverGoes

LEMMA CreateCutoverInv ==
  ASSUME SwitchInv, NEW c \in Clients, Switch!CreateCutover(c) PROVE SwitchInv'
<1> DEFINE v == call[c].of
           r == [Switch!NoRow EXCEPT !.state = "applying", !.of = v]
<1>1. /\ call[c].step = "insert" /\ cutover' = [cutover EXCEPT ![c] = r]
      /\ Switch!Reaches(c, "validate")
      /\ UNCHANGED <<config, data, cutoverReview, probe, rollback, finalization, outcome,
                     posted>>
  BY DEF Switch!CreateCutover
<1>2. v \in Reviews /\ v = call[c].of
  BY <1>1, ApplyRows DEF ApplyInv
<1> HIDE DEF v
<1>3. r \in CutoverRow /\ r.state = "applying" /\ r.of = v /\ r.result = 0
  BY <1>2 DEF CutoverRow, Switch!NoRow
<1> HIDE DEF r
<1>4. /\ cutover' \in [Clients -> CutoverRow] /\ cutover'[c] = r
      /\ \A d \in Clients \ {c} : cutover'[d] = cutover[d]
  BY <1>1, <1>3 DEF SwitchInv, SwitchRows
<1>5. /\ call' \in [Switch!Ops -> RequestRow] /\ call'[c].step = "validate"
      /\ call'[c].of = v /\ \A p \in Switch!Ops \ {c} : call'[p] = call[p]
  BY <1>1, <1>2, ApplyRows, RequestGoes
<1>6. ApplyInv(cutover'[c], call'[c], outcome'[c], cutoverReview, config'.rev)
  BY <1>1, <1>2, <1>3, <1>4, <1>5, ApplyRows DEF ApplyInv, Made
<1>7. Made(cutover'[c], call'[c]) = 0 /\ cutover[c].state = "absent"
  BY <1>1, <1>3, <1>4, <1>5, ApplyRows DEF ApplyInv, Made
<1> QED BY <1>1, <1>4, <1>5, <1>6, <1>7, ApplyRows, CutoverGoes

(* A request that gives up: its row failed, with the revision it has made  *)
(* or none.                                                                *)
LEMMA RequestEnds ==
  ASSUME SwitchInv, NEW c \in Clients, Switch!Returns(c), NEW s \in {"deploying", "failed"},
         NEW n \in Nat, CutoverMoves(c, s, n),
         call[c].step \in {"validate", "switch", "deploy", "record"},
         n = cutover[c].result \/ (call[c].step \in {"deploy", "record"}
                                     /\ n = call[c].rev + 1),
         UNCHANGED <<config, data, cutoverReview, probe, rollback, finalization, outcome,
                     posted>>
  PROVE  SwitchInv'
<1>1. /\ call' \in [Switch!Ops -> RequestRow] /\ call'[c].step = "idle"
      /\ \A p \in Switch!Ops \ {c} : call'[p] = call[p]
  BY ApplyRows, RequestReturns
<1>2. /\ cutover[c].result = 0 /\ cutover[c].state # "absent" /\ cutover[c].of = call[c].of
      /\ call[c].of \in Reviews /\ cutoverReview[call[c].of].state # "absent"
  <2>1. ~(cutover[c].result > 0) /\ call[c].step # "idle" /\ cutover[c].result \in Nat
    BY ApplyRows DEF ApplyInv, CutoverRow
  <2> QED BY <2>1, ApplyRows DEF ApplyInv
<1>3. \/ Made(cutover'[c], call'[c]) = 0
      \/ Made(cutover'[c], call'[c]) = Made(cutover[c], call[c])
  BY <1>1, <1>2, ApplyRows DEF Made, CutoverMoves
<1>4. ApplyInv(cutover'[c], call'[c], outcome'[c], cutoverReview, config'.rev)
  BY <1>1, <1>2, <1>3, ApplyRows DEF ApplyInv, Made, CutoverMoves
<1> QED BY <1>1, <1>3, <1>4, ApplyRows, CutoverGoes DEF CutoverMoves, MadeBy

LEMMA ApplyStepsInv ==
  ASSUME SwitchInv, NEW c \in Clients,
         \/ Switch!ValidateStaleReview(c) \/ Switch!SwitchToTarget(c)
         \/ Switch!DeployTarget(c) \/ Switch!RecordCutover(c)
  PROVE  SwitchInv'
<1>1. CASE Switch!ValidateStaleReview(c)
  <2>1. /\ call[c].step = "validate"
        /\ UNCHANGED <<config, data, cutoverReview, probe, rollback, finalization, outcome,
                       posted>>
    BY <1>1 DEF Switch!ValidateStaleReview
  <2>2. CASE /\ cutover' = Switch!Update(cutover, c, [cutover[c] EXCEPT !.state = "failed"])
             /\ Switch!Returns(c)
    <3>1. cutover[c].result \in Nat
      BY ApplyRows DEF CutoverRow
    <3>2. CutoverMoves(c, "failed", cutover[c].result)
      BY <2>2, <3>1, ApplyRows, UpdateCutover
    <3> QED BY <2>1, <2>2, <3>1, <3>2, RequestEnds
  <2>3. CASE /\ config.rev = cutoverReview[call[c].of].rev /\ UNCHANGED cutover
             /\ call' = [call EXCEPT ![c].step = "switch", ![c].rev = config.rev]
    <3> DEFINE w == config.rev
               x == [call[c] EXCEPT !.step = "switch", !.rev = w]
    <3>1. call' = [call EXCEPT ![c] = x] /\ w \in Nat
      BY <2>3, ApplyRows
    <3>2. w = cutoverReview[call[c].of].rev
      BY <2>3
    <3> HIDE DEF w
    <3>3. x \in RequestRow /\ x.step = "switch" /\ x.of = call[c].of /\ x.rev = w
      BY <3>1, ApplyRows DEF RequestRow
    <3> HIDE DEF x
    <3>4. /\ call' \in [Switch!Ops -> RequestRow] /\ call'[c] = x
          /\ \A p \in Switch!Ops \ {c} : call'[p] = call[p]
      BY <3>1, <3>3, ApplyRows
    <3>5. Made(cutover'[c], call'[c]) = 0 /\ Made(cutover[c], call[c]) = 0
      BY <2>1, <2>3, <3>3, <3>4, ApplyRows DEF ApplyInv, Made
    <3>6. ApplyInv(cutover'[c], call'[c], outcome'[c], cutoverReview, config'.rev)
      BY <2>1, <2>3, <3>2, <3>3, <3>4, <3>5, ApplyRows DEF ApplyInv
    <3> QED BY <2>1, <2>3, <3>4, <3>5, <3>6, ApplyRows, CutoverGoes
  <2> QED BY <1>1, <2>2, <2>3 DEF Switch!ValidateStaleReview, Switch!ValidateStale
<1>2. CASE Switch!SwitchToTarget(c)
  <2>1. /\ call[c].step = "switch"
        /\ UNCHANGED <<data, cutoverReview, probe, rollback, finalization, outcome, posted>>
    BY <1>2 DEF Switch!SwitchToTarget
  <2>2. CASE /\ cutover' = Switch!Update(cutover, c, [cutover[c] EXCEPT !.state = "failed"])
             /\ Switch!Returns(c) /\ UNCHANGED config
    <3>1. cutover[c].result \in Nat
      BY ApplyRows DEF CutoverRow
    <3>2. CutoverMoves(c, "failed", cutover[c].result)
      BY <2>2, <3>1, ApplyRows, UpdateCutover
    <3> QED BY <2>1, <2>2, <3>1, <3>2, RequestEnds
  <2>3. CASE /\ Switch!ApplyServiceConfiguration(call[c].rev, "target")
             /\ Switch!Reaches(c, "deploy") /\ UNCHANGED cutover
    <3>1. /\ call[c].rev = config.rev /\ config'.rev = call[c].rev + 1
          /\ config' \in [rev: Nat \ {0}, db: Switch!Sides] /\ config.rev < config'.rev
          /\ config.rev <= config'.rev
      BY <2>3, ApplyRows DEF Switch!ApplyServiceConfiguration, Switch!Sides, RequestRow
    <3>2. /\ call' \in [Switch!Ops -> RequestRow] /\ call'[c].step = "deploy"
          /\ call'[c].of = call[c].of /\ call'[c].rev = call[c].rev
          /\ \A p \in Switch!Ops \ {c} : call'[p] = call[p]
      BY <2>3, ApplyRows, RequestGoes
    <3>3. cutover[c].result = 0
      BY <2>1, ApplyRows DEF ApplyInv, CutoverRow
    <3>4. Made(cutover'[c], call'[c]) = config'.rev
      BY <2>3, <3>1, <3>2, <3>3 DEF Made
    <3>5. config'.rev <= config'.rev
      BY <3>1
    <3>6. ApplyInv(cutover'[c], call'[c], outcome'[c], cutoverReview, config'.rev)
      BY <2>1, <2>3, <3>2, <3>3, <3>4, <3>5, ApplyRows DEF ApplyInv
    <3> QED BY <2>1, <2>3, <3>1, <3>2, <3>4, <3>6, ApplyRows, CutoverGoes
  <2> QED BY <1>2, <2>2, <2>3 DEF Switch!SwitchToTarget
<1>3. CASE Switch!DeployTarget(c)
  <2>1. /\ call[c].step = "deploy"
        /\ UNCHANGED <<config, data, cutoverReview, probe, rollback, finalization, posted>>
    BY <1>3 DEF Switch!DeployTarget
  <2>2. CASE /\ cutover' = Switch!Update(cutover, c, [cutover[c] EXCEPT
                              !.state = "failed", !.result = call[c].rev + 1])
             /\ Switch!Returns(c) /\ UNCHANGED outcome
    <3>1. call[c].rev + 1 \in Nat
      BY ApplyRows DEF RequestRow
    <3>2. CutoverMoves(c, "failed", call[c].rev + 1)
      BY <2>2, <3>1, ApplyRows, UpdateCutover
    <3> QED BY <2>1, <2>2, <3>1, <3>2, RequestEnds
  <2>3. CASE /\ outcome' = [outcome EXCEPT ![c] = "running"]
             /\ Switch!Reaches(c, "record") /\ UNCHANGED cutover
    <3>1. /\ call' \in [Switch!Ops -> RequestRow] /\ call'[c].step = "record"
          /\ call'[c].of = call[c].of /\ call'[c].rev = call[c].rev
          /\ \A p \in Switch!Ops \ {c} : call'[p] = call[p]
      BY <2>3, ApplyRows, RequestGoes
    <3>2. /\ outcome' \in [Switch!Ops -> Outcomes] /\ outcome'[c] = "running"
          /\ \A p \in Switch!Ops \ {c} : outcome'[p] = outcome[p]
      BY <2>3, ApplyRows DEF Outcomes
    <3>3. Made(cutover'[c], call'[c]) = Made(cutover[c], call[c])
      BY <2>1, <2>3, <3>1 DEF Made
    <3>4. ApplyInv(cutover'[c], call'[c], outcome'[c], cutoverReview, config'.rev)
      BY <2>1, <2>3, <3>1, <3>2, <3>3, ApplyRows DEF ApplyInv
    <3>5. outcome[c] # "succeeded"
      BY <2>1, ApplyRows DEF ApplyInv
    <3> QED BY <2>1, <2>3, <3>1, <3>2, <3>3, <3>4, <3>5, ApplyRows, CutoverGoes DEF MadeBy
  <2> QED BY <1>3, <2>2, <2>3 DEF Switch!DeployTarget, Switch!StartImmutableDeployment
<1>4. CASE Switch!RecordCutover(c)
  <2>1. /\ call[c].step = "record" /\ Switch!Returns(c)
        /\ cutover' = Switch!Update(cutover, c, [cutover[c] EXCEPT
                         !.state = "deploying", !.result = call[c].rev + 1])
        /\ UNCHANGED <<config, data, cutoverReview, probe, rollback, finalization, outcome,
                       posted>>
    BY <1>4 DEF Switch!RecordCutover
  <2>2. call[c].rev + 1 \in Nat
    BY ApplyRows DEF RequestRow
  <2>3. CutoverMoves(c, "deploying", call[c].rev + 1)
    BY <2>1, <2>2, ApplyRows, UpdateCutover
  <2> QED BY <2>1, <2>2, <2>3, RequestEnds
<1> QED BY <1>1, <1>2, <1>3, <1>4

(* A result ends the cutover for good, or fails it; the revision written   *)
(* back is one the cutover has made, or none.                              *)
LEMMA CompleteCutoverInv ==
  ASSUME SwitchInv, NEW p \in posted, Switch!CompleteCutover(p) PROVE SwitchInv'
<1> DEFINE c == p.of
           s == p.status
           n == p.result
<1>1. /\ c \in Clients /\ posted' \subseteq posted
      /\ cutover' = Switch!Update(cutover, c, [cutover[c] EXCEPT !.state = s, !.result = n])
      /\ UNCHANGED <<config, data, cutoverReview, probe, rollback, finalization, call,
                     outcome>>
  BY DEF Switch!CompleteCutover, Switch!Completed
<1>2. n \in Nat /\ s \in {"succeeded", "failed"} /\ p.of = c /\ p.result = n
  BY DEF SwitchInv, SwitchRows, PostRow
<1>3. /\ cutover[c].state # "absent"
      /\ s = "succeeded" => outcome[c] = "succeeded"
      /\ n > 0 => /\ call[c].step = "idle" /\ cutover[c].of \in Reviews
                  /\ cutoverReview[cutover[c].of].state # "absent"
                  /\ n = cutoverReview[cutover[c].of].rev + 1 /\ n <= config.rev
  BY <1>1 DEF SwitchInv, PostInv
<1> HIDE DEF c, s, n
<1>4. CutoverMoves(c, s, n)
  BY <1>1, <1>2, ApplyRows, UpdateCutover
<1>5. \/ Made(cutover'[c], call'[c]) = 0
      \/ Made(cutover'[c], call'[c]) = Made(cutover[c], call[c])
      \/ Made(cutover'[c], call'[c]) = n
  BY <1>1, <1>3, <1>4, ApplyRows DEF Made, CutoverMoves, ApplyInv, CutoverRow
<1>6. MadeBy(c, n, cutover, call, posted)
  BY <1>2 DEF MadeBy
<1>7. /\ config.rev \in Nat
      /\ Made(cutover'[c], call'[c]) <= config.rev
  BY <1>1, <1>2, <1>3, <1>5, ApplyRows DEF ApplyInv
<1>8. ApplyInv(cutover'[c], call'[c], outcome'[c], cutoverReview, config'.rev)
  BY <1>1, <1>2, <1>3, <1>4, <1>7, ApplyRows DEF ApplyInv, CutoverMoves
<1>9. MadeBy(c, Made(cutover[c], call[c]), cutover, call, posted)
  BY DEF MadeBy
<1>10. /\ cutover' \in [Clients -> CutoverRow]
       /\ \A d \in Clients \ {c} : cutover'[d] = cutover[d]
       /\ cutover'[c].of = cutover[c].of /\ cutover'[c].state # "absent"
       /\ cutover[c].state = "succeeded" => cutover'[c].state = "succeeded"
  BY <1>2, <1>3, <1>4 DEF CutoverMoves
<1>11. \/ Made(cutover'[c], call'[c]) = 0
       \/ MadeBy(c, Made(cutover'[c], call'[c]), cutover, call, posted)
  BY <1>5, <1>6, <1>9
<1>12. /\ call' \in [Switch!Ops -> RequestRow] /\ outcome' \in [Switch!Ops -> Outcomes]
       /\ config' \in [rev: Nat \ {0}, db: Switch!Sides] /\ config.rev <= config'.rev
       /\ UNCHANGED <<data, cutoverReview, probe, rollback, finalization>>
       /\ \A o \in Switch!Ops \ {c} : call'[o] = call[o] /\ outcome'[o] = outcome[o]
       /\ call[c].step = "idle" => call'[c].step = "idle"
       /\ outcome[c] = "succeeded" => outcome'[c] = "succeeded"
  BY <1>1, <1>7 DEF SwitchInv, SwitchRows
<1> QED BY <1>1, <1>8, <1>10, <1>11, <1>12, CutoverGoes

(* A result is about to be written.                                        *)
LEMMA ReadRowInv ==
  ASSUME SwitchInv, NEW o \in Switch!Ops, NEW s \in {"succeeded", "failed"},
         Switch!ReadRow(o, s)
  PROVE  SwitchInv'
<1> DEFINE row_ == Switch!Row(o)
           n == row_.result
           q == [of |-> o, status |-> s, result |-> n]
<1>1. /\ row_.state # "absent" /\ posted' = posted \cup {q}
      /\ s = "succeeded" => Switch!Happened(o)
      /\ UNCHANGED <<config, data, cutoverReview, probe, cutover, rollback, finalization,
                     call, outcome>>
  BY DEF Switch!ReadRow
<1>2. n \in Nat
  BY DEF SwitchInv, SwitchRows, Switch!Row, Switch!Ops, CutoverRow, RollbackRow,
         FinalizationRow
<1>3. o \in Clients => row_ = cutover[o] /\ (s = "succeeded" => outcome[o] = "succeeded")
  BY <1>1, AgentWorkAssumption DEF Switch!Row, Switch!Happened
<1>4. q.of = o /\ q.status = s /\ q.result = n /\ q \in PostRow
  BY <1>2 DEF PostRow
<1>5. o \in Clients => n = cutover[o].result
  BY <1>3
<1>6. o \in Clients => cutover[o].state # "absent"
  BY <1>1, <1>3
<1> HIDE DEF row_, n, q
<1>7. SwitchRows'
  BY <1>1, <1>4 DEF SwitchInv, SwitchRows
<1>8. ASSUME o \in Clients
      PROVE  /\ PostInv(q, cutover[o], call[o], outcome[o], cutoverReview, config.rev)
             /\ n > 0 => n = Made(cutover[o], call[o])
  <2>1. /\ ApplyInv(cutover[o], call[o], outcome[o], cutoverReview, config.rev)
        /\ cutover[o].result \in Nat
    BY <1>8, ApplyRows DEF CutoverRow
  <2> QED BY <1>3, <1>4, <1>5, <1>6, <1>8, <2>1 DEF PostInv, ApplyInv, Made
<1>9. ASSUME NEW p \in posted', p.of \in Clients
      PROVE  PostInv(p, cutover'[p.of], call'[p.of], outcome'[p.of], cutoverReview',
                     config'.rev)
  <2>1. CASE p = q
    BY <1>1, <1>4, <1>8, <1>9, <2>1
  <2>2. CASE p # q
    BY <1>1, <1>9, <2>2 DEF SwitchInv
  <2> QED BY <2>1, <2>2
<1>10. MadeOnce(cutover', call', posted')
  <2>1. ASSUME NEW d \in Clients, NEW m \in Nat \ {0}, MadeBy(d, m, cutover', call', posted')
        PROVE  MadeBy(d, m, cutover, call, posted)
    BY <1>1, <1>4, <1>8, <2>1 DEF MadeBy
  <2> QED BY <2>1 DEF SwitchInv, MadeOnce
<1>11. o \in Finalizations => finalization[o].state # "absent"
  BY <1>1, AgentWorkAssumption DEF Switch!Row, row_
<1>12. \A p \in posted' : p.of \in Finalizations => finalization'[p.of].state # "absent"
  BY <1>1, <1>4, <1>11 DEF SwitchInv
<1> QED BY <1>1, <1>7, <1>9, <1>10, <1>12 DEF SwitchInv

(* Cloud stops, or a deployment ends.                                      *)
LEMMA InterruptionsInv ==
  ASSUME SwitchInv, NEW o \in Switch!Ops, Switch!CloudStops(o) \/ Switch!DeploymentEnds(o)
  PROVE  SwitchInv'
<1>1. UNCHANGED <<config, data, cutoverReview, probe, cutover, rollback, finalization,
                  posted>>
  BY DEF Switch!CloudStops, Switch!DeploymentEnds
<1>2. /\ SwitchRows /\ config.rev \in Nat /\ config.rev <= config.rev
      /\ config \in [rev: Nat \ {0}, db: Switch!Sides] /\ data \in [Switch!Sides -> SideRow]
      /\ outcome \in [Switch!Ops -> Outcomes] /\ call \in [Switch!Ops -> RequestRow]
      /\ cutover \in [Clients -> CutoverRow] /\ rollback \in [Rollbacks -> RollbackRow]
      /\ finalization \in [Finalizations -> FinalizationRow]
  BY DEF SwitchInv, SwitchRows
<1>3. /\ call' \in [Switch!Ops -> RequestRow] /\ outcome' \in [Switch!Ops -> Outcomes]
      /\ \A p \in Switch!Ops \ {o} : call'[p] = call[p] /\ outcome'[p] = outcome[p]
      /\ \/ call'[o].step = "idle" /\ outcome'[o] = outcome[o]
         \/ /\ call'[o] = call[o] /\ outcome[o] = "running"
            /\ outcome'[o] \in {"succeeded", "failed"}
  <2>1. CASE Switch!CloudStops(o)
    <3>1. Switch!Returns(o) /\ outcome' = outcome
      BY <2>1 DEF Switch!CloudStops
    <3> QED BY <1>2, <3>1, RequestReturns
  <2>2. CASE Switch!DeploymentEnds(o)
    BY <1>2, <2>2 DEF Switch!DeploymentEnds, Outcomes
  <2> QED BY <2>1, <2>2
<1>4. CASE o \in Clients
  <2>1. \/ Made(cutover'[o], call'[o]) = 0
        \/ Made(cutover'[o], call'[o]) = Made(cutover[o], call[o])
    BY <1>1, <1>3 DEF Made
  <2>2. ApplyInv(cutover'[o], call'[o], outcome'[o], cutoverReview, config'.rev)
    BY <1>1, <1>2, <1>3, <1>4, <2>1, ApplyRows DEF ApplyInv
  <2> QED BY <1>1, <1>2, <1>3, <1>4, <2>1, <2>2, CutoverGoes DEF MadeBy
<1>5. CASE o \in Rollbacks
  BY <1>1, <1>2, <1>3, <1>5, RollbackGoes
<1>6. CASE o \in Finalizations
  <2>1. FinalizeInv(finalization'[o], call'[o], cutover)
    BY <1>1, <1>3, <1>6 DEF SwitchInv, FinalizeInv
  <2> QED BY <1>1, <1>2, <1>3, <1>6, <2>1, FinalizationGoes
<1> QED BY <1>4, <1>5, <1>6 DEF Switch!Ops

LEMMA UpdateRollback ==
  ASSUME SwitchRows, NEW r \in Rollbacks, NEW s \in {"deploying", "succeeded", "failed"},
         \/ \E n \in Nat : rollback' = Switch!Update(rollback, r,
                             [rollback[r] EXCEPT !.state = s, !.result = n])
         \/ rollback' = Switch!Update(rollback, r, [rollback[r] EXCEPT !.state = s])
  PROVE  rollback' \in [Rollbacks -> RollbackRow]
<1>1. rollback[r] \in RollbackRow /\ rollback \in [Rollbacks -> RollbackRow]
  BY DEF SwitchRows
<1>2. [rollback[r] EXCEPT !.state = s] \in RollbackRow
  BY <1>1 DEF RollbackRow
<1>3. \A n \in Nat : [rollback[r] EXCEPT !.state = s, !.result = n] \in RollbackRow
  BY <1>1 DEF RollbackRow
<1> QED BY <1>1, <1>2, <1>3 DEF Switch!Update

LEMMA RollbackStepsInv ==
  ASSUME SwitchInv, NEW r \in Rollbacks,
         \/ \E c \in Clients : Switch!BeginRollback(r, c)
         \/ Switch!CreateRollback(r) \/ Switch!ValidateRollback(r)
         \/ Switch!SwitchToSource(r) \/ Switch!DeploySource(r) \/ Switch!RecordRollback(r)
         \/ \E p \in posted : p.of = r /\ Switch!CompleteRollback(p)
  PROVE  SwitchInv'
<1>1. /\ SwitchRows /\ r \in Switch!Ops /\ call[r] \in RequestRow /\ config.rev \in Nat
      /\ config \in [rev: Nat \ {0}, db: Switch!Sides] /\ config.rev <= config.rev
      /\ outcome \in [Switch!Ops -> Outcomes] /\ call \in [Switch!Ops -> RequestRow]
      /\ rollback \in [Rollbacks -> RollbackRow]
  BY DEF SwitchInv, SwitchRows, Switch!Ops
<1>2. UNCHANGED <<data, cutoverReview, probe, cutover, finalization>>
      /\ posted' \subseteq posted
  BY DEF Switch!BeginRollback, Switch!CreateRollback, Switch!ValidateRollback,
         Switch!SwitchToSource, Switch!DeploySource, Switch!RecordRollback,
         Switch!CompleteRollback
<1>3. ASSUME config' \in [rev: Nat \ {0}, db: Switch!Sides], config.rev <= config'.rev,
             rollback' \in [Rollbacks -> RollbackRow],
             call' \in [Switch!Ops -> RequestRow], outcome' \in [Switch!Ops -> Outcomes],
             \A p \in Switch!Ops \ {r} : call'[p] = call[p] /\ outcome'[p] = outcome[p]
      PROVE  SwitchInv'
  BY <1>2, <1>3, RollbackGoes
<1>4. ASSUME NEW c \in Clients, Switch!BeginRollback(r, c) PROVE SwitchInv'
  <2>1. /\ call' = [call EXCEPT ![r] = [step |-> "insert", of |-> c, rev |-> 0]]
        /\ UNCHANGED <<config, rollback, outcome>>
    BY <1>4 DEF Switch!BeginRollback
  <2> QED BY <1>1, <1>3, <2>1, RequestBegins
<1>5. CASE Switch!CreateRollback(r)
  <2> DEFINE v == call[r].of
             x == [Switch!NoRow EXCEPT !.state = "applying", !.of = v]
  <2>1. /\ rollback' = [rollback EXCEPT ![r] = x] /\ Switch!Reaches(r, "validate")
        /\ UNCHANGED <<config, outcome>>
    BY <1>5 DEF Switch!CreateRollback
  <2>2. v \in Reviews \cup Clients \cup {"none"}
    BY <1>1 DEF RequestRow
  <2> HIDE DEF v
  <2>3. x \in RollbackRow
    BY <2>2 DEF RollbackRow, Switch!NoRow
  <2> HIDE DEF x
  <2> QED BY <1>1, <1>3, <2>1, <2>3, RequestGoes
<1>6. ASSUME \/ \E n \in Nat, s \in {"deploying", "failed"} :
                  rollback' = Switch!Update(rollback, r,
                                [rollback[r] EXCEPT !.state = s, !.result = n])
             \/ rollback' = Switch!Update(rollback, r, [rollback[r] EXCEPT !.state = "failed"]),
             Switch!Returns(r), UNCHANGED <<config, outcome>>
      PROVE  SwitchInv'
  BY <1>1, <1>3, <1>6, UpdateRollback, RequestReturns
<1>7. CASE Switch!ValidateRollback(r)
  <2>1. CASE call' = [call EXCEPT ![r].step = "switch", ![r].rev = config.rev]
             /\ UNCHANGED <<config, rollback, outcome>>
    <3> DEFINE w == config.rev
               x == [call[r] EXCEPT !.step = "switch", !.rev = w]
    <3>1. call' = [call EXCEPT ![r] = x] /\ w \in Nat
      BY <1>1, <2>1
    <3> HIDE DEF w
    <3>2. x \in RequestRow
      BY <1>1, <3>1 DEF RequestRow
    <3> HIDE DEF x
    <3> QED BY <1>1, <1>3, <2>1, <3>1, <3>2
  <2> QED BY <1>6, <1>7, <2>1 DEF Switch!ValidateRollback
<1>8. CASE Switch!SwitchToSource(r)
  <2>1. CASE /\ Switch!ApplyServiceConfiguration(call[r].rev, "source")
             /\ Switch!Reaches(r, "deploy") /\ UNCHANGED <<rollback, outcome>>
    <3>1. config' \in [rev: Nat \ {0}, db: Switch!Sides] /\ config.rev <= config'.rev
      BY <1>1, <2>1 DEF Switch!ApplyServiceConfiguration, Switch!Sides
    <3> QED BY <1>1, <1>3, <2>1, <3>1, RequestGoes
  <2> QED BY <1>6, <1>8, <2>1 DEF Switch!SwitchToSource
<1>9. call[r].rev + 1 \in Nat
  BY <1>1 DEF RequestRow
<1>10. CASE Switch!DeploySource(r)
  <2>1. CASE /\ outcome' = [outcome EXCEPT ![r] = "running"]
             /\ Switch!Reaches(r, "record") /\ UNCHANGED <<config, rollback>>
    <3>1. outcome' \in [Switch!Ops -> Outcomes]
          /\ \A p \in Switch!Ops \ {r} : outcome'[p] = outcome[p]
      BY <1>1, <2>1 DEF Outcomes
    <3> QED BY <1>1, <1>3, <2>1, <3>1, RequestGoes
  <2>2. CASE /\ rollback' = Switch!Update(rollback, r, [rollback[r] EXCEPT
                               !.state = "failed", !.result = call[r].rev + 1])
             /\ Switch!Returns(r) /\ UNCHANGED <<config, outcome>>
    BY <1>6, <1>9, <2>2
  <2> QED BY <1>10, <2>1, <2>2 DEF Switch!DeploySource, Switch!StartImmutableDeployment
<1>11. CASE Switch!RecordRollback(r)
  <2>1. /\ rollback' = Switch!Update(rollback, r, [rollback[r] EXCEPT
                          !.state = "deploying", !.result = call[r].rev + 1])
        /\ Switch!Returns(r) /\ UNCHANGED <<config, outcome>>
    BY <1>11 DEF Switch!RecordRollback
  <2> QED BY <1>6, <1>9, <2>1
<1>12. ASSUME NEW p \in posted, p.of = r, Switch!CompleteRollback(p) PROVE SwitchInv'
  <2> DEFINE s == p.status
             n == p.result
  <2>1. /\ rollback' = Switch!Update(rollback, r,
                         [rollback[r] EXCEPT !.state = s, !.result = n])
        /\ UNCHANGED <<config, call, outcome>>
    BY <1>12 DEF Switch!CompleteRollback, Switch!Completed
  <2>2. s \in {"succeeded", "failed"} /\ n \in Nat
    BY <1>1 DEF SwitchRows, PostRow
  <2> HIDE DEF s, n
  <2>3. rollback' \in [Rollbacks -> RollbackRow]
    BY <1>1, <2>1, <2>2, UpdateRollback
  <2> QED BY <1>1, <1>3, <2>1, <2>3
<1> QED BY <1>4, <1>5, <1>7, <1>8, <1>10, <1>11, <1>12

(* A finalization begins for a succeeded cutover, which stays succeeded.   *)
LEMMA UpdateFinalization ==
  ASSUME SwitchRows, NEW f \in Finalizations, NEW s \in {"revoking", "succeeded", "failed"},
         \/ finalization' = Switch!Update(finalization, f,
                              [finalization[f] EXCEPT !.state = s])
         \/ \E n \in Nat : finalization' = Switch!Update(finalization, f,
                             [finalization[f] EXCEPT !.state = s, !.result = n])
  PROVE  /\ finalization' \in [Finalizations -> FinalizationRow]
         /\ \A g \in Finalizations \ {f} : finalization'[g] = finalization[g]
         /\ finalization'[f].of = finalization[f].of
         /\ finalization'[f].state \in {"revoking", "succeeded", "failed"}
<1>1. finalization[f] \in FinalizationRow /\ finalization \in [Finalizations -> FinalizationRow]
  BY DEF SwitchRows
<1>2. PICK x \in FinalizationRow :
        /\ x.of = finalization[f].of /\ x.state = s
        /\ \/ finalization' = [finalization EXCEPT ![f] = x]
           \/ finalization' = finalization /\ finalization[f].state = "succeeded"
  <2>1. CASE finalization' = Switch!Update(finalization, f,
                               [finalization[f] EXCEPT !.state = s])
    <3> DEFINE x == [finalization[f] EXCEPT !.state = s]
    <3>1. x \in FinalizationRow /\ x.state = s /\ x.of = finalization[f].of
      BY <1>1 DEF FinalizationRow
    <3> QED BY <2>1, <3>1 DEF Switch!Update, Switch!SucceededImmutable
  <2>2. ASSUME NEW n \in Nat,
               finalization' = Switch!Update(finalization, f,
                                 [finalization[f] EXCEPT !.state = s, !.result = n])
        PROVE  \E x \in FinalizationRow :
                 /\ x.of = finalization[f].of /\ x.state = s
                 /\ \/ finalization' = [finalization EXCEPT ![f] = x]
                    \/ finalization' = finalization /\ finalization[f].state = "succeeded"
    <3> DEFINE x == [finalization[f] EXCEPT !.state = s, !.result = n]
    <3>1. x \in FinalizationRow /\ x.state = s /\ x.of = finalization[f].of
      BY <1>1, <2>2 DEF FinalizationRow
    <3> QED BY <2>2, <3>1 DEF Switch!Update, Switch!SucceededImmutable
  <2> QED BY <2>1, <2>2
<1> QED BY <1>1, <1>2

LEMMA FinalizationStepsInv ==
  ASSUME SwitchInv, NEW f \in Finalizations,
         \/ \E c \in Clients : Switch!Finalize(f, c)
         \/ Switch!CreateFinalization(f) \/ Switch!MarkRevoking(f)
         \/ Switch!DeleteBinding(f) \/ Switch!PlanSource(f) \/ Switch!SealFinalization(f)
         \/ \E p \in posted : p.of = f /\ Switch!CompleteFinalization(p)
  PROVE  SwitchInv'
<1>1. /\ SwitchRows /\ f \in Switch!Ops /\ call[f] \in RequestRow
      /\ finalization[f] \in FinalizationRow /\ FinalizeInv(finalization[f], call[f], cutover)
      /\ data \in [Switch!Sides -> SideRow] /\ outcome \in [Switch!Ops -> Outcomes]
      /\ call \in [Switch!Ops -> RequestRow]
      /\ finalization \in [Finalizations -> FinalizationRow]
      /\ "source" \in Switch!Sides /\ data["source"] \in SideRow
  BY DEF SwitchInv, SwitchRows, Switch!Ops, Switch!Sides
<1>2. UNCHANGED <<config, cutoverReview, probe, cutover, rollback, outcome>>
      /\ posted' \subseteq posted
  BY DEF Switch!Finalize, Switch!CreateFinalization, Switch!MarkRevoking,
         Switch!DeleteBinding, Switch!PlanSource, Switch!SealFinalization,
         Switch!CompleteFinalization
<1>3. ASSUME NEW c \in Clients, Switch!Finalize(f, c) PROVE SwitchInv'
  <2>1. /\ finalization[f].state = "absent" /\ cutover[c].state = "succeeded"
        /\ call' = [call EXCEPT ![f] = [step |-> "insert", of |-> c, rev |-> 0]]
        /\ UNCHANGED <<data, finalization>>
    BY <1>3 DEF Switch!Finalize
  <2>2. /\ call' \in [Switch!Ops -> RequestRow]
        /\ call'[f].step = "insert" /\ call'[f].of = c
        /\ \A p \in Switch!Ops \ {f} : call'[p] = call[p]
    BY <1>1, <2>1, RequestBegins
  <2>3. FinalizeInv(finalization'[f], call'[f], cutover)
    BY <1>1, <2>1, <2>2 DEF FinalizeInv
  <2> QED BY <1>1, <1>2, <2>1, <2>2, <2>3, FinalizationGoes
<1>4. CASE Switch!CreateFinalization(f)
  <2> DEFINE v == call[f].of
             x == [Switch!NoRow EXCEPT !.state = "validating", !.of = v]
  <2>1. /\ call[f].step = "insert" /\ finalization' = [finalization EXCEPT ![f] = x]
        /\ Switch!Reaches(f, "revoke") /\ UNCHANGED data
    BY <1>4 DEF Switch!CreateFinalization
  <2>2. /\ v \in Clients /\ cutover[v].state = "succeeded" /\ v = call[f].of
        /\ finalization[f].state = "absent"
    BY <1>1, <2>1 DEF FinalizeInv
  <2> HIDE DEF v
  <2>3. x \in FinalizationRow /\ x.of = v
    BY <2>2 DEF FinalizationRow, Switch!NoRow
  <2> HIDE DEF x
  <2>4. /\ call' \in [Switch!Ops -> RequestRow] /\ call'[f].step = "revoke"
        /\ call'[f].of = v /\ \A p \in Switch!Ops \ {f} : call'[p] = call[p]
    BY <1>1, <2>1, <2>2, RequestGoes
  <2>5. /\ finalization' \in [Finalizations -> FinalizationRow] /\ finalization'[f] = x
        /\ \A g \in Finalizations \ {f} : finalization'[g] = finalization[g]
    BY <1>1, <2>1, <2>3
  <2>6. FinalizeInv(finalization'[f], call'[f], cutover)
    BY <2>2, <2>3, <2>4, <2>5 DEF FinalizeInv
  <2> QED BY <1>1, <1>2, <2>1, <2>2, <2>4, <2>5, <2>6, FinalizationGoes
<1>5. ASSUME NEW s \in {"revoking", "succeeded", "failed"},
             \/ finalization' = Switch!Update(finalization, f,
                                  [finalization[f] EXCEPT !.state = s])
             \/ \E n \in Nat : finalization' = Switch!Update(finalization, f,
                                 [finalization[f] EXCEPT !.state = s, !.result = n]),
             \/ /\ call[f].step \in {"revoke", "delete", "plan", "seal"}
                /\ Switch!Returns(f) \/ Switch!Reaches(f, "delete")
             \/ call' = call /\ finalization[f].state # "absent",
             data' = data
      PROVE  SwitchInv'
  <2>1. /\ finalization' \in [Finalizations -> FinalizationRow]
        /\ \A g \in Finalizations \ {f} : finalization'[g] = finalization[g]
        /\ finalization'[f].of = finalization[f].of
        /\ finalization'[f].state \in {"revoking", "succeeded", "failed"}
    BY <1>1, <1>5, UpdateFinalization
  <2>2. /\ call' \in [Switch!Ops -> RequestRow]
        /\ call'[f].step # "insert" \/ call' = call
        /\ call'[f].step = "idle" \/ call'[f].of = call[f].of
        /\ call'[f].step = "idle" \/ call[f].step # "idle"
        /\ \A p \in Switch!Ops \ {f} : call'[p] = call[p]
    BY <1>1, <1>5, RequestGoes, RequestReturns
  <2>3. call'[f].step # "insert"
    BY <1>1, <1>5, <2>2 DEF FinalizeInv
  <2>4. FinalizeInv(finalization'[f], call'[f], cutover)
    BY <1>1, <2>1, <2>2, <2>3 DEF FinalizeInv
  <2> QED BY <1>1, <1>2, <1>5, <2>1, <2>2, <2>4, FinalizationGoes
<1>6. CASE Switch!MarkRevoking(f)
  BY <1>1, <1>5, <1>6 DEF Switch!MarkRevoking
<1>7. CASE Switch!DeleteBinding(f)
  <2>1. CASE finalization' = Switch!Update(finalization, f,
                               [finalization[f] EXCEPT !.state = "failed"])
             /\ Switch!Returns(f) /\ UNCHANGED data
    BY <1>1, <1>5, <1>7, <2>1 DEF Switch!DeleteBinding
  <2>2. CASE /\ data' = [data EXCEPT !["source"].binding = "deleting"]
             /\ call' = [call EXCEPT ![f].step = "plan", ![f].rev = data["source"].spec]
             /\ UNCHANGED finalization
    <3> DEFINE w == data["source"].spec
               x == [call[f] EXCEPT !.step = "plan", !.rev = w]
               y == [data["source"] EXCEPT !.binding = "deleting"]
    <3>1. w \in Nat /\ data' = [data EXCEPT !["source"] = y]
          /\ call' = [call EXCEPT ![f] = x]
      BY <1>1, <2>2 DEF SideRow
    <3> HIDE DEF w
    <3>2. x \in RequestRow /\ x.step = "plan" /\ x.of = call[f].of /\ y \in SideRow
      BY <1>1, <3>1 DEF RequestRow, SideRow
    <3> HIDE DEF x, y
    <3>3. /\ call' \in [Switch!Ops -> RequestRow] /\ call'[f] = x
          /\ data' \in [Switch!Sides -> SideRow]
          /\ \A p \in Switch!Ops \ {f} : call'[p] = call[p]
      BY <1>1, <3>1, <3>2
    <3>4. call[f].step = "delete"
      BY <1>7 DEF Switch!DeleteBinding
    <3>5. FinalizeInv(finalization'[f], call'[f], cutover)
      BY <1>1, <2>2, <3>2, <3>3, <3>4 DEF FinalizeInv
    <3>6. finalization[f].state \in {"revoking", "succeeded", "failed"}
      BY <1>1, <3>4 DEF FinalizeInv
    <3> QED BY <1>1, <1>2, <2>2, <3>3, <3>5, <3>6, FinalizationGoes
  <2> QED BY <1>7, <2>1, <2>2 DEF Switch!DeleteBinding
<1>8. CASE Switch!PlanSource(f)
  <2> DEFINE w == call[f].rev
             y == [data["source"] EXCEPT !.ready = FALSE, !.spec = w]
  <2>1. /\ call[f].step = "plan" /\ Switch!Reaches(f, "seal") /\ UNCHANGED finalization
        /\ data' = [data EXCEPT !["source"] = y]
    BY <1>8 DEF Switch!PlanSource
  <2>2. w \in Nat
    BY <1>1 DEF RequestRow
  <2> HIDE DEF w
  <2>3. y \in SideRow /\ y.binding = data["source"].binding
    BY <1>1, <2>2 DEF SideRow
  <2> HIDE DEF y
  <2>4. data' \in [Switch!Sides -> SideRow] /\ data'["source"].binding = data["source"].binding
    BY <1>1, <2>1, <2>3
  <2>5. /\ call' \in [Switch!Ops -> RequestRow] /\ call'[f].step = "seal"
        /\ call'[f].of = call[f].of /\ \A p \in Switch!Ops \ {f} : call'[p] = call[p]
    BY <1>1, <2>1, RequestGoes
  <2>6. FinalizeInv(finalization'[f], call'[f], cutover)
    BY <1>1, <2>1, <2>5 DEF FinalizeInv
  <2> QED BY <1>1, <1>2, <2>1, <2>4, <2>5, <2>6, FinalizationGoes
<1>9. CASE Switch!SealFinalization(f)
  BY <1>1, <1>5, <1>9 DEF Switch!SealFinalization
<1>10. ASSUME NEW p \in posted, p.of = f, Switch!CompleteFinalization(p) PROVE SwitchInv'
  <2>1. p.status \in {"succeeded", "failed"} /\ p.result \in Nat
    BY <1>1 DEF SwitchRows, PostRow
  <2>2. /\ finalization' = Switch!Update(finalization, f,
             [finalization[f] EXCEPT !.state = p.status, !.result = p.result])
        /\ UNCHANGED <<data, call>>
    BY <1>10 DEF Switch!CompleteFinalization, Switch!Completed
  <2>3. CASE finalization[f].state # "absent"
    BY <1>5, <2>1, <2>2, <2>3
  <2> QED BY <1>10, <2>3 DEF SwitchInv
<1> QED BY <1>3, <1>4, <1>6, <1>7, <1>8, <1>9, <1>10

----------------------------------------------------------------------------
(* Reviews and what is around them.                                        *)
LEMMA ReviewGoes ==
  ASSUME SwitchInv, NEW v \in Reviews, NEW r \in ReviewRow,
         cutoverReview' = [cutoverReview EXCEPT ![v] = r],
         cutoverReview[v].state # "absent" =>
           r.state # "absent" /\ r.rev = cutoverReview[v].rev
  PROVE  cutoverReview' \in [Reviews -> ReviewRow] /\ ReviewsKept
BY DEF SwitchInv, SwitchRows, ReviewsKept

LEMMA ReviewStepsInv ==
  ASSUME SwitchInv,
         \/ \E v \in Reviews : Switch!CreateReview(v) \/ Switch!LeaseReview(v)
                                 \/ Switch!ReviewLeaseExpires(v)
         \/ Switch!ExecuteReview \/ Switch!CompleteReview \/ Switch!AgentStops
  PROVE  SwitchInv'
<1>1. /\ config \in [rev: Nat \ {0}, db: Switch!Sides] /\ config.rev <= config.rev
      /\ config.rev \in Nat
      /\ data \in [Switch!Sides -> SideRow] /\ probe \in Lease
      /\ cutoverReview \in [Reviews -> ReviewRow]
      /\ probe.status # "none" => probe.of \in Reviews
  BY DEF SwitchInv, SwitchRows
<1>2. UNCHANGED <<config, data, cutover, rollback, finalization, call, outcome, posted>>
  BY DEF Switch!CreateReview, Switch!LeaseReview, Switch!ReviewLeaseExpires,
         Switch!ExecuteReview, Switch!CompleteReview, Switch!AgentStops
<1>3. ASSUME cutoverReview' \in [Reviews -> ReviewRow], ReviewsKept,
             probe' \in Lease, probe'.status # "none" => probe'.of \in Reviews
      PROVE  SwitchInv'
  BY <1>1, <1>2, <1>3, SurroundingsGo
<1> DEFINE free == [of |-> "none", token |-> 0, status |-> "none"]
<1>4. free \in Lease /\ free.status = "none"
  BY DEF Lease
<1>5. ASSUME NEW v \in Reviews, Switch!CreateReview(v) PROVE SwitchInv'
  <2> DEFINE n == config.rev
             specs == Switch!SpecsNow
             r == [Switch!NoReview EXCEPT !.state = "queued", !.rev = n, !.specs = specs]
  <2>1. /\ cutoverReview[v].state = "absent" /\ UNCHANGED probe
        /\ cutoverReview' = [cutoverReview EXCEPT ![v] = r]
    BY <1>5 DEF Switch!CreateReview
  <2>2. n \in Nat /\ specs \in [Switch!Sides -> Nat]
    BY <1>1 DEF Switch!SpecsNow, SideRow
  <2>3. Switch!NoReview \in ReviewRow
    BY AgentWorkAssumption DEF ReviewRow, Switch!NoReview
  <2> HIDE DEF n, specs
  <2>4. r \in ReviewRow
    BY <2>2, <2>3 DEF ReviewRow
  <2> HIDE DEF r
  <2> QED BY <1>1, <1>3, <2>1, <2>4, ReviewGoes
<1>6. ASSUME NEW v \in Reviews, Switch!LeaseReview(v) PROVE SwitchInv'
  <2> DEFINE t == cutoverReview[v].token + 1
             r1 == [cutoverReview[v] EXCEPT !.state = "leased", !.token = t,
                                            !.expired = FALSE]
             r2 == [cutoverReview[v] EXCEPT !.state = "failed", !.token = t,
                                            !.expired = FALSE]
             l == [of |-> v, token |-> t, status |-> "leased"]
  <2>1. /\ t <= MaxLeases
        /\ \/ cutoverReview' = [cutoverReview EXCEPT ![v] = r1] /\ probe' = l
           \/ cutoverReview' = [cutoverReview EXCEPT ![v] = r2] /\ UNCHANGED probe
    BY <1>6 DEF Switch!LeaseReview
  <2>2. t \in Nat /\ t \in 0..MaxLeases
    BY <1>1, <2>1, AgentWorkAssumption DEF ReviewRow
  <2> HIDE DEF t
  <2>3. /\ r1 \in ReviewRow /\ r1.state = "leased" /\ r1.rev = cutoverReview[v].rev
        /\ r2 \in ReviewRow /\ r2.state = "failed" /\ r2.rev = cutoverReview[v].rev
    BY <1>1, <2>2 DEF ReviewRow
  <2>4. l \in Lease /\ l.of = v
    BY <2>2 DEF Lease
  <2> HIDE DEF r1, r2, l
  <2> QED BY <1>1, <1>3, <2>1, <2>3, <2>4, ReviewGoes
<1>7. ASSUME NEW v \in Reviews, Switch!ReviewLeaseExpires(v) PROVE SwitchInv'
  <2> DEFINE r == [cutoverReview[v] EXCEPT !.expired = TRUE]
  <2>1. cutoverReview' = [cutoverReview EXCEPT ![v] = r] /\ UNCHANGED probe
    BY <1>7 DEF Switch!ReviewLeaseExpires
  <2>2. /\ r \in ReviewRow /\ r.state = cutoverReview[v].state
        /\ r.rev = cutoverReview[v].rev
    BY <1>1 DEF ReviewRow
  <2> HIDE DEF r
  <2> QED BY <1>1, <1>3, <2>1, <2>2, ReviewGoes
<1>8. CASE Switch!ExecuteReview
  <2>1. PICK s \in {"succeeded", "failed"} : probe' = [probe EXCEPT !.status = s]
    BY <1>8 DEF Switch!ExecuteReview
  <2>2. probe.status = "leased" /\ UNCHANGED cutoverReview
    BY <1>8 DEF Switch!ExecuteReview
  <2>3. probe' \in Lease /\ probe'.of = probe.of
    BY <1>1, <2>1 DEF Lease
  <2> QED BY <1>1, <1>3, <2>2, <2>3 DEF ReviewsKept
<1>9. CASE Switch!CompleteReview
  <2> DEFINE v == probe.of
             s == probe.status
             r == [cutoverReview[v] EXCEPT !.state = s, !.expired = FALSE]
  <2>1. /\ s \in {"succeeded", "failed"} /\ probe' = free /\ v \in Reviews
        /\ cutoverReview' \in {cutoverReview, [cutoverReview EXCEPT ![v] = r]}
    BY <1>1, <1>9 DEF Switch!CompleteReview
  <2> HIDE DEF v, s, free
  <2> DEFINE w == cutoverReview[v]
  <2>a. w \in ReviewRow
    BY <1>1, <2>1
  <2> HIDE DEF w
  <2>b. /\ [w EXCEPT !.state = s, !.expired = FALSE] \in ReviewRow
        /\ [w EXCEPT !.state = s, !.expired = FALSE].state = s
        /\ [w EXCEPT !.state = s, !.expired = FALSE].rev = w.rev
    BY <2>1, <2>a DEF ReviewRow
  <2>2. r \in ReviewRow /\ r.state = s /\ r.rev = cutoverReview[v].rev
    BY <2>b DEF w
  <2> HIDE DEF r
  <2>3. CASE cutoverReview' = cutoverReview
    BY <1>1, <1>3, <1>4, <2>1, <2>3 DEF ReviewsKept
  <2> QED BY <1>3, <1>4, <2>1, <2>2, <2>3, ReviewGoes
<1>10. CASE Switch!AgentStops
  <2>1. probe' = free /\ cutoverReview' = cutoverReview
    BY <1>10 DEF Switch!AgentStops
  <2> HIDE DEF free
  <2> QED BY <1>1, <1>3, <1>4, <2>1 DEF ReviewsKept
<1> QED BY <1>5, <1>6, <1>7, <1>8, <1>9, <1>10

LEMMA SwitchOthersInv == ASSUME SwitchInv, Switch!Others PROVE SwitchInv'
<1>1. /\ config \in [rev: Nat \ {0}, db: Switch!Sides] /\ config.rev <= config.rev
      /\ config.rev \in Nat
      /\ data \in [Switch!Sides -> SideRow] /\ probe \in Lease
      /\ cutoverReview \in [Reviews -> ReviewRow] /\ "source" \in Switch!Sides
      /\ probe.status # "none" => probe.of \in Reviews
  BY DEF SwitchInv, SwitchRows, Switch!Sides
<1>2. /\ UNCHANGED <<cutoverReview, probe, cutover, rollback, finalization, call, outcome,
                     posted>>
      /\ ReviewsKept
  BY DEF Switch!Others, Switch!Configure, Switch!Restore, Switch!ChangeResource,
         Switch!Reconcile, ReviewsKept
<1>3. CASE Switch!Configure
  <2> DEFINE n == config.rev + 1
             k == [config EXCEPT !.rev = n]
  <2>1. config' = k /\ UNCHANGED data
    BY <1>3 DEF Switch!Configure
  <2>2. n \in Nat \ {0} /\ config.rev <= n
    BY <1>1
  <2> HIDE DEF n
  <2>3. k \in [rev: Nat \ {0}, db: Switch!Sides] /\ k.rev = n
    BY <1>1, <2>2
  <2> HIDE DEF k
  <2> QED BY <1>1, <1>2, <2>1, <2>2, <2>3, SurroundingsGo
<1>4. CASE Switch!Restore
  <2>1. UNCHANGED <<config, data>>
    BY <1>4 DEF Switch!Restore
  <2> QED BY <1>1, <1>2, <2>1, SurroundingsGo
<1>5. ASSUME NEW s \in Switch!Sides, Switch!ChangeResource(s) \/ Switch!Reconcile(s)
      PROVE  SwitchInv'
  <2>1. PICK r \in SideRow : /\ data' = [data EXCEPT ![s] = r]
                             /\ r.binding # "ready" => data[s].binding # "ready"
    <3>1. data[s] \in SideRow
      BY <1>1
    <3>2. CASE Switch!ChangeResource(s)
      <4> DEFINE n == data[s].spec + 1
                 r == [data[s] EXCEPT !.spec = n, !.ready = FALSE]
      <4>1. n \in Nat
        BY <3>1 DEF SideRow
      <4>2. data' = [data EXCEPT ![s] = r]
        BY <3>2 DEF Switch!ChangeResource
      <4> HIDE DEF n
      <4>3. r \in SideRow /\ r.binding = data[s].binding
        BY <3>1, <4>1 DEF SideRow
      <4> HIDE DEF r
      <4> QED BY <4>2, <4>3
    <3>3. CASE Switch!Reconcile(s)
      <4> DEFINE b == IF data[s].binding = "deleting" THEN "gone" ELSE data[s].binding
                 r == [data[s] EXCEPT !.ready = TRUE, !.binding = b]
      <4>1. /\ b \in {"ready", "deleting", "gone"}
            /\ b # "ready" => data[s].binding # "ready"
        BY <3>1 DEF SideRow
      <4>2. data' = [data EXCEPT ![s] = r]
        BY <3>3 DEF Switch!Reconcile
      <4> HIDE DEF b
      <4>3. r \in SideRow /\ r.binding = b
        BY <3>1, <4>1 DEF SideRow
      <4> HIDE DEF r
      <4> QED BY <4>1, <4>2, <4>3
    <3> QED BY <1>5, <3>2, <3>3
  <2>2. UNCHANGED config
    BY <1>5 DEF Switch!ChangeResource, Switch!Reconcile
  <2>3. /\ data' \in [Switch!Sides -> SideRow]
        /\ data'["source"].binding # "ready" => data["source"].binding # "ready"
    BY <1>1, <2>1
  <2> QED BY <1>1, <1>2, <2>2, <2>3, SurroundingsGo
<1> QED BY <1>3, <1>4, <1>5 DEF Switch!Others

(* A cutover replaces exactly the configuration that was reviewed, a       *)
(* review is spent by one cutover, and the source's binding is given up    *)
(* only for a cutover whose deployment on the target succeeded, however    *)
(* requests of either kind, results and stops of Cloud interleave          *)
(* (cutover/service.go Apply, Rollback, Finalize).                         *)
THEOREM CutoversAreAsReviewed == AgentWorkSpec => []CutoverIsAsReviewed
<1>1. AgentWorkInit => SwitchHolds
  BY SwitchInitInv DEF AgentWorkInit, SwitchHolds, NodeParts
<1>2. SwitchHolds /\ [AgentWorkNext]_agentWorkVars => SwitchHolds'
  <2> SUFFICES ASSUME SwitchHolds, part' = "cutover", [AgentWorkNext]_agentWorkVars
               PROVE  SwitchInv'
    BY DEF SwitchHolds
  <2>1. CASE UNCHANGED agentWorkVars
    <3>1. UNCHANGED <<part, config, data, cutoverReview, probe, cutover, rollback,
                      finalization, call, outcome, posted>>
      BY <2>1 DEF agentWorkVars, cutoverVars
    <3> QED BY <3>1 DEF SwitchHolds, SwitchInv, SwitchRows
  <2>2. CASE AgentWorkNext
    <3>1. /\ SwitchInv
          /\ \/ Switch!Requests \/ Switch!CloudSteps \/ Switch!AgentSteps
             \/ Switch!Others
      BY <2>2 DEF AgentWorkNext, ResourcesMove, CopiesMove, SwitchMoves, ActionsMove,
                  NodesMove, NodeParts, SecretsMove, SwitchHolds
    <3>2. CASE Switch!Requests
      BY <3>1, <3>2, ReviewStepsInv, BeginApplyInv, RollbackStepsInv,
         FinalizationStepsInv DEF Switch!Requests
    <3>3. CASE Switch!CloudSteps
      <4>1. PICK o \in Switch!Ops :
              \/ Switch!CreateCutover(o) \/ Switch!ValidateStaleReview(o)
              \/ Switch!SwitchToTarget(o)
              \/ Switch!DeployTarget(o) \/ Switch!RecordCutover(o)
              \/ Switch!CreateRollback(o) \/ Switch!ValidateRollback(o)
              \/ Switch!SwitchToSource(o)
              \/ Switch!DeploySource(o) \/ Switch!RecordRollback(o)
              \/ Switch!CreateFinalization(o) \/ Switch!MarkRevoking(o)
              \/ Switch!DeleteBinding(o) \/ Switch!PlanSource(o)
              \/ Switch!SealFinalization(o)
              \/ Switch!CloudStops(o)
        BY <3>3 DEF Switch!CloudSteps
      <4>2. CASE \/ Switch!CreateCutover(o) \/ Switch!ValidateStaleReview(o)
                 \/ Switch!SwitchToTarget(o) \/ Switch!DeployTarget(o)
                 \/ Switch!RecordCutover(o)
        <5>1. o \in Clients
          BY <4>2 DEF Switch!CreateCutover, Switch!ValidateStaleReview,
                      Switch!SwitchToTarget, Switch!DeployTarget, Switch!RecordCutover
        <5> QED BY <3>1, <4>2, <5>1, CreateCutoverInv, ApplyStepsInv
      <4>3. CASE \/ Switch!CreateRollback(o) \/ Switch!ValidateRollback(o)
                 \/ Switch!SwitchToSource(o) \/ Switch!DeploySource(o)
                 \/ Switch!RecordRollback(o)
        <5>1. o \in Rollbacks
          BY <4>3 DEF Switch!CreateRollback, Switch!ValidateRollback,
                      Switch!SwitchToSource, Switch!DeploySource, Switch!RecordRollback
        <5> QED BY <3>1, <4>3, <5>1, RollbackStepsInv
      <4>4. CASE \/ Switch!CreateFinalization(o) \/ Switch!MarkRevoking(o)
                 \/ Switch!DeleteBinding(o) \/ Switch!PlanSource(o)
                 \/ Switch!SealFinalization(o)
        <5>1. o \in Finalizations
          BY <4>4 DEF Switch!CreateFinalization, Switch!MarkRevoking,
                      Switch!DeleteBinding, Switch!PlanSource, Switch!SealFinalization
        <5> QED BY <3>1, <4>4, <5>1, FinalizationStepsInv
      <4>5. CASE Switch!CloudStops(o)
        BY <3>1, <4>5, InterruptionsInv
      <4> QED BY <4>1, <4>2, <4>3, <4>4, <4>5
    <3>4. CASE Switch!AgentSteps
      <4>1. ASSUME NEW p \in posted,
                   \/ Switch!CompleteCutover(p) \/ Switch!CompleteRollback(p)
                   \/ Switch!CompleteFinalization(p)
            PROVE  SwitchInv'
        <5>1. Switch!CompleteRollback(p) => p.of \in Rollbacks
          BY DEF Switch!CompleteRollback
        <5>2. Switch!CompleteFinalization(p) => p.of \in Finalizations
          BY DEF Switch!CompleteFinalization
        <5> QED BY <3>1, <4>1, <5>1, <5>2, CompleteCutoverInv, RollbackStepsInv,
                   FinalizationStepsInv
      <4> QED BY <3>1, <3>4, <4>1, ReviewStepsInv, ReadRowInv, InterruptionsInv
              DEF Switch!AgentSteps
    <3> QED BY <3>1, <3>2, <3>3, <3>4, SwitchOthersInv
  <2> QED BY <2>1, <2>2
<1>3. SwitchHolds => CutoverIsAsReviewed
  <2> SUFFICES ASSUME SwitchInv
               PROVE  /\ Switch!CutoverTypeOK /\ Switch!SwitchedFromReviewed
                      /\ Switch!RevokedForSucceededCutover
    BY DEF SwitchHolds, CutoverIsAsReviewed
  <2>1. Switch!CutoverTypeOK
    BY DEF SwitchInv, SwitchRows, SideRow, ReviewRow, CutoverRow, RollbackRow,
           FinalizationRow, Switch!CutoverTypeOK
  <2>2. Switch!SwitchedFromReviewed
    <3>1. ASSUME NEW c \in Clients, NEW d \in Clients, cutover[c].result > 0
          PROVE  /\ cutover[c].result = cutoverReview[cutover[c].of].rev + 1
                 /\ cutover[d].result = cutover[c].result => c = d
      <4>1. /\ ApplyInv(cutover[c], call[c], outcome[c], cutoverReview, config.rev)
            /\ cutover[c].result \in Nat \ {0}
        BY <3>1 DEF SwitchInv, SwitchRows, CutoverRow
      <4>2. cutover[d].result = cutover[c].result
              => /\ MadeBy(c, cutover[c].result, cutover, call, posted)
                 /\ MadeBy(d, cutover[c].result, cutover, call, posted)
        BY <3>1 DEF MadeBy, Made
      <4> QED BY <3>1, <4>1, <4>2 DEF SwitchInv, ApplyInv, MadeOnce
    <3> QED BY <3>1 DEF Switch!SwitchedFromReviewed
  <2>3. Switch!RevokedForSucceededCutover
    BY DEF SwitchInv, FinalizeInv, ApplyInv, SourceKept, Switch!RevokedForSucceededCutover
  <2> QED BY <2>1, <2>2, <2>3
<1> QED BY <1>1, <1>2, <1>3, PTL DEF AgentWorkSpec

----------------------------------------------------------------------------
(* Backups and restores                                                    *)

SourceRow == [ready: BOOLEAN, spec: Nat, data: Nat \ {0}, changing: BOOLEAN]
TargetRow ==
  [ready: BOOLEAN, spec: Nat, changing: BOOLEAN, binding: {"none", "checked", "bound"},
   foreign: BOOLEAN, loads: {0, 1}, content: Nat]
BackupRow ==
  [state: {"absent", "queued", "leased", "running", "succeeded", "failed"},
   spec: Nat, sha: Nat, token: Nat, expired: BOOLEAN]
ReviewedRow ==
  [state: {"absent", "queued", "leased", "succeeded", "failed"},
   of: BackupIds \cup {"none"}, spec: Nat, token: Nat, expired: BOOLEAN]
RestoreRow ==
  [state: {"absent", "queued", "leased", "running", "verifying", "succeeded", "failed"},
   of: BackupIds \cup {"none"}, review: Clients \cup {"none"}, spec: Nat, token: Nat,
   expired: BOOLEAN]
WorkRow ==
  [kind: {"none", "backup", "review", "restore"},
   id: BackupIds \cup Clients \cup RestoreIds \cup {"none"}, token: Nat,
   phase: {"idle", "leased", "started", "dumped", "checked", "done"}, content: Nat,
   status: {"none", "succeeded", "failed"}]

CopyRows ==
  /\ source \in SourceRow /\ target \in TargetRow
  /\ backup \in [BackupIds -> BackupRow] /\ object \in [BackupIds -> Nat]
  /\ review \in [Clients -> ReviewedRow] /\ restore \in [RestoreIds -> RestoreRow]
  /\ tally \in [tokens: Nat, upsets: Nat]

BackupInv(r, held, top) ==
  /\ r.state \in {"leased", "running"} <=> r.token # 0
  /\ r.token <= top
  /\ r.state = "succeeded" => r.sha # 0 /\ held = r.sha

(* A review and a restore are of a backup that has succeeded.              *)
OfSucceeded(r, backups) ==
  r.state # "absent" => r.of \in BackupIds /\ backups[r.of].state = "succeeded"
ReviewInv(r, backups) ==
  OfSucceeded(r, backups) /\ (r.token # 0 => r.state # "absent")
RestoreInv(r, backups, t) ==
  /\ r.state \in {"leased", "running", "verifying"} <=> r.token # 0
  /\ OfSucceeded(r, backups)
  /\ r.state = "succeeded" => t.loads = 1 /\ t.content = backups[r.of].sha

StoredInv ==
  /\ CopyRows
  /\ \A b \in BackupIds : BackupInv(backup[b], object[b], tally.tokens)
  /\ \A v \in Clients : ReviewInv(review[v], backup)
  /\ \A r \in RestoreIds : RestoreInv(restore[r], backup, target)

(* What a lease or a report stands for: the object a dump that is still    *)
(* the row's was uploaded to, and a target that was loaded once.           *)
WorkInv(m, backups, held, restores, t, top) ==
  /\ m.kind = "none" => m = Copies!NoJob
  /\ m.kind # "none" => m.token # 0 /\ m.token <= top /\ m.phase # "idle"
  /\ m.kind = "backup" => m.id \in BackupIds
  /\ m.kind = "review" => m.id \in Clients
  /\ m.kind = "restore" => m.id \in RestoreIds /\ restores[m.id].state # "absent"
  /\ m.phase = "done" => m.status # "none"
  /\ m.kind = "backup" /\ m.phase = "dumped" => m.content # 0
  /\ m.kind = "backup" /\ m.phase = "done" /\ m.status = "succeeded"
       /\ backups[m.id].token = m.token => m.content # 0 /\ held[m.id] = m.content
  /\ m.kind = "restore" /\ m.phase = "checked" =>
       t.loads = 0 /\ m.content = backups[restores[m.id].of].sha
  /\ m.kind = "restore" /\ m.phase = "done" /\ m.status = "succeeded" =>
       t.loads = 1 /\ t.content = backups[restores[m.id].of].sha

(* The backup the Agent works on is its own.                               *)
OwnBackup(m, backups) ==
  m.kind = "backup" =>
    /\ backups[m.id].token = m.token
    /\ m.phase # "leased" => backups[m.id].state = "running"

(* A delayed report is older than the work under way.                      *)
Older(late, m) ==
  /\ late.kind # "none" => late.phase = "done"
  /\ late.kind # "none" /\ m.kind # "none" => late.token < m.token

CopiesInv ==
  /\ StoredInv
  /\ worker \in WorkRow /\ delayed \in WorkRow
  /\ WorkInv(worker, backup, object, restore, target, tally.tokens)
  /\ WorkInv(delayed, backup, object, restore, target, tally.tokens)
  /\ OwnBackup(worker, backup) /\ Older(delayed, worker)
CopiesHold == part = "backups" => CopiesInv

(* What both jobs still stand for after a step that changes no job.        *)
JobsStand ==
  /\ WorkInv(worker, backup', object', restore', target', tally'.tokens)
  /\ WorkInv(delayed, backup', object', restore', target', tally'.tokens)

LEMMA CopiesInitInv == ASSUME Copies!Init PROVE CopiesInv
<1>1. Copies!NoJob \in WorkRow
  BY DEF Copies!NoJob, WorkRow
<1>2. StoredInv
  <2>1. /\ Copies!NoBackup \in BackupRow /\ Copies!NoBackup.state = "absent"
        /\ Copies!NoBackup.token = 0
        /\ Copies!NoReview \in ReviewedRow /\ Copies!NoReview.state = "absent"
        /\ Copies!NoReview.token = 0
        /\ Copies!NoRestore \in RestoreRow /\ Copies!NoRestore.state = "absent"
        /\ Copies!NoRestore.token = 0
    BY DEF Copies!NoBackup, Copies!NoReview, Copies!NoRestore, BackupRow, ReviewedRow,
           RestoreRow
  <2>2. CopyRows
    BY <2>1 DEF Copies!Init, CopyRows, SourceRow, TargetRow
  <2> QED BY <2>1, <2>2 DEF Copies!Init, StoredInv, BackupInv, ReviewInv, RestoreInv,
                            OfSucceeded
<1>3. Copies!NoJob.kind = "none" /\ Copies!NoJob.phase = "idle"
  BY DEF Copies!NoJob
<1>4. worker = Copies!NoJob /\ delayed = Copies!NoJob
  BY DEF Copies!Init
<1>5. WorkInv(Copies!NoJob, backup, object, restore, target, tally.tokens)
  BY <1>3 DEF WorkInv
<1>6. OwnBackup(Copies!NoJob, backup) /\ Older(Copies!NoJob, Copies!NoJob)
  BY <1>3 DEF OwnBackup, Older
<1> QED BY <1>1, <1>2, <1>4, <1>5, <1>6 DEF CopiesInv

(* A job stands for the same as long as its backup row is not its own      *)
(* anew, and what it loaded stays.                                         *)
LEMMA JobStays ==
  ASSUME StoredInv, CopyRows', NEW m \in WorkRow,
         WorkInv(m, backup, object, restore, target, tally.tokens),
         tally.tokens <= tally'.tokens,
         m.kind = "backup" /\ backup'[m.id].token = m.token =>
           backup[m.id].token = m.token /\ object'[m.id] = object[m.id],
         m.kind = "restore" =>
           /\ restore'[m.id].state # "absent" /\ restore'[m.id].of = restore[m.id].of
           /\ backup'[restore[m.id].of].sha = backup[restore[m.id].of].sha,
         target'.loads = target.loads, target'.content = target.content
  PROVE  WorkInv(m, backup', object', restore', target', tally'.tokens)
<1>1. m.token \in Nat /\ tally.tokens \in Nat /\ tally'.tokens \in Nat
  BY DEF StoredInv, CopyRows, WorkRow
<1>2. m.kind # "none" => m.token # 0 /\ m.token <= tally'.tokens /\ m.phase # "idle"
  BY <1>1 DEF WorkInv
<1> HIDE DEF StoredInv
<1> QED BY <1>2 DEF WorkInv

(* Resources change around the copies.                                     *)
LEMMA ResourcesChange ==
  ASSUME CopiesInv, source' \in SourceRow, target' \in TargetRow,
         target'.loads = target.loads, target'.content = target.content,
         UNCHANGED <<backup, object, review, restore, worker, delayed, tally>>
  PROVE  CopiesInv'
<1>1. StoredInv'
  BY DEF CopiesInv, StoredInv, CopyRows, RestoreInv
<1>2. tally.tokens \in Nat
  BY DEF CopiesInv, StoredInv, CopyRows
<1>3. ASSUME NEW m \in WorkRow,
             WorkInv(m, backup, object, restore, target, tally.tokens)
      PROVE  WorkInv(m, backup, object, restore, target', tally.tokens)
  BY <1>3 DEF WorkInv
<1> QED BY <1>1, <1>3 DEF CopiesInv

LEMMA SurroundingsInv == ASSUME CopiesInv, Copies!Surroundings PROVE CopiesInv'
<1>1. /\ source \in SourceRow /\ target \in TargetRow
      /\ source.spec + 1 \in Nat /\ source.data + 1 \in Nat \ {0}
      /\ target.spec + 1 \in Nat
  BY DEF CopiesInv, StoredInv, CopyRows, SourceRow, TargetRow
<1>2. /\ source' \in SourceRow /\ target' \in TargetRow
      /\ target'.loads = target.loads /\ target'.content = target.content
      /\ UNCHANGED <<backup, object, review, restore, worker, delayed, tally>>
  <2>1. CASE Copies!AppWrites
    BY <1>1, <2>1 DEF Copies!AppWrites, SourceRow
  <2>2. CASE Copies!BeginSourceUpdate
    BY <1>1, <2>2 DEF Copies!BeginSourceUpdate, SourceRow
  <2>3. CASE Copies!BeginTargetUpdate
    BY <1>1, <2>3 DEF Copies!BeginTargetUpdate, TargetRow
  <2>4. CASE Copies!WriteResource
    BY <1>1, <2>4 DEF Copies!WriteResource, SourceRow, TargetRow
  <2>5. CASE Copies!ApplyResource
    BY <1>1, <2>5 DEF Copies!ApplyResource, SourceRow, TargetRow
  <2>6. CASE Copies!ReadBinding
    BY <1>1, <2>6 DEF Copies!ReadBinding, TargetRow
  <2>7. CASE Copies!WriteBinding
    BY <1>1, <2>7 DEF Copies!WriteBinding, TargetRow
  <2>8. CASE Copies!AppUsesTarget
    BY <1>1, <2>8 DEF Copies!AppUsesTarget, TargetRow
  <2> QED BY <2>1, <2>2, <2>3, <2>4, <2>5, <2>6, <2>7, <2>8 DEF Copies!Surroundings
<1> QED BY <1>2, ResourcesChange

(* One backup row changes: a succeeded one stays what it is, and a token   *)
(* it takes is a new one.                                                  *)
LEMMA BackupGoes ==
  ASSUME CopiesInv, NEW b \in BackupIds, NEW r \in BackupRow,
         backup' = [backup EXCEPT ![b] = r],
         UNCHANGED <<source, target, object, review, restore>>,
         tally' \in [tokens: Nat, upsets: Nat], tally.tokens <= tally'.tokens,
         backup[b].state = "succeeded" =>
           r.state = "succeeded" /\ r.sha = backup[b].sha,
         r.token \in {backup[b].token, 0} \/ tally.tokens < r.token,
         BackupInv(r, object[b], tally'.tokens)
  PROVE  StoredInv' /\ JobsStand
<1>1. /\ CopyRows /\ StoredInv /\ tally.tokens \in Nat /\ tally'.tokens \in Nat
      /\ r.token \in Nat
  BY DEF CopiesInv, StoredInv, CopyRows, BackupRow
<1>2. CopyRows'
  BY <1>1 DEF CopyRows
<1>3. ASSUME NEW d \in BackupIds
      PROVE  /\ BackupInv(backup'[d], object'[d], tally'.tokens)
             /\ backup[d].state = "succeeded" =>
                  backup'[d].state = "succeeded" /\ backup'[d].sha = backup[d].sha
             /\ backup'[d].token \in {backup[d].token, 0} \/ tally.tokens < backup'[d].token
  <2>1. BackupInv(backup[d], object[d], tally.tokens) /\ backup[d] \in BackupRow
        /\ backup'[d] = IF d = b THEN r ELSE backup[d]
    BY <1>1 DEF StoredInv, CopyRows
  <2>2. CASE d = b
    BY <2>1, <2>2
  <2>3. CASE d # b
    BY <1>1, <2>1, <2>3 DEF BackupInv, BackupRow
  <2> QED BY <2>2, <2>3
<1>4. /\ \A v \in Clients : ReviewInv(review[v], backup')
      /\ \A x \in RestoreIds : RestoreInv(restore[x], backup', target)
  <2>1. ASSUME NEW v \in Clients PROVE ReviewInv(review[v], backup')
    BY <1>1, <1>3 DEF StoredInv, ReviewInv, OfSucceeded
  <2>2. ASSUME NEW x \in RestoreIds PROVE RestoreInv(restore[x], backup', target)
    BY <1>1, <1>3 DEF StoredInv, RestoreInv, OfSucceeded
  <2> QED BY <2>1, <2>2
<1>5. StoredInv'
  BY <1>2, <1>3, <1>4 DEF StoredInv
<1>6. ASSUME NEW m \in WorkRow, WorkInv(m, backup, object, restore, target, tally.tokens)
      PROVE  WorkInv(m, backup', object', restore', target', tally'.tokens)
  <2>1. m.kind = "backup" /\ backup'[m.id].token = m.token =>
          backup[m.id].token = m.token /\ object'[m.id] = object[m.id]
    <3>1. m.kind = "backup" =>
            m.id \in BackupIds /\ m.token # 0 /\ m.token <= tally.tokens
      BY <1>6 DEF WorkInv
    <3>2. m.token \in Nat
      BY DEF WorkRow
    <3> QED BY <1>1, <1>3, <3>1, <3>2
  <2>2. m.kind = "restore" =>
           /\ restore'[m.id].state # "absent" /\ restore'[m.id].of = restore[m.id].of
           /\ backup'[restore[m.id].of].sha = backup[restore[m.id].of].sha
    <3> SUFFICES ASSUME m.kind = "restore"
                 PROVE  /\ restore[m.id].state # "absent"
                        /\ backup'[restore[m.id].of].sha = backup[restore[m.id].of].sha
      OBVIOUS
    <3>1. m.id \in RestoreIds /\ restore[m.id].state # "absent"
      BY <1>6 DEF WorkInv
    <3>2. restore[m.id].of \in BackupIds /\ backup[restore[m.id].of].state = "succeeded"
      BY <1>1, <3>1 DEF StoredInv, RestoreInv, OfSucceeded
    <3> QED BY <1>3, <3>1, <3>2
  <2>3. target'.loads = target.loads /\ target'.content = target.content
    OBVIOUS
  <2> QED BY <1>1, <1>2, <1>6, <2>1, <2>2, <2>3, JobStays
<1> QED BY <1>5, <1>6 DEF JobsStand, CopiesInv

(* One review row changes.                                                 *)
LEMMA CopyReviewGoes ==
  ASSUME CopiesInv, NEW v \in Clients, NEW r \in ReviewedRow,
         review' = [review EXCEPT ![v] = r],
         UNCHANGED <<source, target, object, backup, restore>>,
         tally' \in [tokens: Nat, upsets: Nat], tally.tokens <= tally'.tokens,
         ReviewInv(r, backup)
  PROVE  StoredInv' /\ JobsStand
<1>1. /\ CopyRows /\ StoredInv /\ tally.tokens \in Nat /\ tally'.tokens \in Nat
  BY DEF CopiesInv, StoredInv, CopyRows
<1>2. CopyRows'
  BY <1>1 DEF CopyRows
<1>3. \A u \in Clients : ReviewInv(review'[u], backup)
  BY <1>1 DEF StoredInv, CopyRows
<1>4. ASSUME NEW b \in BackupIds PROVE BackupInv(backup[b], object[b], tally'.tokens)
  <2>1. BackupInv(backup[b], object[b], tally.tokens) /\ backup[b] \in BackupRow
    BY <1>1 DEF StoredInv, CopyRows
  <2> QED BY <1>1, <2>1 DEF BackupInv, BackupRow
<1>5. StoredInv'
  BY <1>1, <1>2, <1>3, <1>4 DEF StoredInv
<1>6. ASSUME NEW m \in WorkRow, WorkInv(m, backup, object, restore, target, tally.tokens)
      PROVE  WorkInv(m, backup', object', restore', target', tally'.tokens)
  <2>1. m.kind = "restore" => restore[m.id].state # "absent"
    BY <1>6 DEF WorkInv
  <2> QED BY <1>1, <1>2, <1>6, <2>1, JobStays
<1> QED BY <1>5, <1>6 DEF JobsStand, CopiesInv

(* One restore row changes, and stays of the same backup.                  *)
LEMMA RestoreGoes ==
  ASSUME CopiesInv, NEW x \in RestoreIds, NEW r \in RestoreRow,
         restore' = [restore EXCEPT ![x] = r],
         UNCHANGED <<source, target, object, backup, review>>,
         tally' \in [tokens: Nat, upsets: Nat], tally.tokens <= tally'.tokens,
         restore[x].state # "absent" => r.state # "absent" /\ r.of = restore[x].of,
         RestoreInv(r, backup, target)
  PROVE  StoredInv' /\ JobsStand
<1>1. /\ CopyRows /\ StoredInv /\ tally.tokens \in Nat /\ tally'.tokens \in Nat
  BY DEF CopiesInv, StoredInv, CopyRows
<1>2. CopyRows'
  BY <1>1 DEF CopyRows
<1>3. \A y \in RestoreIds : RestoreInv(restore'[y], backup, target)
  BY <1>1 DEF StoredInv, CopyRows
<1>4. ASSUME NEW b \in BackupIds PROVE BackupInv(backup[b], object[b], tally'.tokens)
  <2>1. BackupInv(backup[b], object[b], tally.tokens) /\ backup[b] \in BackupRow
    BY <1>1 DEF StoredInv, CopyRows
  <2> QED BY <1>1, <2>1 DEF BackupInv, BackupRow
<1>5. StoredInv'
  BY <1>1, <1>2, <1>3, <1>4 DEF StoredInv
<1>6. ASSUME NEW m \in WorkRow, WorkInv(m, backup, object, restore, target, tally.tokens)
      PROVE  WorkInv(m, backup', object', restore', target', tally'.tokens)
  <2>1. m.kind = "restore" => m.id \in RestoreIds /\ restore[m.id].state # "absent"
    BY <1>6 DEF WorkInv
  <2>2. m.kind = "restore" =>
          restore'[m.id].state # "absent" /\ restore'[m.id].of = restore[m.id].of
    BY <1>1, <2>1 DEF CopyRows
  <2> QED BY <1>1, <1>2, <1>6, <2>2, JobStays
<1> QED BY <1>5, <1>6 DEF JobsStand, CopiesInv

LEMMA CopiesTyped ==
  ASSUME CopiesInv
  PROVE  /\ CopyRows /\ StoredInv /\ worker \in WorkRow /\ delayed \in WorkRow
         /\ tally.tokens \in Nat /\ tally.upsets \in Nat
         /\ Copies!NoJob \in WorkRow /\ Copies!NoJob.kind = "none"
         /\ Copies!NoJob.phase = "idle"
BY DEF CopiesInv, StoredInv, CopyRows, Copies!NoJob, WorkRow

LEMMA CountsGrow ==
  ASSUME CopiesInv, Copies!NewToken \/ Copies!Upset \/ UNCHANGED tally
  PROVE  /\ tally' \in [tokens: Nat, upsets: Nat] /\ tally.tokens <= tally'.tokens
         /\ Copies!NewToken => tally'.tokens = tally.tokens + 1
         /\ ~Copies!NewToken => tally'.tokens = tally.tokens
<1>1. /\ tally \in [tokens: Nat, upsets: Nat]
      /\ tally.tokens + 1 \in Nat /\ tally.upsets + 1 \in Nat
      /\ tally.tokens \in Nat
  BY DEF CopiesInv, StoredInv, CopyRows
<1>2. CASE Copies!NewToken
  BY <1>1, <1>2 DEF Copies!NewToken
<1>3. CASE Copies!Upset /\ ~Copies!NewToken
  BY <1>1, <1>3 DEF Copies!Upset
<1>4. CASE UNCHANGED tally /\ ~Copies!NewToken
  BY <1>1, <1>4
<1> QED BY <1>2, <1>3, <1>4

(* Work that has just been leased.                                         *)
LEMMA LeaseStarts ==
  ASSUME CopiesInv, StoredInv', JobsStand, worker.kind = "none", Copies!NewToken,
         UNCHANGED delayed, NEW id,
         \/ /\ id \in BackupIds /\ Copies!Work("backup", id)
            /\ backup'[id].token = tally.tokens + 1
         \/ id \in Clients /\ Copies!Work("review", id)
         \/ /\ id \in RestoreIds /\ Copies!Work("restore", id)
            /\ restore'[id].state # "absent"
  PROVE  CopiesInv'
<1> DEFINE top == tally.tokens + 1
<1>1. /\ top \in Nat \ {0} /\ tally'.tokens = top /\ delayed \in WorkRow
      /\ delayed.token \in Nat
      /\ delayed.kind # "none" => delayed.token < top
  BY CopiesTyped, CountsGrow DEF CopiesInv, WorkInv, WorkRow
<1> DEFINE m(k) == [kind |-> k, id |-> id, token |-> top, phase |-> "leased",
                    content |-> 0, status |-> "none"]
<1>2. \E k \in {"backup", "review", "restore"} : Copies!Work(k, id)
  OBVIOUS
<1>3. PICK k \in {"backup", "review", "restore"} :
        /\ worker' = m(k)
        /\ k = "backup" => id \in BackupIds /\ backup'[id].token = top
        /\ k = "review" => id \in Clients
        /\ k = "restore" => id \in RestoreIds /\ restore'[id].state # "absent"
  BY DEF Copies!Work, Copies!NoJob, Copies!Token
<1>4. worker' \in WorkRow
  BY <1>1, <1>3 DEF WorkRow
<1>5. /\ worker'.kind = k /\ worker'.id = id /\ worker'.token = top
      /\ worker'.phase = "leased"
  BY <1>3
<1> HIDE DEF top, m
<1>6. WorkInv(worker', backup', object', restore', target', tally'.tokens)
  BY <1>1, <1>3, <1>5 DEF WorkInv
<1>7. OwnBackup(worker', backup') /\ Older(delayed', worker')
  BY <1>1, <1>3, <1>5 DEF OwnBackup, Older, CopiesInv
<1> QED BY <1>1, <1>4, <1>6, <1>7 DEF CopiesInv, JobsStand

LEMMA CreateBackupInv ==
  ASSUME CopiesInv, NEW b \in BackupIds, Copies!CreateBackup(b)
  PROVE  CopiesInv'
<1> DEFINE r == [backup[b] EXCEPT !.state = "queued", !.spec = source.spec]
<1>1. backup[b] \in BackupRow /\ source \in SourceRow /\ backup[b] = Copies!NoBackup
  BY CopiesTyped DEF CopyRows, Copies!CreateBackup
<1>2. backup[b].token = 0 /\ backup[b].state = "absent"
  BY <1>1 DEF Copies!NoBackup
<1>3. r \in BackupRow /\ r.state = "queued" /\ r.token = 0
  BY <1>1, <1>2 DEF BackupRow, SourceRow
<1>4. backup' = [backup EXCEPT ![b] = r]
  BY DEF Copies!CreateBackup
<1> HIDE DEF r
<1>5. BackupInv(r, object[b], tally.tokens)
  BY <1>3, CopiesTyped DEF BackupInv
<1>6. UNCHANGED <<source, target, object, review, restore, worker, delayed, tally>>
  BY DEF Copies!CreateBackup
<1>7. tally' \in [tokens: Nat, upsets: Nat] /\ tally.tokens <= tally'.tokens
  BY <1>6, CountsGrow
<1>8. StoredInv' /\ JobsStand
  BY <1>2, <1>3, <1>4, <1>5, <1>6, <1>7, BackupGoes
<1>9. OwnBackup(worker, backup')
  BY <1>2, <1>4, CopiesTyped DEF CopiesInv, OwnBackup, WorkInv, CopyRows
<1> QED BY <1>6, <1>8, <1>9 DEF CopiesInv, JobsStand

LEMMA LeaseBackupInv ==
  ASSUME CopiesInv, NEW b \in BackupIds, Copies!LeaseBackup(b)
  PROVE  CopiesInv'
<1> DEFINE top == tally.tokens + 1
           r == [backup[b] EXCEPT !.state = "leased", !.token = top, !.expired = FALSE]
           f == [backup[b] EXCEPT !.state = "failed", !.token = 0]
<1>1. /\ backup[b] \in BackupRow /\ backup[b].state # "succeeded"
      /\ worker.kind = "none" /\ top \in Nat /\ top # 0 /\ tally.tokens < top
      /\ tally'.tokens = top
  BY CopiesTyped, CountsGrow DEF CopyRows, Copies!LeaseBackup, Copies!Claimable
<1>2. r \in BackupRow /\ r.state = "leased" /\ r.token = top
  BY <1>1 DEF BackupRow
<1>3. f \in BackupRow /\ f.state = "failed" /\ f.token = 0
  BY <1>1 DEF BackupRow
<1>4. /\ UNCHANGED <<source, target, object, review, restore, delayed>>
      /\ tally' \in [tokens: Nat, upsets: Nat] /\ tally.tokens <= tally'.tokens
      /\ Copies!NewToken
  BY CountsGrow DEF Copies!LeaseBackup
<1>5. \/ backup' = [backup EXCEPT ![b] = r] /\ Copies!Work("backup", b)
      \/ backup' = [backup EXCEPT ![b] = f] /\ UNCHANGED worker
  BY DEF Copies!LeaseBackup, Copies!Token
<1> HIDE DEF r, f, top
<1>6. BackupInv(r, object[b], tally'.tokens) /\ BackupInv(f, object[b], tally'.tokens)
  BY <1>1, <1>2, <1>3 DEF BackupInv
<1>7. CASE backup' = [backup EXCEPT ![b] = r] /\ Copies!Work("backup", b)
  <2>1. StoredInv' /\ JobsStand
    BY <1>1, <1>2, <1>4, <1>6, <1>7, BackupGoes
  <2>2. backup'[b].token = tally.tokens + 1
    BY <1>2, <1>7, CopiesTyped DEF CopyRows, top
  <2> QED BY <1>1, <1>4, <1>7, <2>1, <2>2, LeaseStarts
<1>8. CASE backup' = [backup EXCEPT ![b] = f] /\ UNCHANGED worker
  <2>1. StoredInv' /\ JobsStand
    BY <1>1, <1>3, <1>4, <1>6, <1>8, BackupGoes
  <2>2. OwnBackup(worker, backup') /\ Older(delayed, worker)
    BY <1>1 DEF OwnBackup, CopiesInv
  <2> QED BY <1>4, <1>8, <2>1, <2>2 DEF CopiesInv, JobsStand
<1> QED BY <1>5, <1>7, <1>8

(* The Agent goes on with its work; rows, objects and target stay.         *)
LEMMA WorkMoves ==
  ASSUME CopiesInv, NEW m \in WorkRow, worker' = m,
         m.kind = worker.kind, m.id = worker.id, m.token = worker.token,
         m.kind # "none", m.kind = "backup" => worker.phase # "leased",
         UNCHANGED <<source, target, backup, object, review, restore, delayed>>,
         tally' \in [tokens: Nat, upsets: Nat], tally.tokens <= tally'.tokens,
         WorkInv(m, backup, object, restore, target, tally.tokens)
  PROVE  CopiesInv'
<1>1. /\ CopyRows /\ StoredInv /\ tally.tokens \in Nat /\ tally'.tokens \in Nat
  BY DEF CopiesInv, StoredInv, CopyRows
<1>2. CopyRows'
  BY <1>1 DEF CopyRows
<1>3. ASSUME NEW b \in BackupIds PROVE BackupInv(backup[b], object[b], tally'.tokens)
  <2>1. BackupInv(backup[b], object[b], tally.tokens) /\ backup[b] \in BackupRow
    BY <1>1 DEF StoredInv, CopyRows
  <2> QED BY <1>1, <2>1 DEF BackupInv, BackupRow
<1>4. StoredInv'
  BY <1>1, <1>2, <1>3 DEF StoredInv
<1>5. ASSUME NEW w \in WorkRow, WorkInv(w, backup, object, restore, target, tally.tokens)
      PROVE  WorkInv(w, backup', object', restore', target', tally'.tokens)
  <2>1. w.kind = "restore" => restore[w.id].state # "absent"
    BY <1>5 DEF WorkInv
  <2> QED BY <1>1, <1>2, <1>5, <2>1, JobStays
<1>6. OwnBackup(m, backup) /\ Older(delayed, m)
  BY DEF CopiesInv, OwnBackup, Older
<1> QED BY <1>4, <1>5, <1>6 DEF CopiesInv

LEMMA DumpInv == ASSUME CopiesInv, Copies!Dump PROVE CopiesInv'
<1> DEFINE m == [worker EXCEPT !.phase = "dumped", !.content = source.data]
<1>1. /\ worker \in WorkRow /\ source.data \in Nat \ {0}
      /\ worker.kind = "backup" /\ worker.phase = "started" /\ worker' = m
      /\ UNCHANGED <<source, target, backup, object, review, restore, delayed, tally>>
  BY CopiesTyped DEF Copies!Dump, CopyRows, SourceRow
<1>2. /\ m \in WorkRow /\ m.kind = worker.kind /\ m.id = worker.id
      /\ m.token = worker.token /\ m.phase = "dumped" /\ m.content # 0
  BY <1>1 DEF WorkRow
<1> HIDE DEF m
<1>3. WorkInv(m, backup, object, restore, target, tally.tokens)
  BY <1>1, <1>2 DEF CopiesInv, WorkInv
<1>4. tally' \in [tokens: Nat, upsets: Nat] /\ tally.tokens <= tally'.tokens
  BY <1>1, CountsGrow
<1> QED BY <1>1, <1>2, <1>3, <1>4, WorkMoves

LEMMA InspectInv == ASSUME CopiesInv, Copies!Inspect PROVE CopiesInv'
<1>1. PICK s \in {"succeeded", "failed"} :
        worker' = [worker EXCEPT !.phase = "done", !.status = s]
  BY DEF Copies!Inspect
<1> DEFINE m == [worker EXCEPT !.phase = "done", !.status = s]
<1>2. /\ worker \in WorkRow /\ worker.kind = "review" /\ worker' = m
      /\ UNCHANGED <<source, target, backup, object, review, restore, delayed>>
      /\ tally' \in [tokens: Nat, upsets: Nat] /\ tally.tokens <= tally'.tokens
  BY <1>1, CopiesTyped, CountsGrow DEF Copies!Inspect
<1>3. /\ m \in WorkRow /\ m.kind = worker.kind /\ m.id = worker.id
      /\ m.token = worker.token /\ m.phase = "done" /\ m.status = s
  BY <1>2 DEF WorkRow
<1> HIDE DEF m
<1>4. WorkInv(m, backup, object, restore, target, tally.tokens)
  BY <1>2, <1>3 DEF CopiesInv, WorkInv
<1> QED BY <1>2, <1>3, <1>4, WorkMoves

(* Only an intact object goes on to the load, and only of a target that    *)
(* nothing was loaded into.                                                *)
LEMMA FetchInv == ASSUME CopiesInv, Copies!Fetch PROVE CopiesInv'
<1> DEFINE b == restore[worker.id].of
           good == object[b] # 0 /\ object[b] = backup[b].sha /\ Copies!Pristine
           m == [worker EXCEPT !.content = object[b],
                   !.phase = IF good THEN "checked" ELSE "done",
                   !.status = IF good THEN worker.status ELSE "failed"]
<1>1. /\ worker \in WorkRow /\ worker.kind = "restore"
      /\ UNCHANGED <<source, target, backup, object, review, restore, delayed, tally>>
      /\ worker' = m
  BY CopiesTyped DEF Copies!Fetch
<1>2. worker.id \in RestoreIds /\ restore[worker.id].state # "absent"
  BY <1>1 DEF CopiesInv, WorkInv
<1>3. b \in BackupIds /\ object[b] \in Nat
  BY <1>2, CopiesTyped DEF StoredInv, CopyRows, RestoreInv, OfSucceeded
<1> HIDE DEF good
<1>4. /\ m \in WorkRow /\ m.kind = worker.kind /\ m.id = worker.id
      /\ m.token = worker.token /\ m.content = object[b]
      /\ \/ m.phase = "checked" /\ good
         \/ m.phase = "done" /\ m.status = "failed"
  BY <1>1, <1>3 DEF WorkRow
<1>5. good => m.content = backup[b].sha /\ target.loads = 0
  BY <1>4 DEF good, Copies!Pristine
<1> HIDE DEF m
<1>6. WorkInv(m, backup, object, restore, target, tally.tokens)
  BY <1>1, <1>4, <1>5 DEF CopiesInv, WorkInv
<1>7. tally' \in [tokens: Nat, upsets: Nat] /\ tally.tokens <= tally'.tokens
  BY <1>1, CountsGrow
<1> QED BY <1>1, <1>4, <1>6, <1>7, WorkMoves

(* The object a running backup of its own uploads is in no one else's way. *)
LEMMA UploadInv == ASSUME CopiesInv, Copies!Upload PROVE CopiesInv'
<1> DEFINE b == worker.id
<1>1. /\ worker \in WorkRow /\ worker.kind = "backup" /\ worker.phase = "dumped"
      /\ UNCHANGED <<source, target, backup, review, restore, delayed>>
      /\ tally' \in [tokens: Nat, upsets: Nat] /\ tally.tokens <= tally'.tokens
  BY CopiesTyped, CountsGrow DEF Copies!Upload
<1>2. /\ b \in BackupIds /\ worker.content # 0 /\ worker.token # 0
      /\ worker.token <= tally.tokens
      /\ backup[b].token = worker.token /\ backup[b].state = "running"
      /\ delayed.kind # "none" => delayed.token < worker.token /\ delayed.phase = "done"
  BY <1>1 DEF CopiesInv, WorkInv, OwnBackup, Older
<1>3. /\ CopyRows /\ StoredInv /\ tally.tokens \in Nat /\ tally'.tokens \in Nat
      /\ worker.content \in Nat /\ object[b] \in Nat
      /\ worker.token \in Nat /\ delayed.token \in Nat /\ delayed \in WorkRow
  BY <1>1, <1>2 DEF CopiesInv, StoredInv, CopyRows, WorkRow
<1>4. PICK left \in Nat, s \in {"succeeded", "failed"} :
        /\ object' = [object EXCEPT ![b] = left]
        /\ worker' = [worker EXCEPT !.phase = "done", !.status = s]
        /\ s = "succeeded" => left = worker.content
  <2>1. CASE worker' = [worker EXCEPT !.phase = "done", !.status = "succeeded"]
             /\ object' = [object EXCEPT ![b] = worker.content]
    BY <1>3, <2>1
  <2>2. CASE worker' = [worker EXCEPT !.phase = "done", !.status = "failed"]
             /\ \E left \in {0, object[b], worker.content} :
                  object' = [object EXCEPT ![b] = left]
    BY <1>3, <2>2
  <2> QED BY <2>1, <2>2 DEF Copies!Upload
<1>5. CopyRows'
  BY <1>1, <1>3, <1>4 DEF CopyRows
<1>6. ASSUME NEW d \in BackupIds PROVE BackupInv(backup[d], object'[d], tally'.tokens)
  <2>1. BackupInv(backup[d], object[d], tally.tokens) /\ backup[d] \in BackupRow
        /\ (d # b => object'[d] = object[d])
    BY <1>3, <1>4 DEF StoredInv, CopyRows
  <2> QED BY <1>1, <1>2, <1>3, <2>1 DEF BackupInv, BackupRow
<1>7. StoredInv'
  BY <1>1, <1>3, <1>5, <1>6 DEF StoredInv
<1>8. WorkInv(delayed, backup', object', restore', target', tally'.tokens)
  <2>1. WorkInv(delayed, backup, object, restore, target, tally.tokens)
    BY DEF CopiesInv
  <2>2. delayed.kind = "backup" /\ backup'[delayed.id].token = delayed.token =>
          backup[delayed.id].token = delayed.token
          /\ object'[delayed.id] = object[delayed.id]
    <3> SUFFICES ASSUME delayed.kind = "backup", backup[delayed.id].token = delayed.token
                 PROVE  object'[delayed.id] = object[delayed.id]
      BY <1>1
    <3>1. delayed.id \in BackupIds /\ delayed.id # b
      BY <1>2, <1>3, <2>1 DEF WorkInv
    <3> QED BY <1>3, <1>4, <3>1 DEF CopyRows
  <2>3. delayed.kind = "restore" => restore[delayed.id].state # "absent"
    BY <2>1 DEF WorkInv
  <2> QED BY <1>1, <1>3, <1>5, <2>1, <2>2, <2>3, JobStays
<1>9. /\ worker' \in WorkRow /\ worker'.kind = "backup" /\ worker'.id = b
      /\ worker'.token = worker.token /\ worker'.phase = "done"
      /\ worker'.status = s /\ worker'.content = worker.content
  BY <1>1, <1>4 DEF WorkRow
<1>10. WorkInv(worker', backup', object', restore', target', tally'.tokens)
  <2>1. object'[b] = left /\ worker.token <= tally'.tokens
    BY <1>1, <1>2, <1>3, <1>4 DEF CopyRows
  <2> QED BY <1>2, <1>4, <1>9, <2>1 DEF WorkInv
<1>11. OwnBackup(worker', backup') /\ Older(delayed', worker')
  BY <1>1, <1>2, <1>9 DEF OwnBackup, Older
<1> QED BY <1>1, <1>3, <1>7, <1>8, <1>9, <1>10, <1>11 DEF CopiesInv

(* The target is loaded once: by the work that found it untouched.         *)
LEMMA LoadInv == ASSUME CopiesInv, Copies!Load PROVE CopiesInv'
<1> DEFINE more == [target EXCEPT !.loads = target.loads + 1, !.content = worker.content]
<1>1. /\ worker \in WorkRow /\ worker.kind = "restore" /\ worker.phase = "checked"
      /\ UNCHANGED <<source, backup, object, review, restore, delayed>>
      /\ tally' \in [tokens: Nat, upsets: Nat] /\ tally.tokens <= tally'.tokens
  BY CopiesTyped, CountsGrow DEF Copies!Load
<1>2. /\ CopyRows /\ StoredInv /\ tally.tokens \in Nat /\ tally'.tokens \in Nat
      /\ target \in TargetRow /\ worker.content \in Nat /\ worker.token \in Nat
  BY <1>1 DEF CopiesInv, StoredInv, CopyRows, WorkRow
<1>3. /\ worker.id \in RestoreIds /\ restore[worker.id].state # "absent"
      /\ target.loads = 0 /\ worker.content = backup[restore[worker.id].of].sha
      /\ worker.token # 0 /\ worker.token <= tally.tokens
      /\ delayed.kind # "none" => delayed.token < worker.token /\ delayed.phase = "done"
      /\ WorkInv(delayed, backup, object, restore, target, tally.tokens)
  BY <1>1 DEF CopiesInv, WorkInv, OwnBackup, Older
<1>4. PICK s \in {"succeeded", "failed"} :
        /\ worker' = [worker EXCEPT !.phase = "done", !.status = s]
        /\ target' \in {target, more}
        /\ s = "succeeded" => target' = more
  BY DEF Copies!Load
<1>5. /\ more \in TargetRow /\ more.loads = 1 /\ more.content = worker.content
  <2>1. target.loads + 1 = 1
    BY <1>3
  <2> QED BY <1>2, <2>1 DEF TargetRow
<1> HIDE DEF more
<1>6. target' \in TargetRow /\ CopyRows'
  BY <1>1, <1>2, <1>4, <1>5 DEF CopyRows
<1>7. ASSUME NEW b \in BackupIds PROVE BackupInv(backup[b], object[b], tally'.tokens)
  <2>1. BackupInv(backup[b], object[b], tally.tokens) /\ backup[b] \in BackupRow
    BY <1>2 DEF StoredInv, CopyRows
  <2> QED BY <1>1, <1>2, <2>1 DEF BackupInv, BackupRow
<1>8. ASSUME NEW r \in RestoreIds PROVE RestoreInv(restore[r], backup, target')
  BY <1>2, <1>3 DEF StoredInv, RestoreInv
<1>9. StoredInv'
  BY <1>1, <1>2, <1>6, <1>7, <1>8 DEF StoredInv
<1>10. delayed \in WorkRow /\ delayed.token \in Nat
  BY CopiesTyped DEF WorkRow
<1>11. WorkInv(delayed, backup', object', restore', target', tally'.tokens)
  <2>1. /\ ~(delayed.kind = "restore" /\ delayed.phase = "checked")
        /\ ~(delayed.kind = "restore" /\ delayed.phase = "done"
               /\ delayed.status = "succeeded")
    BY <1>3 DEF WorkInv
  <2>2. delayed.kind # "none" => delayed.token <= tally'.tokens
    BY <1>1, <1>2, <1>3, <1>10
  <2> QED BY <1>1, <1>3, <2>1, <2>2 DEF WorkInv
<1>12. /\ worker' \in WorkRow /\ worker'.kind = "restore" /\ worker'.id = worker.id
       /\ worker'.token = worker.token /\ worker'.phase = "done"
       /\ worker'.status = s /\ worker'.content = worker.content
  BY <1>1, <1>4 DEF WorkRow
<1>13. WorkInv(worker', backup', object', restore', target', tally'.tokens)
  <2>1. worker.token <= tally'.tokens
    BY <1>1, <1>2, <1>3
  <2> QED BY <1>1, <1>3, <1>4, <1>5, <1>12, <2>1 DEF WorkInv
<1>14. OwnBackup(worker', backup') /\ Older(delayed', worker')
  BY <1>1, <1>3, <1>12 DEF OwnBackup, Older
<1> QED BY <1>1, <1>9, <1>10, <1>11, <1>12, <1>13, <1>14 DEF CopiesInv

LEMMA RequestReviewInv ==
  ASSUME CopiesInv, NEW v \in Clients, NEW b \in BackupIds, Copies!Review(v, b)
  PROVE  CopiesInv'
<1> DEFINE r == [review[v] EXCEPT !.state = "queued", !.of = b, !.spec = target.spec]
<1>1. /\ review[v] \in ReviewedRow /\ target \in TargetRow
      /\ UNCHANGED <<source, target, backup, object, restore, worker, delayed, tally>>
      /\ review' = [review EXCEPT ![v] = r] /\ backup[b].state = "succeeded"
  BY CopiesTyped DEF CopyRows, Copies!Review, Copies!validateTarget
<1>2. r \in ReviewedRow /\ r.state = "queued" /\ r.of = b
  BY <1>1 DEF ReviewedRow, TargetRow
<1> HIDE DEF r
<1>3. ReviewInv(r, backup)
  BY <1>1, <1>2 DEF ReviewInv, OfSucceeded
<1>4. tally' \in [tokens: Nat, upsets: Nat] /\ tally.tokens <= tally'.tokens
  BY <1>1, CountsGrow
<1>5. StoredInv' /\ JobsStand
  BY <1>1, <1>2, <1>3, <1>4, CopyReviewGoes
<1> QED BY <1>1, <1>5 DEF CopiesInv, JobsStand

LEMMA LeaseReviewInv ==
  ASSUME CopiesInv, NEW v \in Clients, Copies!LeaseReview(v)
  PROVE  CopiesInv'
<1> DEFINE top == tally.tokens + 1
           r == [review[v] EXCEPT !.state = "leased", !.token = top, !.expired = FALSE]
           f == [review[v] EXCEPT !.state = "failed", !.token = 0]
<1>1. /\ review[v] \in ReviewedRow /\ review[v].state # "absent"
      /\ ReviewInv(review[v], backup) /\ worker.kind = "none" /\ top \in Nat
  BY CopiesTyped DEF StoredInv, CopyRows, Copies!LeaseReview, Copies!Claimable
<1>2. r \in ReviewedRow /\ r.state = "leased" /\ r.of = review[v].of
  BY <1>1 DEF ReviewedRow
<1>3. f \in ReviewedRow /\ f.state = "failed" /\ f.of = review[v].of
  BY <1>1 DEF ReviewedRow
<1>4. /\ UNCHANGED <<source, target, object, backup, restore, delayed>>
      /\ tally' \in [tokens: Nat, upsets: Nat] /\ tally.tokens <= tally'.tokens
      /\ Copies!NewToken
  BY CountsGrow DEF Copies!LeaseReview
<1>5. \/ review' = [review EXCEPT ![v] = r] /\ Copies!Work("review", v)
      \/ review' = [review EXCEPT ![v] = f] /\ UNCHANGED worker
  BY DEF Copies!LeaseReview, Copies!Token
<1> HIDE DEF r, f, top
<1>6. ReviewInv(r, backup) /\ ReviewInv(f, backup)
  BY <1>1, <1>2, <1>3 DEF ReviewInv, OfSucceeded
<1>7. StoredInv' /\ JobsStand
  BY <1>2, <1>3, <1>4, <1>5, <1>6, CopyReviewGoes
<1>8. CASE Copies!Work("review", v)
  BY <1>1, <1>4, <1>7, <1>8, LeaseStarts
<1>9. CASE UNCHANGED worker
  <2>1. OwnBackup(worker, backup) /\ Older(delayed, worker)
    BY DEF CopiesInv
  <2> QED BY <1>4, <1>7, <1>9, <2>1 DEF CopiesInv, JobsStand
<1> QED BY <1>5, <1>8, <1>9

LEMMA CreateRestoreInv ==
  ASSUME CopiesInv, NEW x \in RestoreIds, NEW v \in Clients, Copies!CreateRestore(x, v)
  PROVE  CopiesInv'
<1> DEFINE r == [restore[x] EXCEPT !.state = "queued", !.review = v, !.of = review[v].of,
                                   !.spec = target.spec]
<1>1. /\ restore[x] \in RestoreRow /\ target \in TargetRow
      /\ review[v] \in ReviewedRow /\ review[v].state = "succeeded"
      /\ ReviewInv(review[v], backup)
      /\ UNCHANGED <<source, target, backup, object, review, worker, delayed, tally>>
      /\ restore' = [restore EXCEPT ![x] = r]
      /\ restore[x].state = "absent" /\ restore[x].token = 0
  <2>1. restore[x] = Copies!NoRestore
    BY DEF Copies!CreateRestore
  <2>2. Copies!NoRestore.state = "absent" /\ Copies!NoRestore.token = 0
    BY DEF Copies!NoRestore
  <2>3. /\ review[v].state = "succeeded" /\ restore' = [restore EXCEPT ![x] = r]
        /\ UNCHANGED <<source, target, backup, object, review, worker, delayed, tally>>
    BY DEF Copies!CreateRestore
  <2> HIDE DEF r
  <2> QED BY <2>1, <2>2, <2>3, CopiesTyped DEF StoredInv, CopyRows
<1>2. /\ r \in RestoreRow /\ r.state = "queued" /\ r.of = review[v].of
      /\ r.token = 0
  BY <1>1 DEF RestoreRow, ReviewedRow, TargetRow
<1> HIDE DEF r
<1>3. RestoreInv(r, backup, target)
  BY <1>1, <1>2 DEF ReviewInv, RestoreInv, OfSucceeded
<1>4. tally' \in [tokens: Nat, upsets: Nat] /\ tally.tokens <= tally'.tokens
  BY <1>1, CountsGrow
<1>5. StoredInv' /\ JobsStand
  BY <1>1, <1>2, <1>3, <1>4, RestoreGoes
<1> QED BY <1>1, <1>5 DEF CopiesInv, JobsStand

LEMMA LeaseRestoreInv ==
  ASSUME CopiesInv, NEW x \in RestoreIds, Copies!LeaseRestore(x)
  PROVE  CopiesInv'
<1> DEFINE top == tally.tokens + 1
           r == [restore[x] EXCEPT !.state = "leased", !.token = top, !.expired = FALSE]
           f == [restore[x] EXCEPT !.state = "failed", !.token = 0]
<1>1. /\ restore[x] \in RestoreRow /\ restore[x].state # "absent"
      /\ RestoreInv(restore[x], backup, target) /\ worker.kind = "none"
      /\ top \in Nat /\ top # 0
  BY CopiesTyped DEF StoredInv, CopyRows, Copies!LeaseRestore, Copies!Claimable
<1>2. /\ r \in RestoreRow /\ r.state = "leased" /\ r.of = restore[x].of
      /\ r.token = top
  BY <1>1 DEF RestoreRow
<1>3. /\ f \in RestoreRow /\ f.state = "failed" /\ f.of = restore[x].of
      /\ f.token = 0
  BY <1>1 DEF RestoreRow
<1>4. /\ UNCHANGED <<source, target, object, backup, review, delayed>>
      /\ tally' \in [tokens: Nat, upsets: Nat] /\ tally.tokens <= tally'.tokens
      /\ Copies!NewToken
  BY CountsGrow DEF Copies!LeaseRestore
<1>5. \/ restore' = [restore EXCEPT ![x] = r] /\ Copies!Work("restore", x)
      \/ restore' = [restore EXCEPT ![x] = f] /\ UNCHANGED worker
  BY DEF Copies!LeaseRestore, Copies!Token
<1> HIDE DEF r, f, top
<1>6. RestoreInv(r, backup, target) /\ RestoreInv(f, backup, target)
  BY <1>1, <1>2, <1>3 DEF RestoreInv, OfSucceeded
<1>7. StoredInv' /\ JobsStand
  BY <1>2, <1>3, <1>4, <1>5, <1>6, RestoreGoes
<1>8. CASE restore' = [restore EXCEPT ![x] = r] /\ Copies!Work("restore", x)
  <2>1. restore'[x].state # "absent"
    BY <1>2, <1>8, CopiesTyped DEF CopyRows
  <2> QED BY <1>1, <1>4, <1>7, <1>8, <2>1, LeaseStarts
<1>9. CASE UNCHANGED worker
  <2>1. OwnBackup(worker, backup) /\ Older(delayed, worker)
    BY DEF CopiesInv
  <2> QED BY <1>4, <1>7, <1>9, <2>1 DEF CopiesInv, JobsStand
<1> QED BY <1>5, <1>8, <1>9

(* A report of work: what Cloud stores of it.                              *)
Told(m) ==
  /\ m.phase \in {"leased", "done"}
  /\ m.kind = "review" => m.phase = "done"
  /\ WorkInv(m, backup, object, restore, target, tally.tokens)

LEMMA CompletedBackup ==
  ASSUME CopiesInv, NEW m \in WorkRow, Told(m), m.kind = "backup",
         NEW top \in Nat, tally.tokens <= top
  PROVE  /\ m.id \in BackupIds /\ Copies!CompleteBackup(m) \in BackupRow
         /\ backup[m.id].state = "succeeded" =>
              Copies!CompleteBackup(m) = backup[m.id]
         /\ backup[m.id].token # m.token => Copies!CompleteBackup(m) = backup[m.id]
         /\ Copies!CompleteBackup(m).token \in {backup[m.id].token, 0}
         /\ BackupInv(Copies!CompleteBackup(m), object[m.id], top)
<1> DEFINE b == backup[m.id]
           r == [b EXCEPT !.state = "running", !.expired = FALSE]
           s == IF m.status = "succeeded" THEN m.content ELSE b.sha
           f == [b EXCEPT !.state = m.status, !.token = 0, !.expired = FALSE, !.sha = s]
<1>1. /\ m.id \in BackupIds /\ b \in BackupRow /\ BackupInv(b, object[m.id], tally.tokens)
      /\ m.content \in Nat /\ b.token \in Nat /\ tally.tokens \in Nat
      /\ m.phase = "done" => m.status \in {"succeeded", "failed"}
      /\ m.phase = "done" /\ m.status = "succeeded" /\ b.token = m.token =>
           m.content # 0 /\ object[m.id] = m.content
  BY CopiesTyped DEF Told, WorkInv, StoredInv, CopyRows, WorkRow, BackupRow
<1>2. BackupInv(b, object[m.id], top)
  BY <1>1 DEF BackupInv
<1>3. CASE b.token # m.token \/ b.state = "succeeded"
  BY <1>1, <1>2, <1>3 DEF Copies!CompleteBackup
<1>4. CASE /\ b.token = m.token /\ b.state # "succeeded" /\ m.phase = "leased"
           /\ b.state \in {"leased", "running"}
  <2>1. /\ r \in BackupRow /\ r.token = b.token /\ r.state = "running"
    BY <1>1 DEF BackupRow
  <2>2. Copies!CompleteBackup(m) = r
    BY <1>4 DEF Copies!CompleteBackup
  <2> HIDE DEF r
  <2> QED BY <1>1, <1>2, <1>4, <2>1, <2>2 DEF BackupInv
<1>5. CASE /\ b.token = m.token /\ b.state # "succeeded" /\ m.phase # "leased"
           /\ b.state = "running"
  <2>1. /\ f \in BackupRow /\ f.token = 0 /\ f.state = m.status /\ f.sha = s
    BY <1>1, <1>5 DEF BackupRow, Told
  <2>2. Copies!CompleteBackup(m) = f
    BY <1>5 DEF Copies!CompleteBackup
  <2> HIDE DEF f
  <2> QED BY <1>1, <1>5, <2>1, <2>2 DEF BackupInv, Told
<1>6. CASE /\ b.token = m.token /\ b.state # "succeeded"
           /\ m.phase = "leased" => b.state \notin {"leased", "running"}
           /\ m.phase # "leased" => b.state # "running"
  <2>1. Copies!CompleteBackup(m) = b
    BY <1>6 DEF Copies!CompleteBackup
  <2> QED BY <1>1, <1>2, <1>6, <2>1
<1> QED BY <1>3, <1>4, <1>5, <1>6

LEMMA CompletedReview ==
  ASSUME CopiesInv, NEW m \in WorkRow, Told(m), m.kind = "review"
  PROVE  /\ m.id \in Clients /\ Copies!CompleteReview(m) \in ReviewedRow
         /\ ReviewInv(Copies!CompleteReview(m), backup)
<1> DEFINE r == [review[m.id] EXCEPT !.state = m.status, !.token = 0, !.expired = FALSE]
<1>1. /\ m.id \in Clients /\ review[m.id] \in ReviewedRow /\ m.token # 0
      /\ ReviewInv(review[m.id], backup) /\ m.status \in {"succeeded", "failed"}
  BY CopiesTyped DEF Told, WorkInv, StoredInv, CopyRows, WorkRow
<1>2. /\ r \in ReviewedRow /\ r.state = m.status /\ r.of = review[m.id].of
      /\ r.token = 0
  BY <1>1 DEF ReviewedRow
<1>3. Copies!CompleteReview(m) = IF review[m.id].token = m.token THEN r
                                                              ELSE review[m.id]
  BY DEF Copies!CompleteReview
<1> HIDE DEF r
<1> QED BY <1>1, <1>2, <1>3 DEF ReviewInv, OfSucceeded

LEMMA CompletedRestore ==
  ASSUME CopiesInv, NEW m \in WorkRow, Told(m), m.kind = "restore",
         NEW stopped \in BOOLEAN
  PROVE  /\ m.id \in RestoreIds /\ Copies!CompleteRestore(m, stopped) \in RestoreRow
         /\ restore[m.id].state # "absent"
         /\ Copies!CompleteRestore(m, stopped).state # "absent"
         /\ Copies!CompleteRestore(m, stopped).of = restore[m.id].of
         /\ RestoreInv(Copies!CompleteRestore(m, stopped), backup, target)
<1> DEFINE b == restore[m.id]
           r == [b EXCEPT !.state = "running", !.expired = FALSE]
           v == [b EXCEPT !.state = "verifying"]
           f == [b EXCEPT !.state = m.status, !.token = 0, !.expired = FALSE]
<1>1. /\ m.id \in RestoreIds /\ b \in RestoreRow /\ RestoreInv(b, backup, target)
      /\ b.state # "absent"
      /\ m.phase = "done" => m.status \in {"succeeded", "failed"}
      /\ m.phase = "done" /\ m.status = "succeeded" =>
           target.loads = 1 /\ target.content = backup[b.of].sha
  BY CopiesTyped DEF Told, WorkInv, StoredInv, CopyRows, WorkRow
<1>2. CASE Copies!CompleteRestore(m, stopped) = b
  BY <1>1, <1>2
<1>3. CASE Copies!CompleteRestore(m, stopped) = r /\ b.state \in {"leased", "running"}
  <2>1. /\ r \in RestoreRow /\ r.token = b.token /\ r.state = "running" /\ r.of = b.of
    BY <1>1 DEF RestoreRow
  <2> HIDE DEF r
  <2> QED BY <1>1, <1>3, <2>1 DEF RestoreInv, OfSucceeded
<1>4. CASE Copies!CompleteRestore(m, stopped) = v /\ b.state = "running"
  <2>1. /\ v \in RestoreRow /\ v.token = b.token /\ v.state = "verifying" /\ v.of = b.of
    BY <1>1 DEF RestoreRow
  <2> HIDE DEF v
  <2> QED BY <1>1, <1>4, <2>1 DEF RestoreInv, OfSucceeded
<1>5. CASE Copies!CompleteRestore(m, stopped) = f /\ m.phase = "done"
  <2>1. /\ f \in RestoreRow /\ f.token = 0 /\ f.state = m.status /\ f.of = b.of
    BY <1>1, <1>5 DEF RestoreRow
  <2> HIDE DEF f
  <2> QED BY <1>1, <1>5, <2>1 DEF RestoreInv, OfSucceeded
<1>6. \/ Copies!CompleteRestore(m, stopped) = b
      \/ Copies!CompleteRestore(m, stopped) = r /\ b.state \in {"leased", "running"}
      \/ Copies!CompleteRestore(m, stopped) = v /\ b.state = "running"
      \/ Copies!CompleteRestore(m, stopped) = f /\ m.phase = "done"
  <2>1. m.phase # "leased" => m.phase = "done"
    BY DEF Told
  <2> QED BY <2>1 DEF Copies!CompleteRestore
<1> QED BY <1>2, <1>3, <1>4, <1>5, <1>6

LEMMA ReportGoes ==
  ASSUME CopiesInv, NEW m \in WorkRow, Told(m), NEW stopped \in BOOLEAN,
         Copies!Report(m, stopped), UNCHANGED <<source, target, object>>,
         tally' \in [tokens: Nat, upsets: Nat], tally.tokens <= tally'.tokens
  PROVE  StoredInv' /\ JobsStand
<1>1. CASE m.kind = "backup" /\ backup' = [backup EXCEPT ![m.id] = Copies!CompleteBackup(m)]
           /\ UNCHANGED <<review, restore>>
  <2>1. tally'.tokens \in Nat
    OBVIOUS
  <2>2. /\ m.id \in BackupIds /\ Copies!CompleteBackup(m) \in BackupRow
        /\ backup[m.id].state = "succeeded" =>
             Copies!CompleteBackup(m) = backup[m.id]
        /\ Copies!CompleteBackup(m).token \in {backup[m.id].token, 0}
        /\ BackupInv(Copies!CompleteBackup(m), object[m.id], tally'.tokens)
    BY <1>1, <2>1, CompletedBackup
  <2> QED BY <1>1, <2>2, BackupGoes
<1>2. CASE m.kind = "review" /\ review' = [review EXCEPT ![m.id] = Copies!CompleteReview(m)]
           /\ UNCHANGED <<backup, restore>>
  BY <1>2, CompletedReview, CopyReviewGoes
<1>3. CASE /\ m.kind = "restore"
           /\ restore' = [restore EXCEPT ![m.id] = Copies!CompleteRestore(m, stopped)]
           /\ UNCHANGED <<backup, review>>
  BY <1>3, CompletedRestore, RestoreGoes
<1> QED BY <1>1, <1>2, <1>3 DEF Copies!Report

(* The Agent is done with its work; its last report may come later.        *)
LEMMA WorkEnds ==
  ASSUME CopiesInv, StoredInv', JobsStand, worker' = Copies!NoJob,
         delayed' = delayed \/ (worker.phase = "done" /\ delayed' = worker)
  PROVE  CopiesInv'
<1>1. WorkInv(Copies!NoJob, backup', object', restore', target', tally'.tokens)
  BY CopiesTyped DEF WorkInv
<1>2. OwnBackup(Copies!NoJob, backup')
  BY CopiesTyped DEF OwnBackup
<1>3. /\ delayed' \in WorkRow
      /\ WorkInv(delayed', backup', object', restore', target', tally'.tokens)
      /\ Older(delayed', Copies!NoJob)
  BY CopiesTyped DEF JobsStand, CopiesInv, Older
<1> QED BY <1>1, <1>2, <1>3, CopiesTyped DEF CopiesInv

(* A lease starts only if Cloud still holds it for this Agent.             *)
LEMMA StartWorkInv == ASSUME CopiesInv, Copies!StartWork PROVE CopiesInv'
<1> DEFINE m == [worker EXCEPT !.phase = "started"]
           going == IF worker.kind = "backup"
                      THEN /\ backup'[worker.id].state = "running"
                           /\ backup'[worker.id].token = worker.token
                      ELSE /\ restore'[worker.id].state = "running"
                           /\ restore'[worker.id].token = worker.token
<1>1. /\ worker \in WorkRow /\ worker.kind \in {"backup", "restore"}
      /\ worker.phase = "leased" /\ Copies!Report(worker, FALSE)
      /\ UNCHANGED <<source, target, object, delayed, tally>>
      /\ worker' = IF going THEN m ELSE Copies!NoJob
  BY CopiesTyped DEF Copies!StartWork
<1>2. tally' \in [tokens: Nat, upsets: Nat] /\ tally.tokens <= tally'.tokens
  BY <1>1, CountsGrow
<1>3. Told(worker)
  BY <1>1 DEF Told, CopiesInv
<1>4. StoredInv' /\ JobsStand
  BY <1>1, <1>2, <1>3, ReportGoes
<1>5. CASE going
  <2>1. /\ m \in WorkRow /\ m.kind = worker.kind /\ m.id = worker.id
        /\ m.token = worker.token /\ m.phase = "started" /\ worker' = m
    BY <1>1, <1>5 DEF WorkRow
  <2> HIDE DEF m
  <2>2. WorkInv(m, backup', object', restore', target', tally'.tokens)
    BY <1>1, <1>4, <2>1 DEF JobsStand, WorkInv
  <2>3. OwnBackup(m, backup') /\ Older(delayed, m)
    BY <1>5, <2>1 DEF OwnBackup, Older, CopiesInv
  <2> QED BY <1>1, <1>4, <2>1, <2>2, <2>3, CopiesTyped DEF CopiesInv, JobsStand
<1>6. CASE ~going
  <2>1. worker' = Copies!NoJob
    BY <1>1, <1>6
  <2> QED BY <1>1, <1>4, <2>1, WorkEnds
<1> QED BY <1>5, <1>6

LEMMA FinishWorkInv == ASSUME CopiesInv, Copies!FinishWork PROVE CopiesInv'
<1>1. PICK stopped \in BOOLEAN :
        Copies!Report(worker, stopped) /\ (Copies!Upset \/ UNCHANGED tally)
  BY DEF Copies!FinishWork
<1>2. /\ worker \in WorkRow /\ worker.phase = "done" /\ worker' = Copies!NoJob
      /\ UNCHANGED <<source, target, object, delayed>>
  BY CopiesTyped DEF Copies!FinishWork
<1>3. tally' \in [tokens: Nat, upsets: Nat] /\ tally.tokens <= tally'.tokens
  BY <1>1, CountsGrow
<1>4. Told(worker)
  BY <1>2 DEF Told, CopiesInv
<1>5. StoredInv' /\ JobsStand
  BY <1>1, <1>2, <1>3, <1>4, ReportGoes
<1> QED BY <1>2, <1>5, WorkEnds

(* What nobody reports leaves every row as it is.                          *)
LEMMA RowsStand ==
  ASSUME CopiesInv, UNCHANGED <<source, target, backup, object, review, restore>>,
         tally' \in [tokens: Nat, upsets: Nat], tally.tokens <= tally'.tokens
  PROVE  StoredInv' /\ JobsStand
<1>1. /\ CopyRows /\ StoredInv /\ tally.tokens \in Nat /\ tally'.tokens \in Nat
  BY DEF CopiesInv, StoredInv, CopyRows
<1>2. CopyRows'
  BY <1>1 DEF CopyRows
<1>3. ASSUME NEW b \in BackupIds PROVE BackupInv(backup[b], object[b], tally'.tokens)
  <2>1. BackupInv(backup[b], object[b], tally.tokens) /\ backup[b] \in BackupRow
    BY <1>1 DEF StoredInv, CopyRows
  <2> QED BY <1>1, <2>1 DEF BackupInv, BackupRow
<1>4. StoredInv'
  BY <1>1, <1>2, <1>3 DEF StoredInv
<1>5. ASSUME NEW w \in WorkRow, WorkInv(w, backup, object, restore, target, tally.tokens)
      PROVE  WorkInv(w, backup', object', restore', target', tally'.tokens)
  <2>1. w.kind = "restore" => restore[w.id].state # "absent"
    BY <1>5 DEF WorkInv
  <2> QED BY <1>1, <1>2, <1>5, <2>1, JobStays
<1> QED BY <1>4, <1>5 DEF JobsStand, CopiesInv

LEMMA DropJobInv == ASSUME CopiesInv, Copies!DropJob PROVE CopiesInv'
<1>1. /\ UNCHANGED <<source, target, backup, object, review, restore>>
      /\ worker' = Copies!NoJob
      /\ delayed' = delayed \/ (worker.phase = "done" /\ delayed' = worker)
      /\ Copies!Upset
  BY DEF Copies!DropJob
<1>2. tally' \in [tokens: Nat, upsets: Nat] /\ tally.tokens <= tally'.tokens
  BY <1>1, CountsGrow
<1> QED BY <1>1, <1>2, RowsStand, WorkEnds

(* A late report never touches the backup that is being worked on: that    *)
(* row carries a later token.                                              *)
LEMMA DeliverDelayedInv == ASSUME CopiesInv, Copies!DeliverDelayed PROVE CopiesInv'
<1>1. /\ delayed \in WorkRow /\ delayed # Copies!NoJob /\ delayed' = Copies!NoJob
      /\ Copies!Report(delayed, FALSE)
      /\ UNCHANGED <<source, target, object, worker, tally>>
  BY CopiesTyped DEF Copies!DeliverDelayed
<1>2. tally' \in [tokens: Nat, upsets: Nat] /\ tally.tokens <= tally'.tokens
  BY <1>1, CountsGrow
<1>3. delayed.kind # "none" /\ delayed.phase = "done"
  BY <1>1 DEF CopiesInv, WorkInv, Older
<1>4. Told(delayed)
  BY <1>3 DEF Told, CopiesInv
<1>5. StoredInv' /\ JobsStand
  BY <1>1, <1>2, <1>4, ReportGoes
<1>6. OwnBackup(worker, backup')
  <2> SUFFICES ASSUME worker.kind = "backup"
               PROVE  backup'[worker.id] = backup[worker.id]
    BY DEF OwnBackup, CopiesInv
  <2>1. /\ worker.id \in BackupIds /\ backup[worker.id].token = worker.token
        /\ delayed.token < worker.token /\ delayed.token \in Nat /\ worker.token \in Nat
    BY <1>3, CopiesTyped DEF CopiesInv, OwnBackup, Older, WorkInv, WorkRow
  <2>2. CASE delayed.kind # "backup"
    BY <1>1, <2>2 DEF Copies!Report
  <2>3. CASE delayed.kind = "backup"
    <3>1. backup' = [backup EXCEPT ![delayed.id] = Copies!CompleteBackup(delayed)]
      BY <1>1, <2>3 DEF Copies!Report
    <3>2. CASE delayed.id # worker.id
      BY <2>1, <3>1, <3>2, CopiesTyped DEF CopyRows
    <3>3. CASE delayed.id = worker.id
      <4>1. Copies!CompleteBackup(delayed) = backup[delayed.id]
        BY <2>1, <3>3 DEF Copies!CompleteBackup
      <4> QED BY <2>1, <3>1, <3>3, <4>1, CopiesTyped DEF CopyRows
    <3> QED BY <3>2, <3>3
  <2> QED BY <2>2, <2>3
<1>7. /\ WorkInv(Copies!NoJob, backup', object', restore', target', tally'.tokens)
      /\ Older(Copies!NoJob, worker)
  BY CopiesTyped DEF WorkInv, Older
<1> QED BY <1>1, <1>5, <1>6, <1>7, CopiesTyped DEF CopiesInv, JobsStand

LEMMA ExpireLeaseInv == ASSUME CopiesInv, Copies!ExpireLease PROVE CopiesInv'
<1>1. UNCHANGED <<source, target, object, worker, delayed, tally>>
  BY DEF Copies!ExpireLease
<1>2. tally' \in [tokens: Nat, upsets: Nat] /\ tally.tokens <= tally'.tokens
  BY <1>1, CountsGrow
<1>3. CASE \E b \in BackupIds : /\ backup' = [backup EXCEPT ![b].expired = TRUE]
                                /\ UNCHANGED <<review, restore>>
  <2>1. PICK b \in BackupIds : /\ backup' = [backup EXCEPT ![b].expired = TRUE]
                               /\ UNCHANGED <<review, restore>>
    BY <1>3
  <2> DEFINE r == [backup[b] EXCEPT !.expired = TRUE]
  <2>2. /\ backup[b] \in BackupRow /\ BackupInv(backup[b], object[b], tally.tokens)
        /\ backup' = [backup EXCEPT ![b] = r]
    BY <2>1, CopiesTyped DEF StoredInv, CopyRows
  <2>3. /\ r \in BackupRow /\ r.state = backup[b].state /\ r.token = backup[b].token
        /\ r.sha = backup[b].sha
    BY <2>2 DEF BackupRow
  <2> HIDE DEF r
  <2>4. BackupInv(r, object[b], tally'.tokens)
    BY <1>1, <2>2, <2>3 DEF BackupInv
  <2>5. StoredInv' /\ JobsStand
    BY <1>1, <1>2, <2>1, <2>2, <2>3, <2>4, BackupGoes
  <2>6. OwnBackup(worker, backup')
    <3>1. \A d \in BackupIds : /\ backup'[d].state = backup[d].state
                               /\ backup'[d].token = backup[d].token
      BY <2>2, <2>3, CopiesTyped DEF CopyRows
    <3> QED BY <3>1 DEF OwnBackup, CopiesInv, WorkInv
  <2> QED BY <1>1, <2>5, <2>6 DEF CopiesInv, JobsStand
<1>4. CASE \E v \in Clients : /\ review' = [review EXCEPT ![v].expired = TRUE]
                              /\ UNCHANGED <<backup, restore>>
  <2>1. PICK v \in Clients : /\ review' = [review EXCEPT ![v].expired = TRUE]
                             /\ UNCHANGED <<backup, restore>>
    BY <1>4
  <2> DEFINE r == [review[v] EXCEPT !.expired = TRUE]
  <2>2. /\ review[v] \in ReviewedRow /\ ReviewInv(review[v], backup)
        /\ review' = [review EXCEPT ![v] = r]
    BY <2>1, CopiesTyped DEF StoredInv, CopyRows
  <2>3. /\ r \in ReviewedRow /\ r.state = review[v].state /\ r.of = review[v].of
        /\ r.token = review[v].token
    BY <2>2 DEF ReviewedRow
  <2> HIDE DEF r
  <2>4. ReviewInv(r, backup)
    BY <2>2, <2>3 DEF ReviewInv, OfSucceeded
  <2>5. StoredInv' /\ JobsStand
    BY <1>1, <1>2, <2>1, <2>2, <2>3, <2>4, CopyReviewGoes
  <2> QED BY <1>1, <2>1, <2>5 DEF CopiesInv, JobsStand
<1>5. CASE \E x \in RestoreIds : /\ restore' = [restore EXCEPT ![x].expired = TRUE]
                                 /\ UNCHANGED <<backup, review>>
  <2>1. PICK x \in RestoreIds : /\ restore' = [restore EXCEPT ![x].expired = TRUE]
                                /\ UNCHANGED <<backup, review>>
    BY <1>5
  <2> DEFINE r == [restore[x] EXCEPT !.expired = TRUE]
  <2>2. /\ restore[x] \in RestoreRow /\ RestoreInv(restore[x], backup, target)
        /\ restore' = [restore EXCEPT ![x] = r]
    BY <2>1, CopiesTyped DEF StoredInv, CopyRows
  <2>3. /\ r \in RestoreRow /\ r.state = restore[x].state /\ r.of = restore[x].of
        /\ r.token = restore[x].token
    BY <2>2 DEF RestoreRow
  <2> HIDE DEF r
  <2>4. RestoreInv(r, backup, target)
    BY <2>2, <2>3 DEF RestoreInv, OfSucceeded
  <2>5. StoredInv' /\ JobsStand
    BY <1>1, <1>2, <2>1, <2>2, <2>3, <2>4, RestoreGoes
  <2> QED BY <1>1, <2>1, <2>5 DEF CopiesInv, JobsStand
<1> QED BY <1>3, <1>4, <1>5 DEF Copies!ExpireLease

(* An object is what the checksum of its succeeded backup says, and at     *)
(* most one load reaches the target, of the backup that was to be          *)
(* restored, however leases expire, Agents restart and reports come late   *)
(* (backup/service.go Complete, restore/executor.go Execute).              *)
THEOREM CopiesStayFaithful == AgentWorkSpec => []CopiesAreFaithful
<1>1. AgentWorkInit => CopiesHold
  BY CopiesInitInv DEF AgentWorkInit, CopiesHold, NodeParts
<1>2. CopiesHold /\ [AgentWorkNext]_agentWorkVars => CopiesHold'
  <2> SUFFICES ASSUME CopiesHold, part' = "backups", [AgentWorkNext]_agentWorkVars
               PROVE  CopiesInv'
    BY DEF CopiesHold
  <2>1. CASE UNCHANGED agentWorkVars
    <3>1. CopiesInv /\ UNCHANGED backupVars
      BY <2>1 DEF agentWorkVars, CopiesHold
    <3> QED BY <3>1 DEF backupVars, CopiesInv, StoredInv, CopyRows
  <2>2. CASE AgentWorkNext
    <3>1. /\ CopiesInv
          /\ \/ Copies!Surroundings \/ Copies!BackupSteps \/ Copies!RestoreSteps
             \/ Copies!ReportSteps
      BY <2>2 DEF AgentWorkNext, ResourcesMove, CopiesMove, SwitchMoves, ActionsMove,
                  NodesMove, NodeParts, SecretsMove, CopiesHold
    <3>2. CASE Copies!BackupSteps
      BY <3>1, <3>2, CreateBackupInv, LeaseBackupInv, DumpInv, UploadInv
         DEF Copies!BackupSteps
    <3>3. CASE Copies!RestoreSteps
      BY <3>1, <3>3, RequestReviewInv, LeaseReviewInv, CreateRestoreInv, LeaseRestoreInv,
         InspectInv, FetchInv, LoadInv DEF Copies!RestoreSteps
    <3>4. CASE Copies!ReportSteps
      BY <3>1, <3>4, StartWorkInv, FinishWorkInv, DropJobInv, DeliverDelayedInv,
         ExpireLeaseInv DEF Copies!ReportSteps
    <3> QED BY <3>1, <3>2, <3>3, <3>4, SurroundingsInv
  <2> QED BY <2>1, <2>2
<1>3. CopiesHold => CopiesAreFaithful
  <2> SUFFICES ASSUME CopiesInv
               PROVE  /\ Copies!BackupTypeOK /\ Copies!SucceededBackupIsIntact
                      /\ Copies!RestoreIsFaithful
    BY DEF CopiesHold, CopiesAreFaithful
  <2>1. Copies!BackupTypeOK
    BY DEF CopiesInv, StoredInv, CopyRows, BackupRow, ReviewedRow, RestoreRow, BackupInv,
           RestoreInv, Copies!BackupTypeOK, Copies!ActiveBackup, Copies!ActiveRestore
  <2>2. Copies!SucceededBackupIsIntact
    BY DEF CopiesInv, StoredInv, BackupInv, Copies!SucceededBackupIsIntact
  <2>3. Copies!RestoreIsFaithful
    BY DEF CopiesInv, StoredInv, CopyRows, TargetRow, RestoreInv, Copies!RestoreIsFaithful
  <2> QED BY <2>1, <2>2, <2>3
<1> QED BY <1>1, <1>2, <1>3, PTL DEF AgentWorkSpec

----------------------------------------------------------------------------
(* Managed resources                                                       *)

SpecRow == [managed: Nat, plan: Nat]
Lifecycles == {"absent", "unplaced", "planned", "provisioning", "ready", "degraded",
               "failed", "unknown", "deleting"}
ValueRow ==
  [present: BOOLEAN, lifecycle: Lifecycles, managed: Nat, runtime: SpecRow,
   evidence: SpecRow]
LeaseRow == [token: Nat, expired: BOOLEAN, next: Nat \ {0}]
ResourceRow == [type: ResourceTypes, value: ValueRow, lease: LeaseRow]
BindingStates == {"absent", "provisioning", "ready", "failed", "deleting"}
ClusterRow ==
  [workload: SpecRow, roles: SUBSET Bindings,
   volume: {"none", "bound", "releasing", "gone"}]
RetainedRow ==
  [state: {"none", "destroying", "destroyed"} \cup Resources!Reviewable,
   reviewed: BOOLEAN, token: BOOLEAN]
OperationRow ==
  [op: {"idle", "update", "remove", "delete", "reconcile", "insert", "ensure",
        "unbind", "planned"},
   value: ValueRow, of: Bindings \cup {"none"}]
AgentOnRow ==
  [phase: {"idle", "working", "reporting"}, action: {"none", "apply", "delete", "destroy"},
   spec: SpecRow, token: Nat, ops: [Bindings -> {"none", "ensure", "revoke"}],
   status: {"none", "ready", "failed", "deleted", "destroyed", "unknown"},
   done: SUBSET Bindings]
ReportRow ==
  [phase: {"idle", "read", "listed"}, value: ValueRow,
   rows: [Bindings -> BindingStates], left: SUBSET Bindings]

ResourceRows ==
  /\ row \in ResourceRow /\ binding \in [Bindings -> BindingStates]
  /\ secret \in SUBSET (Bindings \cup {"server"}) /\ cluster \in ClusterRow
  /\ retained \in RetainedRow /\ request \in [Clients -> OperationRow]
  /\ agent \in AgentOnRow /\ report \in ReportRow

(* What a request will write is never a row that claims to be ready.       *)
Writable(v) == v.present /\ v.lifecycle \in {"unplaced", "planned", "deleting"}
OperationInv(q) ==
  /\ q.op # "idle" => Writable(q.value)
  /\ q.op \in {"insert", "ensure", "unbind"} => q.of \in Bindings

(* A row that is gone has no lease, and storage is retained of such rows.  *)
RowInv(v, lease, kept) ==
  /\ v.present <=> v.lifecycle # "absent"
  /\ lease.token # 0 => v.present
  /\ kept # "none" => ~v.present

(* The Agent's work: leases are numbered, the row is not ready meanwhile,  *)
(* and storage is destroyed only when that was asked for.                  *)
LeaseInv(w, v, lease, kept, rep) ==
  /\ w.action = "none" <=> w.phase = "idle"
  /\ w.action \in {"apply", "delete"} =>
       w.token # 0 /\ lease.next # 1 /\ v.lifecycle # "ready" /\ kept = "none"
  /\ w.action = "destroy" => kept = "destroying"
  /\ w.status \in {"ready", "deleted", "destroyed"} => w.phase = "reporting"
  /\ w.status = "ready" => w.action = "apply"
  /\ w.status = "deleted" => w.action = "delete"
  /\ w.status = "destroyed" => w.action = "destroy"
  /\ rep.phase # "idle" => /\ w.phase = "reporting" /\ w.action \in {"apply", "delete"}
                           /\ rep.value.present /\ rep.value.lifecycle # "absent"
  /\ rep.left # {} => rep.phase = "listed"
  /\ \A b \in rep.left : w.status = "ready" /\ w.ops[b] # "none"

(* Its operations on roles fit what the bindings have become meanwhile.    *)
OpsInv(w, t, v, bound, known) ==
  \A b \in Bindings :
    /\ w.ops[b] # "none" => t = "postgres" /\ w.action = "apply"
    /\ w.ops[b] = "ensure" => b \in known /\ (v.present => bound[b] # "absent")
    /\ w.ops[b] = "revoke" => bound[b] # "ready"

(* What it reports is what it did.                                         *)
ResultInv(w, c) ==
  /\ w.status = "ready" => w.spec = c.workload
  /\ \A b \in w.done :
       /\ w.status = "ready" /\ w.ops[b] # "none"
       /\ w.ops[b] = "ensure" => b \in c.roles
       /\ w.ops[b] = "revoke" => b \notin c.roles
  /\ w.status = "destroyed" => c.volume = "gone"

RolesInv(t, v, lease, bound, known, roles) ==
  \A b \in Bindings :
    /\ t = "postgres" /\ bound[b] = "ready" => b \in known /\ b \in roles
    /\ b \in roles => t = "postgres" /\ lease.next # 1
                      /\ (v.present => bound[b] # "absent")

VolumeInv(volume, kept) ==
  /\ volume \in {"releasing", "gone"} =>
       kept \in {"destroying", "destroy_failed", "unknown", "destroyed"}
  /\ kept = "destroyed" => volume = "gone"

ResourcesInv ==
  /\ ResourceRows
  /\ \A c \in Clients : OperationInv(request[c])
  /\ RowInv(row.value, row.lease, retained.state)
  /\ LeaseInv(agent, row.value, row.lease, retained.state, report)
  /\ OpsInv(agent, row.type, row.value, binding, secret)
  /\ ResultInv(agent, cluster)
  /\ RolesInv(row.type, row.value, row.lease, binding, secret, cluster.roles)
  /\ VolumeInv(cluster.volume, retained.state)
  /\ row.value.lifecycle = "ready" => cluster.workload = row.value.runtime
ResourcesHold == part = "resources" => ResourcesInv

LEMMA NullsTyped ==
  /\ Resources!NoSpec \in SpecRow /\ Resources!NoRow \in ValueRow
  /\ Resources!NoRow.present = FALSE /\ Resources!NoRow.lifecycle = "absent"
  /\ Resources!NoLease \in LeaseRow /\ Resources!NoLease.token = 0
  /\ Resources!NoLease.next = 1
  /\ Resources!NoRequest \in OperationRow /\ Resources!NoRequest.op = "idle"
  /\ Resources!NoReport \in ReportRow /\ Resources!NoReport.phase = "idle"
  /\ Resources!NoReport.left = {}
  /\ Resources!NoWork \in AgentOnRow
  /\ Resources!NoWork.phase = "idle" /\ Resources!NoWork.action = "none"
  /\ Resources!NoWork.status = "none" /\ Resources!NoWork.done = {}
  /\ \A b \in Bindings : Resources!NoWork.ops[b] = "none"
  /\ Resources!NoWork.ops \in [Bindings -> {"none", "ensure", "revoke"}]
<1>1. Resources!NoSpec \in SpecRow
  BY DEF Resources!NoSpec, SpecRow
<1>2. /\ Resources!NoRow \in ValueRow
      /\ Resources!NoRow.present = FALSE /\ Resources!NoRow.lifecycle = "absent"
  BY <1>1 DEF Resources!NoRow, ValueRow, Lifecycles
<1>3. /\ Resources!NoLease \in LeaseRow /\ Resources!NoLease.token = 0
      /\ Resources!NoLease.next = 1
  BY DEF Resources!NoLease, LeaseRow
<1>4. /\ Resources!NoRequest \in OperationRow /\ Resources!NoRequest.op = "idle"
      /\ Resources!NoReport \in ReportRow /\ Resources!NoReport.phase = "idle"
      /\ Resources!NoReport.left = {}
  BY <1>2 DEF Resources!NoRequest, OperationRow, Resources!NoReport, ReportRow, BindingStates
<1>5. /\ Resources!NoWork \in AgentOnRow
      /\ Resources!NoWork.phase = "idle" /\ Resources!NoWork.action = "none"
      /\ Resources!NoWork.status = "none" /\ Resources!NoWork.done = {}
      /\ \A b \in Bindings : Resources!NoWork.ops[b] = "none"
      /\ Resources!NoWork.ops \in [Bindings -> {"none", "ensure", "revoke"}]
  BY <1>1 DEF Resources!NoWork, AgentOnRow
<1> QED BY <1>1, <1>2, <1>3, <1>4, <1>5

(* An Agent without work claims nothing.                                   *)
LEMMA IdleAgent ==
  ASSUME NEW v, NEW lease, NEW kept, NEW rep, NEW t, NEW bound, NEW known, NEW c,
         rep.phase = "idle", rep.left = {}
  PROVE  /\ LeaseInv(Resources!NoWork, v, lease, kept, rep)
         /\ OpsInv(Resources!NoWork, t, v, bound, known)
         /\ ResultInv(Resources!NoWork, c)
BY NullsTyped DEF LeaseInv, OpsInv, ResultInv

LEMMA ResourcesInitInv == ASSUME Resources!Init PROVE ResourcesInv
<1>1. PICK t \in ResourceTypes :
        row = [type |-> t, value |-> Resources!NoRow, lease |-> Resources!NoLease]
  BY DEF Resources!Init
<1>2. /\ row \in ResourceRow /\ row.value = Resources!NoRow
      /\ row.lease = Resources!NoLease /\ row.type = t
  BY <1>1, NullsTyped DEF ResourceRow
<1>3. /\ cluster \in ClusterRow /\ cluster.roles = {} /\ cluster.volume = "none"
      /\ retained \in RetainedRow /\ retained.state = "none"
      /\ \A b \in Bindings : binding[b] = "absent"
  BY NullsTyped DEF Resources!Init, ClusterRow, RetainedRow
<1>4. ResourceRows
  BY <1>2, <1>3, NullsTyped DEF Resources!Init, ResourceRows, BindingStates
<1>5. agent = Resources!NoWork /\ report = Resources!NoReport
      /\ \A c \in Clients : request[c] = Resources!NoRequest
  BY DEF Resources!Init
<1>6. RowInv(row.value, row.lease, retained.state)
  BY <1>2, <1>3, NullsTyped DEF RowInv
<1>7. /\ RolesInv(row.type, row.value, row.lease, binding, secret, cluster.roles)
      /\ VolumeInv(cluster.volume, retained.state)
  BY <1>3 DEF RolesInv, VolumeInv
<1>8. \A c \in Clients : OperationInv(request[c])
  BY <1>5, NullsTyped DEF OperationInv
<1>9. row.value.lifecycle # "ready"
  BY <1>2, NullsTyped
<1> QED BY <1>4, <1>5, <1>6, <1>7, <1>8, <1>9, IdleAgent, NullsTyped DEF ResourcesInv

LEMMA ResourcesTyped ==
  ASSUME ResourcesInv
  PROVE  /\ ResourceRows /\ row \in ResourceRow /\ row.value \in ValueRow
         /\ row.lease \in LeaseRow /\ agent \in AgentOnRow /\ cluster \in ClusterRow
         /\ retained \in RetainedRow /\ report \in ReportRow
         /\ request \in [Clients -> OperationRow]
         /\ binding \in [Bindings -> BindingStates]
         /\ secret \in SUBSET (Bindings \cup {"server"})
         /\ Resources!value = row.value /\ Resources!ResourceType = row.type
BY DEF ResourcesInv, ResourceRows, ResourceRow, Resources!value, Resources!ResourceType

(* A request moves on, and may issue a credential.                         *)
LEMMA OperationMoves ==
  ASSUME ResourcesInv, NEW c \in Clients, NEW q \in OperationRow, OperationInv(q),
         request' = [request EXCEPT ![c] = q],
         secret \subseteq secret', secret' \in SUBSET (Bindings \cup {"server"}),
         UNCHANGED <<row, binding, cluster, retained, agent, report>>
  PROVE  ResourcesInv'
<1>1. ResourceRows'
  BY DEF ResourcesInv, ResourceRows
<1>2. \A d \in Clients : OperationInv(request'[d])
  BY ResourcesTyped DEF ResourcesInv
<1>3. OpsInv(agent, row.type, row.value, binding, secret')
  BY DEF ResourcesInv, OpsInv
<1>4. RolesInv(row.type, row.value, row.lease, binding, secret', cluster.roles)
  BY DEF ResourcesInv, RolesInv
<1> QED BY <1>1, <1>2, <1>3, <1>4 DEF ResourcesInv

LEMMA ReadsInv ==
  ASSUME ResourcesInv, AgentWorkAssumption, NEW c \in Clients,
         \/ Resources!Update(c) \/ Resources!DeleteIntent(c)
         \/ \E plan \in 1..MaxPlans : Resources!ReconcileTopology(c, plan)
         \/ \E b \in Bindings : Resources!CreateBinding(c, b) \/ Resources!DeleteBinding(c, b)
         \/ Resources!CrashRequest(c)
  PROVE  ResourcesInv'
<1>1. /\ row.value \in ValueRow /\ row.value.managed + 1 \in Nat
      /\ Resources!value = row.value
  BY ResourcesTyped DEF ValueRow
<1>2. ASSUME NEW op \in {"update", "remove", "delete", "reconcile", "insert", "unbind"},
             NEW v \in ValueRow, Writable(v), NEW b \in Bindings \cup {"none"},
             op \in {"insert", "unbind"} => b \in Bindings,
             Resources!Read(c, op, v, b), secret \subseteq secret',
             secret' \in SUBSET (Bindings \cup {"server"}),
             UNCHANGED <<row, binding, cluster, retained, agent, report>>
      PROVE  ResourcesInv'
  <2> DEFINE q == [op |-> op, value |-> v, of |-> b]
  <2>1. q \in OperationRow /\ OperationInv(q) /\ request' = [request EXCEPT ![c] = q]
    BY <1>2 DEF OperationRow, OperationInv, Resources!Read
  <2> HIDE DEF q
  <2> QED BY <1>2, <2>1, OperationMoves
<1>3. secret \subseteq secret /\ secret \in SUBSET (Bindings \cup {"server"})
  BY ResourcesTyped
<1>4. CASE Resources!Update(c)
  <2> DEFINE v == [row.value EXCEPT !.managed = row.value.managed + 1]
             u == [v EXCEPT !.lifecycle = "unplaced"]
             spec == [managed |-> v.managed, plan |-> v.runtime.plan]
             p == [v EXCEPT !.runtime = spec, !.evidence = Resources!NoSpec,
                            !.lifecycle = "planned"]
  <2>1. v \in ValueRow /\ v.present = row.value.present
    BY <1>1 DEF ValueRow
  <2> HIDE DEF v
  <2>2. u \in ValueRow /\ u.present = row.value.present /\ u.lifecycle = "unplaced"
    BY <2>1 DEF ValueRow, Lifecycles
  <2>3. spec \in SpecRow
    BY <2>1 DEF ValueRow, SpecRow
  <2> HIDE DEF spec
  <2>4. p \in ValueRow /\ p.present = row.value.present /\ p.lifecycle = "planned"
    BY <2>1, <2>3, NullsTyped DEF ValueRow, Lifecycles
  <2>5. Resources!UpdatedValue \in {u, p}
    BY <1>1 DEF Resources!UpdatedValue, Resources!compileManaged, v, spec
  <2>6. /\ row.value.present /\ Resources!Read(c, "update", Resources!UpdatedValue, "none")
        /\ UNCHANGED <<row, binding, secret, cluster, retained, agent, report>>
    BY <1>1, <1>4 DEF Resources!Update, Resources!handleResourceAPI
  <2> HIDE DEF u, p
  <2>7. Resources!UpdatedValue \in ValueRow /\ Writable(Resources!UpdatedValue)
    BY <2>2, <2>4, <2>5, <2>6 DEF Writable
  <2> QED BY <1>2, <1>3, <2>6, <2>7
<1>5. CASE Resources!DeleteIntent(c)
  <2> DEFINE v == [row.value EXCEPT !.lifecycle = "deleting"]
  <2>1. v \in ValueRow /\ v.present = row.value.present /\ v.lifecycle = "deleting"
    BY <1>1 DEF ValueRow, Lifecycles
  <2>2. /\ row.value.present
        /\ \E op \in {"remove", "delete"} : Resources!Read(c, op, v, "none")
        /\ UNCHANGED <<row, binding, secret, cluster, retained, agent, report>>
    BY <1>1, <1>5 DEF Resources!DeleteIntent, Resources!handleResourceAPI
  <2> HIDE DEF v
  <2>3. Writable(v)
    BY <2>1, <2>2 DEF Writable
  <2> QED BY <1>2, <1>3, <2>1, <2>2, <2>3
<1>6. CASE \E plan \in 1..MaxPlans : Resources!ReconcileTopology(c, plan)
  <2>1. PICK plan \in 1..MaxPlans : Resources!ReconcileTopology(c, plan)
    BY <1>6
  <2> DEFINE spec == [managed |-> row.value.managed, plan |-> plan]
             r == [row.value EXCEPT !.lifecycle = "planned"]
             p == [row.value EXCEPT !.runtime = spec, !.evidence = Resources!NoSpec,
                                    !.lifecycle = "planned"]
  <2>2. spec \in SpecRow
    BY <1>1 DEF ValueRow, SpecRow, AgentWorkAssumption
  <2>3. /\ row.value.present
        /\ \E v \in {r, p} : Resources!Read(c, "reconcile", v, "none")
        /\ UNCHANGED <<row, binding, cluster, retained, agent, report>>
    BY <1>1, <2>1 DEF Resources!ReconcileTopology, Resources!handleResourceAPI,
                      Resources!compileManaged
  <2> HIDE DEF spec
  <2>4. /\ r \in ValueRow /\ r.present = row.value.present /\ r.lifecycle = "planned"
        /\ p \in ValueRow /\ p.present = row.value.present /\ p.lifecycle = "planned"
    BY <1>1, <2>2, NullsTyped DEF ValueRow, Lifecycles
  <2> HIDE DEF r, p
  <2>5. Writable(r) /\ Writable(p)
    BY <2>3, <2>4 DEF Writable
  <2>6. secret \subseteq secret' /\ secret' \in SUBSET (Bindings \cup {"server"})
    BY <1>3, <2>1 DEF Resources!ReconcileTopology
  <2> QED BY <1>2, <2>3, <2>4, <2>5, <2>6
<1>7. CASE \E b \in Bindings : Resources!CreateBinding(c, b) \/ Resources!DeleteBinding(c, b)
  <2> DEFINE v == [row.value EXCEPT !.lifecycle = "planned"]
  <2>1. v \in ValueRow /\ v.present = row.value.present /\ v.lifecycle = "planned"
    BY <1>1 DEF ValueRow, Lifecycles
  <2>2. /\ row.value.present
        /\ \E b \in Bindings, op \in {"insert", "unbind"} : Resources!Read(c, op, v, b)
        /\ UNCHANGED <<row, binding, secret, cluster, retained, agent, report>>
    BY <1>1, <1>7 DEF Resources!CreateBinding, Resources!DeleteBinding,
                      Resources!handleResourceAPI
  <2> HIDE DEF v
  <2>3. Writable(v)
    BY <2>1, <2>2 DEF Writable
  <2> QED BY <1>2, <1>3, <2>1, <2>2, <2>3
<1>8. CASE Resources!CrashRequest(c)
  <2>1. OperationInv(Resources!NoRequest)
    BY NullsTyped DEF OperationInv
  <2> QED BY <1>3, <1>8, <2>1, NullsTyped, OperationMoves DEF Resources!CrashRequest
<1> QED BY <1>4, <1>5, <1>6, <1>7, <1>8

(* The row is written: one that is gone does not come back once an Agent   *)
(* has leased it.                                                          *)
LEMMA ValueGoes ==
  ASSUME ResourcesInv, NEW v \in ValueRow, v.present, v.lifecycle \notin {"absent", "ready"},
         row' = [row EXCEPT !.value = v],
         row.value.present \/ (row.lease.next = 1 /\ retained.state = "none"),
         request' \in [Clients -> OperationRow],
         \A c \in Clients : OperationInv(request'[c]),
         UNCHANGED <<binding, secret, cluster, retained, agent, report>>
  PROVE  ResourcesInv'
<1>1. /\ row' \in ResourceRow /\ row'.value = v /\ row'.lease = row.lease
      /\ row'.type = row.type
  BY ResourcesTyped DEF ResourceRow
<1>2. ResourceRows'
  BY <1>1 DEF ResourcesInv, ResourceRows
<1>3. RowInv(v, row.lease, retained.state)
  BY DEF ResourcesInv, RowInv
<1>4. LeaseInv(agent, v, row.lease, retained.state, report)
  BY DEF ResourcesInv, LeaseInv
<1>5. OpsInv(agent, row.type, v, binding, secret)
  <2> SUFFICES ASSUME NEW b \in Bindings, agent.ops[b] # "none"
               PROVE  row.value.present
    BY ResourcesTyped DEF ResourcesInv, OpsInv
  <2> QED BY DEF ResourcesInv, OpsInv, LeaseInv
<1>6. RolesInv(row.type, v, row.lease, binding, secret, cluster.roles)
  BY DEF ResourcesInv, RolesInv
<1> QED BY <1>1, <1>2, <1>3, <1>4, <1>5, <1>6 DEF ResourcesInv

LEMMA CreateInv ==
  ASSUME ResourcesInv, NEW c \in Clients, Resources!Create(c)
  PROVE  ResourcesInv'
<1> DEFINE v == [Resources!NoRow EXCEPT !.present = TRUE, !.lifecycle = "unplaced",
                                        !.managed = 1]
<1>1. v \in ValueRow /\ v.present /\ v.lifecycle = "unplaced"
  BY NullsTyped DEF ValueRow, Lifecycles
<1>2. /\ row' = [row EXCEPT !.value = v] /\ row.lease = Resources!NoLease
      /\ retained.state = "none"
      /\ UNCHANGED <<binding, secret, cluster, retained, request, agent, report>>
  BY DEF Resources!Create
<1> HIDE DEF v
<1>3. /\ request' \in [Clients -> OperationRow]
      /\ \A d \in Clients : OperationInv(request'[d])
  BY <1>2, ResourcesTyped DEF ResourcesInv
<1>4. row.lease.next = 1
  BY <1>2, NullsTyped
<1> QED BY <1>1, <1>2, <1>3, <1>4, ValueGoes

(* A request is answered.                                                  *)
LEMMA RequestAnswered ==
  ASSUME ResourcesInv, NEW c \in Clients,
         request' = [request EXCEPT ![c] = Resources!NoRequest]
  PROVE  /\ request' \in [Clients -> OperationRow]
         /\ \A d \in Clients : OperationInv(request'[d])
BY ResourcesTyped, NullsTyped DEF ResourcesInv, OperationInv

LEMMA WriteInv ==
  ASSUME ResourcesInv, NEW c \in Clients, Resources!Write(c)
  PROVE  ResourcesInv'
<1>1. /\ request' = [request EXCEPT ![c] = Resources!NoRequest]
      /\ UNCHANGED <<binding, secret, cluster, retained, agent, report>>
      /\ request[c].op # "idle" /\ request[c] \in OperationRow /\ OperationInv(request[c])
  BY ResourcesTyped DEF Resources!Write, ResourcesInv
<1>2. request[c].value \in ValueRow /\ Writable(request[c].value)
  BY <1>1 DEF OperationRow, OperationInv
<1>3. CASE row.value.present /\ row' = [row EXCEPT !.value = request[c].value]
  BY <1>1, <1>2, <1>3, RequestAnswered, ValueGoes DEF Writable
<1>4. CASE UNCHANGED row
  <2>1. OperationInv(Resources!NoRequest)
    BY NullsTyped DEF OperationInv
  <2> QED BY <1>1, <1>4, <2>1, NullsTyped, ResourcesTyped, OperationMoves
<1> QED BY <1>3, <1>4, ResourcesTyped DEF Resources!Write, Resources!StoreUpdate

LEMMA RemoveInv ==
  ASSUME ResourcesInv, NEW c \in Clients, Resources!Remove(c)
  PROVE  ResourcesInv'
<1> DEFINE l == [row.lease EXCEPT !.token = 0]
<1>1. /\ request' = [request EXCEPT ![c] = Resources!NoRequest]
      /\ UNCHANGED <<secret, cluster, retained, agent, report>>
      /\ binding' = [b \in Bindings |-> "absent"]
      /\ row' = [row EXCEPT !.value = Resources!NoRow, !.lease = l]
  BY ResourcesTyped DEF Resources!Remove, ResourceRow
<1>2. l \in LeaseRow /\ l.token = 0 /\ l.next = row.lease.next
  BY ResourcesTyped DEF LeaseRow
<1> HIDE DEF l
<1>3. /\ row' \in ResourceRow /\ row'.value = Resources!NoRow /\ row'.lease = l
      /\ row'.type = row.type
  BY <1>1, <1>2, ResourcesTyped, NullsTyped DEF ResourceRow
<1>4. /\ binding' \in [Bindings -> BindingStates]
      /\ \A b \in Bindings : binding'[b] = "absent"
  BY <1>1 DEF BindingStates
<1>5. ResourceRows'
  BY <1>1, <1>3, <1>4, RequestAnswered DEF ResourcesInv, ResourceRows
<1>6. RowInv(Resources!NoRow, l, retained.state)
  BY <1>2, NullsTyped DEF RowInv
<1>7. LeaseInv(agent, Resources!NoRow, l, retained.state, report)
  BY <1>2, NullsTyped DEF ResourcesInv, LeaseInv
<1>8. OpsInv(agent, row.type, Resources!NoRow, binding', secret)
  BY <1>4, NullsTyped DEF ResourcesInv, OpsInv
<1>9. RolesInv(row.type, Resources!NoRow, l, binding', secret, cluster.roles)
  BY <1>2, <1>4, NullsTyped DEF ResourcesInv, RolesInv
<1> QED BY <1>1, <1>3, <1>5, <1>6, <1>7, <1>8, <1>9, RequestAnswered, NullsTyped
           DEF ResourcesInv

LEMMA EnsureBindingInv ==
  ASSUME ResourcesInv, NEW c \in Clients, Resources!EnsureBinding(c)
  PROVE  ResourcesInv'
<1> DEFINE p == [request[c] EXCEPT !.op = "planned"]
<1>1. /\ request[c].op = "ensure" /\ request[c] \in OperationRow /\ OperationInv(request[c])
      /\ secret' = secret \cup {request[c].of}
      /\ UNCHANGED <<row, binding, cluster, retained, agent, report>>
      /\ \E q \in {Resources!NoRequest, p} : request' = [request EXCEPT ![c] = q]
  BY ResourcesTyped DEF Resources!EnsureBinding, ResourcesInv
<1>2. p \in OperationRow /\ p.value = request[c].value /\ p.op = "planned"
  BY <1>1 DEF OperationRow
<1> HIDE DEF p
<1>3. OperationInv(p) /\ OperationInv(Resources!NoRequest)
  BY <1>1, <1>2, NullsTyped DEF OperationInv
<1>4. secret \subseteq secret' /\ secret' \in SUBSET (Bindings \cup {"server"})
  BY <1>1, ResourcesTyped DEF OperationInv
<1>5. PICK q \in {Resources!NoRequest, p} : request' = [request EXCEPT ![c] = q]
  BY <1>1
<1>6. q \in OperationRow /\ OperationInv(q)
  BY <1>2, <1>3, NullsTyped
<1> QED BY <1>1, <1>4, <1>5, <1>6, OperationMoves

(* The binding a request is about changes while the Agent may be at work.  *)
LEMMA BindingGoes ==
  ASSUME ResourcesInv, NEW b \in Bindings, NEW s \in BindingStates,
         binding' = [binding EXCEPT ![b] = s],
         row.type = "postgres" => s # "ready",
         row.type = "postgres" /\ row.value.present => (binding[b] # "absent" => s # "absent"),
         request' \in [Clients -> OperationRow],
         \A c \in Clients : OperationInv(request'[c]),
         UNCHANGED <<row, secret, cluster, retained, agent, report>>
  PROVE  ResourcesInv'
<1>1. \A d \in Bindings : binding'[d] = IF d = b THEN s ELSE binding[d]
  BY ResourcesTyped
<1>2. ResourceRows'
  BY DEF ResourcesInv, ResourceRows
<1>3. OpsInv(agent, row.type, row.value, binding', secret)
  BY <1>1 DEF ResourcesInv, OpsInv
<1>4. RolesInv(row.type, row.value, row.lease, binding', secret, cluster.roles)
  BY <1>1 DEF ResourcesInv, RolesInv
<1> QED BY <1>2, <1>3, <1>4 DEF ResourcesInv

LEMMA StoreBindingInv ==
  ASSUME ResourcesInv, NEW c \in Clients,
         Resources!StoreCreateBinding(c) \/ Resources!StoreUpdateBinding(c)
  PROVE  ResourcesInv'
<1> DEFINE b == request[c].of
           e == [request[c] EXCEPT !.op = "ensure"]
           p == [request[c] EXCEPT !.op = "planned"]
<1>1. /\ request[c] \in OperationRow /\ OperationInv(request[c]) /\ b \in Bindings
      /\ request[c].op \in {"insert", "unbind"} /\ binding[b] \in BindingStates
  <2>1. request[c] \in OperationRow /\ OperationInv(request[c])
    BY ResourcesTyped DEF ResourcesInv
  <2>2. request[c].op \in {"insert", "unbind"}
    BY DEF Resources!StoreCreateBinding, Resources!StoreUpdateBinding
  <2> QED BY <2>1, <2>2, ResourcesTyped DEF OperationInv
<1>2. /\ e \in OperationRow /\ e.value = request[c].value /\ e.op = "ensure" /\ e.of = b
      /\ p \in OperationRow /\ p.value = request[c].value /\ p.op = "planned"
  BY <1>1 DEF OperationRow
<1>3. /\ UNCHANGED <<row, secret, cluster, retained, agent, report>>
      /\ \E q \in {Resources!NoRequest, e, p} : request' = [request EXCEPT ![c] = q]
  BY DEF Resources!StoreCreateBinding, Resources!StoreUpdateBinding
<1> HIDE DEF e, p
<1>4. OperationInv(e) /\ OperationInv(p) /\ OperationInv(Resources!NoRequest)
  BY <1>1, <1>2, NullsTyped DEF OperationInv
<1>5. /\ request' \in [Clients -> OperationRow]
      /\ \A d \in Clients : OperationInv(request'[d])
  <2>1. PICK q \in {Resources!NoRequest, e, p} : request' = [request EXCEPT ![c] = q]
    BY <1>3
  <2>2. q \in OperationRow /\ OperationInv(q)
    BY <1>2, <1>4, NullsTyped
  <2> QED BY <2>1, <2>2, ResourcesTyped DEF ResourcesInv
<1>6. CASE Resources!StoreCreateBinding(c)
  <2> DEFINE s == IF row.value.present /\ binding[b] = "absent"
                    THEN IF row.type = "postgres" THEN "provisioning" ELSE "ready"
                    ELSE binding[b]
  <2>1. binding' = IF row.value.present /\ binding[b] = "absent"
                     THEN [binding EXCEPT ![b] = s] ELSE binding
    BY <1>6, ResourcesTyped DEF Resources!StoreCreateBinding
  <2>2. CASE row.value.present /\ binding[b] = "absent"
    <3>1. s \in BindingStates /\ (row.type = "postgres" => s # "ready") /\ s # "absent"
      BY <2>2 DEF BindingStates
    <3> QED BY <1>1, <1>3, <1>5, <2>1, <2>2, <3>1, BindingGoes
  <2>3. CASE ~(row.value.present /\ binding[b] = "absent")
    BY <1>3, <1>5, <2>1, <2>3 DEF ResourcesInv, ResourceRows
  <2> QED BY <2>2, <2>3
<1>7. CASE Resources!StoreUpdateBinding(c)
  <2> DEFINE s == IF row.type = "postgres" /\ binding[b] # "absent"
                    THEN "deleting" ELSE "absent"
  <2>1. binding' = [binding EXCEPT ![b] = s]
    BY <1>7, ResourcesTyped DEF Resources!StoreUpdateBinding
  <2>2. /\ s \in BindingStates /\ (row.type = "postgres" => s # "ready")
        /\ row.type = "postgres" => (binding[b] # "absent" => s # "absent")
    BY DEF BindingStates
  <2> HIDE DEF s
  <2> QED BY <1>1, <1>3, <1>5, <2>1, <2>2, BindingGoes
<1> QED BY <1>6, <1>7

LEMMA LeaseManagedInv ==
  ASSUME ResourcesInv, Resources!LeaseManaged
  PROVE  ResourcesInv'
<1> DEFINE v == [row.value EXCEPT !.lifecycle = IF row.value.lifecycle = "deleting"
                                                  THEN "deleting" ELSE "provisioning"]
           n == row.lease.next + 1
           l == [token |-> row.lease.next, expired |-> FALSE, next |-> n]
           w(a, ops) == [Resources!NoWork EXCEPT !.phase = "working", !.action = a,
                           !.spec = row.value.runtime, !.token = row.lease.next, !.ops = ops]
<1>1. /\ row' = [row EXCEPT !.value = v, !.lease = l]
      /\ row.value.present /\ report = Resources!NoReport
      /\ UNCHANGED <<binding, secret, cluster, retained, request, report>>
  <2>1. /\ Resources!ClaimManaged /\ Resources!Claimable /\ report = Resources!NoReport
        /\ UNCHANGED <<binding, secret, cluster, retained, request, report>>
    BY DEF Resources!LeaseManaged
  <2>2. row' = [row EXCEPT !.value = v, !.lease = l]
    BY <2>1, ResourcesTyped DEF Resources!ClaimManaged, ResourceRow
  <2> QED BY <2>1, <2>2, ResourcesTyped DEF Resources!Claimable
<1>2. row.lease.next \in Nat \ {0} /\ n \in Nat \ {0} /\ n # 1 /\ row.value.runtime \in SpecRow
  BY ResourcesTyped DEF LeaseRow, ValueRow
<1>3. l \in LeaseRow /\ l.next = n /\ l.token = row.lease.next
  BY <1>2 DEF LeaseRow
<1>4. /\ v \in ValueRow /\ v.present /\ v.lifecycle \in {"deleting", "provisioning"}
      /\ v.runtime = row.value.runtime
  BY <1>1, ResourcesTyped DEF ValueRow, Lifecycles
<1>5. \/ agent' = Resources!NoWork
      \/ agent' = w("delete", Resources!NoWork.ops)
      \/ /\ Resources!CredentialsComplete
         /\ agent' = w("apply", Resources!postgresBindingOperations)
  BY ResourcesTyped DEF Resources!LeaseManaged
<1> HIDE DEF v, n, l
<1>6. /\ row' \in ResourceRow /\ row'.value = v /\ row'.lease = l /\ row'.type = row.type
  BY <1>1, <1>3, <1>4, ResourcesTyped DEF ResourceRow
<1>7. RowInv(v, l, retained.state) /\ retained.state = "none"
  BY <1>1, <1>3, <1>4 DEF ResourcesInv, RowInv
<1>8. RolesInv(row.type, v, l, binding, secret, cluster.roles)
  BY <1>1, <1>2, <1>3, <1>4 DEF ResourcesInv, RolesInv
<1>9. report.phase = "idle" /\ report.left = {}
  BY <1>1, NullsTyped
<1>10. ASSUME agent' \in AgentOnRow, LeaseInv(agent', v, l, retained.state, report),
              OpsInv(agent', row.type, v, binding, secret), ResultInv(agent', cluster)
       PROVE  ResourcesInv'
  <2>1. ResourceRows'
    BY <1>1, <1>6, <1>10 DEF ResourcesInv, ResourceRows
  <2> QED BY <1>1, <1>4, <1>6, <1>7, <1>8, <1>10, <2>1 DEF ResourcesInv
<1>11. ASSUME NEW a \in {"apply", "delete"},
              NEW ops \in [Bindings -> {"none", "ensure", "revoke"}], agent' = w(a, ops),
              OpsInv(agent', row.type, v, binding, secret)
       PROVE  ResourcesInv'
  <2>1. /\ agent' \in AgentOnRow /\ agent'.phase = "working" /\ agent'.action = a
        /\ agent'.token = row.lease.next /\ agent'.status = "none" /\ agent'.done = {}
    BY <1>2, <1>11, NullsTyped DEF AgentOnRow
  <2> HIDE DEF w
  <2>2. LeaseInv(agent', v, l, retained.state, report)
    BY <1>2, <1>3, <1>4, <1>7, <1>9, <2>1 DEF LeaseInv
  <2>3. ResultInv(agent', cluster)
    BY <2>1 DEF ResultInv
  <2> QED BY <1>10, <1>11, <2>1, <2>2, <2>3
<1>12. CASE agent' = Resources!NoWork
  BY <1>9, <1>10, <1>12, IdleAgent, NullsTyped
<1>13. CASE agent' = w("delete", Resources!NoWork.ops)
  <2>1. \A b \in Bindings : agent'.ops[b] = "none"
    BY <1>13, NullsTyped DEF AgentOnRow
  <2>2. OpsInv(agent', row.type, v, binding, secret)
    BY <2>1 DEF OpsInv
  <2> QED BY <1>11, <1>13, <2>2, NullsTyped
<1>14. CASE /\ Resources!CredentialsComplete
            /\ agent' = w("apply", Resources!postgresBindingOperations)
  <2> DEFINE ops == Resources!postgresBindingOperations
  <2>1. /\ ops \in [Bindings -> {"none", "ensure", "revoke"}]
        /\ \A b \in Bindings :
             /\ ops[b] # "none" => row.type = "postgres" /\ binding[b] # "absent"
             /\ ops[b] = "revoke" => binding[b] = "deleting"
    BY ResourcesTyped DEF Resources!postgresBindingOperations
  <2>2. \A b \in Bindings : ops[b] = "ensure" => b \in secret
    BY <1>14 DEF Resources!CredentialsComplete
  <2> HIDE DEF ops
  <2>3. agent' = w("apply", ops) /\ agent'.ops = ops /\ agent'.action = "apply"
    BY <1>14, NullsTyped DEF ops, AgentOnRow
  <2> HIDE DEF w
  <2>4. OpsInv(agent', row.type, v, binding, secret)
    BY <2>1, <2>2, <2>3 DEF OpsInv
  <2> QED BY <1>11, <2>1, <2>3, <2>4
<1> QED BY <1>5, <1>12, <1>13, <1>14

(* The Agent acts on the cluster; its operations stay what they are.       *)
LEMMA ClusterGoes ==
  ASSUME ResourcesInv, NEW w \in AgentOnRow, NEW k \in ClusterRow,
         agent' = w, cluster' = k, w.ops = agent.ops, w.action = agent.action,
         LeaseInv(w, row.value, row.lease, retained.state, report), ResultInv(w, k),
         VolumeInv(k.volume, retained.state),
         RolesInv(row.type, row.value, row.lease, binding, secret, k.roles),
         k.workload = cluster.workload \/ agent.action \in {"apply", "delete"},
         UNCHANGED <<row, binding, secret, retained, request, report>>
  PROVE  ResourcesInv'
<1>1. ResourceRows'
  BY DEF ResourcesInv, ResourceRows
<1>2. OpsInv(w, row.type, row.value, binding, secret)
  BY DEF ResourcesInv, OpsInv
<1>3. row.value.lifecycle = "ready" => k.workload = row.value.runtime
  BY DEF ResourcesInv, LeaseInv
<1> QED BY <1>1, <1>2, <1>3 DEF ResourcesInv

LEMMA WorkFinishes ==
  ASSUME ResourcesInv, agent.phase = "working",
         NEW s \in {"ready", "failed", "deleted", "destroyed", "unknown"},
         NEW d \in SUBSET Bindings, Resources!Finish(s, d),
         s = "ready" => agent.action = "apply",
         s = "deleted" => agent.action = "delete",
         s = "destroyed" => agent.action = "destroy"
  PROVE  /\ agent' \in AgentOnRow /\ agent'.ops = agent.ops
         /\ agent'.action = agent.action /\ agent'.spec = agent.spec
         /\ agent'.phase = "reporting" /\ agent'.status = s /\ agent'.done = d
         /\ LeaseInv(agent', row.value, row.lease, retained.state, report)
<1> DEFINE w == [agent EXCEPT !.phase = "reporting", !.status = s, !.done = d]
<1>1. agent' = w
  BY DEF Resources!Finish
<1>2. /\ w \in AgentOnRow /\ w.ops = agent.ops /\ w.action = agent.action
      /\ w.spec = agent.spec /\ w.token = agent.token
      /\ w.phase = "reporting" /\ w.status = s /\ w.done = d
  BY ResourcesTyped DEF AgentOnRow
<1> HIDE DEF w
<1>3. LeaseInv(w, row.value, row.lease, retained.state, report)
  BY <1>2 DEF ResourcesInv, LeaseInv
<1> QED BY <1>1, <1>2, <1>3

LEMMA ApplyResourceInv == ASSUME ResourcesInv, Resources!Apply PROVE ResourcesInv'
<1> DEFINE kept == IF Resources!managedStorageRequired THEN "bound" ELSE "none"
           half == [cluster EXCEPT !.workload = agent.spec, !.volume = kept]
<1>1. /\ agent.phase = "working" /\ agent.action = "apply"
      /\ UNCHANGED <<row, binding, secret, retained, request, report>>
      /\ agent \in AgentOnRow /\ cluster \in ClusterRow /\ agent.spec \in SpecRow
  BY ResourcesTyped DEF Resources!Apply, AgentOnRow
<1>2. retained.state = "none" /\ row.lease.next # 1
  BY <1>1 DEF ResourcesInv, LeaseInv
<1>3. VolumeInv(kept, retained.state) /\ kept \in {"none", "bound"}
  BY <1>2 DEF VolumeInv
<1>4. CASE \E done \in SUBSET Resources!Asked :
             \E some \in SUBSET (Resources!Asked \ done) :
               /\ cluster' = [workload |-> agent.spec, volume |-> kept,
                              roles |-> Resources!reconcilePostgresBindings(done, some)]
               /\ Resources!Finish("ready", done)
  <2>1. PICK done \in SUBSET Resources!Asked, some \in SUBSET Resources!Asked :
               /\ some \cap done = {}
               /\ cluster' = [workload |-> agent.spec, volume |-> kept,
                              roles |-> Resources!reconcilePostgresBindings(done, some)]
               /\ Resources!Finish("ready", done)
    BY <1>4
  <2> DEFINE R == Resources!reconcilePostgresBindings(done, some)
  <2>2. /\ done \subseteq Bindings /\ \A b \in done : agent.ops[b] # "none"
        /\ some \subseteq Bindings /\ \A b \in some : agent.ops[b] # "none"
    BY DEF Resources!Asked
  <2>3. /\ R \subseteq Bindings
        /\ \A b \in R : b \in cluster.roles \/ agent.ops[b] = "ensure"
        /\ \A b \in cluster.roles : agent.ops[b] # "revoke" => b \in R
        /\ \A b \in done : agent.ops[b] = "ensure" => b \in R
        /\ \A b \in done : agent.ops[b] = "revoke" => b \notin R
    BY <1>1, <2>2 DEF Resources!reconcilePostgresBindings, ClusterRow
  <2> HIDE DEF R, kept
  <2>4. /\ cluster' \in ClusterRow /\ cluster'.workload = agent.spec
        /\ cluster'.roles = R /\ cluster'.volume = kept
    BY <1>1, <1>3, <2>1, <2>3 DEF ClusterRow, R
  <2>5. /\ agent' \in AgentOnRow /\ agent'.ops = agent.ops
        /\ agent'.action = agent.action /\ agent'.spec = agent.spec
        /\ agent'.status = "ready" /\ agent'.done = done
        /\ LeaseInv(agent', row.value, row.lease, retained.state, report)
    BY <1>1, <2>1, <2>2, WorkFinishes
  <2>6. ResultInv(agent', cluster')
    BY <2>2, <2>3, <2>4, <2>5 DEF ResultInv
  <2>7. RolesInv(row.type, row.value, row.lease, binding, secret, R)
    BY <1>2, <2>3 DEF ResourcesInv, RolesInv, OpsInv
  <2> QED BY <1>1, <1>3, <2>4, <2>5, <2>6, <2>7, ClusterGoes
<1>5. CASE /\ \E replaced \in BOOLEAN :
                cluster' = IF replaced THEN half ELSE cluster
           /\ Resources!Finish("failed", {})
  <2>1. /\ half \in ClusterRow /\ half.roles = cluster.roles
        /\ half.volume = kept
    BY <1>1, <1>3 DEF ClusterRow
  <2> HIDE DEF half, kept
  <2>2. /\ cluster' \in ClusterRow /\ cluster'.roles = cluster.roles
        /\ cluster'.volume \in {kept, cluster.volume}
    BY <1>1, <1>5, <2>1
  <2>3. /\ agent' \in AgentOnRow /\ agent'.ops = agent.ops
        /\ agent'.action = agent.action
        /\ agent'.status = "failed" /\ agent'.done = {}
        /\ LeaseInv(agent', row.value, row.lease, retained.state, report)
    BY <1>1, <1>5, WorkFinishes
  <2>4. ResultInv(agent', cluster')
    BY <2>3 DEF ResultInv
  <2>5. VolumeInv(cluster'.volume, retained.state)
    BY <1>3, <2>2 DEF ResourcesInv
  <2>6. RolesInv(row.type, row.value, row.lease, binding, secret, cluster'.roles)
    BY <2>2 DEF ResourcesInv
  <2> QED BY <1>1, <2>2, <2>3, <2>4, <2>5, <2>6, ClusterGoes
<1> QED BY <1>4, <1>5 DEF Resources!Apply

LEMMA DeleteResourceInv == ASSUME ResourcesInv, Resources!Delete PROVE ResourcesInv'
<1> DEFINE bare == [cluster EXCEPT !.workload = Resources!NoSpec]
<1>1. /\ agent.phase = "working" /\ agent.action = "delete"
      /\ UNCHANGED <<row, binding, secret, retained, request, report>>
      /\ cluster \in ClusterRow
      /\ cluster' \in {cluster, bare}
      /\ \E s \in {"deleted", "failed"} : Resources!Finish(s, {})
  BY ResourcesTyped DEF Resources!Delete
<1>2. PICK s \in {"deleted", "failed"} : Resources!Finish(s, {})
  BY <1>1
<1>3. bare \in ClusterRow /\ bare.roles = cluster.roles /\ bare.volume = cluster.volume
  BY <1>1, NullsTyped DEF ClusterRow
<1> HIDE DEF bare
<1>4. /\ cluster' \in ClusterRow /\ cluster'.roles = cluster.roles
      /\ cluster'.volume = cluster.volume
  BY <1>1, <1>3
<1>5. /\ agent' \in AgentOnRow /\ agent'.ops = agent.ops
      /\ agent'.action = agent.action
      /\ agent'.status = s /\ agent'.done = {}
      /\ LeaseInv(agent', row.value, row.lease, retained.state, report)
  BY <1>1, <1>2, WorkFinishes
<1>6. ResultInv(agent', cluster')
  BY <1>5 DEF ResultInv
<1>7. /\ VolumeInv(cluster'.volume, retained.state)
      /\ RolesInv(row.type, row.value, row.lease, binding, secret, cluster'.roles)
  BY <1>4 DEF ResourcesInv
<1> QED BY <1>1, <1>4, <1>5, <1>6, <1>7, ClusterGoes

LEMMA DropWorkInv == ASSUME ResourcesInv, Resources!DropWork PROVE ResourcesInv'
<1>1. /\ agent' = Resources!NoWork /\ report = Resources!NoReport
      /\ UNCHANGED <<row, binding, secret, cluster, retained, request, report>>
  BY DEF Resources!DropWork
<1>2. ResourceRows'
  BY <1>1, NullsTyped DEF ResourcesInv, ResourceRows
<1> QED BY <1>1, <1>2, IdleAgent, NullsTyped DEF ResourcesInv

LEMMA LeaseExpiresInv == ASSUME ResourcesInv, Resources!LeaseExpires PROVE ResourcesInv'
<1> DEFINE l == [row.lease EXCEPT !.expired = TRUE]
<1>1. /\ row' = [row EXCEPT !.lease = l]
      /\ UNCHANGED <<binding, secret, cluster, retained, request, agent, report>>
  BY ResourcesTyped DEF Resources!LeaseExpires, ResourceRow
<1>2. l \in LeaseRow /\ l.token = row.lease.token /\ l.next = row.lease.next
  BY ResourcesTyped DEF LeaseRow
<1> HIDE DEF l
<1>3. /\ row' \in ResourceRow /\ row'.value = row.value /\ row'.lease = l
      /\ row'.type = row.type
  BY <1>1, <1>2, ResourcesTyped DEF ResourceRow
<1>4. ResourceRows'
  BY <1>1, <1>3 DEF ResourcesInv, ResourceRows
<1>5. /\ RowInv(row.value, l, retained.state)
      /\ LeaseInv(agent, row.value, l, retained.state, report)
      /\ RolesInv(row.type, row.value, l, binding, secret, cluster.roles)
  BY <1>2 DEF ResourcesInv, RowInv, LeaseInv, RolesInv
<1> QED BY <1>1, <1>3, <1>4, <1>5 DEF ResourcesInv

LEMMA CompleteManagedInv ==
  ASSUME ResourcesInv, agent.action # "destroy", Resources!CompleteManaged
  PROVE  ResourcesInv'
<1> DEFINE r == [Resources!NoReport EXCEPT !.phase = "read", !.value = row.value]
<1>1. /\ UNCHANGED <<row, binding, secret, cluster, retained, request>>
      /\ agent.phase = "reporting" /\ agent.action \in {"apply", "delete"}
      /\ report = Resources!NoReport
  BY ResourcesTyped DEF Resources!CompleteManaged, AgentOnRow, ResourcesInv, LeaseInv
<1>2. CASE row.value.present /\ report' = r /\ UNCHANGED agent
  <2>1. r \in ReportRow /\ r.phase = "read" /\ r.value = row.value /\ r.left = {}
    BY ResourcesTyped, NullsTyped DEF ReportRow
  <2> HIDE DEF r
  <2>2. ResourceRows'
    BY <1>1, <1>2, <2>1 DEF ResourcesInv, ResourceRows
  <2>3. LeaseInv(agent, row.value, row.lease, retained.state, r)
    BY <1>1, <1>2, <2>1 DEF ResourcesInv, LeaseInv, RowInv
  <2> QED BY <1>1, <1>2, <2>2, <2>3 DEF ResourcesInv
<1>3. CASE agent' = Resources!NoWork /\ UNCHANGED report
  <2>1. ResourceRows'
    BY <1>1, <1>3, NullsTyped DEF ResourcesInv, ResourceRows
  <2> QED BY <1>1, <1>3, <2>1, IdleAgent, NullsTyped DEF ResourcesInv
<1> QED BY <1>2, <1>3, ResourcesTyped DEF Resources!CompleteManaged

(* The report handler goes on or stops; the Agent and the rows stay.       *)
LEMMA ReportStands ==
  ASSUME ResourcesInv, NEW r \in ReportRow, report' = r,
         LeaseInv(agent, row.value, row.lease, retained.state, r),
         NEW bound, bound \in [Bindings -> BindingStates], binding' = bound,
         NEW known, known \in SUBSET (Bindings \cup {"server"}), secret' = known,
         OpsInv(agent, row.type, row.value, bound, known),
         RolesInv(row.type, row.value, row.lease, bound, known, cluster.roles),
         UNCHANGED <<row, cluster, retained, request, agent>>
  PROVE  ResourcesInv'
<1>1. ResourceRows'
  BY DEF ResourcesInv, ResourceRows
<1> QED BY <1>1 DEF ResourcesInv

LEMMA ListedInv ==
  ASSUME ResourcesInv, Resources!completePostgresBindings PROVE ResourcesInv'
<1> DEFINE left == {b \in Bindings : binding[b] # "absent" /\ Resources!Answered(b)}
           r == [report EXCEPT !.phase = "listed", !.rows = binding, !.left = left]
<1>1. /\ report.phase = "read" /\ report' = r
      /\ UNCHANGED <<row, binding, secret, cluster, retained, request, agent>>
  BY DEF Resources!completePostgresBindings
<1>2. /\ left \subseteq Bindings
      /\ \A b \in left : agent.status = "ready" /\ agent.ops[b] # "none"
  BY DEF Resources!Answered
<1> HIDE DEF left
<1>3. /\ r \in ReportRow /\ r.phase = "listed" /\ r.value = report.value /\ r.left = left
  BY <1>2, ResourcesTyped DEF ReportRow
<1> HIDE DEF r
<1>4. LeaseInv(agent, row.value, row.lease, retained.state, r)
  BY <1>1, <1>2, <1>3 DEF ResourcesInv, LeaseInv
<1> QED BY <1>1, <1>3, <1>4, ResourcesTyped, ReportStands DEF ResourcesInv

(* What a report leaves of a binding: one that is ready has its role and   *)
(* credential, one that is gone has none.                                  *)
LEMMA ReportedInv ==
  ASSUME ResourcesInv, AgentWorkAssumption,
         NEW b \in Bindings, Resources!UpdateReported(b)
  PROVE  ResourcesInv'
<1> DEFINE s == Resources!ReportedLifecycle(b)
           r == [report EXCEPT !.left = @ \ {b}]
<1>1. /\ b \in report.left /\ secret' = secret \ (Resources!Revoked \cap {b})
      /\ UNCHANGED <<row, cluster, retained, request, agent>>
      /\ \/ report' = Resources!NoReport /\ binding' = binding
         \/ /\ binding[b] # "absent" /\ report' = r
            /\ binding' = [binding EXCEPT ![b] = s]
  BY DEF Resources!UpdateReported
<1>2. /\ agent.status = "ready" /\ agent.ops[b] \in {"ensure", "revoke"}
      /\ report.phase = "listed" /\ report.left \subseteq Bindings
  BY <1>1, ResourcesTyped DEF ResourcesInv, LeaseInv, AgentOnRow, ReportRow
<1>3. /\ s \in BindingStates
      /\ s = "ready" => b \in agent.done /\ agent.ops[b] = "ensure"
      /\ s = "absent" => b \in agent.done /\ agent.ops[b] = "revoke"
  BY <1>2 DEF Resources!ReportedLifecycle, Resources!Revoked, BindingStates
<1> HIDE DEF s
<1>4. /\ r \in ReportRow /\ r.phase = "listed" /\ r.value = report.value
      /\ r.left = report.left \ {b}
  BY <1>2, ResourcesTyped DEF ReportRow
<1>5. /\ LeaseInv(agent, row.value, row.lease, retained.state, r)
      /\ LeaseInv(agent, row.value, row.lease, retained.state, Resources!NoReport)
  BY <1>2, <1>4, NullsTyped DEF ResourcesInv, LeaseInv
<1> HIDE DEF r
<1>6. /\ secret' \in SUBSET (Bindings \cup {"server"})
      /\ \A x \in Bindings : x \in secret /\ (x # b \/ agent.ops[b] = "ensure")
                             => x \in secret'
  BY <1>1, ResourcesTyped DEF Resources!Revoked
<1>7. CASE report' = Resources!NoReport /\ binding' = binding
  <2>1. /\ OpsInv(agent, row.type, row.value, binding, secret')
        /\ RolesInv(row.type, row.value, row.lease, binding, secret', cluster.roles)
    BY <1>2, <1>6 DEF ResourcesInv, OpsInv, RolesInv
  <2> QED BY <1>1, <1>5, <1>6, <1>7, <2>1, ResourcesTyped, NullsTyped, ReportStands
<1>8. CASE /\ binding[b] # "absent" /\ report' = r
           /\ binding' = [binding EXCEPT ![b] = s]
  <2>1. /\ binding' \in [Bindings -> BindingStates] /\ binding'[b] = s
        /\ \A x \in Bindings \ {b} : binding'[x] = binding[x]
    BY <1>3, <1>8, ResourcesTyped
  <2>2. OpsInv(agent, row.type, row.value, binding', secret')
    BY <1>2, <1>3, <1>6, <2>1 DEF ResourcesInv, OpsInv
  <2>3. ASSUME NEW x \in Bindings
        PROVE  /\ row.type = "postgres" /\ binding'[x] = "ready"
                    => x \in secret' /\ x \in cluster.roles
               /\ x \in cluster.roles =>
                    /\ row.type = "postgres" /\ row.lease.next # 1
                    /\ row.value.present => binding'[x] # "absent"
    <3>1. CASE x = b
      <4>1. s = "ready" => x \in secret' /\ x \in cluster.roles
        BY <1>3, <1>6, <3>1 DEF ResourcesInv, OpsInv, ResultInv
      <4>2. x \in cluster.roles => s # "absent"
        BY <1>3, <3>1 DEF ResourcesInv, ResultInv
      <4> QED BY <2>1, <3>1, <4>1, <4>2 DEF ResourcesInv, RolesInv
    <3>2. CASE x # b
      BY <1>6, <2>1, <3>2 DEF ResourcesInv, RolesInv
    <3> QED BY <3>1, <3>2
  <2>4. RolesInv(row.type, row.value, row.lease, binding', secret', cluster.roles)
    BY <2>3 DEF RolesInv
  <2> QED BY <1>1, <1>4, <1>5, <1>6, <1>8, <2>1, <2>2, <2>4, ReportStands
<1> QED BY <1>1, <1>7, <1>8

LEMMA CrashReportInv ==
  ASSUME ResourcesInv, AgentWorkAssumption, Resources!CrashReport PROVE ResourcesInv'
<1>1. PICK deleted \in {{}} \cup {{b} : b \in Resources!Revoked \cap report.left}
                       \cup IF agent.status = "deleted" THEN {{"server"}} ELSE {} :
        secret' = secret \ deleted
  BY DEF Resources!CrashReport
<1>2. /\ report' = Resources!NoReport
      /\ UNCHANGED <<row, binding, cluster, retained, request, agent>>
  BY DEF Resources!CrashReport
<1>3. \A b \in Bindings : b \in deleted => agent.ops[b] = "revoke"
  BY <1>1 DEF Resources!Revoked, AgentWorkAssumption
<1>4. LeaseInv(agent, row.value, row.lease, retained.state, Resources!NoReport)
  BY NullsTyped DEF ResourcesInv, LeaseInv
<1>5. /\ OpsInv(agent, row.type, row.value, binding, secret')
      /\ RolesInv(row.type, row.value, row.lease, binding, secret', cluster.roles)
  BY <1>1, <1>3 DEF ResourcesInv, OpsInv, RolesInv
<1>6. secret' \in SUBSET (Bindings \cup {"server"})
  BY <1>1, ResourcesTyped
<1> QED BY <1>2, <1>4, <1>5, <1>6, ResourcesTyped, NullsTyped, ReportStands

LEMMA CompleteApplyInv ==
  ASSUME ResourcesInv, AgentWorkAssumption, Resources!CompleteApply
  PROVE  ResourcesInv'
<1>0. PICK s \in IF Resources!RetryBindings THEN {"planned"}
                 ELSE Resources!CompletedLifecycles :
        row' = IF row.lease.token = agent.token
                 THEN [row EXCEPT
                         !.lease.token = 0,
                         !.value = [report.value EXCEPT
                           !.evidence = IF agent.status = "ready"
                                          THEN agent.spec ELSE Resources!NoSpec,
                           !.lifecycle = s]]
                 ELSE row
  BY DEF Resources!CompleteApply
<1> DEFINE e == IF agent.status = "ready" THEN agent.spec ELSE Resources!NoSpec
           v == [report.value EXCEPT !.evidence = e, !.lifecycle = s]
           l == [row.lease EXCEPT !.token = 0]
<1>1. /\ report.phase = "listed" /\ agent' = Resources!NoWork /\ report' = Resources!NoReport
      /\ UNCHANGED <<binding, secret, cluster, retained, request>>
      /\ row' = IF row.lease.token = agent.token
                  THEN [row EXCEPT !.lease = l, !.value = v] ELSE row
  <2>1. row.lease \in LeaseRow
    BY ResourcesTyped
  <2> QED BY <1>0, <2>1, ResourcesTyped DEF Resources!CompleteApply, ResourceRow
<1>2. /\ agent.action \in {"apply", "delete"} /\ agent.token # 0 /\ retained.state = "none"
      /\ report.value.present /\ row.value.lifecycle # "ready"
      /\ report.value \in ValueRow /\ agent.spec \in SpecRow
  BY <1>1, ResourcesTyped DEF ResourcesInv, LeaseInv, ReportRow, AgentOnRow
<1>3. /\ s \in {"planned", "ready", "degraded", "failed", "unknown"}
      /\ s = "ready" => agent.status = "ready" /\ report.value.runtime = agent.spec
  BY DEF Resources!CompletedLifecycles
<1>4. e \in SpecRow
  BY <1>2, NullsTyped
<1> HIDE DEF e
<1>5. v \in ValueRow /\ v.present /\ v.lifecycle = s /\ v.runtime = report.value.runtime
  BY <1>2, <1>3, <1>4 DEF ValueRow, Lifecycles
<1>6. l \in LeaseRow /\ l.token = 0 /\ l.next = row.lease.next
  BY ResourcesTyped DEF LeaseRow
<1> HIDE DEF v, l
<1>7. /\ binding' \in [Bindings -> BindingStates]
      /\ secret' \in SUBSET (Bindings \cup {"server"})
      /\ RolesInv(row.type, row.value, row.lease, binding', secret', cluster.roles)
  BY <1>1, ResourcesTyped DEF ResourcesInv
<1>8. CASE row.lease.token = agent.token
  <2>1. row' = [row EXCEPT !.lease = l, !.value = v]
    BY <1>1, <1>8
  <2>2. /\ row' \in ResourceRow /\ row'.value = v /\ row'.lease = l /\ row'.type = row.type
    BY <1>5, <1>6, <2>1, ResourcesTyped DEF ResourceRow
  <2>3. ResourceRows'
    BY <1>1, <1>7, <2>2, NullsTyped DEF ResourcesInv, ResourceRows
  <2>4. RowInv(v, l, retained.state)
    BY <1>2, <1>3, <1>5, <1>6 DEF RowInv
  <2>5. row.value.present
    BY <1>2, <1>8 DEF ResourcesInv, RowInv
  <2>6. RolesInv(row.type, v, l, binding', secret', cluster.roles)
    BY <1>6, <1>7, <2>5 DEF RolesInv
  <2>7. v.lifecycle = "ready" => cluster.workload = v.runtime
    BY <1>3, <1>5 DEF ResourcesInv, ResultInv
  <2> QED BY <1>1, <2>2, <2>3, <2>4, <2>6, <2>7, IdleAgent, NullsTyped DEF ResourcesInv
<1>9. CASE row.lease.token # agent.token
  <2>1. UNCHANGED row
    BY <1>1, <1>9
  <2>2. ResourceRows'
    BY <1>1, <1>7, <2>1, NullsTyped DEF ResourcesInv, ResourceRows
  <2> QED BY <1>1, <1>7, <2>1, <2>2, IdleAgent, NullsTyped DEF ResourcesInv
<1> QED BY <1>8, <1>9

LEMMA CompleteDeleteInv ==
  ASSUME ResourcesInv, AgentWorkAssumption, Resources!CompleteDelete
  PROVE  ResourcesInv'
<1> DEFINE l == [row.lease EXCEPT !.token = 0]
           k == [retained EXCEPT !.state = "retained"]
<1>1. /\ report.phase = "read" /\ agent' = Resources!NoWork /\ report' = Resources!NoReport
      /\ secret' = secret \ {"server"} /\ UNCHANGED <<cluster, request>>
      /\ \/ UNCHANGED <<row, binding, retained>>
         \/ /\ row' = [row EXCEPT !.value = Resources!NoRow, !.lease = l]
            /\ binding' = [b \in Bindings |-> "absent"]
            /\ retained' \in {retained, k}
  BY ResourcesTyped DEF Resources!CompleteDelete, ResourceRow
<1>2. agent.action \in {"apply", "delete"} /\ retained.state = "none"
  BY <1>1 DEF ResourcesInv, LeaseInv
<1>3. /\ secret' \in SUBSET (Bindings \cup {"server"})
      /\ \A b \in Bindings : b \in secret => b \in secret'
  BY <1>1, ResourcesTyped DEF AgentWorkAssumption
<1>4. l \in LeaseRow /\ l.token = 0 /\ l.next = row.lease.next
  BY ResourcesTyped DEF LeaseRow
<1>5. k \in RetainedRow /\ k.state = "retained"
  BY ResourcesTyped DEF RetainedRow, Resources!Reviewable
<1> HIDE DEF l, k
<1>6. CASE UNCHANGED <<row, binding, retained>>
  <2>1. ResourceRows'
    BY <1>1, <1>3, <1>6, NullsTyped DEF ResourcesInv, ResourceRows
  <2>2. RolesInv(row.type, row.value, row.lease, binding, secret', cluster.roles)
    BY <1>3 DEF ResourcesInv, RolesInv
  <2> QED BY <1>1, <1>6, <2>1, <2>2, IdleAgent, NullsTyped DEF ResourcesInv
<1>7. CASE /\ row' = [row EXCEPT !.value = Resources!NoRow, !.lease = l]
           /\ binding' = [b \in Bindings |-> "absent"]
           /\ retained' \in {retained, k}
  <2>1. /\ row' \in ResourceRow /\ row'.value = Resources!NoRow /\ row'.lease = l
        /\ row'.type = row.type
    BY <1>4, <1>7, ResourcesTyped, NullsTyped DEF ResourceRow
  <2>2. /\ binding' \in [Bindings -> BindingStates]
        /\ \A b \in Bindings : binding'[b] = "absent"
    BY <1>7 DEF BindingStates
  <2>3. retained' \in RetainedRow /\ retained'.state \in {"none", "retained"}
    BY <1>2, <1>5, <1>7, ResourcesTyped
  <2>4. ResourceRows'
    BY <1>1, <1>3, <2>1, <2>2, <2>3, NullsTyped DEF ResourcesInv, ResourceRows
  <2>5. RowInv(Resources!NoRow, l, retained'.state)
    BY <1>4, NullsTyped DEF RowInv
  <2>6. RolesInv(row.type, Resources!NoRow, l, binding', secret', cluster.roles)
    BY <1>4, <2>2, NullsTyped DEF ResourcesInv, RolesInv
  <2>7. VolumeInv(cluster.volume, retained'.state)
    BY <1>2, <2>3 DEF ResourcesInv, VolumeInv
  <2> QED BY <1>1, <2>1, <2>4, <2>5, <2>6, <2>7, IdleAgent, NullsTyped DEF ResourcesInv
<1> QED BY <1>1, <1>6, <1>7

(* Only the record of the retained storage and the Agent's lease of it.    *)
LEMMA StorageGoes ==
  ASSUME ResourcesInv, NEW k \in RetainedRow, retained' = k,
         k.state # "none" <=> retained.state # "none",
         VolumeInv(cluster.volume, k.state),
         \/ agent' = agent /\ (agent.action = "destroy" => k.state = "destroying")
         \/ agent' = Resources!NoWork /\ report.phase = "idle" /\ report.left = {}
         \/ /\ agent' \in AgentOnRow /\ report.phase = "idle" /\ report.left = {}
            /\ LeaseInv(agent', row.value, row.lease, k.state, report)
            /\ OpsInv(agent', row.type, row.value, binding, secret)
            /\ ResultInv(agent', cluster),
         UNCHANGED <<row, binding, secret, cluster, request, report>>
  PROVE  ResourcesInv'
<1>1. ResourceRows'
  BY NullsTyped DEF ResourcesInv, ResourceRows
<1>2. RowInv(row.value, row.lease, k.state)
  BY DEF ResourcesInv, RowInv
<1>3. /\ LeaseInv(agent', row.value, row.lease, k.state, report)
      /\ OpsInv(agent', row.type, row.value, binding, secret)
      /\ ResultInv(agent', cluster)
  <2>1. CASE agent' = agent /\ (agent.action = "destroy" => k.state = "destroying")
    BY <2>1 DEF ResourcesInv, LeaseInv
  <2>2. CASE agent' = Resources!NoWork /\ report.phase = "idle" /\ report.left = {}
    BY <2>2, IdleAgent
  <2> QED BY <2>1, <2>2
<1> QED BY <1>1, <1>2, <1>3 DEF ResourcesInv

LEMMA RetainedInv ==
  ASSUME ResourcesInv,
         \/ Resources!ReviewRetainedStorageDestroy
         \/ Resources!RequestRetainedStorageDestroy
         \/ Resources!RetainedLeaseExpires
  PROVE  ResourcesInv'
<1> DEFINE v == [retained EXCEPT !.reviewed = ~Resources!value.present]
           q == [retained EXCEPT !.state = "destroying", !.reviewed = FALSE]
           e == [retained EXCEPT !.token = FALSE]
<1>1. /\ v \in RetainedRow /\ v.state = retained.state
      /\ q \in RetainedRow /\ q.state = "destroying"
      /\ e \in RetainedRow /\ e.state = retained.state
  BY ResourcesTyped DEF RetainedRow, ValueRow
<1>2. /\ UNCHANGED <<row, binding, secret, cluster, request, agent, report>>
      /\ \/ retained' = v
         \/ retained' = q /\ retained.state \in Resources!Reviewable
         \/ retained' = e
  BY DEF Resources!ReviewRetainedStorageDestroy, Resources!RequestRetainedStorageDestroy,
         Resources!RetainedLeaseExpires
<1> HIDE DEF v, q, e
<1>3. \A b \in {"destroyed", "none"} : b \notin Resources!Reviewable
  BY DEF Resources!Reviewable
<1>4. /\ VolumeInv(cluster.volume, retained.state)
      /\ retained.state \in Resources!Reviewable => VolumeInv(cluster.volume, "destroying")
      /\ agent.action = "destroy" => retained.state = "destroying"
  BY DEF ResourcesInv, LeaseInv, VolumeInv
<1> QED BY <1>1, <1>2, <1>3, <1>4, StorageGoes

LEMMA LeaseDestroyInv ==
  ASSUME ResourcesInv, Resources!LeaseRetainedStorageDestroy
  PROVE  ResourcesInv'
<1> DEFINE k == [retained EXCEPT !.token = TRUE]
           w == [Resources!NoWork EXCEPT !.phase = "working", !.action = "destroy"]
<1>1. /\ retained' = k /\ agent' = w /\ agent = Resources!NoWork
      /\ retained.state = "destroying"
      /\ UNCHANGED <<row, binding, secret, cluster, request, report>>
  BY DEF Resources!LeaseRetainedStorageDestroy
<1>2. k \in RetainedRow /\ k.state = "destroying"
  BY <1>1, ResourcesTyped DEF RetainedRow
<1>3. /\ w \in AgentOnRow /\ w.phase = "working" /\ w.action = "destroy"
      /\ w.status = "none" /\ w.done = {} /\ w.ops = Resources!NoWork.ops
  BY NullsTyped DEF AgentOnRow
<1> HIDE DEF k, w
<1>4. report.phase = "idle" /\ report.left = {}
  BY <1>1, NullsTyped DEF ResourcesInv, LeaseInv
<1>5. LeaseInv(w, row.value, row.lease, k.state, report)
  BY <1>2, <1>3, <1>4 DEF LeaseInv
<1>6. OpsInv(w, row.type, row.value, binding, secret) /\ ResultInv(w, cluster)
  BY <1>3, NullsTyped DEF OpsInv, ResultInv
<1>7. VolumeInv(cluster.volume, k.state)
  BY <1>1, <1>2 DEF ResourcesInv
<1> QED BY <1>1, <1>2, <1>3, <1>4, <1>5, <1>6, <1>7, StorageGoes

LEMMA DestroyInv == ASSUME ResourcesInv, Resources!DestroyRetainedStorage PROVE ResourcesInv'
<1> DEFINE k(v) == [cluster EXCEPT !.volume = v]
<1>1. /\ agent.phase = "working" /\ agent.action = "destroy"
      /\ retained.state = "destroying" /\ cluster \in ClusterRow
      /\ UNCHANGED <<row, binding, secret, retained, request, report>>
  BY ResourcesTyped DEF Resources!DestroyRetainedStorage, ResourcesInv, LeaseInv
<1>2. PICK v \in {cluster.volume, "releasing", "gone"},
           s \in {"destroyed", "failed", "unknown"} :
        /\ cluster' = k(v) /\ Resources!Finish(s, {})
        /\ s = "destroyed" => v = "gone"
  BY DEF Resources!DestroyRetainedStorage
<1>3. /\ k(v) \in ClusterRow /\ k(v).workload = cluster.workload
      /\ k(v).roles = cluster.roles /\ k(v).volume = v
  BY <1>1 DEF ClusterRow
<1> HIDE DEF k
<1>4. /\ agent' \in AgentOnRow /\ agent'.ops = agent.ops
      /\ agent'.action = agent.action
      /\ agent'.status = s /\ agent'.done = {}
      /\ LeaseInv(agent', row.value, row.lease, retained.state, report)
  BY <1>1, <1>2, WorkFinishes
<1>5. ResultInv(agent', cluster')
  BY <1>2, <1>3, <1>4 DEF ResultInv
<1>6. /\ VolumeInv(cluster'.volume, retained.state)
      /\ RolesInv(row.type, row.value, row.lease, binding, secret, cluster'.roles)
  BY <1>1, <1>2, <1>3 DEF ResourcesInv, VolumeInv
<1> QED BY <1>1, <1>2, <1>3, <1>4, <1>5, <1>6, ClusterGoes

LEMMA CompleteDestroyInv ==
  ASSUME ResourcesInv, Resources!CompleteRetainedStorageDestroy
  PROVE  ResourcesInv'
<1> DEFINE s == CASE agent.status = "destroyed" -> "destroyed"
                  [] agent.status = "failed" -> "destroy_failed"
                  [] OTHER -> "unknown"
           k == [retained EXCEPT !.token = FALSE, !.state = s]
<1>1. /\ retained' = k /\ agent' = Resources!NoWork
      /\ agent.phase = "reporting" /\ agent.action = "destroy"
      /\ UNCHANGED <<row, binding, secret, cluster, request, report>>
  BY DEF Resources!CompleteRetainedStorageDestroy
<1>2. /\ s \in {"destroyed", "destroy_failed", "unknown"}
      /\ s = "destroyed" => agent.status = "destroyed"
  OBVIOUS
<1> HIDE DEF s
<1>3. k \in RetainedRow /\ k.state = s
  BY <1>2, ResourcesTyped DEF RetainedRow, Resources!Reviewable
<1> HIDE DEF k
<1>4. retained.state = "destroying" /\ report.phase = "idle" /\ report.left = {}
  BY <1>1 DEF ResourcesInv, LeaseInv
<1>5. VolumeInv(cluster.volume, s)
  BY <1>2 DEF ResourcesInv, ResultInv, VolumeInv
<1> QED BY <1>1, <1>2, <1>3, <1>4, <1>5, StorageGoes

LEMMA ResourcesMoveInv ==
  ASSUME ResourcesInv, AgentWorkAssumption, Resources!Next
  PROVE  ResourcesInv'
<1>1. CASE Resources!Requests
  BY <1>1, CreateInv, ReadsInv, WriteInv, RemoveInv, StoreBindingInv, EnsureBindingInv
     DEF Resources!Requests
<1>2. CASE Resources!AgentSteps
  BY <1>2, LeaseManagedInv, ApplyResourceInv, DeleteResourceInv, DropWorkInv,
     LeaseExpiresInv, CompleteManagedInv, ListedInv, ReportedInv, CompleteApplyInv,
     CompleteDeleteInv, CrashReportInv
     DEF Resources!AgentSteps
<1>3. CASE Resources!StorageSteps
  BY <1>3, RetainedInv, LeaseDestroyInv, DestroyInv, CompleteDestroyInv
     DEF Resources!StorageSteps
<1> QED BY <1>1, <1>2, <1>3 DEF Resources!Next

LEMMA ResourcesAlwaysHold == AgentWorkSpec => []ResourcesHold
<1>1. AgentWorkInit => ResourcesHold
  BY ResourcesInitInv DEF AgentWorkInit, ResourcesHold, NodeParts
<1>2. ResourcesHold /\ [AgentWorkNext]_agentWorkVars => ResourcesHold'
  <2> SUFFICES ASSUME ResourcesHold, part' = "resources", [AgentWorkNext]_agentWorkVars
               PROVE  ResourcesInv'
    BY DEF ResourcesHold
  <2>1. CASE UNCHANGED agentWorkVars
    <3>1. ResourcesInv /\ UNCHANGED resourceVars
      BY <2>1 DEF agentWorkVars, ResourcesHold
    <3> QED BY <3>1 DEF resourceVars, ResourcesInv, ResourceRows
  <2>2. CASE AgentWorkNext
    <3>1. ResourcesInv /\ Resources!Next
      BY <2>2 DEF AgentWorkNext, ResourcesMove, CopiesMove, SwitchMoves, ActionsMove,
                  NodesMove, NodeParts, SecretsMove, ResourcesHold, Resources!Next
    <3> QED BY <3>1, AgentWorkAssumption, ResourcesMoveInv
  <2> QED BY <2>1, <2>2
<1> QED BY <1>1, <1>2, PTL DEF AgentWorkSpec

(* A resource shown as ready runs the spec of its row; a ready binding has *)
(* its role and credential, and only bindings with a row can log in,       *)
(* whatever requests wrote over one another while the Agent applied        *)
(* (webhookrelay/server.go handleAgentManagedResourceResult,               *)
(* resource/postgres.go UpdateClaimed, resource/service.go Update).        *)
THEOREM ResourcesStayFactual == AgentWorkSpec => []ResourcesAreFactual
<1>1. ResourcesHold => ResourcesAreFactual
  <2> SUFFICES ASSUME ResourcesInv
               PROVE  /\ Resources!ResourceTypeOK /\ Resources!ReadyIsFactual
                      /\ Resources!RolesFollowBindings
    BY DEF ResourcesHold, ResourcesAreFactual
  <2>1. Resources!ResourceTypeOK
    BY ResourcesTyped DEF ResourcesInv, RowInv, ValueRow, Lifecycles, BindingStates,
       ClusterRow, RetainedRow, Resources!ResourceTypeOK
  <2>2. Resources!ReadyIsFactual
    BY ResourcesTyped DEF ResourcesInv, Resources!ReadyIsFactual
  <2>3. Resources!RolesFollowBindings
    BY ResourcesTyped DEF ResourcesInv, RolesInv, Resources!RolesFollowBindings, ClusterRow
  <2> QED BY <2>1, <2>2, <2>3
<1> QED BY <1>1, ResourcesAlwaysHold, PTL

(* A volume is only given up after its destruction was asked for, and a    *)
(* storage shown as destroyed is gone (svcatalog destroyRetainedStorage,   *)
(* resource CompleteRetainedStorageDestroy).                               *)
THEOREM VolumesAreKept == AgentWorkSpec => []VolumeOnlyDestroyedOnRequest
<1>1. ResourcesHold => VolumeOnlyDestroyedOnRequest
  BY DEF ResourcesHold, ResourcesInv, VolumeInv, VolumeOnlyDestroyedOnRequest,
         Resources!VolumeOnlyDestroyedOnRequest
<1> QED BY <1>1, ResourcesAlwaysHold, PTL
=============================================================================
