---------------------------- MODULE Verification ----------------------------
(***************************************************************************)
(* What Opsi believes of others for a while without asking again:          *)
(* - Cloud keeps the keys GitHub signs workflow tokens with (jwksCache):   *)
(*   one caller refreshes them and the others wait; an unknown key or a    *)
(*   failed refresh is tried again after a minute at the earliest;         *)
(* - the Agent keeps for a while that Cloud accepted a PAT;                *)
(* - Cloud keeps an installation token of GitHub until shortly before it   *)
(*   expires; those who ask meanwhile share one request for the next.      *)
(* Time is a clock of minutes.                                             *)
(***************************************************************************)
EXTENDS Naturals

CONSTANTS
  Keys,          \* signing keys and PATs, each published or valid at first
  Callers,       \* verifications under way
  TTL,           \* how long a belief is kept
  Life,          \* how long an installation token lives
  MaxTime,       \* bound: the clock
  MaxFailures    \* bound: requests that fail

VARIABLES
  kind,          \* which of the three a behaviour is about: they share
                 \* nothing
  now,
  endedAt,       \* when a key was withdrawn or a PAT revoked
  keys,          \* jwksCache: keys and expiresAt, lastUnknownRefresh,
                 \* retryAfter, refreshing
  pats,          \* HTTPAuthVerifier.cache: until when a PAT is believed
  token,         \* the installation token kept: when it expires, or 0
  flight,        \* the shared request for the next one
  call,          \* the callers
  failures

verificationVars ==
  <<kind, now, endedAt, keys, pats, token, flight, call, failures>>

Never == MaxTime + TTL + 1
Published(k) == endedAt[k] = Never
NoFlight == [phase |-> "none", started |-> 0, expires |-> 0]
Idle == [phase |-> "idle", key |-> "none", asked |-> 0,
         unknown |-> FALSE, fetched |-> {}, attempts |-> 0, result |-> 0]

Init ==
  /\ kind \in {"key", "pat", "token"}
  /\ now = 1
  /\ endedAt = [k \in Keys |-> Never]
  /\ keys = [known |-> {}, expiresAt |-> 0, lastUnknown |-> 0,
             retryAfter |-> 0, refreshing |-> FALSE]
  /\ pats = [k \in Keys |-> 0]
  /\ token = 0
  /\ flight = NoFlight
  /\ call = [c \in Callers |-> Idle]
  /\ failures = 0

Failure == failures < MaxFailures /\ failures' = failures + 1
Others == <<kind, now, endedAt>>
Goes(c, phase) == call' = [call EXCEPT ![c].phase = phase]

(* Time passes; the shared request is abandoned after a minute.            *)
Tick ==
  /\ now < MaxTime /\ now' = now + 1
  /\ flight.phase = "none" \/ now <= flight.started
  /\ UNCHANGED <<kind, endedAt, keys, pats, token, flight, call, failures>>

(* GitHub withdraws a key; a person revokes a PAT.                         *)
Ends(k) ==
  /\ kind # "token" /\ Published(k) /\ endedAt' = [endedAt EXCEPT ![k] = now]
  /\ UNCHANGED <<kind, now, keys, pats, token, flight, call, failures>>

Ask(c, k) ==
  /\ call[c].phase \in {"idle", "accepted", "refused"}
  /\ (k = "none") = (kind = "token")
  /\ call' = [call EXCEPT ![c] =
       [Idle EXCEPT !.phase = "asking", !.key = k, !.asked = now]]
  /\ UNCHANGED <<Others, keys, pats, token, flight, failures>>

----------------------------------------------------------------------------
(* The keys of GitHub: jwksCache.key, which looks again up to three times  *)

Fresh(at) == keys.known # {} /\ at < keys.expiresAt
MayRefreshUnknown(at) == keys.lastUnknown = 0 \/ at >= keys.lastUnknown + 1

(* Under the mutex: the key is known, is refused, or the keys are to be    *)
(* fetched, by this caller unless another one is at it.                    *)
LookUpKey(c) ==
  LET at == call[c].asked
      known == call[c].key \in keys.known
      fresh == Fresh(at) IN
  /\ call[c].phase = "asking" /\ kind = "key"
  /\ \/ /\ known /\ fresh
        /\ Goes(c, "accepted") /\ UNCHANGED keys
     \/ /\ ~fresh /\ at < keys.retryAfter
        /\ Goes(c, "refused") /\ UNCHANGED keys
     \/ /\ ~(known /\ fresh) /\ ~(~fresh /\ at < keys.retryAfter)
        /\ keys.refreshing
        /\ Goes(c, "waiting") /\ UNCHANGED keys
     \/ /\ ~known /\ fresh /\ ~keys.refreshing /\ ~MayRefreshUnknown(at)
        /\ Goes(c, "refused") /\ UNCHANGED keys
     \/ /\ ~keys.refreshing
        /\ IF fresh THEN ~known /\ MayRefreshUnknown(at)
                    ELSE at >= keys.retryAfter
        /\ keys' = [keys EXCEPT !.refreshing = TRUE]
        /\ call' = [call EXCEPT ![c].phase = "fetching",
                                ![c].unknown = fresh]
  /\ UNCHANGED <<Others, pats, token, flight, failures>>

(* The one who refreshed is done: those who waited look again, as of now.  *)
LookAgain(c) ==
  /\ call[c].phase = "waiting" /\ ~keys.refreshing
  /\ call' = [call EXCEPT
       ![c].phase = IF call[c].attempts = 2 THEN "refused" ELSE "asking",
       ![c].attempts = @ + 1, ![c].asked = now]
  /\ UNCHANGED <<Others, keys, pats, token, flight, failures>>

(* GitHub answers with the keys it publishes.                              *)
FetchKeys(c) ==
  /\ call[c].phase = "fetching"
  /\ call' = [call EXCEPT ![c].phase = "fetched",
                          ![c].fetched = {k \in Keys : Published(k)}]
  /\ UNCHANGED <<Others, keys, pats, token, flight, failures>>

(* Faulty variant: the keys are believed from when they arrive.            *)
StoreKeysOnArrival(c) ==
  LET r == call[c] IN
  /\ r.phase = "fetched"
  /\ keys' = [keys EXCEPT !.known = r.fetched, !.expiresAt = now + TTL,
                          !.retryAfter = 0, !.refreshing = FALSE]
  /\ Goes(c, IF r.key \in r.fetched THEN "accepted" ELSE "refused")
  /\ UNCHANGED <<Others, pats, token, flight, failures>>

(* They are believed from when they were asked for; an empty answer is a   *)
(* failed one.                                                             *)
StoreKeys(c) ==
  LET r == call[c] IN
  /\ r.phase = "fetched" /\ r.fetched # {}
  /\ keys' = [known |-> r.fetched, expiresAt |-> r.asked + TTL,
              lastUnknown |-> IF r.unknown THEN r.asked
                                           ELSE keys.lastUnknown,
              retryAfter |-> 0, refreshing |-> FALSE]
  /\ Goes(c, IF r.key \in r.fetched THEN "accepted" ELSE "refused")
  /\ UNCHANGED <<Others, pats, token, flight, failures>>

(* The refresh fails, or its caller goes away: nobody tries for a minute,  *)
(* and the keys known stay believed until they expire.                     *)
FetchFails(c) ==
  LET r == call[c] IN
  /\ \/ r.phase = "fetching" /\ Failure
     \/ r.phase = "fetched" /\ r.fetched = {} /\ UNCHANGED failures
  /\ keys' = [keys EXCEPT !.retryAfter = r.asked + 1, !.refreshing = FALSE,
                          !.lastUnknown = IF r.unknown THEN r.asked ELSE @]
  /\ Goes(c, "refused")
  /\ UNCHANGED <<Others, pats, token, flight>>

----------------------------------------------------------------------------
(* The PATs the Agent accepted: HTTPAuthVerifier.VerifyAuth *)

LookUpPAT(c) ==
  /\ call[c].phase = "asking" /\ kind = "pat"
  /\ Goes(c, IF call[c].asked < pats[call[c].key] THEN "accepted"
                                                  ELSE "verifying")
  /\ UNCHANGED <<Others, keys, pats, token, flight, failures>>

(* Cloud accepts or refuses it, or does not answer.                        *)
VerifyPAT(c) ==
  /\ call[c].phase = "verifying"
  /\ \/ Published(call[c].key) /\ Goes(c, "verified") /\ UNCHANGED failures
     \/ ~Published(call[c].key) /\ Goes(c, "refused") /\ UNCHANGED failures
     \/ Goes(c, "refused") /\ Failure
  /\ UNCHANGED <<Others, keys, pats, token, flight>>

StorePAT(c) ==
  /\ call[c].phase = "verified"
  /\ pats' = [pats EXCEPT ![call[c].key] = call[c].asked + TTL]
  /\ Goes(c, "accepted")
  /\ UNCHANGED <<Others, keys, token, flight, failures>>

----------------------------------------------------------------------------
(* The installation token: GitHubAppClient.InstallationToken *)

(* The token kept if it lives a minute more; otherwise the request under   *)
(* way is joined, or started.                                              *)
LookUpToken(c) ==
  /\ call[c].phase = "asking" /\ kind = "token"
  /\ IF token > call[c].asked + 1
       THEN /\ call' = [call EXCEPT ![c].phase = "accepted",
                                    ![c].result = token]
            /\ UNCHANGED flight
       ELSE /\ Goes(c, "joined")
            /\ flight' = IF flight.phase # "none" THEN flight
                         ELSE [phase |-> "asked", started |-> now,
                               expires |-> 0]
  /\ UNCHANGED <<Others, keys, pats, token, failures>>

FetchToken ==
  /\ flight.phase = "asked"
  /\ flight' = [flight EXCEPT !.phase = "issued", !.expires = now + Life]
  /\ UNCHANGED <<Others, keys, pats, token, call, failures>>

(* Everyone who joined gets the answer, or its error.                      *)
ShareToken ==
  /\ \/ flight.phase = "issued" /\ token' = flight.expires
        /\ call' = [c \in Callers |->
             IF call[c].phase = "joined"
               THEN [call[c] EXCEPT !.phase = "accepted",
                                    !.result = flight.expires]
               ELSE call[c]]
        /\ UNCHANGED failures
     \/ flight.phase # "none" /\ Failure
        /\ call' = [c \in Callers |->
             IF call[c].phase = "joined"
               THEN [call[c] EXCEPT !.phase = "refused"] ELSE call[c]]
        /\ UNCHANGED token
  /\ flight' = NoFlight
  /\ UNCHANGED <<Others, keys, pats>>

KeySteps == \E c \in Callers :
  \/ LookUpKey(c) \/ LookAgain(c) \/ FetchKeys(c) \/ StoreKeys(c)
  \/ FetchFails(c)
PATSteps == \E c \in Callers : LookUpPAT(c) \/ VerifyPAT(c) \/ StorePAT(c)
TokenSteps ==
  \/ \E c \in Callers : LookUpToken(c)
  \/ FetchToken \/ ShareToken
OutsideSteps ==
  \/ Tick
  \/ \E k \in Keys : Ends(k)
  \/ \E c \in Callers, k \in Keys \cup {"none"} : Ask(c, k)

Next == KeySteps \/ PATSteps \/ TokenSteps \/ OutsideSteps
Spec == Init /\ [][Next]_verificationVars

----------------------------------------------------------------------------
(* Nothing is believed for longer than TTL after it ended: a key GitHub    *)
(* withdrew or a PAT that was revoked is accepted only by those who asked  *)
(* less than TTL later, however long the refresh took and whoever shared   *)
(* it.  An installation token outlives the asking.                         *)
NothingOutlivesItsEnd ==
  \A c \in Callers : call[c].phase = "accepted" =>
    IF kind = "token" THEN call[c].result > call[c].asked
    ELSE call[c].asked < endedAt[call[c].key] + TTL
=============================================================================
