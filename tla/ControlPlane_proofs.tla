------------------------ MODULE ControlPlane_proofs ------------------------
(***************************************************************************)
(* Proofs about what users change through Cloud's control plane: logins    *)
(* and PATs, the GitHub installation, configurations and bootstrap         *)
(* sessions, each for any number of callers, applications and keys.        *)
(***************************************************************************)
EXTENDS MCControlPlane, Sequences, SequenceTheorems, FiniteSetTheorems, TLAPS

(* A token Cloud has issued; a login whose PAT is not in the keychain yet. *)
Issued(t)   == pat[t].status # "none"
Awaiting(l) == login[l].phase \in {"grant", "delivered"}

(* The phases of a login: before Cloud knows the user, and before it has   *)
(* issued the PAT.                                                         *)
Unresolved == {"none", "state", "authorized", "unknown"}
NotIssued  ==
  Unresolved \cup {"resolved", "issue", "selectGrant", "selection", "selected"}

PATs ==
  [user: Login!Users \cup {"none"}, status: {"none", "valid", "revoked"},
   purpose: {"none", "bootstrap", "login", "rotation"}]

LoginRecords ==
  [phase: NotIssued \cup {"grant", "delivered", "done"},
   asked: Repositories \cup {"none"}, subject: Apps \cup {"none"},
   projects: SUBSET Login!AllProjects, project: Login!AllProjects \cup {"none"},
   token: Login!Tokens \cup {0}]

LocalCommands ==
  [phase: {"none", "rotate", "store", "revokeOld", "logout", "delete", "done"},
   old: Login!Tokens \cup {0}, new: Login!Tokens \cup {0}]

AccessTypes ==
  /\ identity \in [Apps -> Login!Users \cup {"none"}]
  /\ pat \in [Login!Tokens -> PATs]
  /\ \A t \in Login!Tokens : pat[t].purpose # "none" => Issued(t)
  /\ login \in [Logins -> LoginRecords]
  /\ issued \in [Logins -> SUBSET Login!Tokens]
  /\ keychain \in Login!Tokens \cup {0}
  /\ command \in [Callers -> LocalCommands]

(* A login has its PAT from the moment Cloud issues it, and the user that  *)
(* PAT is of from the moment it knows the account.                         *)
LoginInv(l) ==
  /\ login[l].phase \in NotIssued => issued[l] = {}
  /\ issued[l] \subseteq {login[l].token}
  /\ login[l].phase \in {"authorized", "unknown"} => login[l].subject \in Apps
  /\ login[l].phase \notin Unresolved \cup {"done"} =>
       login[l].subject \in Apps /\ identity[login[l].subject] # "none"
  /\ \A t \in issued[l] :
       /\ Issued(t) /\ login[l].subject \in Apps
       /\ identity[login[l].subject] # "none"
       /\ pat[t].user = identity[login[l].subject]
       /\ <<pat[t].user, login[l].project>> \in members
  /\ Awaiting(l) => issued[l] = {login[l].token}

(* A PAT on its way to the keychain is valid and nobody's to revoke.       *)
Underway(t) ==
  /\ t \in Login!Tokens /\ pat[t].status = "valid" /\ t # keychain
  /\ \A c \in Callers : command[c].old # t

(* Tokens on their way are different ones.                                 *)
DeliveryInv ==
  /\ \A l \in Logins : Awaiting(l) =>
       Underway(login[l].token) /\ pat[login[l].token].purpose = "login"
  /\ \A l, k \in Logins :
       Awaiting(l) /\ Awaiting(k) /\ login[l].token = login[k].token => l = k

(* What the commands on the workstation hold: the old token was in the     *)
(* keychain when they began and is not there once they have replaced it,   *)
(* unless a person brought it back.                                        *)
CommandInv(c) ==
  /\ command[c].phase # "none" => command[c].old # 0 /\ Issued(command[c].old)
  /\ command[c].phase = "none" => command[c].old = 0
  /\ command[c].phase = "store" =>
       /\ Underway(command[c].new) /\ pat[command[c].new].purpose = "rotation"
       /\ \A d \in Callers \ {c} :
            command[d].phase = "store" => command[d].new # command[c].new
  /\ command[c].phase = "revokeOld" =>
       command[c].old # keychain \/ command[c].old \in givenUp
  /\ command[c].phase = "logout" => command[c].old \in givenUp

KeychainInv ==
  /\ keychain # 0 => Issued(keychain)
  /\ keychain # 0 /\ keychain \notin givenUp => pat[keychain].status = "valid"

AccessInv ==
  /\ AccessTypes
  /\ \A l \in Logins : LoginInv(l)
  /\ DeliveryInv
  /\ \A c \in Callers : CommandInv(c)
  /\ KeychainInv

AccessHolds == part = "access" => AccessInv

----------------------------------------------------------------------------
(* Accounts: what a person may do, and whose account a PAT is of, stands.  *)
AccountsGrow ==
  /\ identity' \in [Apps -> Login!Users \cup {"none"}]
  /\ \A s \in Apps : identity[s] # "none" => identity'[s] = identity[s]
  /\ members \subseteq members'

LEMMA TokenIsNotZero == 0 \notin Login!Tokens
BY DEF Login!Tokens

(* A fresh token is in nobody's hands.                                     *)
LEMMA FreshPAT ==
  ASSUME AccessInv, NEW t \in Login!FreshToken
  PROVE  /\ t \in Login!Tokens /\ ~Issued(t) /\ t # keychain
         /\ \A c \in Callers : command[c].old # t
         /\ \A c \in Callers : command[c].phase = "store" => command[c].new # t
         /\ \A l \in Logins : t \notin issued[l]
         /\ \A l \in Logins : Awaiting(l) => login[l].token # t
<1>1. t \in Login!Tokens /\ ~Issued(t)
  BY DEF Login!FreshToken, Login!NoPAT, Issued
<1> QED BY <1>1, TokenIsNotZero
        DEF AccessInv, KeychainInv, CommandInv, DeliveryInv, LoginInv, Underway, Issued

(* Steps of logins that neither issue nor deliver a PAT.                   *)
LEMMA LoginsGo ==
  ASSUME AccessInv, AccountsGrow, login' \in [Logins -> LoginRecords],
         UNCHANGED <<pat, issued, keychain, command, givenUp>>,
         \A l \in Logins :
           LoginInv(l)' /\ (Awaiting(l)' => Awaiting(l) /\ login'[l].token = login[l].token)
  PROVE  AccessInv'
<1>1. AccessTypes'
  BY DEF AccessInv, AccessTypes, AccountsGrow, Issued
<1>2. DeliveryInv'
  BY DEF AccessInv, DeliveryInv, Underway
<1>3. KeychainInv' /\ \A c \in Callers : CommandInv(c)'
  BY DEF AccessInv, KeychainInv, CommandInv, Underway, Issued
<1> QED BY <1>1, <1>2, <1>3 DEF AccessInv

LEMMA OneLoginGoes ==
  ASSUME AccessInv, AccountsGrow, NEW l \in Logins, NEW r \in LoginRecords,
         login' = [login EXCEPT ![l] = r],
         UNCHANGED <<pat, issued, keychain, command, givenUp>>,
         LoginInv(l)', Awaiting(l)' => Awaiting(l) /\ r.token = login[l].token
  PROVE  AccessInv'
<1>1. /\ login \in [Logins -> LoginRecords] /\ login' \in [Logins -> LoginRecords]
      /\ login'[l] = r
  BY DEF AccessInv, AccessTypes
<1>2. ASSUME NEW k \in Logins \ {l}
      PROVE  LoginInv(k)' /\ (Awaiting(k)' => Awaiting(k) /\ login'[k].token = login[k].token)
  <2>1. login'[k] = login[k] /\ LoginInv(k)
    BY DEF AccessInv, AccessTypes
  <2> QED BY <2>1 DEF LoginInv, Awaiting, Issued, AccountsGrow
<1> QED BY <1>1, <1>2, LoginsGo

LEMMA AccountsStand ==
  ASSUME AccessInv, UNCHANGED <<identity, members>>
  PROVE  AccountsGrow
BY DEF AccountsGrow, AccessInv, AccessTypes

(* A login that has no PAT yet moves on to another phase without one, or   *)
(* ends.                                                                   *)
LEMMA BrowserStep ==
  ASSUME AccessInv, NEW l \in Logins, NEW p, NEW s, NEW q,
         \/ p \in Repositories \cup {"none"} /\ Login!BrowserAuthStart(l, p)
         \/ s \in Apps /\ Login!BrowserAuthCallback(l, s)
         \/ Login!ResolveOAuthUser(l)
         \/ q \in Login!AllProjects /\ Login!SelectProject(l, q)
         \/ Login!BrowserAuthRedeem(l)
         \/ Login!LoginLapses(l)
  PROVE  AccessInv'
<1>1. /\ LoginInv(l) /\ login[l] \in LoginRecords /\ login \in [Logins -> LoginRecords]
      /\ identity \in [Apps -> Login!Users \cup {"none"}]
  BY DEF AccessInv, AccessTypes
<1>2. UNCHANGED <<identity, members, owner, pat, issued, keychain, command, givenUp>>
  BY DEF Login!BrowserAuthStart, Login!BrowserAuthCallback, Login!ResolveOAuthUser,
         Login!SelectProject, Login!BrowserAuthRedeem, Login!LoginLapses,
         Login!OnlyLogin, Login!Accounts, Login!Workstation
<1>3. AccountsGrow
  BY <1>2, AccountsStand
<1>4. CASE p \in Repositories \cup {"none"} /\ Login!BrowserAuthStart(l, p)
  <2> DEFINE r == [Login!NoLogin EXCEPT !.phase = "state", !.asked = p]
  <2>1. login' = [login EXCEPT ![l] = r] /\ login[l].phase = "none"
    BY <1>4 DEF Login!BrowserAuthStart
  <2>2. Login!NoLogin \in LoginRecords
    BY DEF Login!NoLogin, LoginRecords, NotIssued, Unresolved
  <2>3. r \in LoginRecords /\ login'[l] = r /\ r.phase = "state"
    BY <1>1, <1>4, <2>1, <2>2 DEF LoginRecords, NotIssued, Unresolved
  <2> HIDE DEF r
  <2>4. LoginInv(l)' /\ ~Awaiting(l)'
    BY <1>1, <1>2, <2>1, <2>3 DEF LoginInv, Awaiting, NotIssued, Unresolved
  <2> QED BY <1>2, <1>3, <2>1, <2>3, <2>4, OneLoginGoes
<1>5. ASSUME NEW x \in NotIssued \cup {"delivered", "done"},
             login' = [login EXCEPT ![l].phase = x],
             login[l].phase \in NotIssued => x \in NotIssued \cup {"done"},
             login[l].phase \notin NotIssued =>
               x = "done" \/ (x = "delivered" /\ Awaiting(l)),
             login[l].phase \in {"none", "state", "done"} => x = "done",
             x \notin Unresolved \cup {"done"} =>
               login[l].subject \in Apps /\ identity[login[l].subject] # "none",
             x \in {"authorized", "unknown"} => login[l].subject \in Apps
      PROVE  AccessInv'
  <2> DEFINE r == [login[l] EXCEPT !.phase = x]
  <2>1. login' = [login EXCEPT ![l] = r]
    BY <1>5
  <2>2. /\ r \in LoginRecords /\ login'[l] = r /\ r.phase = x /\ r.token = login[l].token
        /\ r.subject = login[l].subject /\ r.project = login[l].project
    BY <1>1, <2>1 DEF LoginRecords
  <2> HIDE DEF r
  <2>3. LoginInv(l)' /\ (Awaiting(l)' => Awaiting(l))
    BY <1>1, <1>2, <1>5, <2>2 DEF LoginInv, Awaiting, NotIssued, Unresolved, Issued
  <2> QED BY <1>2, <1>3, <2>1, <2>2, <2>3, OneLoginGoes
<1>6. CASE s \in Apps /\ Login!BrowserAuthCallback(l, s)
  <2>1. CASE Login!Goes(l, "done")
    BY <1>1, <1>5, <1>6, <2>1 DEF Login!Goes, Login!BrowserAuthCallback, Unresolved, NotIssued
  <2>2. CASE ~Login!Goes(l, "done")
    <3> DEFINE r == [login[l] EXCEPT !.phase = "authorized", !.subject = s]
    <3>1. login' = [login EXCEPT ![l] = r] /\ login[l].phase = "state"
      BY <1>6, <2>2 DEF Login!BrowserAuthCallback, Login!ExchangeGitHubUser
    <3>2. r \in LoginRecords /\ login'[l] = r /\ r.phase = "authorized" /\ r.subject = s
      BY <1>1, <1>6, <3>1 DEF LoginRecords, NotIssued, Unresolved
    <3> HIDE DEF r
    <3>3. LoginInv(l)' /\ ~Awaiting(l)'
      BY <1>1, <1>2, <1>6, <3>1, <3>2 DEF LoginInv, Awaiting, NotIssued, Unresolved
    <3> QED BY <1>2, <1>3, <3>1, <3>2, <3>3, OneLoginGoes
  <2> QED BY <2>1, <2>2
<1>7. CASE Login!ResolveOAuthUser(l)
  <2> DEFINE x == IF identity[login[l].subject] = "none" THEN "unknown" ELSE "resolved"
  <2>1. login[l].phase = "authorized" /\ login' = [login EXCEPT ![l].phase = x]
        /\ login[l].subject \in Apps
    BY <1>1, <1>7 DEF Login!ResolveOAuthUser, Login!Goes, LoginInv
  <2>2. x \in {"unknown", "resolved"}
        /\ (x = "resolved" => identity[login[l].subject] # "none")
    OBVIOUS
  <2> HIDE DEF x
  <2> QED BY <1>5, <2>1, <2>2 DEF NotIssued, Unresolved
<1>8. CASE Login!BrowserAuthRedeem(l)
  <2>1. PICK x \in {"delivered", "selection"} :
          /\ login' = [login EXCEPT ![l].phase = x]
          /\ login[l].phase = IF x = "delivered" THEN "grant" ELSE "selectGrant"
    BY <1>8 DEF Login!BrowserAuthRedeem, Login!Goes
  <2> QED BY <1>1, <1>5, <2>1 DEF LoginInv, Awaiting, NotIssued, Unresolved
<1>9. CASE Login!LoginLapses(l)
  BY <1>5, <1>9 DEF Login!LoginLapses, Login!Goes, NotIssued, Unresolved
<1>10. CASE q \in Login!AllProjects /\ Login!SelectProject(l, q)
  <2> DEFINE x == IF q \in login[l].projects THEN "selected" ELSE "done"
             y == IF q \in login[l].projects THEN q ELSE "none"
             r == [login[l] EXCEPT !.phase = x, !.project = y]
  <2>1. login' = [login EXCEPT ![l] = r] /\ login[l].phase = "selection"
    BY <1>10 DEF Login!SelectProject
  <2>2. x \in {"selected", "done"} /\ y \in Login!AllProjects \cup {"none"}
    BY <1>10
  <2> HIDE DEF x, y
  <2>3. /\ r \in LoginRecords /\ login'[l] = r /\ r.phase = x
        /\ r.subject = login[l].subject
    BY <1>1, <2>1, <2>2 DEF LoginRecords, NotIssued, Unresolved
  <2> HIDE DEF r
  <2>4. LoginInv(l)' /\ ~Awaiting(l)'
    BY <1>1, <1>2, <2>1, <2>2, <2>3 DEF LoginInv, Awaiting, NotIssued, Unresolved
  <2> QED BY <1>2, <1>3, <2>1, <2>3, <2>4, OneLoginGoes
<1> QED BY <1>4, <1>6, <1>7, <1>8, <1>9, <1>10

LEMMA ChooseProjectInv ==
  ASSUME AccessInv, NEW l \in Logins, Login!ChooseProject(l)
  PROVE  AccessInv'
<1> DEFINE its == Login!ProjectsOf(identity[login[l].subject])
           named == its \cap {login[l].asked}
<1>1. /\ LoginInv(l) /\ login[l] \in LoginRecords /\ login \in [Logins -> LoginRecords]
  BY DEF AccessInv, AccessTypes
<1>2. /\ UNCHANGED <<identity, members, pat, issued, keychain, command, givenUp>>
      /\ login[l].phase = "resolved" /\ its \subseteq Login!AllProjects
  BY DEF Login!ChooseProject, Login!OnlyLogin, Login!Accounts, Login!Workstation,
         Login!ProjectsOf
<1>3. AccountsGrow
  BY <1>2, AccountsStand
<1> DEFINE Goal ==
      \E x \in {"issue", "selectGrant"}, projects \in SUBSET Login!AllProjects,
         project \in Login!AllProjects \cup {"none"} :
        login' = [login EXCEPT ![l] =
          [login[l] EXCEPT !.phase = x, !.projects = projects, !.project = project]]
<1>4. Goal
  <2>1. CASE named # {}
    <3>1. login' = [login EXCEPT ![l].phase = "issue", ![l].project = login[l].asked]
      BY <2>1 DEF Login!ChooseProject
    <3>2. login' = [login EXCEPT ![l] =
                      [login[l] EXCEPT !.phase = "issue", !.projects = login[l].projects,
                                       !.project = login[l].asked]]
      BY <1>1, <3>1 DEF LoginRecords
    <3>3. login[l].asked \in Login!AllProjects /\ login[l].projects \in SUBSET Login!AllProjects
      BY <1>1, <1>2, <2>1 DEF LoginRecords
    <3> QED BY <3>2, <3>3
  <2>2. ASSUME NEW only \in its,
               login' = [login EXCEPT ![l].phase = "issue", ![l].project = only]
        PROVE  Goal
    <3>1. login' = [login EXCEPT ![l] =
                      [login[l] EXCEPT !.phase = "issue", !.projects = login[l].projects,
                                       !.project = only]]
      BY <1>1, <2>2 DEF LoginRecords
    <3>2. login[l].projects \in SUBSET Login!AllProjects /\ only \in Login!AllProjects
      BY <1>1, <1>2 DEF LoginRecords
    <3> QED BY <3>1, <3>2
  <2>3. CASE login' = [login EXCEPT ![l].phase = "selectGrant", ![l].projects = its]
    <3>1. login' = [login EXCEPT ![l].phase = "selectGrant", ![l].projects = its]
      BY <2>3
    <3> HIDE DEF its
    <3>2. login' = [login EXCEPT ![l] =
                      [login[l] EXCEPT !.phase = "selectGrant", !.projects = its,
                                       !.project = login[l].project]]
      BY <1>1, <3>1 DEF LoginRecords
    <3>3. login[l].project \in Login!AllProjects \cup {"none"}
      BY <1>1 DEF LoginRecords
    <3>4. its \in SUBSET Login!AllProjects
      BY <1>2
    <3> USE <3>3, <3>4
    <3> WITNESS "selectGrant" \in {"issue", "selectGrant"},
                its \in SUBSET Login!AllProjects,
                login[l].project \in Login!AllProjects \cup {"none"}
    <3> QED BY <3>2
  <2> HIDE DEF its, named
  <2>4. \/ named # {}
        \/ \E only \in its :
             login' = [login EXCEPT ![l].phase = "issue", ![l].project = only]
        \/ login' = [login EXCEPT ![l].phase = "selectGrant", ![l].projects = its]
    BY DEF Login!ChooseProject, its, named
  <2> QED BY <2>1, <2>2, <2>3, <2>4
<1>5. PICK x \in {"issue", "selectGrant"}, projects \in SUBSET Login!AllProjects,
           project \in Login!AllProjects \cup {"none"} :
        login' = [login EXCEPT ![l] =
          [login[l] EXCEPT !.phase = x, !.projects = projects, !.project = project]]
  BY <1>4
<1> DEFINE r == [login[l] EXCEPT !.phase = x, !.projects = projects, !.project = project]
<1>6. r \in LoginRecords /\ login'[l] = r /\ r.phase = x /\ r.subject = login[l].subject
  BY <1>1, <1>5 DEF LoginRecords, NotIssued
<1>7. login' = [login EXCEPT ![l] = r]
  BY <1>5
<1> HIDE DEF r
<1>8. LoginInv(l)' /\ ~Awaiting(l)'
  BY <1>1, <1>2, <1>6 DEF LoginInv, Awaiting, NotIssued, Unresolved
<1> QED BY <1>2, <1>3, <1>6, <1>7, <1>8, OneLoginGoes

LEMMA ProvisionOAuthUserInv ==
  ASSUME AccessInv, NEW l \in Logins, Login!ProvisionOAuthUser(l)
  PROVE  AccessInv'
<1> DEFINE s == login[l].subject
           r == [login[l] EXCEPT !.phase = "resolved"]
<1>1. /\ LoginInv(l) /\ login[l] \in LoginRecords /\ login \in [Logins -> LoginRecords]
      /\ identity \in [Apps -> Login!Users \cup {"none"}]
  BY DEF AccessInv, AccessTypes
<1>2. /\ UNCHANGED <<pat, issued, keychain, command, givenUp>>
      /\ login[l].phase = "unknown" /\ login' = [login EXCEPT ![l] = r] /\ s \in Apps
  BY <1>1 DEF Login!ProvisionOAuthUser, Login!Workstation, Login!Goes, LoginInv
<1>3. AccountsGrow /\ identity'[s] # "none"
  <2>1. CASE identity[s] # "none"
    <3>1. UNCHANGED <<identity, members>>
      BY <2>1 DEF Login!ProvisionOAuthUser
    <3> QED BY <2>1, <3>1, AccountsStand
  <2>2. CASE identity[s] = "none"
    <3>1. identity' = [identity EXCEPT ![s] = s] /\ members \subseteq members'
      BY <2>2 DEF Login!ProvisionOAuthUser
    <3> HIDE DEF s
    <3> QED BY <1>1, <1>2, <2>2, <3>1, ControlPlaneAssumption DEF AccountsGrow, Login!Users
  <2> QED BY <2>1, <2>2
<1>4. r \in LoginRecords /\ login'[l] = r /\ r.phase = "resolved" /\ r.subject = s
  BY <1>1, <1>2 DEF LoginRecords, NotIssued
<1> HIDE DEF r
<1>5. LoginInv(l)' /\ ~Awaiting(l)'
  BY <1>1, <1>2, <1>3, <1>4 DEF LoginInv, Awaiting, NotIssued, Unresolved
<1> QED BY <1>2, <1>3, <1>4, <1>5, OneLoginGoes

LEMMA CloudRestartInv ==
  ASSUME AccessInv, Login!CloudRestart
  PROVE  AccessInv'
<1>1. /\ UNCHANGED <<identity, members, pat, issued, keychain, command, givenUp>>
      /\ login' = [l \in Logins |->
           IF login[l].phase \in {"none", "delivered", "done"} THEN login[l]
           ELSE [login[l] EXCEPT !.phase = "done"]]
  BY DEF Login!CloudRestart, Login!OnlyLogin, Login!Accounts, Login!Workstation
<1>2. ASSUME NEW l \in Logins
      PROVE  /\ login'[l] \in LoginRecords /\ LoginInv(l)'
             /\ Awaiting(l)' => Awaiting(l) /\ login'[l].token = login[l].token
  <2>1. LoginInv(l) /\ login[l] \in LoginRecords
    BY DEF AccessInv, AccessTypes
  <2>2. CASE login[l].phase \in {"none", "delivered", "done"}
    BY <1>1, <2>1, <2>2 DEF LoginInv, Awaiting, Issued
  <2>3. CASE login[l].phase \notin {"none", "delivered", "done"}
    <3> DEFINE r == [login[l] EXCEPT !.phase = "done"]
    <3>1. /\ r \in LoginRecords /\ login'[l] = r /\ r.phase = "done"
          /\ r.token = login[l].token /\ r.subject = login[l].subject
          /\ r.project = login[l].project
      BY <1>1, <2>1, <2>3 DEF LoginRecords
    <3> HIDE DEF r
    <3> QED BY <1>1, <2>1, <3>1 DEF LoginInv, Awaiting, Issued, NotIssued, Unresolved
  <2> QED BY <2>2, <2>3
<1>3. AccountsGrow /\ login' \in [Logins -> LoginRecords]
  BY <1>1, <1>2, AccountsStand
<1> QED BY <1>1, <1>2, <1>3, LoginsGo

----------------------------------------------------------------------------
(* Cloud issues a PAT: it is nobody's yet.                                 *)
LEMMA IssueForInv ==
  ASSUME AccessInv, NEW l \in Logins, NEW next \in {"grant", "delivered"},
         login[l].phase \in {"issue", "selected"}, Login!IssueFor(l, next)
  PROVE  AccessInv'
<1> DEFINE user == identity[login[l].subject]
<1>1. PICK t \in Login!FreshToken :
        /\ <<user, login[l].project>> \in members
        /\ Login!IssuePAT(t, user, "login")
        /\ issued' = [issued EXCEPT ![l] = @ \cup {t}]
        /\ login' = [login EXCEPT ![l].phase = next, ![l].token = t]
        /\ UNCHANGED <<identity, members, owner, keychain, command, givenUp>>
  BY DEF Login!IssueFor, Login!Accounts, Login!Workstation
<1>2. /\ LoginInv(l) /\ login[l] \in LoginRecords /\ login \in [Logins -> LoginRecords]
      /\ issued \in [Logins -> SUBSET Login!Tokens] /\ pat \in [Login!Tokens -> PATs]
      /\ identity \in [Apps -> Login!Users \cup {"none"}]
  BY DEF AccessInv, AccessTypes
<1>3. /\ login[l].subject \in Apps /\ user # "none" /\ user \in Login!Users \cup {"none"}
      /\ issued[l] = {}
  BY <1>2 DEF LoginInv, NotIssued, Unresolved
<1> HIDE DEF user
<1>4. /\ t \in Login!Tokens /\ ~Issued(t) /\ t # keychain
      /\ \A c \in Callers : command[c].old # t
      /\ \A c \in Callers : command[c].phase = "store" => command[c].new # t
      /\ \A k \in Logins : t \notin issued[k]
      /\ \A k \in Logins : Awaiting(k) => login[k].token # t
  BY FreshPAT
<1> DEFINE p == [user |-> user, status |-> "valid", purpose |-> "login"]
           r == [login[l] EXCEPT !.phase = next, !.token = t]
<1>5. p \in PATs /\ pat' = [pat EXCEPT ![t] = p]
  BY <1>1, <1>3 DEF PATs, Login!IssuePAT
<1>6. /\ pat' \in [Login!Tokens -> PATs] /\ pat'[t] = p
      /\ \A u \in Login!Tokens \ {t} : pat'[u] = pat[u]
  BY <1>2, <1>4, <1>5
<1>7. p.status = "valid" /\ p.user = user /\ p.purpose = "login"
  OBVIOUS
<1> HIDE DEF p
<1>8. /\ r \in LoginRecords /\ r.phase = next /\ r.token = t
      /\ r.subject = login[l].subject /\ r.project = login[l].project
  BY <1>2, <1>4 DEF LoginRecords
<1>9. login' = [login EXCEPT ![l] = r]
  BY <1>1
<1> HIDE DEF r
<1>10. /\ login' \in [Logins -> LoginRecords] /\ login'[l] = r
       /\ \A k \in Logins \ {l} : login'[k] = login[k]
  BY <1>2, <1>8, <1>9
<1>11. /\ issued' \in [Logins -> SUBSET Login!Tokens] /\ issued'[l] = {t}
       /\ \A k \in Logins \ {l} : issued'[k] = issued[k]
  BY <1>1, <1>2, <1>3, <1>4
<1>12. AccessTypes'
  BY <1>1, <1>6, <1>7, <1>10, <1>11 DEF AccessInv, AccessTypes, Issued
<1>13. ASSUME NEW k \in Logins PROVE LoginInv(k)'
  <2>1. CASE k = l
    BY <1>1, <1>3, <1>6, <1>7, <1>8, <1>10, <1>11, <2>1
       DEF LoginInv, Awaiting, NotIssued, Unresolved, Issued, user
  <2>2. CASE k # l
    <3>1. LoginInv(k) /\ issued[k] \subseteq Login!Tokens \ {t}
      BY <1>2, <1>4 DEF AccessInv
    <3>2. \A u \in issued[k] : pat'[u] = pat[u]
      BY <1>6, <3>1
    <3>3. login'[k] = login[k] /\ issued'[k] = issued[k]
      BY <1>10, <1>11, <2>2
    <3>4. UNCHANGED <<identity, members>>
      BY <1>1
    <3> QED BY <3>1, <3>2, <3>3, <3>4 DEF LoginInv, Awaiting, Issued
  <2> QED BY <2>1, <2>2
<1>14. DeliveryInv'
  <2>1. \A k \in Logins \ {l} : Awaiting(k)' => Awaiting(k) /\ login[k].token \in Login!Tokens \ {t}
    BY <1>4, <1>10 DEF Awaiting, AccessInv, DeliveryInv, Underway
  <2>2. Underway(t)' /\ pat'[t].purpose = "login"
    BY <1>1, <1>4, <1>6, <1>7 DEF Underway
  <2> QED BY <1>1, <1>6, <1>8, <1>10, <2>1, <2>2
          DEF AccessInv, DeliveryInv, Underway, Awaiting
<1>15. ASSUME NEW u, Issued(u), u \in Login!Tokens PROVE u # t /\ pat'[u] = pat[u]
  BY <1>4, <1>6, <1>15
<1>16. ASSUME NEW c \in Callers PROVE CommandInv(c)'
  BY <1>1, <1>12, <1>15
     DEF AccessInv, AccessTypes, LocalCommands, CommandInv, Underway, Issued
<1>17. KeychainInv'
  BY <1>1, <1>6, <1>7, <1>15 DEF AccessInv, AccessTypes, KeychainInv, Issued
<1> QED BY <1>12, <1>13, <1>14, <1>16, <1>17 DEF AccessInv

LEMMA StoreDeliveredInv ==
  ASSUME AccessInv, NEW l \in Logins, Login!StoreDelivered(l)
  PROVE  AccessInv'
<1> DEFINE t == login[l].token
           r == [login[l] EXCEPT !.phase = "done"]
<1>1. /\ LoginInv(l) /\ login[l] \in LoginRecords /\ login \in [Logins -> LoginRecords]
      /\ DeliveryInv
  BY DEF AccessInv, AccessTypes
<1>2. /\ UNCHANGED <<identity, members, owner, pat, issued, command, givenUp>>
      /\ Awaiting(l) /\ keychain' = t /\ login' = [login EXCEPT ![l] = r]
  BY DEF Login!StoreDelivered, Login!Goes, Login!Accounts, Awaiting
<1>3. /\ r \in LoginRecords /\ login'[l] = r /\ r.phase = "done" /\ r.token = t
      /\ r.subject = login[l].subject /\ r.project = login[l].project
  BY <1>1, <1>2 DEF LoginRecords
<1> HIDE DEF r
<1>4. Underway(t) /\ pat[t].purpose = "login"
  BY <1>1, <1>2 DEF DeliveryInv
<1>5. AccessTypes'
  BY <1>1, <1>2, <1>3, <1>4 DEF AccessInv, AccessTypes, Underway, Issued
<1>6. \A k \in Logins \ {l} : login'[k] = login[k]
  BY <1>1, <1>2
<1>7. ASSUME NEW k \in Logins PROVE LoginInv(k)'
  <2>1. CASE k = l
    BY <1>1, <1>2, <1>3, <2>1 DEF LoginInv, Awaiting, Issued, NotIssued, Unresolved
  <2>2. CASE k # l
    BY <1>2, <1>6, <2>2 DEF AccessInv, LoginInv, Awaiting, Issued
  <2> QED BY <2>1, <2>2
<1>8. DeliveryInv'
  <2>1. \A k \in Logins :
          Awaiting(k)' => k # l /\ Awaiting(k) /\ login'[k] = login[k] /\ login[k].token # t
    BY <1>1, <1>2, <1>3, <1>6 DEF Awaiting, DeliveryInv
  <2> HIDE DEF t
  <2> QED BY <1>1, <1>2, <2>1 DEF DeliveryInv, Underway
<1>9. ASSUME NEW c \in Callers PROVE CommandInv(c)'
  <2>1. CommandInv(c)
    BY DEF AccessInv
  <2> HIDE DEF t
  <2> QED BY <1>2, <1>4, <2>1 DEF CommandInv, Underway, Issued
<1>10. KeychainInv'
  <2> HIDE DEF t
  <2> QED BY <1>2, <1>4 DEF AccessInv, KeychainInv, Issued, Underway
<1> QED BY <1>5, <1>7, <1>8, <1>9, <1>10 DEF AccessInv

(* A fresh PAT for the first owner or for a rotation.                      *)
LEMMA FreshPATInv ==
  ASSUME AccessInv, AccountsGrow, NEW t \in Login!FreshToken, NEW p \in PATs,
         p.status = "valid", p.purpose # "login", pat' = [pat EXCEPT ![t] = p],
         UNCHANGED <<login, issued, keychain, givenUp>>,
         command' \in [Callers -> LocalCommands],
         \A c \in Callers : command'[c].old = command[c].old,
         (\A c \in Callers : command'[c].phase = "none") =>
           \A c \in Callers : command[c].phase = "none",
         \A c \in Callers : CommandInv(c)'
  PROVE  AccessInv'
<1>1. /\ t \in Login!Tokens /\ t # keychain /\ \A l \in Logins : t \notin issued[l]
      /\ \A l \in Logins : Awaiting(l) => login[l].token # t
  BY FreshPAT
<1>2. /\ pat' \in [Login!Tokens -> PATs] /\ pat'[t] = p
      /\ \A u \in Login!Tokens \ {t} : pat'[u] = pat[u]
  BY <1>1 DEF AccessInv, AccessTypes
<1>3. AccessTypes'
  BY <1>2 DEF AccessInv, AccessTypes, AccountsGrow, Issued
<1>4. ASSUME NEW l \in Logins PROVE LoginInv(l)'
  <2>1. \A u \in issued[l] : pat'[u] = pat[u]
    BY <1>1, <1>2 DEF AccessInv, AccessTypes
  <2>2. LoginInv(l) /\ identity \in [Apps -> Login!Users \cup {"none"}]
    BY DEF AccessInv, AccessTypes
  <2> QED BY <2>1, <2>2 DEF LoginInv, Awaiting, Issued, AccountsGrow
<1>5. DeliveryInv'
  BY <1>1, <1>2 DEF AccessInv, DeliveryInv, Underway, Awaiting
<1>6. KeychainInv'
  <2>1. keychain # 0 => keychain \in Login!Tokens /\ pat'[keychain] = pat[keychain]
    BY <1>1, <1>2 DEF AccessInv, AccessTypes
  <2> QED BY <1>2, <2>1 DEF AccessInv, KeychainInv, Issued
<1> QED BY <1>3, <1>4, <1>5, <1>6 DEF AccessInv

(* Accounts change and nothing else does.                                  *)
LEMMA OnlyAccountsGo ==
  ASSUME AccessInv, AccountsGrow,
         UNCHANGED <<pat, login, issued, keychain, command, givenUp>>
  PROVE  AccessInv'
<1>1. login' \in [Logins -> LoginRecords]
  BY DEF AccessInv, AccessTypes
<1>2. \A l \in Logins : LoginInv(l)' /\ (Awaiting(l)' => Awaiting(l))
  BY DEF AccessInv, AccessTypes, LoginInv, Awaiting, Issued, AccountsGrow
<1> QED BY <1>1, <1>2, LoginsGo

LEMMA AccountStepsInv ==
  ASSUME AccessInv, Login!AccountSteps
  PROVE  AccessInv'
<1>1. /\ AccessTypes /\ identity \in [Apps -> Login!Users \cup {"none"}]
      /\ Login!Owner \in Login!Users
  BY DEF AccessInv, AccessTypes, Login!Users
<1>2. ASSUME NEW subjects \in {{}} \cup {{s} : s \in Apps}, NEW issue \in BOOLEAN,
             Login!ProvisionBootstrapOwner(subjects, issue)
      PROVE  AccessInv'
  <2>1. AccountsGrow
    <3>1. /\ \A s \in subjects : s \in Apps /\ identity[s] \in {"none", Login!Owner}
          /\ identity' = [s \in Apps |-> IF s \in subjects THEN Login!Owner ELSE identity[s]]
          /\ members \subseteq members'
      BY <1>2 DEF Login!ProvisionBootstrapOwner, Login!CanLink
    <3> QED BY <1>1, <3>1 DEF AccountsGrow
  <2>2. UNCHANGED <<login, issued, keychain, command, givenUp>>
    BY <1>2 DEF Login!ProvisionBootstrapOwner, Login!Workstation
  <2>3. CASE UNCHANGED pat
    BY <2>1, <2>2, <2>3, OnlyAccountsGo
  <2>4. CASE \E t \in Login!FreshToken : Login!IssuePAT(t, Login!Owner, "bootstrap")
    <3>1. PICK t \in Login!FreshToken : Login!IssuePAT(t, Login!Owner, "bootstrap")
      BY <2>4
    <3> DEFINE p == [user |-> Login!Owner, status |-> "valid", purpose |-> "bootstrap"]
    <3>2. /\ p \in PATs /\ pat' = [pat EXCEPT ![t] = p]
          /\ p.status = "valid" /\ p.purpose # "login"
      BY <1>1, <3>1 DEF PATs, Login!IssuePAT
    <3> HIDE DEF p
    <3>3. ASSUME NEW u, Issued(u), u \in Login!Tokens PROVE pat'[u] = pat[u]
      BY <1>1, <3>2, <3>3, FreshPAT DEF AccessTypes
    <3>4. ASSUME NEW c \in Callers PROVE CommandInv(c)'
      <4>1. CommandInv(c)
        BY DEF AccessInv
      <4> QED BY <1>1, <2>2, <3>3, <4>1 DEF AccessTypes, LocalCommands, CommandInv, Underway, Issued
    <3>5. command' \in [Callers -> LocalCommands]
      BY <1>1, <2>2 DEF AccessTypes
    <3> QED BY <2>1, <2>2, <3>2, <3>4, <3>5, FreshPATInv
  <2> QED BY <1>2, <2>3, <2>4 DEF Login!ProvisionBootstrapOwner
<1>3. ASSUME NEW s \in Apps, Login!LinkExistingOwner(s) PROVE AccessInv'
  <2>1. /\ identity[s] \in {"none", Login!Owner} /\ members \subseteq members'
        /\ identity' = [identity EXCEPT ![s] = Login!Owner]
        /\ UNCHANGED <<pat, login, issued, keychain, command, givenUp>>
    BY <1>3 DEF Login!LinkExistingOwner, Login!CanLink, Login!Workstation
  <2>2. AccountsGrow
    BY <1>1, <2>1 DEF AccountsGrow
  <2> QED BY <2>1, <2>2, OnlyAccountsGo
<1>4. ASSUME NEW p \in Repositories, Login!CreateProject(p) PROVE AccessInv'
  <2>1. /\ members \subseteq members'
        /\ UNCHANGED <<identity, pat, login, issued, keychain, command, givenUp>>
    BY <1>4 DEF Login!CreateProject, Login!Workstation
  <2>2. AccountsGrow
    BY <1>1, <2>1 DEF AccountsGrow
  <2> QED BY <2>1, <2>2, OnlyAccountsGo
<1>5. ASSUME NEW t \in Login!Tokens, Login!StoreInitialPAT(t) PROVE AccessInv'
  <2>1. /\ pat[t].purpose = "bootstrap" /\ keychain' = t
        /\ givenUp \subseteq givenUp'
        /\ Login!Replaced(t) => t \in givenUp'
        /\ UNCHANGED <<identity, members, pat, login, issued, command>>
    BY <1>5 DEF Login!StoreInitialPAT, Login!Accounts
  <2>2. Issued(t) /\ (t \notin givenUp' => pat[t].status = "valid")
    <3>1. pat[t] \in PATs /\ Issued(t)
      BY <1>1, <2>1 DEF AccessTypes
    <3>2. t \notin givenUp' => pat[t].status # "revoked"
      BY <2>1 DEF Login!Replaced
    <3> QED BY <3>1, <3>2 DEF PATs, Issued
  <2>3. AccessTypes'
    BY <1>1, <2>1 DEF AccessTypes, Issued
  <2>4. \A l \in Logins : LoginInv(l)'
    BY <2>1 DEF AccessInv, LoginInv, Awaiting, Issued
  <2>5. DeliveryInv'
    BY <2>1 DEF AccessInv, DeliveryInv, Underway, Awaiting
  <2>6. ASSUME NEW c \in Callers PROVE CommandInv(c)'
    <3>1. CommandInv(c)
      BY DEF AccessInv
    <3>2. command[c].phase = "revokeOld" => command[c].old # t \/ t \in givenUp'
      BY <2>1 DEF Login!Replaced
    <3>3. command[c].phase = "store" => (Underway(command[c].new))'
      BY <2>1, <3>1 DEF CommandInv, Underway
    <3> QED BY <2>1, <3>1, <3>2, <3>3 DEF CommandInv, Issued
  <2>7. KeychainInv'
    BY <2>1, <2>2 DEF AccessInv, KeychainInv, Issued
  <2> QED BY <2>3, <2>4, <2>5, <2>6, <2>7 DEF AccessInv
<1> QED BY <1>2, <1>3, <1>4, <1>5 DEF Login!AccountSteps

----------------------------------------------------------------------------
(* The commands of the workstation.                                        *)

(* A command begins with the token it finds in the keychain.               *)
LEMMA CommandBegins ==
  ASSUME AccessInv, NEW c \in Callers, NEW x \in {"rotate", "logout"},
         command[c].phase = "none", keychain # 0,
         command' = [command EXCEPT ![c] = [phase |-> x, old |-> keychain, new |-> 0]],
         givenUp \subseteq givenUp', x = "logout" => keychain \in givenUp',
         UNCHANGED <<identity, members, pat, login, issued, keychain>>
  PROVE  AccessInv'
<1> DEFINE r == [phase |-> x, old |-> keychain, new |-> 0]
<1>1. /\ AccessTypes /\ r \in LocalCommands /\ r.phase = x /\ r.old = keychain
      /\ Issued(keychain)
  BY DEF AccessInv, AccessTypes, KeychainInv, LocalCommands
<1>2. command' = [command EXCEPT ![c] = r]
  OBVIOUS
<1> HIDE DEF r
<1>3. /\ command' \in [Callers -> LocalCommands] /\ command'[c] = r
      /\ \A d \in Callers \ {c} : command'[d] = command[d]
  BY <1>1, <1>2 DEF AccessTypes
<1>4. AccessTypes' /\ \A l \in Logins : LoginInv(l)'
  BY <1>1, <1>3 DEF AccessInv, AccessTypes, LoginInv, Awaiting, Issued
<1>5. \A t : Underway(t) => Underway(t)'
  BY <1>1, <1>3 DEF Underway
<1>6. DeliveryInv'
  BY <1>5 DEF AccessInv, DeliveryInv, Awaiting
<1>7. ASSUME NEW d \in Callers PROVE CommandInv(d)'
  BY <1>1, <1>3, <1>5 DEF AccessInv, CommandInv, Issued
<1>8. KeychainInv'
  BY <1>1, <1>3 DEF AccessInv, KeychainInv, Issued
<1> QED BY <1>4, <1>6, <1>7, <1>8 DEF AccessInv

(* A command goes on: it may put its new token into the keychain or empty  *)
(* it, and revoke a token nobody has or one a person has given up.         *)
LEMMA CommandGoes ==
  ASSUME AccessInv, NEW c \in Callers, NEW x \in {"revokeOld", "delete", "done"},
         command[c].phase # "none",
         command' = [command EXCEPT ![c].phase = x],
         \/ keychain' \in {keychain, 0}
         \/ command[c].phase = "store" /\ keychain' = command[c].new,
         x = "revokeOld" => command[c].phase = "store" /\ keychain' = command[c].new,
         \/ UNCHANGED pat
         \/ /\ pat' = [pat EXCEPT ![command[c].old].status = "revoked"]
            /\ command[c].old # keychain' \/ command[c].old \in givenUp,
         UNCHANGED <<identity, members, login, issued, givenUp>>
  PROVE  AccessInv'
<1> DEFINE r == [command[c] EXCEPT !.phase = x]
           o == command[c].old
<1>1. /\ AccessTypes /\ command[c] \in LocalCommands /\ CommandInv(c)
      /\ command' = [command EXCEPT ![c] = r]
  BY DEF AccessInv, AccessTypes
<1>2. r \in LocalCommands /\ r.phase = x /\ r.old = o
  BY <1>1 DEF LocalCommands
<1> HIDE DEF r
<1>3. /\ command' \in [Callers -> LocalCommands] /\ command'[c] = r
      /\ \A d \in Callers \ {c} : command'[d] = command[d]
  BY <1>1, <1>2 DEF AccessTypes
<1>4. o \in Login!Tokens /\ Issued(o)
  BY <1>1 DEF CommandInv, LocalCommands
<1>5. /\ pat' \in [Login!Tokens -> PATs]
      /\ \A t \in Login!Tokens :
           /\ t # o => pat'[t] = pat[t]
           /\ pat'[t].user = pat[t].user /\ pat'[t].purpose = pat[t].purpose
           /\ Issued(t)' <=> Issued(t)
           /\ pat[t].status # "revoked" => pat'[t].status = "revoked" \/ pat'[t] = pat[t]
  <2>1. CASE UNCHANGED pat
    BY <1>1, <2>1 DEF AccessTypes, Issued
  <2>2. CASE pat' = [pat EXCEPT ![o].status = "revoked"]
    <3> DEFINE p == [pat[o] EXCEPT !.status = "revoked"]
    <3>1. /\ p \in PATs /\ p.status = "revoked" /\ p.user = pat[o].user
          /\ p.purpose = pat[o].purpose /\ pat' = [pat EXCEPT ![o] = p]
      BY <1>1, <1>4, <2>2 DEF AccessTypes, PATs
    <3> HIDE DEF p, o
    <3> QED BY <1>1, <1>4, <3>1 DEF AccessTypes, Issued
  <2> QED BY <2>1, <2>2
<1>6. command[c].phase = "store" =>
        Underway(command[c].new) /\ pat[command[c].new].purpose = "rotation"
  BY <1>1 DEF CommandInv
<1>7. keychain' \in Login!Tokens \cup {0}
  BY <1>1, <1>6 DEF AccessTypes, Underway
<1> HIDE DEF o
<1>8. AccessTypes'
  BY <1>1, <1>3, <1>5, <1>7 DEF AccessTypes
<1>9. \A l \in Logins : LoginInv(l)'
  BY <1>1, <1>5 DEF AccessInv, AccessTypes, LoginInv, Awaiting
<1>10. ASSUME NEW t, Underway(t),
              command[c].phase = "store" => t # command[c].new
       PROVE  Underway(t)' /\ pat'[t].purpose = pat[t].purpose
  BY <1>2, <1>3, <1>5, <1>10, TokenIsNotZero DEF Underway, o
<1>11. DeliveryInv'
  BY <1>6, <1>10 DEF AccessInv, DeliveryInv, Awaiting
<1>12. ASSUME NEW d \in Callers PROVE CommandInv(d)'
  <2>1. CASE d = c
    BY <1>1, <1>2, <1>3, <1>4, <1>5, <1>6, <2>1, TokenIsNotZero DEF CommandInv, Underway, o
  <2>2. CASE d # c
    <3>1. /\ CommandInv(d) /\ command'[d] = command[d] /\ command[d] \in LocalCommands
      BY <1>1, <1>3, <2>2 DEF AccessInv, AccessTypes
    <3>2. command[d].phase = "store" =>
            Underway(command[d].new)' /\ pat'[command[d].new].purpose = "rotation"
      BY <1>1, <1>10, <2>2, <3>1 DEF CommandInv
    <3>3. command[d].phase # "none" =>
            command[d].old \in Login!Tokens /\ (Issued(command[d].old))'
      BY <1>5, <3>1 DEF CommandInv, LocalCommands
    <3>4. command[d].phase = "revokeOld" =>
            command[d].old # keychain' \/ command[d].old \in givenUp'
      BY <1>6, <3>1, <3>3, TokenIsNotZero DEF CommandInv, Underway
    <3>5. \A e \in Callers \ {d} : command'[e].phase = "store" =>
            command[e].phase = "store" /\ command'[e].new = command[e].new
      BY <1>2, <1>3
    <3>6. command'[d].phase = "store" => \A e \in Callers \ {d} :
            command'[e].phase = "store" => command'[e].new # command'[d].new
      BY <3>1, <3>5 DEF CommandInv
    <3> QED BY <3>1, <3>2, <3>3, <3>4, <3>6 DEF CommandInv, Underway, Issued
  <2> QED BY <2>1, <2>2
<1>13. KeychainInv'
  <2>1. keychain' # 0 => (Issued(keychain))'
    BY <1>5, <1>6, <1>7 DEF AccessInv, KeychainInv, Underway, Issued
  <2>2. keychain' # 0 /\ keychain' \notin givenUp => pat'[keychain'].status = "valid"
    BY <1>5, <1>6, <1>7 DEF AccessInv, KeychainInv, Underway, o
  <2>3. \E d \in Callers : command'[d].phase # "none"
    BY <1>2, <1>3
  <2> QED BY <2>1, <2>2, <2>3 DEF KeychainInv
<1> QED BY <1>8, <1>9, <1>11, <1>12, <1>13 DEF AccessInv

LEMMA RotatePATInv ==
  ASSUME AccessInv, NEW c \in Callers, NEW project, Login!RotatePAT(c, project)
  PROVE  AccessInv'
<1>1. /\ UNCHANGED <<identity, members, login, issued, keychain, givenUp>>
      /\ command[c].phase = "rotate" /\ AccessTypes /\ CommandInv(c)
      /\ command[c] \in LocalCommands
  BY DEF Login!RotatePAT, Login!OnlyCommands, Login!Accounts, AccessInv, AccessTypes
<1>2. CASE ~Login!Verified(command[c].old, project)
  <2>1. command' = [command EXCEPT ![c].phase = "done"] /\ UNCHANGED pat
    BY <1>2 DEF Login!RotatePAT
  <2> QED BY <1>1, <2>1, CommandGoes
<1>3. CASE Login!Verified(command[c].old, project)
  <2>1. PICK t \in Login!FreshToken :
          /\ Login!IssuePAT(t, pat[command[c].old].user, "rotation")
          /\ command' = [command EXCEPT ![c].phase = "store", ![c].new = t]
    BY <1>3 DEF Login!RotatePAT
  <2> DEFINE p == [user |-> pat[command[c].old].user, status |-> "valid",
                   purpose |-> "rotation"]
             r == [command[c] EXCEPT !.phase = "store", !.new = t]
  <2>2. command[c].old \in Login!Tokens /\ pat[command[c].old] \in PATs
    BY <1>1 DEF CommandInv, LocalCommands, AccessTypes
  <2>3. /\ p \in PATs /\ pat' = [pat EXCEPT ![t] = p]
        /\ p.status = "valid" /\ p.purpose = "rotation"
    BY <2>1, <2>2 DEF PATs, Login!IssuePAT
  <2> HIDE DEF p
  <2>4. /\ t \in Login!Tokens /\ ~Issued(t) /\ t # keychain
        /\ \A d \in Callers : command[d].old # t
        /\ \A d \in Callers : command[d].phase = "store" => command[d].new # t
    BY FreshPAT
  <2>5. /\ r \in LocalCommands /\ r.phase = "store" /\ r.new = t
        /\ r.old = command[c].old /\ command' = [command EXCEPT ![c] = r]
    BY <1>1, <2>1, <2>4 DEF LocalCommands
  <2> HIDE DEF r
  <2>6. /\ command' \in [Callers -> LocalCommands] /\ command'[c] = r
        /\ \A d \in Callers \ {c} : command'[d] = command[d]
    BY <1>1, <2>5 DEF AccessTypes
  <2>7. /\ pat'[t] = p /\ \A u \in Login!Tokens \ {t} : pat'[u] = pat[u]
    BY <1>1, <2>3, <2>4 DEF AccessTypes
  <2>8. \A d \in Callers : command'[d].old = command[d].old
    BY <2>5, <2>6
  <2>9. ASSUME NEW d \in Callers PROVE CommandInv(d)'
    <3>1. CASE d = c
      <4>1. (Underway(t))'
        BY <1>1, <2>3, <2>4, <2>7, <2>8 DEF Underway
      <4>2. pat'[command'[c].old].status # "none" /\ command'[c].old # 0
        BY <1>1, <2>2, <2>4, <2>7, <2>8 DEF CommandInv, Issued
      <4> QED BY <2>3, <2>4, <2>5, <2>6, <2>7, <3>1, <4>1, <4>2 DEF CommandInv, Issued
    <3>2. CASE d # c
      <4>1. CommandInv(d) /\ command'[d] = command[d] /\ command[d] \in LocalCommands
        BY <1>1, <2>6, <3>2 DEF AccessInv, AccessTypes
      <4>2. command[d].phase = "store" =>
              Underway(command[d].new)' /\ pat'[command[d].new].purpose = "rotation"
        BY <1>1, <2>4, <2>7, <2>8, <4>1 DEF CommandInv, Underway
      <4>3. command[d].phase # "none" => (Issued(command[d].old))'
        BY <2>4, <2>7, <4>1 DEF CommandInv, LocalCommands, Issued
      <4>4. \A e \in Callers \ {d} : command[d].phase = "store" /\ command'[e].phase = "store"
              => command'[e].new # command[d].new
        BY <2>4, <2>5, <2>6, <4>1 DEF CommandInv
      <4> QED BY <1>1, <4>1, <4>2, <4>3, <4>4 DEF CommandInv
    <3> QED BY <3>1, <3>2
  <2>10. AccountsGrow /\ \E d \in Callers : command'[d].phase # "none"
    BY <1>1, <2>5, <2>6, AccountsStand
  <2> QED BY <1>1, <2>3, <2>6, <2>8, <2>9, <2>10, FreshPATInv
<1> QED BY <1>2, <1>3

LEMMA CommandStepsInv ==
  ASSUME AccessInv, Login!CommandSteps
  PROVE  AccessInv'
<1> USE DEF Login!OnlyCommands, Login!Accounts
<1>1. ASSUME NEW c \in Callers, Login!RotateStart(c) PROVE AccessInv'
  BY <1>1, CommandBegins DEF Login!RotateStart
<1>2. ASSUME NEW c \in Callers, Login!LogoutStart(c) PROVE AccessInv'
  <2>1. keychain \in givenUp' /\ givenUp \subseteq givenUp'
    BY <1>2 DEF Login!LogoutStart
  <2> QED BY <1>2, <2>1, CommandBegins DEF Login!LogoutStart
<1>3. ASSUME NEW c \in Callers, Login!RotateStore(c) PROVE AccessInv'
  <2>1. CASE keychain' = command[c].new
    <3>1. PICK x \in {"revokeOld", "done"} : command' = [command EXCEPT ![c].phase = x]
      BY <1>3 DEF Login!RotateStore
    <3> QED BY <1>3, <2>1, <3>1, CommandGoes DEF Login!RotateStore
  <2>2. CASE keychain' = keychain /\ command' = [command EXCEPT ![c].phase = "done"]
    BY <1>3, <2>2, CommandGoes DEF Login!RotateStore
  <2> QED BY <1>3, <2>1, <2>2 DEF Login!RotateStore
<1>4. ASSUME NEW c \in Callers, Login!LogoutDelete(c) PROVE AccessInv'
  BY <1>4, CommandGoes DEF Login!LogoutDelete
<1>5. ASSUME NEW c \in Callers, Login!CommandCrash(c) PROVE AccessInv'
  BY <1>5, CommandGoes DEF Login!CommandCrash
<1>6. ASSUME NEW c \in Callers, NEW p, Login!RotateRevoke(c, p) PROVE AccessInv'
  <2>1. command[c].old # keychain \/ command[c].old \in givenUp
    BY <1>6 DEF Login!RotateRevoke, AccessInv, CommandInv
  <2> QED BY <1>6, <2>1, CommandGoes DEF Login!RotateRevoke, Login!RevokeCloudPAT
<1>7. ASSUME NEW c \in Callers, NEW p, Login!LogoutRevoke(c, p) PROVE AccessInv'
  <2>1. command[c].old \in givenUp
    BY <1>7 DEF Login!LogoutRevoke, AccessInv, CommandInv
  <2> QED BY <1>7, <2>1, CommandGoes DEF Login!LogoutRevoke, Login!RevokeCloudPAT
<1> QED BY <1>1, <1>2, <1>3, <1>4, <1>5, <1>6, <1>7, RotatePATInv DEF Login!CommandSteps

----------------------------------------------------------------------------
LEMMA AccessInitInv == Login!Init => AccessInv
<1> SUFFICES ASSUME Login!Init PROVE AccessInv
  OBVIOUS
<1>1. Login!NoPAT \in PATs /\ Login!NoPAT.purpose = "none" /\ Login!NoPAT.status = "none"
  BY DEF Login!NoPAT, PATs
<1>2. /\ Login!NoLogin \in LoginRecords /\ Login!NoLogin.phase = "none"
  BY DEF Login!NoLogin, LoginRecords, NotIssued, Unresolved
<1>3. /\ Login!NoCommand \in LocalCommands /\ Login!NoCommand.phase = "none"
      /\ Login!NoCommand.old = 0
  BY DEF Login!NoCommand, LocalCommands
<1>4. AccessTypes
  BY <1>1, <1>2, <1>3 DEF Login!Init, AccessTypes
<1>5. \A l \in Logins : LoginInv(l) /\ ~Awaiting(l)
  BY <1>2 DEF Login!Init, LoginInv, Awaiting, NotIssued, Unresolved
<1>6. \A c \in Callers : CommandInv(c)
  BY <1>3 DEF Login!Init, CommandInv
<1>7. KeychainInv
  BY <1>1 DEF Login!Init, KeychainInv
<1> QED BY <1>4, <1>5, <1>6, <1>7 DEF AccessInv, DeliveryInv

LEMMA LoginStepsInv ==
  ASSUME AccessInv, Login!LoginSteps
  PROVE  AccessInv'
<1>1. CASE \E l \in Logins, p \in Repositories \cup {"none"} : Login!BrowserAuthStart(l, p)
  BY <1>1, BrowserStep
<1>2. CASE \E l \in Logins, s \in Apps : Login!BrowserAuthCallback(l, s)
  BY <1>2, BrowserStep
<1>3. ASSUME NEW l \in Logins,
             \/ Login!ResolveOAuthUser(l) \/ Login!ProvisionOAuthUser(l)
             \/ Login!ChooseProject(l) \/ Login!IssueGrant(l)
             \/ Login!BrowserAuthRedeem(l) \/ Login!IssueSelected(l)
             \/ Login!LoginLapses(l) \/ Login!StoreDelivered(l)
      PROVE  AccessInv'
  BY <1>3, BrowserStep, ProvisionOAuthUserInv, ChooseProjectInv, IssueForInv,
     StoreDeliveredInv DEF Login!IssueGrant, Login!IssueSelected
<1>4. CASE \E l \in Logins, p \in Login!AllProjects : Login!SelectProject(l, p)
  BY <1>4, BrowserStep
<1> QED BY <1>1, <1>2, <1>3, <1>4, CloudRestartInv DEF Login!LoginSteps

LEMMA AccessStepsInv ==
  ASSUME AccessInv, UNCHANGED accessVars
  PROVE  AccessInv'
BY DEF accessVars, AccessInv, AccessTypes, LoginInv, DeliveryInv, CommandInv,
       KeychainInv, Underway, Issued, Awaiting

(* A login ends in at most one PAT, of the user the authorized account is  *)
(* linked to; and however rotations, logouts and logins interleave, the    *)
(* keychain holds no PAT Cloud refuses that nobody asked to revoke.        *)
THEOREM KeychainStaysGood == ControlPlaneSpec => []AccessIsSound
<1> DEFINE Mine == part = "access"
<1>1. ControlPlaneInit => AccessHolds
  BY AccessInitInv DEF ControlPlaneInit, HostParts, AccessHolds
<1>2. AccessHolds /\ [ControlPlaneNext]_controlPlaneVars => AccessHolds'
  <2> SUFFICES ASSUME AccessHolds, [ControlPlaneNext]_controlPlaneVars, part' = "access"
               PROVE  AccessInv'
    BY DEF AccessHolds
  <2>1. CASE UNCHANGED controlPlaneVars
    BY <2>1, AccessStepsInv DEF controlPlaneVars, AccessHolds
  <2>2. CASE ControlPlaneNext
    <3>1. /\ part = "access"
          /\ Login!AccountSteps \/ Login!LoginSteps \/ Login!CommandSteps
      BY <2>2 DEF ControlPlaneNext, ConfigurationMoves, HostMoves,
                  HostParts, GitHubMoves, AccessMoves
    <3> QED BY <3>1, AccountStepsInv, LoginStepsInv, CommandStepsInv DEF AccessHolds
  <2> QED BY <2>1, <2>2
<1>3. AccessHolds => AccessIsSound
  <2> SUFFICES ASSUME AccessInv PROVE Login!OneLoginOnePAT /\ Login!KeychainIsGood
    BY DEF AccessHolds, AccessIsSound
  <2>1. Login!OneLoginOnePAT
    BY DEF AccessInv, LoginInv, Login!OneLoginOnePAT
  <2>2. Login!KeychainIsGood
    BY DEF AccessInv, KeychainInv, Login!KeychainIsGood
  <2> QED BY <2>1, <2>2
<1> QED BY <1>1, <1>2, <1>3, PTL DEF ControlPlaneSpec

----------------------------------------------------------------------------
(* GitHub: webhooks, claims and bindings.                                  *)

Announcements ==
  [event: {"none", "installation", "installation_repositories", "repository"},
   action: {"none", "created", "suspend", "unsuspend", "deleted",
            "new_permissions_accepted", "added", "removed", "transferred",
            "archived", "unarchived", "edited"},
   repository: Repositories \cup {"none"}, archived: BOOLEAN]
WebhookRequests ==
  [phase: {"idle", "reserved", "handled"}, delivery: Apps \cup {"none"}]

Flows ==
  [phase: {"none", "started", "verified", "syncing", "granted"},
   status: GitHub!Statuses \cup {"none"}, repositories: SUBSET Repositories,
   archived: SUBSET Repositories]

RepositoryRows ==
  [status: {"none", "active", "removed", "deleted"}, archived: BOOLEAN]

(* An announcement about a repository names one.                           *)
WebhookTypes ==
  /\ github \in [status: GitHub!Statuses \cup {"none"},
                 repositories: SUBSET Repositories, archived: SUBSET Repositories]
  /\ deliveries \in [Apps -> Announcements]
  /\ \A d \in Apps :
       deliveries[d].event \in {"installation_repositories", "repository"} =>
         deliveries[d].repository \in Repositories
  /\ replay \in [Apps -> {"none", "in_flight", "completed"}]
  /\ handler \in [Callers -> WebhookRequests]
  /\ applied \in [Apps -> {0, 1}]

RowTypes ==
  /\ installation \in GitHub!Statuses \cup {"none"}
  /\ repository \in [Repositories -> RepositoryRows]
  /\ claim \in [Repositories -> Callers \cup {"none"}]
  /\ serviceBinding \in [GitHub!Services -> Repositories \cup {"none"}]
  /\ flow \in [Callers -> Flows]
  /\ \A p \in Callers : flow[p].phase = "verified" => flow[p].status # "none"

(* No repository is known under an unknown installation.                   *)
KnownUnderInstallation ==
  installation # "none" \/ \A r \in Repositories : repository[r] = GitHub!NoRow

(* A delivery is recorded before its request is handled, before the replay *)
(* store calls it completed and before GitHub is told so.                  *)
DeliveryOrder ==
  /\ \A h \in Callers :
       /\ handler[h].phase # "idle" => handler[h].delivery \in Apps
       /\ handler[h].phase = "handled" => handler[h].delivery \in recorded
  /\ GitHub!DeliveriesApplyOnce

BoundToOwner ==
  \A s \in GitHub!Services :
    serviceBinding[s] # "none" => claim[serviceBinding[s]] = s[1]

GitHubInv ==
  WebhookTypes /\ RowTypes /\ KnownUnderInstallation /\ DeliveryOrder /\ BoundToOwner

GitHubHolds == part = "github" => GitHubInv

LEMMA GitHubInitInv == GitHub!Init => GitHubInv
<1> SUFFICES ASSUME GitHub!Init PROVE GitHubInv
  OBVIOUS
<1>1. WebhookTypes
  BY DEF GitHub!Init, WebhookTypes, GitHub!Statuses, GitHub!NoEvent, GitHub!NoHandler,
         Announcements, WebhookRequests
<1>2. RowTypes
  BY DEF GitHub!Init, RowTypes, GitHub!NoRow, GitHub!NoFlow, RepositoryRows, Flows
<1>3. KnownUnderInstallation /\ BoundToOwner
  BY DEF GitHub!Init, KnownUnderInstallation, BoundToOwner
<1>4. DeliveryOrder
  BY DEF GitHub!Init, DeliveryOrder, GitHub!DeliveriesApplyOnce, GitHub!NoHandler
<1> QED BY <1>1, <1>2, <1>3, <1>4 DEF GitHubInv

(* What happens at GitHub touches no row of Cloud's.                       *)
LEMMA AnnounceInv ==
  ASSUME GitHubInv, NEW event, NEW action, NEW repo, NEW archived,
         [event |-> event, action |-> action, repository |-> repo,
          archived |-> archived] \in Announcements,
         event # "installation" => repo \in Repositories,
         GitHub!Announce(event, action, repo, archived),
         github' \in [status: GitHub!Statuses \cup {"none"},
                      repositories: SUBSET Repositories, archived: SUBSET Repositories]
  PROVE  GitHubInv'
<1> DEFINE e == [event |-> event, action |-> action, repository |-> repo,
                 archived |-> archived]
<1>1. PICK d \in Apps :
        /\ deliveries' = [deliveries EXCEPT ![d] = e]
        /\ UNCHANGED <<replay, handler, applied, answered, recorded, installation,
                       repository, link, claim, serviceBinding, flow>>
  BY DEF GitHub!Announce, GitHub!RowVars, GitHub!IntakeVars
<1>2. e \in Announcements /\ e.event = event /\ e.repository = repo
  OBVIOUS
<1> HIDE DEF e
<1>3. WebhookTypes'
  BY <1>1, <1>2 DEF GitHubInv, WebhookTypes
<1>4. RowTypes' /\ KnownUnderInstallation' /\ BoundToOwner' /\ DeliveryOrder'
  BY <1>1 DEF GitHubInv, RowTypes, KnownUnderInstallation, BoundToOwner, DeliveryOrder,
              GitHub!DeliveriesApplyOnce
<1> QED BY <1>3, <1>4 DEF GitHubInv

LEMMA GitHubChangesInv ==
  ASSUME GitHubInv, GitHub!GitHubChanges
  PROVE  GitHubInv'
<1> DEFINE Installations == [status: GitHub!Statuses \cup {"none"},
                             repositories: SUBSET Repositories,
                             archived: SUBSET Repositories]
<1>1. github \in Installations
  BY DEF GitHubInv, WebhookTypes
<1>2. ASSUME GitHub!InstallationChanges PROVE GitHubInv'
  <2>1. github' \in Installations
    BY <1>1, <1>2 DEF GitHub!InstallationChanges, GitHub!Statuses
  <2>2. PICK action \in {"created", "suspend", "unsuspend", "deleted",
                         "new_permissions_accepted"} :
          GitHub!Announce("installation", action, "none", FALSE)
    BY <1>2 DEF GitHub!InstallationChanges
  <2> QED BY <2>1, <2>2, AnnounceInv DEF Announcements
<1>3. ASSUME NEW r \in Repositories, GitHub!RepositoryChanges(r) PROVE GitHubInv'
  <2>1. github' \in Installations
    BY <1>1, <1>3 DEF GitHub!RepositoryChanges
  <2>2. \/ GitHub!Announce("installation_repositories", "removed", r, FALSE)
        \/ GitHub!Announce("repository", "deleted", r, FALSE)
        \/ GitHub!Announce("installation_repositories", "added", r, FALSE)
        \/ GitHub!Announce("repository", "transferred", r, r \in github.archived)
        \/ GitHub!Announce("repository", "archived", r, TRUE)
        \/ GitHub!Announce("repository", "unarchived", r, FALSE)
        \/ GitHub!Announce("repository", "edited", r, r \in github.archived)
    BY <1>3 DEF GitHub!RepositoryChanges
  <2>3. (r \in github.archived) \in BOOLEAN
    OBVIOUS
  <2> QED BY <2>1, <2>2, <2>3, AnnounceInv DEF Announcements
<1> QED BY <1>2, <1>3 DEF GitHub!GitHubChanges

(* The intake of webhooks.                                                 *)
LEMMA ReceiveInv ==
  ASSUME GitHubInv, NEW h \in Callers, NEW d \in Apps, GitHub!Receive(h, d)
  PROVE  GitHubInv'
<1>1. /\ UNCHANGED <<github, deliveries, recorded, installation, repository, link, claim,
                     serviceBinding, flow, applied>>
      /\ WebhookTypes
      /\ \/ /\ replay' = [replay EXCEPT ![d] = "in_flight"]
            /\ handler' = [handler EXCEPT ![h] = [phase |-> "reserved", delivery |-> d]]
            /\ UNCHANGED answered
         \/ /\ replay[d] = "completed" /\ answered' = answered \cup {d}
            /\ UNCHANGED <<replay, handler>>
  BY DEF GitHub!Receive, GitHub!Outside, GitHub!RowVars, GitHubInv
<1>2. WebhookTypes'
  BY <1>1 DEF WebhookTypes, WebhookRequests
<1>3. DeliveryOrder'
  BY <1>1 DEF GitHubInv, DeliveryOrder, GitHub!DeliveriesApplyOnce, WebhookTypes
<1> QED BY <1>1, <1>2, <1>3 DEF GitHubInv, RowTypes, KnownUnderInstallation, BoundToOwner

LEMMA CompleteDeliveryInv ==
  ASSUME GitHubInv, NEW h \in Callers, GitHub!CompleteDelivery(h)
  PROVE  GitHubInv'
<1> DEFINE d == handler[h].delivery
<1>1. /\ UNCHANGED <<github, deliveries, recorded, installation, repository, link, claim,
                     serviceBinding, flow, applied>>
      /\ WebhookTypes /\ DeliveryOrder /\ handler[h].phase = "handled"
      /\ replay' = [replay EXCEPT ![d] = IF @ = "in_flight" THEN "completed" ELSE @]
      /\ handler' = [handler EXCEPT ![h] = GitHub!NoHandler]
      /\ answered' \in {answered, answered \cup {d}}
  BY DEF GitHub!CompleteDelivery, GitHub!Outside, GitHub!RowVars, GitHubInv
<1>2. d \in Apps /\ d \in recorded
  BY <1>1 DEF DeliveryOrder
<1> HIDE DEF d
<1>3. GitHub!NoHandler \in WebhookRequests /\ GitHub!NoHandler.phase = "idle"
  BY DEF GitHub!NoHandler, WebhookRequests
<1>4. WebhookTypes'
  BY <1>1, <1>2, <1>3 DEF WebhookTypes
<1>5. DeliveryOrder'
  BY <1>1, <1>2, <1>3 DEF DeliveryOrder, GitHub!DeliveriesApplyOnce, WebhookTypes
<1> QED BY <1>1, <1>4, <1>5 DEF GitHubInv, RowTypes, KnownUnderInstallation, BoundToOwner

LEMMA ReplayExpiresInv ==
  ASSUME GitHubInv, NEW d \in Apps, GitHub!ReplayExpires(d)
  PROVE  GitHubInv'
<1>1. /\ UNCHANGED <<github, deliveries, recorded, installation, repository, link, claim,
                     serviceBinding, flow, applied, handler, answered>>
      /\ WebhookTypes /\ DeliveryOrder /\ replay' = [replay EXCEPT ![d] = "none"]
  BY DEF GitHub!ReplayExpires, GitHub!Outside, GitHub!RowVars, GitHubInv
<1>2. WebhookTypes' /\ DeliveryOrder'
  BY <1>1 DEF WebhookTypes, DeliveryOrder, GitHub!DeliveriesApplyOnce
<1> QED BY <1>1, <1>2 DEF GitHubInv, RowTypes, KnownUnderInstallation, BoundToOwner

(* What an event makes of the rows: an installation stays known, and a     *)
(* repository becomes known only under one.                                *)
LEMMA ApplyRows ==
  ASSUME GitHubInv, NEW d \in Apps, GitHub!Applies(deliveries[d]),
         \/ GitHub!ApplyInstallation(deliveries[d])
         \/ GitHub!ApplyRepositories(deliveries[d])
         \/ GitHub!ApplyRepository(deliveries[d]),
         UNCHANGED <<claim, serviceBinding, flow>>
  PROVE  RowTypes' /\ KnownUnderInstallation' /\ BoundToOwner'
<1> DEFINE e == deliveries[d]
<1>1. /\ RowTypes /\ KnownUnderInstallation /\ e \in Announcements
      /\ e.event \in {"installation_repositories", "repository"} => e.repository \in Repositories
      /\ repository \in [Repositories -> RepositoryRows]
  BY DEF GitHubInv, WebhookTypes, RowTypes
<1> HIDE DEF e
<1>2. /\ installation' \in GitHub!Statuses \cup {"none"}
      /\ repository' \in [Repositories -> RepositoryRows]
      /\ KnownUnderInstallation'
  <2>1. CASE GitHub!ApplyInstallation(e)
    <3>1. /\ installation' \in GitHub!Statuses
          /\ UNCHANGED repository \/ GitHub!RemoveAll
      BY <1>1, <2>1 DEF GitHub!ApplyInstallation, GitHub!Statuses, RowTypes
    <3>2. CASE GitHub!RemoveAll
      <4>1. \A r \in Repositories :
              [repository[r] EXCEPT !.status = "removed"] \in RepositoryRows
        BY <1>1 DEF RepositoryRows
      <4>2. repository' \in [Repositories -> RepositoryRows]
        BY <1>1, <3>2, <4>1 DEF GitHub!RemoveAll
      <4> QED BY <3>1, <4>2 DEF KnownUnderInstallation, GitHub!Statuses
    <3> QED BY <1>1, <3>1, <3>2 DEF KnownUnderInstallation, GitHub!Statuses
  <2>2. CASE GitHub!ApplyRepositories(e)
    <3> DEFINE r == e.repository
    <3>1. /\ UNCHANGED installation
          /\ r \in Repositories
          /\ \/ repository[r] # GitHub!NoRow
                /\ repository' = [repository EXCEPT ![r].status = "active"]
             \/ UNCHANGED repository
             \/ repository[r] # GitHub!NoRow
                /\ repository' = [repository EXCEPT ![r].status = "removed"]
      BY <1>1, <2>2 DEF GitHub!ApplyRepositories
    <3> HIDE DEF r
    <3>2. \A x \in {"active", "removed"} : [repository[r] EXCEPT !.status = x] \in RepositoryRows
      BY <1>1, <3>1 DEF RepositoryRows
    <3>3. repository' \in [Repositories -> RepositoryRows]
      BY <1>1, <3>1, <3>2
    <3> QED BY <1>1, <3>1, <3>3 DEF KnownUnderInstallation, RowTypes
  <2>3. CASE GitHub!ApplyRepository(e)
    <3> DEFINE row == [status |-> IF e.action = "deleted" THEN "deleted" ELSE "active",
                       archived |-> e.archived]
    <3>1. /\ UNCHANGED installation /\ installation # "none" /\ e.repository \in Repositories
          /\ repository' = [repository EXCEPT ![e.repository] = row]
      BY <1>1, <2>3 DEF GitHub!ApplyRepository, GitHub!UpsertRepository
    <3>2. row \in RepositoryRows
      BY <1>1 DEF RepositoryRows, Announcements
    <3> HIDE DEF row
    <3> QED BY <1>1, <3>1, <3>2 DEF KnownUnderInstallation, RowTypes
  <2> QED BY <2>1, <2>2, <2>3 DEF e
<1> QED BY <1>1, <1>2 DEF GitHubInv, RowTypes, BoundToOwner

LEMMA RecordInv ==
  ASSUME GitHubInv, NEW h \in Callers, GitHub!RecordGitHubWebhookEvent(h)
  PROVE  GitHubInv'
<1> DEFINE d == handler[h].delivery
<1>1. /\ UNCHANGED <<github, deliveries, link, claim, serviceBinding, flow, answered>>
      /\ WebhookTypes /\ RowTypes /\ KnownUnderInstallation /\ DeliveryOrder /\ BoundToOwner
      /\ handler[h].phase = "reserved"
  BY DEF GitHub!RecordGitHubWebhookEvent, GitHub!Outside, GitHubInv
<1>2. d \in Apps /\ handler \in [Callers -> WebhookRequests]
  BY <1>1 DEF DeliveryOrder, WebhookTypes
<1>3. ASSUME handler' = [handler EXCEPT ![h].phase = "handled"]
      PROVE  /\ handler' \in [Callers -> WebhookRequests]
             /\ handler'[h].delivery = d
             /\ \A g \in Callers \ {h} : handler'[g] = handler[g]
  BY <1>2, <1>3 DEF WebhookRequests
<1> HIDE DEF d
<1>4. CASE /\ GitHub!AlreadyRecorded(d)
           /\ handler' = [handler EXCEPT ![h].phase = "handled"]
           /\ UNCHANGED <<replay, recorded, installation, repository, applied>>
  <2>1. WebhookTypes'
    BY <1>1, <1>3, <1>4 DEF WebhookTypes
  <2>2. DeliveryOrder'
    BY <1>1, <1>2, <1>3, <1>4
       DEF DeliveryOrder, GitHub!DeliveriesApplyOnce, GitHub!AlreadyRecorded
  <2> QED BY <1>1, <1>4, <2>1, <2>2 DEF GitHubInv, RowTypes, KnownUnderInstallation, BoundToOwner
<1>5. CASE /\ ~GitHub!AlreadyRecorded(d) /\ GitHub!Applies(deliveries[d])
           /\ recorded' = recorded \cup {d}
           /\ \/ GitHub!ApplyInstallation(deliveries[d])
              \/ GitHub!ApplyRepositories(deliveries[d])
              \/ GitHub!ApplyRepository(deliveries[d])
           /\ applied' = [applied EXCEPT ![d] = @ + 1]
           /\ handler' = [handler EXCEPT ![h].phase = "handled"]
           /\ UNCHANGED replay
  <2>1. applied[d] = 0 /\ d \notin recorded
    BY <1>1, <1>2, <1>5 DEF DeliveryOrder, GitHub!DeliveriesApplyOnce, GitHub!AlreadyRecorded
  <2>2. WebhookTypes'
    BY <1>1, <1>2, <1>3, <1>5, <2>1 DEF WebhookTypes
  <2>3. DeliveryOrder'
    BY <1>1, <1>2, <1>3, <1>5, <2>1 DEF DeliveryOrder, GitHub!DeliveriesApplyOnce, WebhookTypes
  <2> QED BY <1>1, <1>2, <1>5, <2>2, <2>3, ApplyRows DEF GitHubInv
<1>6. CASE /\ replay' = [replay EXCEPT ![d] = "none"]
           /\ handler' = [handler EXCEPT ![h] = GitHub!NoHandler]
           /\ UNCHANGED <<recorded, installation, repository, applied>>
  <2>1. GitHub!NoHandler \in WebhookRequests /\ GitHub!NoHandler.phase = "idle"
    BY DEF GitHub!NoHandler, WebhookRequests
  <2>2. WebhookTypes' /\ DeliveryOrder'
    BY <1>1, <1>2, <1>6, <2>1 DEF WebhookTypes, DeliveryOrder, GitHub!DeliveriesApplyOnce
  <2> QED BY <1>1, <1>6, <2>2 DEF GitHubInv, RowTypes, KnownUnderInstallation, BoundToOwner
<1> QED BY <1>4, <1>5, <1>6 DEF GitHub!RecordGitHubWebhookEvent, d

(* Claims of the installation: the rows they write are GitHub's, of a      *)
(* moment ago.                                                             *)
LEMMA ClaimStepsInv ==
  ASSUME GitHubInv, NEW p \in Callers,
         \/ GitHub!ClaimStart(p) \/ GitHub!VerifyAccess(p)
         \/ GitHub!SyncInstallation(p) \/ GitHub!SyncRepository(p)
         \/ GitHub!ClaimInstallation(p) \/ GitHub!RedeemGrant(p)
         \/ GitHub!ClaimFails(p)
  PROVE  GitHubInv'
<1>1. /\ RowTypes /\ KnownUnderInstallation /\ flow[p] \in Flows /\ flow \in [Callers -> Flows]
      /\ repository \in [Repositories -> RepositoryRows]
      /\ github \in [status: GitHub!Statuses \cup {"none"},
                     repositories: SUBSET Repositories, archived: SUBSET Repositories]
      /\ flow[p].phase = "verified" => flow[p].status # "none"
  BY DEF GitHubInv, RowTypes, WebhookTypes
<1>2. UNCHANGED <<github, deliveries, replay, handler, applied, answered, recorded, claim,
                  serviceBinding>>
  BY DEF GitHub!ClaimStart, GitHub!VerifyAccess, GitHub!SyncInstallation,
         GitHub!SyncRepository, GitHub!ClaimInstallation, GitHub!RedeemGrant,
         GitHub!ClaimFails, GitHub!Outside, GitHub!RowVars, GitHub!IntakeVars
<1>3. GitHub!NoFlow \in Flows /\ GitHub!NoFlow.phase = "none"
  BY DEF GitHub!NoFlow, Flows
<1>4. ASSUME NEW r \in Flows, r.phase = "verified" => r.status # "none",
             flow' = [flow EXCEPT ![p] = r],
             installation' \in GitHub!Statuses \cup {"none"},
             repository' \in [Repositories -> RepositoryRows],
             KnownUnderInstallation'
      PROVE  GitHubInv'
  <2>1. flow' \in [Callers -> Flows]
        /\ \A q \in Callers : flow'[q].phase = "verified" => flow'[q].status # "none"
    BY <1>1, <1>4 DEF RowTypes
  <2> QED BY <1>1, <1>2, <1>4, <2>1
          DEF GitHubInv, RowTypes, WebhookTypes, DeliveryOrder, GitHub!DeliveriesApplyOnce,
              BoundToOwner
<1>5. ASSUME UNCHANGED <<installation, repository>>
      PROVE  /\ installation' \in GitHub!Statuses \cup {"none"}
             /\ repository' \in [Repositories -> RepositoryRows]
             /\ KnownUnderInstallation'
  BY <1>1, <1>5 DEF RowTypes, KnownUnderInstallation
<1>6. CASE GitHub!ClaimStart(p)
  <2> DEFINE r == [GitHub!NoFlow EXCEPT !.phase = "started"]
  <2>1. r \in Flows /\ r.phase = "started"
    BY <1>3 DEF Flows
  <2>2. flow' = [flow EXCEPT ![p] = r] /\ UNCHANGED <<installation, repository>>
    BY <1>6 DEF GitHub!ClaimStart, GitHub!RowVars
  <2> HIDE DEF r
  <2> QED BY <1>4, <1>5, <2>1, <2>2
<1>7. CASE GitHub!VerifyAccess(p)
  <2> DEFINE v == [phase |-> "verified", status |-> github.status,
                   repositories |-> github.repositories,
                   archived |-> github.repositories \cap github.archived]
  <2>1. v \in Flows /\ v.status = github.status
    BY <1>1 DEF Flows
  <2>2. /\ UNCHANGED <<installation, repository>>
        /\ \/ flow' = [flow EXCEPT ![p] = GitHub!NoFlow]
           \/ github.status # "none" /\ flow' = [flow EXCEPT ![p] = v]
    BY <1>7 DEF GitHub!VerifyAccess, GitHub!RowVars
  <2> HIDE DEF v
  <2> QED BY <1>3, <1>4, <1>5, <2>1, <2>2
<1>8. CASE GitHub!SyncInstallation(p)
  <2> DEFINE r == [flow[p] EXCEPT !.phase = "syncing"]
  <2>1. r \in Flows /\ r.phase = "syncing"
    BY <1>1 DEF Flows
  <2>2. /\ flow' = [flow EXCEPT ![p] = r] /\ UNCHANGED repository
        /\ installation' = flow[p].status /\ flow[p].phase = "verified"
    BY <1>8 DEF GitHub!SyncInstallation
  <2> HIDE DEF r
  <2>3. flow[p].status \in GitHub!Statuses
    BY <1>1, <2>2 DEF Flows
  <2>4. KnownUnderInstallation'
    BY <2>2, <2>3 DEF KnownUnderInstallation, GitHub!Statuses
  <2> QED BY <1>1, <1>4, <2>1, <2>2, <2>3, <2>4
<1>9. CASE GitHub!SyncRepository(p)
  <2>1. PICK x \in flow[p].repositories :
          /\ GitHub!UpsertRepository(x, [status |-> "active",
                                         archived |-> x \in flow[p].archived])
          /\ flow' = [flow EXCEPT ![p].repositories = @ \ {x}, ![p].archived = @ \ {x}]
          /\ flow[p].phase = "syncing" /\ UNCHANGED installation
    BY <1>9 DEF GitHub!SyncRepository
  <2> DEFINE r == [flow[p] EXCEPT !.repositories = @ \ {x}, !.archived = @ \ {x}]
             row == [status |-> "active", archived |-> x \in flow[p].archived]
  <2>2. r \in Flows /\ r.phase = "syncing" /\ flow' = [flow EXCEPT ![p] = r]
    BY <1>1, <2>1 DEF Flows
  <2>3. row \in RepositoryRows /\ x \in Repositories
    BY <1>1 DEF RepositoryRows, Flows
  <2>4. repository' = [repository EXCEPT ![x] = row] /\ installation # "none"
    BY <2>1 DEF GitHub!UpsertRepository
  <2> HIDE DEF r, row
  <2>5. repository' \in [Repositories -> RepositoryRows] /\ KnownUnderInstallation'
    BY <1>1, <2>1, <2>3, <2>4 DEF KnownUnderInstallation
  <2>6. installation' \in GitHub!Statuses \cup {"none"}
    BY <1>1, <2>1 DEF RowTypes
  <2> QED BY <1>4, <2>2, <2>5, <2>6
<1>10. CASE GitHub!ClaimInstallation(p)
  <2> DEFINE g == [GitHub!NoFlow EXCEPT !.phase = "granted"]
             r == IF installation = "active" THEN g ELSE GitHub!NoFlow
  <2>1. g \in Flows /\ g.phase = "granted"
    BY <1>3 DEF Flows
  <2>2. flow' = [flow EXCEPT ![p] = r] /\ UNCHANGED <<installation, repository>>
    BY <1>10 DEF GitHub!ClaimInstallation
  <2> HIDE DEF g
  <2>3. r \in Flows /\ r.phase # "verified"
    BY <1>3, <2>1
  <2> HIDE DEF r
  <2> QED BY <1>4, <1>5, <2>2, <2>3
<1>11. CASE GitHub!RedeemGrant(p)
  BY <1>3, <1>4, <1>5, <1>11 DEF GitHub!RedeemGrant, GitHub!RowVars
<1>12. CASE GitHub!ClaimFails(p)
  BY <1>3, <1>4, <1>5, <1>12 DEF GitHub!ClaimFails, GitHub!RowVars
<1> QED BY <1>6, <1>7, <1>8, <1>9, <1>10, <1>11, <1>12

(* A claim is released only while no service is bound to its repository,   *)
(* and a service is bound only to what its project has claimed.            *)
LEMMA OwnershipStepsInv ==
  ASSUME GitHubInv, GitHub!OwnershipSteps
  PROVE  GitHubInv'
<1>1. /\ RowTypes /\ BoundToOwner
      /\ claim \in [Repositories -> Callers \cup {"none"}]
      /\ serviceBinding \in [GitHub!Services -> Repositories \cup {"none"}]
  BY DEF GitHubInv, RowTypes
<1>2. ASSUME UNCHANGED <<github, deliveries, replay, handler, applied, answered, recorded,
                         installation, repository, flow>>,
             claim' \in [Repositories -> Callers \cup {"none"}],
             serviceBinding' \in [GitHub!Services -> Repositories \cup {"none"}],
             BoundToOwner'
      PROVE  GitHubInv'
  BY <1>2 DEF GitHubInv, RowTypes, WebhookTypes, KnownUnderInstallation, DeliveryOrder,
              GitHub!DeliveriesApplyOnce
<1> USE DEF GitHub!Outside, GitHub!IntakeVars
<1>3. ASSUME NEW p \in Callers, NEW r \in Repositories, GitHub!ClaimRepository(p, r)
      PROVE  GitHubInv'
  <2>1. claim' = [claim EXCEPT ![r] = p] /\ claim[r] = "none" /\ UNCHANGED serviceBinding
    BY <1>3 DEF GitHub!ClaimRepository
  <2>2. \A s \in GitHub!Services : s[1] # "none"
    BY ControlPlaneAssumption DEF GitHub!Services
  <2>3. BoundToOwner'
    BY <1>1, <2>1, <2>2 DEF BoundToOwner
  <2> QED BY <1>1, <1>2, <1>3, <2>1, <2>3 DEF GitHub!ClaimRepository
<1>4. ASSUME NEW p \in Callers, NEW r \in Repositories, GitHub!ReleaseRepository(p, r)
      PROVE  GitHubInv'
  <2>1. /\ claim' = [claim EXCEPT ![r] = "none"] /\ UNCHANGED serviceBinding
        /\ \A s \in GitHub!Services : serviceBinding[s] # r
    BY <1>4 DEF GitHub!ReleaseRepository, GitHub!ActiveBindings
  <2>2. BoundToOwner'
    BY <1>1, <2>1 DEF BoundToOwner
  <2> QED BY <1>1, <1>2, <1>4, <2>1, <2>2 DEF GitHub!ReleaseRepository
<1>5. ASSUME NEW s \in GitHub!Services, NEW r \in Repositories,
             GitHub!CreateServiceBinding(s, r)
      PROVE  GitHubInv'
  <2>1. /\ serviceBinding' = [serviceBinding EXCEPT ![s] = r] /\ UNCHANGED claim
        /\ claim[r] = s[1]
    BY <1>5 DEF GitHub!CreateServiceBinding
  <2>2. BoundToOwner'
    BY <1>1, <2>1 DEF BoundToOwner
  <2> QED BY <1>1, <1>2, <1>5, <2>1, <2>2 DEF GitHub!CreateServiceBinding
<1>6. ASSUME NEW s \in GitHub!Services, GitHub!RemoveServiceBinding(s) PROVE GitHubInv'
  <2>1. serviceBinding' = [serviceBinding EXCEPT ![s] = "none"] /\ UNCHANGED claim
    BY <1>6 DEF GitHub!RemoveServiceBinding
  <2>2. BoundToOwner'
    BY <1>1, <2>1 DEF BoundToOwner
  <2> QED BY <1>1, <1>2, <1>6, <2>1, <2>2 DEF GitHub!RemoveServiceBinding
<1> QED BY <1>3, <1>4, <1>5, <1>6 DEF GitHub!OwnershipSteps

LEMMA GitHubRestartInv ==
  ASSUME GitHubInv, GitHub!Restart
  PROVE  GitHubInv'
<1>1. /\ UNCHANGED <<github, deliveries, recorded, installation, repository, link, claim,
                     serviceBinding, applied, answered>>
      /\ replay' = [d \in Apps |-> "none"]
      /\ handler' = [h \in Callers |-> GitHub!NoHandler]
      /\ flow' = [p \in Callers |-> GitHub!NoFlow]
  BY DEF GitHub!Restart, GitHub!Outside, GitHub!RowVars
<1>2. GitHub!NoFlow \in Flows /\ GitHub!NoFlow.phase = "none"
  BY DEF GitHub!NoFlow, Flows
<1>3. GitHub!NoHandler \in WebhookRequests /\ GitHub!NoHandler.phase = "idle"
  BY DEF GitHub!NoHandler, WebhookRequests
<1>4. WebhookTypes' /\ DeliveryOrder'
  BY <1>1, <1>3 DEF GitHubInv, WebhookTypes, DeliveryOrder, GitHub!DeliveriesApplyOnce
<1>5. RowTypes' /\ KnownUnderInstallation' /\ BoundToOwner'
  BY <1>1, <1>2 DEF GitHubInv, RowTypes, KnownUnderInstallation, BoundToOwner
<1> QED BY <1>4, <1>5 DEF GitHubInv

(* However webhooks are repeated, reordered and interrupted, a delivery    *)
(* changes the rows once and has done so when GitHub is told; and a bound  *)
(* service's repository is claimed by its own project.                     *)
THEOREM WebhooksApplyOnce == ControlPlaneSpec => []GitHubIsFollowed
<1>1. ControlPlaneInit => GitHubHolds
  BY GitHubInitInv DEF ControlPlaneInit, HostParts, GitHubHolds
<1>2. GitHubHolds /\ [ControlPlaneNext]_controlPlaneVars => GitHubHolds'
  <2> SUFFICES ASSUME GitHubHolds, [ControlPlaneNext]_controlPlaneVars, part' = "github"
               PROVE  GitHubInv'
    BY DEF GitHubHolds
  <2>1. CASE UNCHANGED controlPlaneVars
    BY <2>1 DEF controlPlaneVars, gitHubVars, GitHubHolds, GitHubInv, WebhookTypes, RowTypes,
                KnownUnderInstallation, DeliveryOrder, GitHub!DeliveriesApplyOnce, BoundToOwner
  <2>2. CASE ControlPlaneNext
    <3>1. /\ part = "github"
          /\ \/ GitHub!GitHubChanges \/ GitHub!WebhookSteps \/ GitHub!ClaimSteps
             \/ GitHub!OwnershipSteps \/ GitHub!Restart
      BY <2>2 DEF ControlPlaneNext, ConfigurationMoves, HostMoves,
                  HostParts, GitHubMoves, AccessMoves
    <3>2. GitHubInv
      BY <3>1 DEF GitHubHolds
    <3>3. CASE GitHub!WebhookSteps
      BY <3>2, <3>3, ReceiveInv, RecordInv, CompleteDeliveryInv, ReplayExpiresInv
         DEF GitHub!WebhookSteps
    <3>4. CASE GitHub!ClaimSteps
      BY <3>2, <3>4, ClaimStepsInv DEF GitHub!ClaimSteps
    <3> QED BY <3>1, <3>2, <3>3, <3>4, GitHubChangesInv, OwnershipStepsInv, GitHubRestartInv
  <2> QED BY <2>1, <2>2
<1>3. GitHubHolds => GitHubIsFollowed
  <2> SUFFICES ASSUME GitHubInv
               PROVE  GitHub!GitHubTypeOK /\ GitHub!DeliveriesApplyOnce /\ GitHub!BoundIsClaimed
    BY DEF GitHubHolds, GitHubIsFollowed
  <2>1. GitHub!GitHubTypeOK
    BY DEF GitHubInv, WebhookTypes, RowTypes, KnownUnderInstallation, GitHub!GitHubTypeOK,
           RepositoryRows
  <2>2. GitHub!BoundIsClaimed
    BY DEF GitHubInv, BoundToOwner, GitHub!BoundIsClaimed, GitHub!ResolveBuildBinding,
           GitHub!ActiveBindings, GitHub!Services
  <2> QED BY <2>1, <2>2 DEF GitHubInv, DeliveryOrder
<1> QED BY <1>1, <1>2, <1>3, PTL DEF ControlPlaneSpec

----------------------------------------------------------------------------
(* Configurations: revisions, reviews and bindings.                        *)
Drafts ==
  [route: Routes \cup {Configuration!NoRoute}, deps: SUBSET Dependencies,
   db: Databases \cup {"none"}, link: Keys \cup {"none"},
   by: Keys \cup ReviewIds \cup {"none"}]

Requests ==
  [op: {"none", "apply", "realize"}, app: Apps \cup {"none"}, base: Nat, draft: Drafts]

Payloads ==
  [op: Configuration!Applying, id: Keys \cup ReviewIds, app: Apps, base: Nat, draft: Drafts]

Reviews ==
  [status: Configuration!Open \cup {"none", "applied", "rejected", "stale", "expired"},
   app: Apps \cup {"none"}, base: Nat, draft: Drafts, late: BOOLEAN]

Bindings ==
  [app: Apps \cup {"none"}, db: Databases \cup {"none"},
   life: {"absent", "provisioning", "ready", "gone"}]

Calls ==
  [op: Configuration!Applying \cup {"none", "review", "approve", "reject", "compile"},
   at: {"idle", "key", "lock", "write", "mark", "answer", "insert", "update", "plan",
        "create", "config"},
   id: Keys \cup ReviewIds \cup {"none"}, app: Apps \cup {"none"}, base: Nat,
   draft: Drafts, ready: SUBSET Keys]

ConfigurationTypes ==
  /\ log \in [Apps -> Seq(Drafts)]
  /\ lock \in [Apps -> Callers \cup {"none"}]
  /\ sent \in [Keys -> Requests]
  /\ stored \subseteq Payloads
  /\ review \in [ReviewIds -> Reviews]
  /\ binding \in [Keys -> Bindings]
  /\ runtime \in [Apps -> [binding: Keys \cup {"none"}, want: Databases \cup {"none"},
                           secret: Keys \cup {"none"}]]
  /\ call \in [Callers -> Calls]

(* A key is for one kind of request, a review for its application.         *)
OpOf(id) == IF id \in ReviewIds THEN "applyReview" ELSE sent[id].op

(* A request that waits for the lock of its application's row was not yet  *)
(* applied when it read the revision it is for, and nobody can have        *)
(* applied it since without changing that revision; the holder of the lock *)
(* is for the revision that is there.                                      *)
CallInv(c) ==
  LET k == call[c] IN
  /\ k.op \in Configuration!Applying =>
       /\ k.id \in Keys \cup ReviewIds /\ k.op = OpOf(k.id)
       /\ k.app \in Apps /\ k.base \leq Len(log[k.app])
       /\ k.at \in {"lock", "write"} =>
            \A i \in 2..k.base : log[k.app][i].by # k.id
  /\ k.at = "write" =>
       /\ k.op \in Configuration!Applying
       /\ lock[k.app] = c /\ k.base = Len(log[k.app])
  /\ k.op = "applyReview" =>
       /\ k.id \in ReviewIds /\ review[k.id].status # "none"
       /\ k.app = review[k.id].app /\ k.base = review[k.id].base
       /\ k.draft = review[k.id].draft
       /\ k.at = "mark" => Configuration!Payload(c) \in stored
  /\ k.op = "review" =>
       k.id \in ReviewIds /\ k.app \in Apps /\ k.base \leq Len(log[k.app])
  /\ k.op \in {"approve", "reject"} => k.id \in ReviewIds
  /\ k.op = "compile" =>
       k.app \in Apps /\ \A b \in k.ready : binding[b].life # "absent"

RequestInv(k) ==
  sent[k].op = "apply" => sent[k].app \in Apps /\ sent[k].base \leq Len(log[sent[k].app])

ReviewInv(r) ==
  /\ review[r].status # "none" =>
       review[r].app \in Apps /\ review[r].base \leq Len(log[review[r].app])
  /\ review[r].status = "applied" =>
       [op |-> "applyReview", id |-> r, app |-> review[r].app,
        base |-> review[r].base, draft |-> review[r].draft] \in stored

(* What was stored was written as the revision after its base.             *)
StoredInv(p) ==
  /\ p.op = OpOf(p.id) /\ p.base < Len(log[p.app])
  /\ log[p.app][p.base + 1] = [p.draft EXCEPT !.by = p.id]

LogInv(a) ==
  /\ Len(log[a]) \geq 1
  /\ \A i \in 2..Len(log[a]) : \E p \in stored : p.id = log[a][i].by /\ p.app = a
  /\ \A i, j \in 2..Len(log[a]) : log[a][i].by = log[a][j].by => i = j

RuntimeInv(a) ==
  LET k == runtime[a].binding IN
  k # "none" =>
    /\ binding[k].life # "absent" /\ binding[k].app = a
    /\ runtime[a].want \in {"none", binding[k].db}

LockInv(a) == lock[a] # "none" => call[lock[a]].at = "write" /\ call[lock[a]].app = a

ConfigurationInv ==
  /\ ConfigurationTypes
  /\ \A c \in Callers : CallInv(c)
  /\ \A k \in Keys : RequestInv(k)
  /\ \A r \in ReviewIds : ReviewInv(r)
  /\ \A p \in stored : StoredInv(p)
  /\ \A a \in Apps : LogInv(a) /\ RuntimeInv(a) /\ LockInv(a)

ConfigurationHolds == part = "configuration" => ConfigurationInv

(* What other requests leave alone: the kind of a key, what is reviewed    *)
(* and what a binding is for.                                              *)
KeysStand ==
  /\ sent' \in [Keys -> Requests] /\ \A k \in Keys : RequestInv(k)'
  /\ \A k \in Keys : sent[k].op # "none" => sent'[k].op = sent[k].op

ReviewsStand ==
  /\ review' \in [ReviewIds -> Reviews] /\ \A r \in ReviewIds : ReviewInv(r)'
  /\ \A r \in ReviewIds : review[r].status # "none" =>
       /\ review'[r].status # "none" /\ review'[r].app = review[r].app
       /\ review'[r].base = review[r].base /\ review'[r].draft = review[r].draft

BindingsStand ==
  /\ binding' \in [Keys -> Bindings]
  /\ \A k \in Keys : binding[k].life # "absent" =>
       /\ binding'[k].life # "absent"
       /\ binding'[k].app = binding[k].app /\ binding'[k].db = binding[k].db

LEMMA KeysUnchanged ==
  ASSUME ConfigurationInv, UNCHANGED <<log, sent>> PROVE KeysStand
BY DEF ConfigurationInv, ConfigurationTypes, KeysStand, RequestInv

LEMMA ReviewsUnchanged ==
  ASSUME ConfigurationInv, UNCHANGED <<log, stored, review>> PROVE ReviewsStand
BY DEF ConfigurationInv, ConfigurationTypes, ReviewsStand, ReviewInv

LEMMA BindingsUnchanged ==
  ASSUME ConfigurationInv, UNCHANGED binding PROVE BindingsStand
BY DEF ConfigurationInv, ConfigurationTypes, BindingsStand

LEMMA OpStands ==
  ASSUME ConfigurationInv, KeysStand, NEW id \in Keys \cup ReviewIds, OpOf(id) # "none"
  PROVE  OpOf(id)' = OpOf(id)
BY DEF OpOf, KeysStand

LEMMA OpGoes ==
  ASSUME ConfigurationInv, KeysStand, NEW c \in Callers,
         call[c].op \in Configuration!Applying,
         call'[c].op = call[c].op, call'[c].id = call[c].id
  PROVE  (call[c].op = OpOf(call[c].id))'
<1>1. CallInv(c)
  BY DEF ConfigurationInv
<1>2. PICK id \in Keys \cup ReviewIds : id = call[c].id
  BY <1>1 DEF CallInv
<1>3. call[c].op = OpOf(id) /\ OpOf(id) # "none"
  BY <1>1, <1>2 DEF CallInv, Configuration!Applying
<1>4. OpOf(id)' = OpOf(id)
  BY <1>3, OpStands
<1>5. call'[c].id = id
  BY <1>2
<1> QED BY <1>3, <1>4, <1>5 DEF OpOf

LEMMA CallStands ==
  ASSUME ConfigurationInv, KeysStand, ReviewsStand, BindingsStand,
         UNCHANGED <<log, stored, lock>>, NEW c \in Callers, call'[c] = call[c]
  PROVE  CallInv(c)'
<1>1. CallInv(c) /\ call[c] \in Calls
  BY DEF ConfigurationInv, ConfigurationTypes
<1>2. call[c].op \in Configuration!Applying => call[c].op = OpOf(call[c].id)'
  BY <1>1, OpStands DEF CallInv, Configuration!Applying
<1>3. Configuration!Payload(c)' = Configuration!Payload(c)
  BY DEF Configuration!Payload
<1>4. call[c].op = "applyReview" =>
        /\ review'[call[c].id].status # "none"
        /\ call[c].app = review'[call[c].id].app /\ call[c].base = review'[call[c].id].base
        /\ call[c].draft = review'[call[c].id].draft
  BY <1>1 DEF CallInv, ReviewsStand
<1>5. call[c].op = "compile" => \A b \in call[c].ready : binding'[b].life # "absent"
  BY <1>1 DEF CallInv, BindingsStand, Calls
<1> QED BY <1>1, <1>2, <1>3, <1>4, <1>5 DEF CallInv

LEMMA RuntimeStands ==
  ASSUME ConfigurationInv, BindingsStand, NEW a \in Apps, runtime'[a] = runtime[a]
  PROVE  RuntimeInv(a)'
<1> DEFINE k == runtime[a].binding
<1>1. k \in Keys \cup {"none"} /\ RuntimeInv(a)
  BY DEF ConfigurationInv, ConfigurationTypes
<1>2. k # "none" => binding'[k].life # "absent" /\ binding'[k].app = binding[k].app
                    /\ binding'[k].db = binding[k].db
  BY <1>1 DEF BindingsStand, RuntimeInv
<1> QED BY <1>1, <1>2 DEF RuntimeInv

(* A step that neither writes a revision nor takes or releases a lock.     *)
LEMMA ConfigurationGoes ==
  ASSUME ConfigurationInv, KeysStand, ReviewsStand, BindingsStand,
         UNCHANGED <<log, stored, lock>>,
         runtime' \in [Apps -> [binding: Keys \cup {"none"}, want: Databases \cup {"none"},
                                secret: Keys \cup {"none"}]],
         \A a \in Apps : RuntimeInv(a)',
         call' \in [Callers -> Calls],
         \A c \in Callers : \/ call'[c] = call[c]
                            \/ CallInv(c)' /\ call[c].at # "write" /\ call'[c].at # "write"
  PROVE  ConfigurationInv'
<1>1. ConfigurationTypes'
  BY DEF ConfigurationInv, ConfigurationTypes, KeysStand, ReviewsStand, BindingsStand
<1>2. \A c \in Callers : CallInv(c)'
  BY CallStands
<1>3. ASSUME NEW p \in stored PROVE StoredInv(p)'
  <2>1. StoredInv(p) /\ p \in Payloads
    BY DEF ConfigurationInv, ConfigurationTypes
  <2>2. OpOf(p.id)' = OpOf(p.id)
    BY <2>1, OpStands DEF StoredInv, Payloads, Configuration!Applying
  <2> QED BY <2>1, <2>2 DEF StoredInv
<1>4. ASSUME NEW a \in Apps PROVE LogInv(a)' /\ LockInv(a)'
  <2>1. LogInv(a) /\ LockInv(a) /\ lock[a] \in Callers \cup {"none"}
    BY DEF ConfigurationInv, ConfigurationTypes
  <2>2. LogInv(a)'
    BY <2>1 DEF LogInv
  <2> QED BY <2>1, <2>2 DEF LockInv
<1> QED BY <1>1, <1>2, <1>3, <1>4 DEF ConfigurationInv, KeysStand, ReviewsStand

(* One request goes on.                                                    *)
LEMMA RequestGoes ==
  ASSUME ConfigurationInv, KeysStand, ReviewsStand, BindingsStand,
         UNCHANGED <<log, stored, lock, runtime>>,
         NEW c \in Callers, NEW r \in Calls, call' = [call EXCEPT ![c] = r],
         call[c].at # "write", r.at # "write", CallInv(c)'
  PROVE  ConfigurationInv'
<1>1. /\ call' \in [Callers -> Calls] /\ call'[c] = r
      /\ \A d \in Callers \ {c} : call'[d] = call[d]
  BY DEF ConfigurationInv, ConfigurationTypes
<1>2. /\ runtime' \in [Apps -> [binding: Keys \cup {"none"}, want: Databases \cup {"none"},
                                secret: Keys \cup {"none"}]]
      /\ \A a \in Apps : RuntimeInv(a)'
  BY RuntimeStands DEF ConfigurationInv, ConfigurationTypes
<1> QED BY <1>1, <1>2, ConfigurationGoes

(* No request goes on, or one ends.                                        *)
LEMMA NoCallIs ==
  /\ Configuration!NoCall \in Calls /\ Configuration!NoCall.op = "none"
  /\ Configuration!NoCall.at = "idle" /\ Configuration!Empty \in Drafts
BY DEF Configuration!NoCall, Calls, Configuration!Applying, Configuration!Empty, Drafts

LEMMA RequestEnds ==
  ASSUME ConfigurationInv, KeysStand, ReviewsStand, BindingsStand,
         UNCHANGED <<log, stored, lock, runtime>>,
         NEW c \in Callers, Configuration!Ends(c), call[c].at # "write"
  PROVE  ConfigurationInv'
<1>1. call' = [call EXCEPT ![c] = Configuration!NoCall] /\ call'[c] = Configuration!NoCall
  BY DEF Configuration!Ends, ConfigurationInv, ConfigurationTypes
<1>2. CallInv(c)'
  BY <1>1, NoCallIs DEF CallInv, Configuration!Applying
<1> QED BY <1>1, <1>2, NoCallIs, RequestGoes

(* Applying a configuration: the key, the lock, the revision.              *)
LEMMA ReviewStatus ==
  ASSUME ConfigurationInv, NEW r \in ReviewIds, NEW x,
         x \in Configuration!Open \cup {"none", "applied", "rejected", "stale", "expired"},
         review' = [review EXCEPT ![r].status = x], UNCHANGED <<log, stored>>,
         x = "none" <=> review[r].status = "none",
         x = "applied" =>
           \/ review[r].status = "applied"
           \/ [op |-> "applyReview", id |-> r, app |-> review[r].app,
               base |-> review[r].base, draft |-> review[r].draft] \in stored
  PROVE  ReviewsStand
<1> DEFINE v == [review[r] EXCEPT !.status = x]
<1>1. review \in [ReviewIds -> Reviews] /\ review[r] \in Reviews /\ \A s \in ReviewIds : ReviewInv(s)
  BY DEF ConfigurationInv, ConfigurationTypes
<1>2. /\ review' = [review EXCEPT ![r] = v] /\ v \in Reviews /\ v.app = review[r].app
      /\ v.base = review[r].base /\ v.draft = review[r].draft /\ v.status = x
  BY <1>1 DEF Reviews
<1> HIDE DEF v
<1> QED BY <1>1, <1>2 DEF ReviewsStand, ReviewInv

LEMMA ReviewsGoStale ==
  ASSUME ConfigurationInv, NEW r \in ReviewIds, Configuration!markStale(r),
         UNCHANGED <<log, stored>>
  PROVE  ReviewsStand
<1> DEFINE x == IF review[r].status \in Configuration!Open THEN "stale" ELSE review[r].status
<1>1. review' = [review EXCEPT ![r].status = x]
  BY DEF Configuration!markStale
<1>2. review[r] \in Reviews
  BY DEF ConfigurationInv, ConfigurationTypes
<1>3. /\ (x = "none" <=> review[r].status = "none")
      /\ x = "applied" => review[r].status = "applied"
      /\ x \in Configuration!Open \cup {"none", "applied", "rejected", "stale", "expired"}
  BY <1>2 DEF Configuration!Open, Reviews
<1> HIDE DEF x
<1> QED BY <1>1, <1>3, ReviewStatus

LEMMA RefusedInv ==
  ASSUME ConfigurationInv, KeysStand, BindingsStand,
         UNCHANGED <<log, stored, lock, runtime>>,
         NEW c \in Callers, Configuration!Refused(c), call[c].op \in Configuration!Applying,
         call[c].at \in {"key", "lock"}
  PROVE  ConfigurationInv'
<1>1. call[c] \in Calls /\ CallInv(c) /\ call \in [Callers -> Calls]
  BY DEF ConfigurationInv, ConfigurationTypes
<1>2. CASE call[c].op = "apply"
  BY <1>2, ReviewsUnchanged, RequestEnds DEF Configuration!Refused
<1>3. CASE call[c].op = "applyReview"
  <2>1. call[c].id \in ReviewIds
    BY <1>1, <1>3 DEF CallInv
  <2> QED BY <1>3, <2>1, ReviewsGoStale, RequestEnds DEF Configuration!Refused
<1>4. CASE call[c].op = "realize"
  <2> DEFINE r == [call[c] EXCEPT !.at = "answer"]
  <2>1. call' = [call EXCEPT ![c] = r] /\ ReviewsStand
    BY <1>4, ReviewsUnchanged DEF Configuration!Refused, Configuration!Moves
  <2>2. /\ r \in Calls /\ call'[c] = r /\ r.at = "answer" /\ r.op = "realize"
        /\ r.id = call[c].id /\ r.app = call[c].app /\ r.base = call[c].base
    BY <1>1, <1>4, <2>1 DEF Calls
  <2> HIDE DEF r
  <2>3. (call[c].op = OpOf(call[c].id))'
    BY <2>2, <1>4, OpGoes
  <2>4. CallInv(c)'
    BY <1>1, <1>4, <2>2, <2>3 DEF CallInv, Configuration!Applying
  <2> QED BY <2>1, <2>2, <2>4, RequestGoes
<1> QED BY <1>2, <1>3, <1>4 DEF Configuration!Applying

LEMMA SameKeyWritten ==
  ASSUME ConfigurationInv, NEW c \in Callers, call[c].op \in Configuration!Applying,
         Configuration!SameKey(c) = {}
  PROVE  \A i \in 2..Len(log[call[c].app]) : log[call[c].app][i].by # call[c].id
<1> SUFFICES ASSUME NEW i \in 2..Len(log[call[c].app]),
                    log[call[c].app][i].by = call[c].id
             PROVE  FALSE
  OBVIOUS
<1>1. CallInv(c) /\ call[c].app \in Apps
  BY DEF ConfigurationInv, CallInv
<1>2. PICK p \in stored : p.id = call[c].id /\ p.app = call[c].app
  BY <1>1 DEF ConfigurationInv, LogInv
<1>3. p.op = call[c].op
  BY <1>1, <1>2 DEF ConfigurationInv, StoredInv, CallInv
<1> QED BY <1>2, <1>3 DEF Configuration!SameKey

LEMMA ReplayKeyInv ==
  ASSUME ConfigurationInv, NEW c \in Callers, Configuration!ReplayKey(c)
  PROVE  ConfigurationInv'
<1>1. /\ call[c] \in Calls /\ CallInv(c) /\ call \in [Callers -> Calls]
      /\ call[c].op \in Configuration!Applying /\ call[c].at = "key"
      /\ UNCHANGED <<log, lock, sent, stored, binding, runtime>>
  BY DEF ConfigurationInv, ConfigurationTypes, Configuration!ReplayKey
<1>2. KeysStand /\ BindingsStand
  BY <1>1, KeysUnchanged, BindingsUnchanged
<1>3. ASSUME NEW x \in {"lock", "mark", "answer"}, Configuration!Moves(c, x),
             UNCHANGED review,
             x = "lock" => Configuration!SameKey(c) = {},
             x = "mark" => Configuration!Payload(c) \in stored
      PROVE  ConfigurationInv'
  <2> DEFINE r == [call[c] EXCEPT !.at = x]
  <2>1. call' = [call EXCEPT ![c] = r] /\ ReviewsStand
    BY <1>1, <1>3, ReviewsUnchanged DEF Configuration!Moves
  <2>2. /\ r \in Calls /\ call'[c] = r /\ r.at = x /\ r.op = call[c].op
        /\ r.id = call[c].id /\ r.app = call[c].app /\ r.base = call[c].base
        /\ r.draft = call[c].draft
    BY <1>1, <2>1 DEF Calls
  <2> HIDE DEF r
  <2>3. Configuration!Payload(c)' = Configuration!Payload(c)
    BY <2>2 DEF Configuration!Payload
  <2>4. x = "lock" => \A i \in 2..call[c].base : log[call[c].app][i].by # call[c].id
    <3>1. call[c].base \in Nat /\ Len(log[call[c].app]) \in Nat /\ call[c].base \leq Len(log[call[c].app])
      BY <1>1, LenProperties DEF CallInv, Calls, ConfigurationInv, ConfigurationTypes
    <3> QED BY <1>1, <1>3, <3>1, SameKeyWritten
  <2>5. (call[c].op = OpOf(call[c].id))'
    BY <1>1, <1>2, <2>2, OpGoes
  <2>6. CallInv(c)'
    BY <1>1, <1>3, <2>2, <2>3, <2>4, <2>5 DEF CallInv, Configuration!Applying
  <2> QED BY <1>1, <1>2, <2>1, <2>2, <2>6, RequestGoes
<1>4. CASE Configuration!SameKey(c) = {}
  BY <1>3, <1>4 DEF Configuration!ReplayKey
<1>5. CASE Configuration!SameKey(c) # {} /\ Configuration!Payload(c) \in stored
  <2>1. Configuration!Granted(c)
    BY <1>5 DEF Configuration!ReplayKey
  <2>2. CASE call[c].op = "apply"
    BY <1>1, <1>2, <2>1, <2>2, ReviewsUnchanged, RequestEnds DEF Configuration!Granted
  <2>3. CASE call[c].op # "apply"
    BY <1>3, <1>5, <2>1, <2>3 DEF Configuration!Granted
  <2> QED BY <2>2, <2>3
<1>6. CASE Configuration!SameKey(c) # {} /\ Configuration!Payload(c) \notin stored
  BY <1>1, <1>2, <1>6, RefusedInv DEF Configuration!ReplayKey
<1> QED BY <1>4, <1>5, <1>6

LEMMA LockServiceInv ==
  ASSUME ConfigurationInv, NEW c \in Callers, Configuration!LockService(c)
  PROVE  ConfigurationInv'
<1> DEFINE a == call[c].app
           r == [call[c] EXCEPT !.at = "write"]
<1>1. /\ call[c] \in Calls /\ CallInv(c) /\ call \in [Callers -> Calls]
      /\ lock \in [Apps -> Callers \cup {"none"}] /\ log \in [Apps -> Seq(Drafts)]
      /\ call[c].op \in Configuration!Applying /\ call[c].at = "lock" /\ lock[a] = "none"
      /\ UNCHANGED <<log, sent, stored, binding, runtime>>
  BY DEF ConfigurationInv, ConfigurationTypes, Configuration!LockService
<1>2. CASE Configuration!Refused(c) /\ UNCHANGED lock
  BY <1>1, <1>2, KeysUnchanged, BindingsUnchanged, RefusedInv
<1>3. CASE /\ call[c].base = Len(log[a]) /\ lock' = [lock EXCEPT ![a] = c]
           /\ Configuration!Moves(c, "write") /\ UNCHANGED review
  <2>1. /\ call' = [call EXCEPT ![c] = r] /\ r \in Calls /\ r.at = "write"
        /\ r.op = call[c].op /\ r.id = call[c].id /\ r.app = a /\ r.base = call[c].base
        /\ r.draft = call[c].draft /\ r.ready = call[c].ready
    BY <1>1, <1>3 DEF Configuration!Moves, Calls
  <2>2. a \in Apps
    BY <1>1 DEF CallInv
  <2> HIDE DEF r, a
  <2>3. /\ call' \in [Callers -> Calls] /\ call'[c] = r
        /\ \A d \in Callers \ {c} : call'[d] = call[d]
        /\ lock' \in [Apps -> Callers \cup {"none"}] /\ lock'[a] = c
        /\ \A b \in Apps \ {a} : lock'[b] = lock[b]
    BY <1>1, <1>3, <2>1, <2>2
  <2>4. ConfigurationTypes'
    BY <1>1, <1>3, <2>3 DEF ConfigurationInv, ConfigurationTypes
  <2>5. CallInv(c)'
    <3>1. KeysStand
      BY <1>1, KeysUnchanged
    <3>2. (call[c].op = OpOf(call[c].id))'
      BY <1>1, <2>1, <2>3, <3>1, OpGoes
    <3> QED BY <1>1, <1>3, <2>1, <2>3, <3>2 DEF CallInv, Configuration!Applying, a
  <2>6. ASSUME NEW d \in Callers \ {c} PROVE CallInv(d)'
    <3>1. CallInv(d) /\ call'[d] = call[d] /\ call[d] \in Calls
      BY <1>1, <2>3 DEF ConfigurationInv
    <3>2. call[d].at = "write" => lock'[call[d].app] = d
      BY <1>1, <2>2, <2>3, <3>1, ControlPlaneAssumption DEF CallInv, a
    <3>3. Configuration!Payload(d)' = Configuration!Payload(d)
      BY <3>1 DEF Configuration!Payload
    <3> QED BY <1>1, <1>3, <3>1, <3>2, <3>3 DEF CallInv, OpOf
  <2>7. ASSUME NEW b \in Apps PROVE LogInv(b)' /\ RuntimeInv(b)' /\ LockInv(b)'
    <3>1. LogInv(b) /\ RuntimeInv(b) /\ LockInv(b)
      BY DEF ConfigurationInv
    <3>2. LockInv(b)'
      BY <1>1, <2>1, <2>3, <3>1 DEF LockInv
    <3> QED BY <1>1, <3>1, <3>2 DEF LogInv, RuntimeInv
  <2>8. /\ \A k \in Keys : RequestInv(k)'
        /\ \A s \in ReviewIds : ReviewInv(s)'
        /\ \A p \in stored' : StoredInv(p)'
    BY <1>1, <1>3 DEF ConfigurationInv, RequestInv, ReviewInv, StoredInv, OpOf
  <2> QED BY <2>4, <2>5, <2>6, <2>7, <2>8 DEF ConfigurationInv
<1> QED BY <1>2, <1>3 DEF Configuration!LockService, Configuration!Revision

(* The holder of the lock appends the revision after the one it is for.    *)
LEMMA CommitConfigurationInv ==
  ASSUME ConfigurationInv, NEW c \in Callers, Configuration!CommitConfiguration(c)
  PROVE  ConfigurationInv'
<1> DEFINE a == call[c].app
           e == [call[c].draft EXCEPT !.by = call[c].id]
           n == Len(log[a])
           pay == Configuration!Payload(c)
<1>1. /\ call[c] \in Calls /\ CallInv(c) /\ call \in [Callers -> Calls]
      /\ lock \in [Apps -> Callers \cup {"none"}] /\ log \in [Apps -> Seq(Drafts)]
      /\ call[c].op \in Configuration!Applying /\ call[c].at = "write"
      /\ log' = [log EXCEPT ![a] = Append(@, e)] /\ stored' = stored \cup {pay}
      /\ lock' = [lock EXCEPT ![a] = "none"]
      /\ Configuration!Granted(c)
      /\ UNCHANGED <<sent, binding, runtime, review>>
  BY DEF ConfigurationInv, ConfigurationTypes, Configuration!CommitConfiguration,
         Configuration!Granted
<1>2. /\ a \in Apps /\ lock[a] = c /\ call[c].base = n /\ call[c].op = OpOf(call[c].id)
      /\ call[c].id \in Keys \cup ReviewIds
      /\ \A i \in 2..n : log[a][i].by # call[c].id
  BY <1>1 DEF CallInv
<1>3. /\ e \in Drafts /\ e.by = call[c].id
  BY <1>1, <1>2 DEF Drafts, Calls
<1>4. /\ pay \in Payloads /\ pay.op = call[c].op /\ pay.id = call[c].id /\ pay.app = a
      /\ pay.base = n /\ pay.draft = call[c].draft
  BY <1>1, <1>2 DEF Configuration!Payload, Payloads, Calls
<1>5. n \in Nat /\ log[a] \in Seq(Drafts)
  BY <1>1, <1>2, LenProperties
<1> HIDE DEF a, e, n, pay
<1>6. /\ log' \in [Apps -> Seq(Drafts)]
      /\ Len(log'[a]) = n + 1 /\ log'[a][n + 1] = e
      /\ \A i \in 1..n : log'[a][i] = log[a][i]
      /\ \A b \in Apps \ {a} : log'[b] = log[b]
  BY <1>1, <1>2, <1>3, <1>5, AppendProperties DEF n
<1>7. \A b \in Apps : /\ Len(log[b]) \in Nat /\ Len(log'[b]) \in Nat
                      /\ Len(log[b]) \leq Len(log'[b])
                      /\ \A i \in 1..Len(log[b]) : log'[b][i] = log[b][i]
  BY <1>1, <1>5, <1>6, LenProperties DEF n
<1>8. /\ lock' \in [Apps -> Callers \cup {"none"}] /\ lock'[a] = "none"
      /\ \A b \in Apps \ {a} : lock'[b] = lock[b]
  BY <1>1, <1>2
<1>9. PICK r \in Calls :
        /\ call' = [call EXCEPT ![c] = r]
        /\ \/ r = Configuration!NoCall
           \/ /\ r.at = IF call[c].op = "applyReview" THEN "mark" ELSE "answer"
              /\ r.op = call[c].op /\ r.id = call[c].id /\ r.app = call[c].app
              /\ r.base = call[c].base /\ r.draft = call[c].draft
  <2>1. CASE call[c].op = "apply"
    BY <1>1, <2>1, NoCallIs DEF Configuration!Granted, Configuration!Ends
  <2>2. CASE call[c].op # "apply"
    <3> DEFINE x == IF call[c].op = "applyReview" THEN "mark" ELSE "answer"
               r == [call[c] EXCEPT !.at = x]
    <3>1. call' = [call EXCEPT ![c] = r]
      BY <1>1, <2>2 DEF Configuration!Granted, Configuration!Moves
    <3>2. r \in Calls /\ r.at = x /\ r.op = call[c].op /\ r.id = call[c].id
          /\ r.app = call[c].app /\ r.base = call[c].base /\ r.draft = call[c].draft
      BY <1>1 DEF Calls
    <3> HIDE DEF r
    <3> QED BY <3>1, <3>2
  <2> QED BY <2>1, <2>2
<1>10. /\ call' \in [Callers -> Calls] /\ call'[c] = r
       /\ \A d \in Callers \ {c} : call'[d] = call[d]
  BY <1>1, <1>9
<1>11. ConfigurationTypes'
  BY <1>1, <1>4, <1>6, <1>8, <1>10 DEF ConfigurationInv, ConfigurationTypes
<1>12. CallInv(c)'
  <2>1. CASE r = Configuration!NoCall
    BY <1>10, <2>1, NoCallIs DEF CallInv, Configuration!Applying
  <2>2. CASE r # Configuration!NoCall
    <3>1. Configuration!Payload(c)' = pay
      BY <1>9, <1>10, <2>2 DEF Configuration!Payload, pay
    <3>2. call'[c].op = OpOf(call[c].id)
      BY <1>2, <1>9, <1>10, <2>2
    <3>3. call'[c].base \leq Len(log'[call'[c].app])
      BY <1>2, <1>5, <1>6, <1>9, <1>10, <2>2 DEF a
    <3> QED BY <1>1, <1>2, <1>9, <1>10, <2>2, <3>1, <3>2, <3>3
            DEF CallInv, Configuration!Applying, OpOf, a
  <2> QED BY <2>1, <2>2
<1>13. ASSUME NEW d \in Callers \ {c} PROVE CallInv(d)'
  <2>1. CallInv(d) /\ call'[d] = call[d] /\ call[d] \in Calls
    BY <1>1, <1>10 DEF ConfigurationInv
  <2>2. call[d].at = "write" =>
          lock'[call[d].app] = d /\ Len(log'[call[d].app]) = Len(log[call[d].app])
    BY <1>2, <1>6, <1>8, <2>1 DEF CallInv
  <2>3. Configuration!Payload(d)' = Configuration!Payload(d)
    BY <2>1 DEF Configuration!Payload
  <2>4. call[d].app \in Apps /\ call[d].base \leq Len(log[call[d].app]) =>
          /\ call[d].base \leq Len(log'[call[d].app])
          /\ \A i \in 2..call[d].base : log'[call[d].app][i] = log[call[d].app][i]
    <3> SUFFICES ASSUME call[d].app \in Apps, call[d].base \leq Len(log[call[d].app])
                 PROVE  /\ call[d].base \leq Len(log'[call[d].app])
                        /\ \A i \in 2..call[d].base : log'[call[d].app][i] = log[call[d].app][i]
      OBVIOUS
    <3>1. call[d].base \in Nat
      BY <2>1 DEF Calls
    <3> QED BY <1>7, <3>1
  <2> QED BY <1>1, <2>1, <2>2, <2>3, <2>4 DEF CallInv, OpOf
<1>14. \A k \in Keys : RequestInv(k)'
  <2> SUFFICES ASSUME NEW k \in Keys, sent[k].op = "apply" PROVE RequestInv(k)'
    BY <1>1 DEF RequestInv
  <2>1. sent[k].app \in Apps /\ sent[k].base \leq Len(log[sent[k].app]) /\ sent[k].base \in Nat
    BY DEF ConfigurationInv, RequestInv, ConfigurationTypes, Requests
  <2> QED BY <1>1, <1>7, <2>1 DEF RequestInv
<1>15. ASSUME NEW s \in ReviewIds PROVE ReviewInv(s)'
  <2>1. ReviewInv(s) /\ review[s].base \in Nat
    BY DEF ConfigurationInv, ConfigurationTypes, Reviews
  <2> QED BY <1>1, <1>7, <2>1 DEF ReviewInv
<1>16. ASSUME NEW p \in stored' PROVE StoredInv(p)'
  <2>1. CASE p \in stored
    <3>1. StoredInv(p) /\ p.base \in Nat /\ p.app \in Apps
      BY <2>1 DEF ConfigurationInv, ConfigurationTypes, Payloads
    <3>2. p.base + 1 \in 1..Len(log[p.app])
      BY <1>7, <3>1 DEF StoredInv
    <3> QED BY <1>1, <1>7, <3>1, <3>2 DEF StoredInv, OpOf
  <2>2. CASE p = pay
    <3>1. [p.draft EXCEPT !.by = p.id] = e
      BY <1>4, <2>2 DEF e
    <3>2. p.op = OpOf(p.id)
      BY <1>2, <1>4, <2>2
    <3>3. p.base < Len(log'[p.app]) /\ log'[p.app][p.base + 1] = e
      BY <1>4, <1>5, <1>6, <2>2
    <3> QED BY <1>1, <3>1, <3>2, <3>3 DEF StoredInv, OpOf
  <2> QED BY <1>1, <2>1, <2>2
<1>17. ASSUME NEW b \in Apps PROVE LogInv(b)' /\ RuntimeInv(b)' /\ LockInv(b)'
  <2>1. LogInv(b) /\ RuntimeInv(b) /\ LockInv(b)
    BY DEF ConfigurationInv
  <2>2. LogInv(b)'
    <3>1. CASE b # a
      <4>1. log'[b] = log[b] /\ stored \subseteq stored'
        BY <1>1, <1>6, <3>1
      <4>2. \A i \in 2..Len(log[b]) : \E p \in stored' : p.id = log[b][i].by /\ p.app = b
        BY <2>1, <4>1 DEF LogInv
      <4> QED BY <2>1, <4>1, <4>2 DEF LogInv
    <3>2. CASE b = a
      <4>1. \A i \in 2..(n + 1) : \E p \in stored' : p.id = log'[a][i].by /\ p.app = a
        BY <1>1, <1>3, <1>4, <1>5, <1>6, <2>1, <3>2 DEF LogInv, n
      <4>2. \A i, j \in 2..n : log[a][i].by = log[a][j].by => i = j
        BY <2>1, <3>2 DEF LogInv, n
      <4>3. \A i \in 2..n : log'[a][i] = log[a][i]
        BY <1>5, <1>6
      <4>4. log'[a][n + 1].by = call[c].id
        BY <1>3, <1>6
      <4>5. \A i, j \in 2..n : log'[a][i].by = log'[a][j].by => i = j
        BY <4>2, <4>3
      <4>6. \A i \in 2..n : log'[a][i].by # log'[a][n + 1].by
        BY <1>2, <4>3, <4>4
      <4>7. \A i \in 2..(n + 1) : i \in 2..n \/ i = n + 1
        BY <1>5
      <4>8. \A i, j \in 2..(n + 1) : log'[a][i].by = log'[a][j].by => i = j
        BY <4>5, <4>6, <4>7, Zenon
      <4>9. Len(log'[a]) = n + 1 /\ n + 1 \geq 1
        BY <1>5, <1>6
      <4> QED BY <3>2, <4>1, <4>8, <4>9 DEF LogInv
    <3> QED BY <3>1, <3>2
  <2>3. LockInv(b)'
    BY <1>1, <1>2, <1>8, <1>10, <2>1 DEF LockInv, a
  <2> QED BY <1>1, <2>1, <2>2, <2>3 DEF RuntimeInv
<1> QED BY <1>11, <1>12, <1>13, <1>14, <1>15, <1>16, <1>17 DEF ConfigurationInv

(* A request arrives with a key.                                           *)
LEMMA EditsAreDrafts ==
  ASSUME ConfigurationInv, NEW a \in Apps
  PROVE  /\ Configuration!Current(a) \in Drafts /\ Configuration!Edits(a) \subseteq Drafts
         /\ Configuration!Revision(a) \in Nat /\ Configuration!Revision(a) = Len(log[a])
<1>1. log[a] \in Seq(Drafts) /\ Len(log[a]) \in Nat /\ Len(log[a]) \geq 1
  BY LenProperties DEF ConfigurationInv, ConfigurationTypes, LogInv
<1>2. Configuration!Current(a) \in Drafts
  BY <1>1, ElementOfSeq DEF Configuration!Current, Configuration!Revision
<1> DEFINE now == Configuration!Current(a)
<1> HIDE DEF now
<1>3. now \in Drafts
  BY <1>2 DEF now
<1>4. /\ \A r \in Routes \cup {Configuration!NoRoute} : [now EXCEPT !.route = r] \in Drafts
      /\ \A x \in Dependencies : [now EXCEPT !.deps = @ \cup {x}] \in Drafts
      /\ \A d \in Databases \cup {"none"} : [now EXCEPT !.db = d] \in Drafts
      /\ \A k \in Keys \cup {"none"} : [now EXCEPT !.link = k] \in Drafts
  BY <1>3 DEF Drafts
<1>5. Configuration!Edits(a) \subseteq Drafts
  BY <1>4 DEF Configuration!Edits, now
<1> QED BY <1>1, <1>2, <1>5 DEF Configuration!Revision

LEMMA ApplyArrives ==
  ASSUME ConfigurationInv, NEW c \in Callers, NEW k \in Keys,
         Configuration!handleServiceConfigurationAPI(c, k)
  PROVE  ConfigurationInv'
<1>1. PICK request \in
        IF sent[k] # Configuration!NoRequest THEN {sent[k]}
        ELSE UNION {{[op |-> "apply", app |-> a, base |-> Configuration!Revision(a),
                      draft |-> d] : d \in Configuration!Edits(a)} : a \in Apps} :
        /\ request.op = "apply"
        /\ sent' = [sent EXCEPT ![k] = request]
        /\ call' = [call EXCEPT ![c] =
             [op |-> "apply", at |-> "key", id |-> k, app |-> request.app,
              base |-> request.base, draft |-> request.draft, ready |-> {}]]
  BY DEF Configuration!handleServiceConfigurationAPI
<1>2. /\ call[c] = Configuration!NoCall
      /\ UNCHANGED <<log, lock, stored, review, binding, runtime>>
      /\ sent \in [Keys -> Requests] /\ call \in [Callers -> Calls]
  BY DEF Configuration!handleServiceConfigurationAPI, ConfigurationInv, ConfigurationTypes
<1>3. request \in Requests /\ request.app \in Apps /\ request.base \leq Len(log[request.app])
  <2>1. CASE sent[k] # Configuration!NoRequest
    BY <1>1, <1>2, <2>1 DEF ConfigurationInv, RequestInv
  <2>2. CASE sent[k] = Configuration!NoRequest
    <3>1. PICK a \in Apps : \E d \in Configuration!Edits(a) :
            request = [op |-> "apply", app |-> a, base |-> Configuration!Revision(a),
                       draft |-> d]
      BY <1>1, <2>2
    <3> QED BY <3>1, EditsAreDrafts DEF Requests
  <2> QED BY <2>1, <2>2
<1>4. sent' \in [Keys -> Requests] /\ sent'[k] = request
      /\ \A j \in Keys \ {k} : sent'[j] = sent[j]
  BY <1>1, <1>2, <1>3
<1>5. KeysStand
  <2>1. sent[k].op # "none" => request = sent[k]
    BY <1>1 DEF Configuration!NoRequest
  <2> QED BY <1>2, <1>3, <1>4, <2>1 DEF KeysStand, RequestInv, ConfigurationInv
<1> DEFINE r == [op |-> "apply", at |-> "key", id |-> k, app |-> request.app,
                 base |-> request.base, draft |-> request.draft, ready |-> {}]
<1>6. /\ r \in Calls /\ r.op = "apply" /\ r.at = "key" /\ r.id = k /\ r.app = request.app
      /\ r.base = request.base /\ call' = [call EXCEPT ![c] = r]
  BY <1>1, <1>3 DEF Calls, Configuration!Applying, Requests
<1> HIDE DEF r
<1>7. call'[c] = r
  BY <1>2, <1>6
<1>8. OpOf(k)' = "apply"
  BY <1>1, <1>4, ControlPlaneAssumption DEF OpOf
<1>9. (call[c].op = OpOf(call[c].id))'
  BY <1>6, <1>7, <1>8 DEF OpOf
<1>10. CallInv(c)'
  BY <1>2, <1>3, <1>6, <1>7, <1>9 DEF CallInv, Configuration!Applying
<1>11. call[c].at # "write"
  BY <1>2, NoCallIs
<1> QED BY <1>2, <1>5, <1>6, <1>10, <1>11, ReviewsUnchanged, BindingsUnchanged, RequestGoes

LEMMA WritesInv ==
  ASSUME ConfigurationInv, Configuration!Writes
  PROVE  ConfigurationInv'
BY ApplyArrives, ReplayKeyInv, LockServiceInv, CommitConfigurationInv
   DEF Configuration!Writes, Configuration!ApplyServiceConfiguration

(* Proposal reviews.                                                       *)
LEMMA ReviewRead ==
  ASSUME ConfigurationInv, NEW r \in ReviewIds, Configuration!GetProposalReview(r),
         UNCHANGED <<log, stored>>
  PROVE  ReviewsStand
<1> DEFINE x == Configuration!proposalReviewStale(r)
<1>1. review[r] \in Reviews /\ review' = [review EXCEPT ![r].status = x]
  BY DEF ConfigurationInv, ConfigurationTypes, Configuration!GetProposalReview
<1>2. x \in {review[r].status, "expired", "stale"}
      /\ (review[r].status \notin Configuration!Open => x = review[r].status)
  BY DEF Configuration!proposalReviewStale
<1> HIDE DEF x
<1>3. /\ x = "none" <=> review[r].status = "none"
      /\ x = "applied" => review[r].status = "applied"
      /\ x \in Configuration!Open \cup {"none", "applied", "rejected", "stale", "expired"}
  BY <1>1, <1>2 DEF Configuration!Open, Reviews
<1> QED BY <1>1, <1>3, ReviewStatus

LEMMA InsertProposalReviewInv ==
  ASSUME ConfigurationInv, NEW c \in Callers, Configuration!InsertProposalReview(c)
  PROVE  ConfigurationInv'
<1> DEFINE r == call[c].id
           a == call[c].app
           v == [status |-> "review_required", app |-> a, base |-> call[c].base,
                 draft |-> call[c].draft, late |-> FALSE]
<1>1. /\ call[c] \in Calls /\ CallInv(c) /\ review \in [ReviewIds -> Reviews]
      /\ \A s \in ReviewIds : ReviewInv(s)
      /\ call[c].op = "review" /\ call[c].at = "insert"
      /\ Configuration!Ends(c) /\ UNCHANGED <<log, lock, sent, stored, binding, runtime>>
      /\ \/ review[r] = Configuration!NoReview /\ review' = [review EXCEPT ![r] = v]
         \/ UNCHANGED review
  BY DEF ConfigurationInv, ConfigurationTypes, Configuration!InsertProposalReview,
         Configuration!At
<1>2. r \in ReviewIds /\ a \in Apps /\ call[c].base \leq Len(log[a])
  BY <1>1 DEF CallInv
<1>3. /\ v \in Reviews /\ v.status = "review_required" /\ v.app = a
      /\ v.base = call[c].base
  BY <1>1, <1>2 DEF Reviews, Calls, Configuration!Open
<1> HIDE DEF v, r, a
<1>4. ReviewsStand
  <2>1. CASE review[r] = Configuration!NoReview /\ review' = [review EXCEPT ![r] = v]
    <3>1. review[r].status = "none"
      BY <2>1 DEF Configuration!NoReview
    <3> QED BY <1>1, <1>2, <1>3, <2>1, <3>1 DEF ReviewsStand, ReviewInv
  <2>2. CASE UNCHANGED review
    BY <1>1, <2>2, ReviewsUnchanged
  <2> QED BY <1>1, <2>1, <2>2
<1> QED BY <1>1, <1>4, KeysUnchanged, BindingsUnchanged, RequestEnds

LEMMA DecideReviewInv ==
  ASSUME ConfigurationInv, NEW c \in Callers,
         \/ Configuration!ApproveProposalReview(c)
         \/ Configuration!RejectProposalReview(c)
         \/ Configuration!MarkApplied(c)
  PROVE  ConfigurationInv'
<1> DEFINE r == call[c].id
<1>1. /\ call[c] \in Calls /\ CallInv(c) /\ review \in [ReviewIds -> Reviews]
      /\ UNCHANGED <<log, lock, sent, stored, binding, runtime>>
      /\ Configuration!Ends(c) /\ call[c].at # "write"
  BY DEF ConfigurationInv, ConfigurationTypes, Configuration!ApproveProposalReview,
         Configuration!RejectProposalReview, Configuration!MarkApplied, Configuration!At
<1>2. r \in ReviewIds
  BY <1>1 DEF CallInv, Configuration!ApproveProposalReview, Configuration!MarkApplied,
              Configuration!RejectProposalReview, Configuration!At
<1>3. ASSUME NEW from \in {"review_required", "approved"},
             NEW x \in {"approved", "rejected", "applied"},
             review' = [review EXCEPT ![r].status = x],
             review[r].status = from,
             x = "applied" => call[c].op = "applyReview" /\ call[c].at = "mark"
      PROVE  ReviewsStand
  <2>1. x = "applied" =>
          [op |-> "applyReview", id |-> r, app |-> review[r].app,
           base |-> review[r].base, draft |-> review[r].draft] \in stored
    BY <1>1, <1>3 DEF CallInv, Configuration!Payload
  <2> QED BY <1>1, <1>2, <1>3, <2>1, ReviewStatus DEF Configuration!Open
<1>4. \/ UNCHANGED review
      \/ /\ review[r].status = "review_required"
         /\ review' = [review EXCEPT ![r].status = "approved"]
      \/ /\ review[r].status \in Configuration!Open
         /\ review' = [review EXCEPT ![r].status = "rejected"]
      \/ /\ review[r].status = "approved" /\ call[c].op = "applyReview" /\ call[c].at = "mark"
         /\ review' = [review EXCEPT ![r].status = "applied"]
  BY <1>1, <1>2 DEF Configuration!ApproveProposalReview, Configuration!MarkApplied,
              Configuration!RejectProposalReview, Configuration!At, Reviews
<1> HIDE DEF r
<1>5. ReviewsStand
  BY <1>1, <1>3, <1>4, ReviewsUnchanged DEF Configuration!Open
<1> QED BY <1>1, <1>5, KeysUnchanged, BindingsUnchanged, RequestEnds

(* A step that only writes reviews back.                                   *)
LEMMA OnlyReviewsGo ==
  ASSUME ConfigurationInv, ReviewsStand,
         UNCHANGED <<log, lock, sent, stored, binding, runtime, call>>
  PROVE  ConfigurationInv'
<1>1. KeysStand /\ BindingsStand
  BY KeysUnchanged, BindingsUnchanged
<1>2. /\ call' \in [Callers -> Calls]
      /\ runtime' \in [Apps -> [binding: Keys \cup {"none"}, want: Databases \cup {"none"},
                                secret: Keys \cup {"none"}]]
      /\ \A a \in Apps : RuntimeInv(a)'
  BY <1>1, RuntimeStands DEF ConfigurationInv, ConfigurationTypes
<1> QED BY <1>1, <1>2, ConfigurationGoes

LEMMA AskReviewInv ==
  ASSUME ConfigurationInv, NEW c \in Callers, NEW r \in ReviewIds,
         \/ Configuration!ApplyProposalReview(c, r)
         \/ \E op \in {"approve", "reject"} : Configuration!handleProposalReviewAPI(c, r, op)
         \/ \E a \in Apps : \E d \in Configuration!Edits(a) :
              Configuration!CreateProposalReview(c, r, a, d)
  PROVE  ConfigurationInv'
<1>1. /\ call \in [Callers -> Calls] /\ call[c] = Configuration!NoCall
      /\ review[r] \in Reviews /\ ReviewInv(r)
      /\ UNCHANGED <<log, lock, sent, stored, binding, runtime>>
  BY DEF ConfigurationInv, ConfigurationTypes, Configuration!ApplyProposalReview,
         Configuration!handleProposalReviewAPI, Configuration!CreateProposalReview
<1>2. KeysStand /\ BindingsStand /\ call[c].at # "write"
  BY <1>1, KeysUnchanged, BindingsUnchanged, NoCallIs
<1>3. CASE UNCHANGED call /\ Configuration!GetProposalReview(r)
  BY <1>1, <1>3, ReviewRead, OnlyReviewsGo
<1>4. ASSUME NEW op \in {"approve", "reject"}, Configuration!GetProposalReview(r),
             call' = [call EXCEPT ![c] =
               [Configuration!NoCall EXCEPT !.op = op, !.at = "update", !.id = r]]
      PROVE  ConfigurationInv'
  <2> DEFINE k == [Configuration!NoCall EXCEPT !.op = op, !.at = "update", !.id = r]
  <2>1. k \in Calls /\ k.op = op /\ k.at = "update" /\ k.id = r
    BY NoCallIs DEF Calls
  <2>2. call' = [call EXCEPT ![c] = k] /\ ReviewsStand
    BY <1>1, <1>4, ReviewRead
  <2> HIDE DEF k
  <2>3. call'[c] = k
    BY <1>1, <2>2
  <2>4. CallInv(c)'
    BY <2>1, <2>3 DEF CallInv, Configuration!Applying
  <2> QED BY <1>1, <1>2, <2>1, <2>2, <2>4, RequestGoes
<1>5. CASE /\ Configuration!proposalReviewStale(r) = "approved"
           /\ UNCHANGED review
           /\ call' = [call EXCEPT ![c] =
                [op |-> "applyReview", at |-> "key", id |-> r, app |-> review[r].app,
                 base |-> review[r].base, draft |-> review[r].draft, ready |-> {}]]
  <2> DEFINE k == [op |-> "applyReview", at |-> "key", id |-> r, app |-> review[r].app,
                   base |-> review[r].base, draft |-> review[r].draft, ready |-> {}]
  <2>1. review[r].status = "approved"
    BY <1>5 DEF Configuration!proposalReviewStale
  <2>2. review[r].app \in Apps /\ review[r].base \leq Len(log[review[r].app])
    BY <1>1, <2>1 DEF ReviewInv
  <2>3. /\ k \in Calls /\ k.op = "applyReview" /\ k.at = "key" /\ k.id = r
        /\ k.app = review[r].app /\ k.base = review[r].base /\ k.draft = review[r].draft
        /\ call' = [call EXCEPT ![c] = k]
    BY <1>1, <1>5, <2>2 DEF Calls, Reviews, Configuration!Applying
  <2> HIDE DEF k
  <2>4. call'[c] = k
    BY <1>1, <2>3
  <2>5. (call[c].op = OpOf(call[c].id))'
    BY <2>3, <2>4 DEF OpOf
  <2>6. CallInv(c)'
    BY <1>1, <1>5, <2>1, <2>2, <2>3, <2>4, <2>5 DEF CallInv
  <2> QED BY <1>1, <1>2, <1>5, <2>3, <2>6, ReviewsUnchanged, RequestGoes
<1>6. ASSUME NEW a \in Apps, NEW d \in Configuration!Edits(a),
             Configuration!CreateProposalReview(c, r, a, d)
      PROVE  ConfigurationInv'
  <2> DEFINE k == [op |-> "review", at |-> "insert", id |-> r, app |-> a,
                   base |-> Configuration!Revision(a), draft |-> d, ready |-> {}]
  <2>1. /\ k \in Calls /\ k.op = "review" /\ k.at = "insert" /\ k.id = r /\ k.app = a
        /\ k.base = Len(log[a])
    BY EditsAreDrafts DEF Calls
  <2>2. call' = [call EXCEPT ![c] = k] /\ UNCHANGED review
    BY <1>6 DEF Configuration!CreateProposalReview
  <2> HIDE DEF k
  <2>3. call'[c] = k /\ Len(log[a]) \leq Len(log[a])
    BY <1>1, <2>2, EditsAreDrafts
  <2>4. CallInv(c)'
    BY <1>1, <2>1, <2>3 DEF CallInv, Configuration!Applying
  <2> QED BY <1>1, <1>2, <2>1, <2>2, <2>4, ReviewsUnchanged, RequestGoes
<1>7. CASE Configuration!ApplyProposalReview(c, r)
  BY <1>3, <1>5, <1>7 DEF Configuration!ApplyProposalReview
<1>8. CASE \E op \in {"approve", "reject"} : Configuration!handleProposalReviewAPI(c, r, op)
  BY <1>3, <1>4, <1>8 DEF Configuration!handleProposalReviewAPI
<1> QED BY <1>6, <1>7, <1>8

LEMMA ReviewStepsInv ==
  ASSUME ConfigurationInv, NEW c \in Callers, Configuration!ReviewSteps(c)
  PROVE  ConfigurationInv'
BY InsertProposalReviewInv, DecideReviewInv, AskReviewInv DEF Configuration!ReviewSteps

(* Realization.                                                            *)
LEMMA RealizeGoes ==
  ASSUME ConfigurationInv, BindingsStand, NEW c \in Callers, NEW r \in Calls,
         UNCHANGED <<log, lock, sent, stored, review, runtime>>,
         call' = [call EXCEPT ![c] = r], call[c].op = "realize", call[c].at # "write",
         r.op = "realize", r.at \in {"key", "create"}, r.id = call[c].id,
         r.app = call[c].app, r.base = call[c].base
  PROVE  ConfigurationInv'
<1>1. KeysStand /\ ReviewsStand
  BY KeysUnchanged, ReviewsUnchanged
<1>2. call'[c] = r /\ CallInv(c)
  BY DEF ConfigurationInv, ConfigurationTypes
<1>3. (call[c].op = OpOf(call[c].id))'
  BY <1>1, <1>2, OpGoes DEF Configuration!Applying
<1>4. CallInv(c)'
  BY <1>2, <1>3 DEF CallInv, Configuration!Applying
<1> QED BY <1>1, <1>4, RequestGoes

LEMMA SelectedIsFit ==
  ASSUME NEW seen, NEW a, NEW db, NEW selected
  PROVE  /\ Configuration!SelectBinding(seen, a, db, selected) \subseteq seen
         /\ \A k \in Configuration!SelectBinding(seen, a, db, selected) :
              binding[k].app = a /\ binding[k].db = db
BY DEF Configuration!SelectBinding

LEMMA PlanInv ==
  ASSUME ConfigurationInv, NEW c \in Callers, Configuration!PlanDependencyRealization(c)
  PROVE  ConfigurationInv'
<1> DEFINE cfg == call[c].draft
           match == Configuration!SelectBinding(Configuration!ReadyBindings, call[c].app,
                                                cfg.db, cfg.link)
<1>1. /\ call[c] \in Calls /\ call[c].op = "realize" /\ call[c].at = "plan"
      /\ UNCHANGED <<log, lock, sent, stored, review, binding, runtime>>
  BY DEF ConfigurationInv, ConfigurationTypes, Configuration!PlanDependencyRealization,
         Configuration!At
<1>2. BindingsStand
  BY <1>1, BindingsUnchanged
<1>3. match \subseteq Keys
  BY SelectedIsFit DEF Configuration!ReadyBindings
<1> HIDE DEF match
<1>4. \/ Configuration!Moves(c, "key")
      \/ \E k \in match : call' = [call EXCEPT ![c].at = "key", ![c].draft.link = k]
      \/ Configuration!Moves(c, "create")
      \/ Configuration!Ends(c)
  <2>1. match # {} => (CHOOSE k \in match : TRUE) \in match
    OBVIOUS
  <2> QED BY <2>1 DEF Configuration!PlanDependencyRealization, match
<1>5. ASSUME NEW x \in {"key", "create"}, Configuration!Moves(c, x) PROVE ConfigurationInv'
  <2> DEFINE r == [call[c] EXCEPT !.at = x]
  <2>1. /\ call' = [call EXCEPT ![c] = r] /\ r \in Calls /\ r.at = x /\ r.op = "realize"
        /\ r.id = call[c].id /\ r.app = call[c].app /\ r.base = call[c].base
    BY <1>1, <1>5 DEF Configuration!Moves, Calls
  <2> HIDE DEF r
  <2> QED BY <1>1, <1>2, <2>1, RealizeGoes
<1>6. ASSUME NEW k \in match, call' = [call EXCEPT ![c].at = "key", ![c].draft.link = k]
      PROVE  ConfigurationInv'
  <2> DEFINE d == [call[c].draft EXCEPT !.link = k]
             r == [call[c] EXCEPT !.at = "key", !.draft = d]
  <2>1. d \in Drafts
    BY <1>1, <1>3 DEF Calls, Drafts
  <2>2. call' = [call EXCEPT ![c] = r]
    BY <1>1, <1>6 DEF Calls
  <2> HIDE DEF d
  <2>3. /\ r \in Calls /\ r.at = "key" /\ r.op = "realize"
        /\ r.id = call[c].id /\ r.app = call[c].app /\ r.base = call[c].base
    BY <1>1, <2>1 DEF Calls
  <2> HIDE DEF r
  <2> QED BY <1>1, <1>2, <2>2, <2>3, RealizeGoes
<1>7. ASSUME Configuration!Ends(c) PROVE ConfigurationInv'
  BY <1>1, <1>2, <1>7, KeysUnchanged, ReviewsUnchanged, RequestEnds
<1> QED BY <1>4, <1>5, <1>6, <1>7

LEMMA CreateBindingInv ==
  ASSUME ConfigurationInv, NEW c \in Callers, Configuration!CreateBinding(c)
  PROVE  ConfigurationInv'
<1> DEFINE k == call[c].id
           a == call[c].app
           db == call[c].draft.db
           linked == call' = [call EXCEPT ![c].at = "key", ![c].draft.link = k]
           made == [app |-> a, db |-> db, life |-> "provisioning"]
<1>1. /\ call[c] \in Calls /\ CallInv(c) /\ call[c].op = "realize" /\ call[c].at = "create"
      /\ UNCHANGED <<log, lock, sent, stored, review, runtime>>
      /\ binding \in [Keys -> Bindings]
      /\ Configuration!Ends(c) \/ linked
      /\ \/ UNCHANGED binding
         \/ binding[k].life = "absent" /\ binding' = [binding EXCEPT ![k] = made]
  BY DEF ConfigurationInv, ConfigurationTypes, Configuration!CreateBinding,
         Configuration!At
<1>2. k \in Keys /\ a \in Apps
  <2>1. k \in Keys \cup ReviewIds /\ OpOf(k) = "realize" /\ a \in Apps
    BY <1>1 DEF CallInv, Configuration!Applying
  <2> QED BY <2>1 DEF OpOf
<1>3. made \in Bindings
  BY <1>1, <1>2 DEF Bindings, Calls, Drafts
<1>4. BindingsStand
  <2> HIDE DEF made, k
  <2> QED BY <1>1, <1>2, <1>3, BindingsUnchanged DEF BindingsStand
<1>5. CASE Configuration!Ends(c)
  BY <1>1, <1>4, <1>5, KeysUnchanged, ReviewsUnchanged, RequestEnds
<1>6. CASE linked
  <2> DEFINE d == [call[c].draft EXCEPT !.link = k]
             r == [call[c] EXCEPT !.at = "key", !.draft = d]
  <2>1. d \in Drafts
    BY <1>1, <1>2 DEF Calls, Drafts
  <2>2. call' = [call EXCEPT ![c] = r]
    BY <1>1, <1>6 DEF Calls
  <2> HIDE DEF d
  <2>3. /\ r \in Calls /\ r.at = "key" /\ r.op = "realize"
        /\ r.id = call[c].id /\ r.app = call[c].app /\ r.base = call[c].base
    BY <1>1, <2>1 DEF Calls
  <2> HIDE DEF r
  <2> QED BY <1>1, <1>4, <2>2, <2>3, RealizeGoes
<1> QED BY <1>1, <1>5, <1>6

LEMMA RealizeArrives ==
  ASSUME ConfigurationInv, NEW c \in Callers, NEW k \in Keys, NEW a \in Apps,
         Configuration!applyDependencies(c, k, a)
  PROVE  ConfigurationInv'
<1> DEFINE q == [Configuration!NoRequest EXCEPT !.op = "realize", !.app = a]
           r == [op |-> "realize", at |-> "plan", id |-> k, app |-> a,
                 base |-> Configuration!Revision(a), draft |-> Configuration!Current(a),
                 ready |-> {}]
<1>1. /\ call[c] = Configuration!NoCall /\ call \in [Callers -> Calls]
      /\ sent \in [Keys -> Requests]
      /\ sent[k] = Configuration!NoRequest \/ sent[k].op = "realize"
      /\ sent' = [sent EXCEPT ![k] = q] /\ call' = [call EXCEPT ![c] = r]
      /\ UNCHANGED <<log, lock, stored, review, binding, runtime>>
  BY DEF Configuration!applyDependencies, ConfigurationInv, ConfigurationTypes
<1>2. q \in Requests /\ q.op = "realize"
  BY NoCallIs DEF Configuration!NoRequest, Requests
<1>3. /\ r \in Calls /\ r.op = "realize" /\ r.at = "plan" /\ r.id = k /\ r.app = a
      /\ r.base = Len(log[a])
  BY EditsAreDrafts DEF Calls, Configuration!Applying
<1> HIDE DEF q, r
<1>4. KeysStand
  <2>1. sent[k].op \in {"none", "realize"}
    BY <1>1 DEF Configuration!NoRequest
  <2> QED BY <1>1, <1>2, <2>1 DEF KeysStand, RequestInv, ConfigurationInv
<1>5. call'[c] = r /\ OpOf(k)' = "realize" /\ Len(log[a]) \leq Len(log[a])
  BY <1>1, <1>2, ControlPlaneAssumption, EditsAreDrafts DEF OpOf
<1>6. (call[c].op = OpOf(call[c].id))'
  BY <1>3, <1>5 DEF OpOf
<1>7. CallInv(c)'
  BY <1>1, <1>3, <1>5, <1>6 DEF CallInv, Configuration!Applying
<1>8. call[c].at # "write"
  BY <1>1, NoCallIs
<1> QED BY <1>1, <1>3, <1>4, <1>7, <1>8, ReviewsUnchanged, BindingsUnchanged, RequestGoes

LEMMA RealizeStepsInv ==
  ASSUME ConfigurationInv, NEW c \in Callers, Configuration!RealizeSteps(c)
  PROVE  ConfigurationInv'
<1>1. CASE Configuration!AnswerRealized(c)
  BY <1>1, KeysUnchanged, ReviewsUnchanged, BindingsUnchanged, RequestEnds
     DEF Configuration!AnswerRealized, Configuration!At
<1> QED BY <1>1, PlanInv, CreateBindingInv, RealizeArrives DEF Configuration!RealizeSteps

(* Compilation: an application is given bindings of its own.               *)
LEMMA InjectedIsOwn ==
  ASSUME ConfigurationInv, NEW a \in Apps, NEW seen \in SUBSET Keys,
         NEW cfg \in Drafts, NEW k \in Configuration!Injected(seen, a, cfg)
  PROVE  k \in seen /\ binding[k].app = a /\ cfg.db \in {"none", binding[k].db}
<1>1. CASE Configuration!HasDependencies(cfg)
  BY <1>1, SelectedIsFit DEF Configuration!Injected, Configuration!SelectMapping
<1>2. CASE ~Configuration!HasDependencies(cfg)
  <2>1. k \in seen /\ cfg.db = "none"
        /\ Configuration!SelectBinding(seen, a, binding[k].db, cfg.link) = {k}
    BY <1>2 DEF Configuration!Injected, Configuration!SelectLegacy,
                Configuration!HasDependencies
  <2>2. k \in Configuration!SelectBinding(seen, a, binding[k].db, cfg.link)
    BY <2>1
  <2> QED BY <2>1, <2>2, SelectedIsFit
<1> QED BY <1>1, <1>2

LEMMA CompileStepsInv ==
  ASSUME ConfigurationInv, NEW c \in Callers, Configuration!CompileSteps(c)
  PROVE  ConfigurationInv'
<1>1. /\ call[c] \in Calls /\ CallInv(c) /\ call \in [Callers -> Calls]
      /\ UNCHANGED <<log, lock, sent, stored, review, binding>>
  BY DEF ConfigurationInv, ConfigurationTypes, Configuration!CompileSteps,
         Configuration!ApplicationRuntimeConfiguration, Configuration!ListBindings
<1>2. KeysStand /\ ReviewsStand /\ BindingsStand
  BY <1>1, KeysUnchanged, ReviewsUnchanged, BindingsUnchanged
<1>3. ASSUME NEW a \in Apps, Configuration!ListBindings(c, a) PROVE ConfigurationInv'
  <2> DEFINE ready == Configuration!ReadyBindings
             r == [Configuration!NoCall EXCEPT !.op = "compile", !.at = "config",
                                               !.app = a, !.ready = ready]
  <2>1. /\ call[c] = Configuration!NoCall /\ call' = [call EXCEPT ![c] = r]
        /\ UNCHANGED runtime
    BY <1>3 DEF Configuration!ListBindings
  <2>2. ready \subseteq Keys /\ \A k \in ready : binding[k].life = "ready"
    BY DEF Configuration!ReadyBindings
  <2> HIDE DEF ready
  <2>3. r \in Calls /\ r.op = "compile" /\ r.at = "config" /\ r.app = a /\ r.ready = ready
    BY <2>2, NoCallIs DEF Calls
  <2> HIDE DEF r
  <2>4. call'[c] = r
    BY <1>1, <2>1
  <2>5. CallInv(c)'
    BY <1>1, <2>2, <2>3, <2>4 DEF CallInv, Configuration!Applying
  <2>6. call[c].at # "write"
    BY <2>1, NoCallIs
  <2> QED BY <1>1, <1>2, <2>1, <2>3, <2>5, <2>6, RequestGoes
<1>4. ASSUME Configuration!ApplicationRuntimeConfiguration(c) PROVE ConfigurationInv'
  <2>0. PICK a \in Apps : a = call[c].app
    BY <1>1, <1>4 DEF Configuration!ApplicationRuntimeConfiguration, Configuration!At, CallInv
  <2> DEFINE cfg == Configuration!Current(a)
             given == Configuration!Injected(call[c].ready, a, cfg)
  <2>1. /\ call[c].op = "compile" /\ call[c].at = "config"
        /\ call[c].ready \in SUBSET Keys
        /\ \A b \in call[c].ready : binding[b].life # "absent"
    BY <1>1, <1>4 DEF Configuration!ApplicationRuntimeConfiguration, Configuration!At,
                      CallInv, Calls
  <2>2. cfg \in Drafts
    BY <2>1, EditsAreDrafts
  <2>3. \A k \in given : /\ k \in Keys /\ binding[k].life # "absent" /\ binding[k].app = a
                         /\ cfg.db \in {"none", binding[k].db}
    BY <2>1, <2>2, InjectedIsOwn
  <2> HIDE DEF cfg, given
  <2>4. \/ UNCHANGED runtime
        \/ \E k \in given \cup {"none"} :
             runtime' = [runtime EXCEPT ![a] = [binding |-> k, want |-> cfg.db,
                                                secret |-> "none"]]
    BY <1>4, <2>0 DEF Configuration!ApplicationRuntimeConfiguration, cfg, given
  <2> DEFINE Runtimes == [binding: Keys \cup {"none"}, want: Databases \cup {"none"},
                          secret: Keys \cup {"none"}]
  <2>5. runtime' \in [Apps -> Runtimes] /\ \A b \in Apps : RuntimeInv(b)'
    <3>1. CASE UNCHANGED runtime
      BY <1>2, <3>1, RuntimeStands DEF ConfigurationInv, ConfigurationTypes
    <3>2. ASSUME NEW k \in given \cup {"none"},
                 runtime' = [runtime EXCEPT ![a] = [binding |-> k, want |-> cfg.db,
                                                    secret |-> "none"]]
          PROVE  runtime' \in [Apps -> Runtimes] /\ \A b \in Apps : RuntimeInv(b)'
      <4> DEFINE v == [binding |-> k, want |-> cfg.db, secret |-> "none"]
      <4>1. v \in Runtimes /\ v.binding = k /\ v.want = cfg.db
        BY <2>2, <2>3 DEF Drafts
      <4>2. runtime \in [Apps -> Runtimes] /\ runtime' = [runtime EXCEPT ![a] = v]
        BY <3>2 DEF ConfigurationInv, ConfigurationTypes
      <4> HIDE DEF v
      <4>3. /\ runtime' \in [Apps -> Runtimes] /\ runtime'[a] = v
            /\ \A b \in Apps \ {a} : runtime'[b] = runtime[b]
        BY <2>1, <4>1, <4>2
      <4>4. RuntimeInv(a)'
        BY <1>1, <2>3, <3>2, <4>1, <4>3 DEF RuntimeInv
      <4>5. ASSUME NEW b \in Apps \ {a} PROVE RuntimeInv(b)'
        BY <1>2, <4>3, RuntimeStands
      <4> QED BY <4>3, <4>4, <4>5
    <3> QED BY <2>4, <3>1, <3>2
  <2>6. call' = [call EXCEPT ![c] = Configuration!NoCall]
    BY <1>4 DEF Configuration!ApplicationRuntimeConfiguration, Configuration!Ends
  <2>7. /\ call' \in [Callers -> Calls] /\ call'[c] = Configuration!NoCall
        /\ \A d \in Callers \ {c} : call'[d] = call[d]
    BY <1>1, <2>6, NoCallIs
  <2>8. CallInv(c)' /\ call[c].at # "write" /\ call'[c].at # "write"
    BY <2>1, <2>7, NoCallIs DEF CallInv, Configuration!Applying
  <2> QED BY <1>1, <1>2, <2>5, <2>7, <2>8, ConfigurationGoes
<1> QED BY <1>3, <1>4 DEF Configuration!CompileSteps

(* What happens besides requests: bindings become ready or go, reviews     *)
(* expire, secrets are resolved, requests die.                             *)
LEMMA OthersInv ==
  ASSUME ConfigurationInv, Configuration!Others
  PROVE  ConfigurationInv'
<1> DEFINE Runtimes == [binding: Keys \cup {"none"}, want: Databases \cup {"none"},
                        secret: Keys \cup {"none"}]
<1>1. /\ call \in [Callers -> Calls] /\ review \in [ReviewIds -> Reviews]
      /\ binding \in [Keys -> Bindings] /\ runtime \in [Apps -> Runtimes]
      /\ lock \in [Apps -> Callers \cup {"none"}]
  BY DEF ConfigurationInv, ConfigurationTypes
<1>2. ASSUME NEW r \in ReviewIds, Configuration!ListProposalReviews(r)
      PROVE  ConfigurationInv'
  BY <1>2, ReviewRead, OnlyReviewsGo DEF Configuration!ListProposalReviews
<1>3. ASSUME NEW r \in ReviewIds, Configuration!ReviewExpires(r)
      PROVE  ConfigurationInv'
  <2> DEFINE v == [review[r] EXCEPT !.late = TRUE]
  <2>1. /\ review' = [review EXCEPT ![r] = v]
        /\ UNCHANGED <<log, lock, sent, stored, binding, runtime, call>>
    BY <1>3 DEF Configuration!ReviewExpires
  <2>2. /\ v \in Reviews /\ v.status = review[r].status /\ v.app = review[r].app
        /\ v.base = review[r].base /\ v.draft = review[r].draft
    BY <1>1 DEF Reviews
  <2> HIDE DEF v
  <2>3. ReviewsStand
    BY <1>1, <2>1, <2>2 DEF ReviewsStand, ReviewInv, ConfigurationInv
  <2> QED BY <2>1, <2>3, OnlyReviewsGo
<1>4. ASSUME NEW k \in Keys, NEW x \in {"ready", "gone"},
             binding[k].life \in {"provisioning", "ready"},
             binding' = [binding EXCEPT ![k].life = x],
             UNCHANGED <<log, lock, sent, stored, review, runtime, call>>
      PROVE  ConfigurationInv'
  <2> DEFINE v == [binding[k] EXCEPT !.life = x]
  <2>1. /\ binding' = [binding EXCEPT ![k] = v] /\ v \in Bindings /\ v.life = x
        /\ v.app = binding[k].app /\ v.db = binding[k].db
    BY <1>1, <1>4 DEF Bindings
  <2> HIDE DEF v
  <2>2. BindingsStand
    BY <1>1, <1>4, <2>1 DEF BindingsStand
  <2>3. \A a \in Apps : RuntimeInv(a)'
    BY <1>4, <2>2, RuntimeStands
  <2>4. KeysStand /\ ReviewsStand
    BY <1>4, KeysUnchanged, ReviewsUnchanged
  <2> QED BY <1>1, <1>4, <2>2, <2>3, <2>4, ConfigurationGoes
<1>5. ASSUME NEW a \in Apps, Configuration!ResolveSecretMaterials(a)
      PROVE  ConfigurationInv'
  <2> DEFINE k == runtime[a].binding
             v == [runtime[a] EXCEPT !.secret = k]
  <2>1. /\ runtime' = [runtime EXCEPT ![a] = v]
        /\ UNCHANGED <<log, lock, sent, stored, review, binding, call>>
    BY <1>5 DEF Configuration!ResolveSecretMaterials
  <2>2. v \in Runtimes /\ v.binding = runtime[a].binding /\ v.want = runtime[a].want
    BY <1>1
  <2> HIDE DEF v
  <2>3. /\ runtime' \in [Apps -> Runtimes] /\ runtime'[a] = v
        /\ \A b \in Apps \ {a} : runtime'[b] = runtime[b]
    BY <1>1, <2>1, <2>2
  <2>4. KeysStand /\ ReviewsStand /\ BindingsStand
    BY <2>1, KeysUnchanged, ReviewsUnchanged, BindingsUnchanged
  <2>5. ASSUME NEW b \in Apps PROVE RuntimeInv(b)'
    <3>1. RuntimeInv(b)
      BY DEF ConfigurationInv
    <3> QED BY <2>1, <2>2, <2>3, <3>1 DEF RuntimeInv
  <2> QED BY <1>1, <2>1, <2>3, <2>4, <2>5, ConfigurationGoes
<1>6. ASSUME NEW c \in Callers, Configuration!RequestDies(c)
      PROVE  ConfigurationInv'
  <2>1. /\ call' = [call EXCEPT ![c] = Configuration!NoCall]
        /\ lock' = [a \in Apps |-> IF lock[a] = c THEN "none" ELSE lock[a]]
        /\ UNCHANGED <<log, sent, stored, review, binding, runtime>>
    BY <1>6 DEF Configuration!RequestDies, Configuration!Ends
  <2>2. /\ call' \in [Callers -> Calls] /\ call'[c] = Configuration!NoCall
        /\ \A d \in Callers \ {c} : call'[d] = call[d]
    BY <1>1, <2>1, NoCallIs
  <2>3. /\ lock' \in [Apps -> Callers \cup {"none"}]
        /\ \A a \in Apps : lock'[a] = IF lock[a] = c THEN "none" ELSE lock[a]
    BY <1>1, <2>1
  <2>4. ConfigurationTypes'
    BY <2>1, <2>2, <2>3 DEF ConfigurationInv, ConfigurationTypes
  <2>5. CallInv(c)'
    BY <2>2, NoCallIs DEF CallInv, Configuration!Applying
  <2>6. ASSUME NEW d \in Callers \ {c} PROVE CallInv(d)'
    <3>1. CallInv(d) /\ call'[d] = call[d]
      BY <2>2 DEF ConfigurationInv
    <3>2. call[d].at = "write" => lock'[call[d].app] = d
      BY <2>3, <3>1 DEF CallInv
    <3>3. Configuration!Payload(d)' = Configuration!Payload(d)
      BY <3>1 DEF Configuration!Payload
    <3> QED BY <2>1, <3>1, <3>2, <3>3 DEF CallInv, OpOf
  <2>7. ASSUME NEW a \in Apps PROVE LogInv(a)' /\ RuntimeInv(a)' /\ LockInv(a)'
    <3>1. LogInv(a) /\ RuntimeInv(a) /\ LockInv(a)
      BY DEF ConfigurationInv
    <3>2. LockInv(a)'
      BY <1>1, <2>2, <2>3, <3>1 DEF LockInv
    <3> QED BY <2>1, <3>1, <3>2 DEF LogInv, RuntimeInv
  <2>8. /\ \A k \in Keys : RequestInv(k)'
        /\ \A s \in ReviewIds : ReviewInv(s)'
        /\ \A p \in stored' : StoredInv(p)'
    BY <2>1 DEF ConfigurationInv, RequestInv, ReviewInv, StoredInv, OpOf
  <2> QED BY <2>4, <2>5, <2>6, <2>7, <2>8 DEF ConfigurationInv
<1>7. ASSUME NEW d \in Databases, Configuration!ResourceFails(d)
      PROVE  ConfigurationInv'
  BY <1>7, ReviewsUnchanged, OnlyReviewsGo DEF Configuration!ResourceFails
<1> QED BY <1>2, <1>3, <1>4, <1>5, <1>6, <1>7
        DEF Configuration!Others, Configuration!BindingReady, Configuration!BindingRemoved

LEMMA ConfigurationInitInv == Configuration!Init => ConfigurationInv
<1> SUFFICES ASSUME Configuration!Init PROVE ConfigurationInv
  OBVIOUS
<1> DEFINE none == [app |-> "none", db |-> "none", life |-> "absent"]
           v == [binding |-> "none", want |-> "none", secret |-> "none"]
           first == <<Configuration!Empty>>
<1>1. /\ Configuration!NoRequest \in Requests /\ Configuration!NoRequest.op = "none"
      /\ Configuration!NoReview \in Reviews /\ Configuration!NoReview.status = "none"
  BY NoCallIs DEF Configuration!NoRequest, Configuration!NoReview, Requests, Reviews
<1>2. first \in Seq(Drafts) /\ Len(first) = 1
  BY NoCallIs
<1>3. none \in Bindings
  BY DEF Bindings
<1>4. /\ log = [a \in Apps |-> first] /\ lock = [a \in Apps |-> "none"]
      /\ sent = [k \in Keys |-> Configuration!NoRequest] /\ stored = {}
      /\ review = [r \in ReviewIds |-> Configuration!NoReview]
      /\ binding = [k \in Keys |-> none] /\ runtime = [a \in Apps |-> v]
      /\ call = [c \in Callers |-> Configuration!NoCall]
  BY DEF Configuration!Init
<1> HIDE DEF none, first
<1>5. ConfigurationTypes
  BY <1>1, <1>2, <1>3, <1>4, NoCallIs DEF ConfigurationTypes
<1>6. \A c \in Callers : CallInv(c)
  BY <1>4, NoCallIs DEF CallInv, Configuration!Applying
<1>7. (\A k \in Keys : RequestInv(k)) /\ \A r \in ReviewIds : ReviewInv(r)
  BY <1>1, <1>4 DEF RequestInv, ReviewInv
<1>8. \A a \in Apps : LogInv(a) /\ RuntimeInv(a) /\ LockInv(a)
  <2> SUFFICES ASSUME NEW a \in Apps PROVE LogInv(a) /\ RuntimeInv(a) /\ LockInv(a)
    OBVIOUS
  <2>1. log[a] = first /\ runtime[a].binding = "none" /\ lock[a] = "none"
    BY <1>4
  <2>2. Len(log[a]) = 1
    BY <1>2, <2>1
  <2>3. 1 \geq 1 /\ \A i \in 2..1 : FALSE
    OBVIOUS
  <2> QED BY <2>1, <2>2, <2>3 DEF LogInv, RuntimeInv, LockInv
<1> QED BY <1>4, <1>5, <1>6, <1>7, <1>8 DEF ConfigurationInv

(* A review shown as applied made the revision after the one it was made   *)
(* for, exactly as reviewed, and a key or a review makes one revision at   *)
(* most, however copies of requests interleave and die; and an application *)
(* is only given bindings of its own.                                      *)
THEOREM ReviewedIsApplied == ControlPlaneSpec => []ConfigurationIsAsReviewed
<1>1. ControlPlaneInit => ConfigurationHolds
  BY ConfigurationInitInv DEF ControlPlaneInit, HostParts, ConfigurationHolds
<1>2. ConfigurationHolds /\ [ControlPlaneNext]_controlPlaneVars => ConfigurationHolds'
  <2> SUFFICES ASSUME ConfigurationHolds, [ControlPlaneNext]_controlPlaneVars,
                      part' = "configuration"
               PROVE  ConfigurationInv'
    BY DEF ConfigurationHolds
  <2>1. CASE UNCHANGED controlPlaneVars
    <3>1. /\ ConfigurationInv
          /\ UNCHANGED <<log, lock, sent, stored, review, binding, runtime, call>>
      BY <2>1 DEF controlPlaneVars, configurationVars, ConfigurationHolds
    <3> QED BY <3>1, ReviewsUnchanged, OnlyReviewsGo
  <2>2. CASE ControlPlaneNext
    <3>1. /\ part = "configuration"
          /\ \/ Configuration!Writes \/ Configuration!Others
             \/ \E c \in Callers :
                  \/ Configuration!ReviewSteps(c) \/ Configuration!RealizeSteps(c)
                  \/ Configuration!CompileSteps(c)
      BY <2>2 DEF ControlPlaneNext, ConfigurationMoves, HostMoves,
                  HostParts, GitHubMoves, AccessMoves
    <3> QED BY <3>1, WritesInv, OthersInv, ReviewStepsInv, RealizeStepsInv,
               CompileStepsInv DEF ConfigurationHolds
  <2> QED BY <2>1, <2>2
<1>3. ConfigurationHolds => ConfigurationIsAsReviewed
  <2> SUFFICES ASSUME ConfigurationInv
               PROVE  /\ Configuration!ConfigurationTypeOK
                      /\ Configuration!AppliedOnceAsReviewed
                      /\ Configuration!NoForeignBinding
    BY DEF ConfigurationHolds, ConfigurationIsAsReviewed
  <2>1. Configuration!ConfigurationTypeOK
    BY DEF ConfigurationInv, ConfigurationTypes, LockInv, Reviews, Bindings,
           Configuration!ConfigurationTypeOK
  <2>2. ASSUME NEW r \in ReviewIds, review[r].status = "applied"
        PROVE  /\ Len(log[review[r].app]) > review[r].base
               /\ log[review[r].app][review[r].base + 1] = [review[r].draft EXCEPT !.by = r]
    <3> DEFINE p == [op |-> "applyReview", id |-> r, app |-> review[r].app,
                     base |-> review[r].base, draft |-> review[r].draft]
    <3>1. p \in stored /\ review[r].app \in Apps /\ log \in [Apps -> Seq(Drafts)]
      BY <2>2 DEF ConfigurationInv, ConfigurationTypes, ReviewInv
    <3>2. StoredInv(p) /\ p \in Payloads
      BY <3>1 DEF ConfigurationInv, ConfigurationTypes
    <3>3. /\ p.id = r /\ p.app = review[r].app /\ p.base = review[r].base
          /\ p.draft = review[r].draft
      OBVIOUS
    <3> HIDE DEF p
    <3>4. p.base \in Nat /\ Len(log[p.app]) \in Nat
      BY <3>1, <3>2, <3>3, LenProperties DEF Payloads
    <3> QED BY <3>2, <3>3, <3>4 DEF StoredInv
  <2>3. Configuration!AppliedOnceAsReviewed
    BY <2>2 DEF ConfigurationInv, LogInv, Configuration!AppliedOnceAsReviewed,
                Configuration!Revision
  <2>4. Configuration!NoForeignBinding
    BY DEF ConfigurationInv, RuntimeInv, Configuration!NoForeignBinding
  <2> QED BY <2>1, <2>3, <2>4
<1> QED BY <1>1, <1>2, <1>3, PTL DEF ControlPlaneSpec

----------------------------------------------------------------------------
(* Bootstrap sessions of one host                                          *)

BootstrapRow ==
  [status: Host!Statuses, auth: {"ssh", "command"}, attempt: Nat,
   lease: {0} \cup Host!Tokens, live: BOOLEAN, over: BOOLEAN, next: -1..Steps,
   plan: {0} \cup Plans, pin: HostKeys \cup {"none"}]
Registering == {"register", "insert", "confirm", "write"}
Acting == {"connect", "step", "run", "check"} \cup Registering
InstallerRow ==
  [at: {"idle", "leased", "init", "verify", "await", "finish"} \cup Acting,
   s: Sessions, lease: {0} \cup Host!Tokens, next: -1..Steps, plan: {0} \cup Plans,
   result: {"none", "retry", "fatal", "hostkey", "completed"}]
MachineRow ==
  [key: HostKeys, marker: {0} \cup Sessions, done: [Sessions -> 0..Steps]]
ProbeRow ==
  [key: HostKeys \cup {"none"}, seen: {"none", "first_seen", "matched", "changed"},
   status: {"none", "pending", "confirmed", "consumed"}]

HostRows ==
  /\ session \in [Sessions -> BootstrapRow]
  /\ vault \subseteq Sessions /\ agents \subseteq Sessions /\ beats \subseteq Sessions
  /\ token \in [Sessions -> {0} \cup Host!Tokens]
  /\ node \in [Sessions -> {"none", "pending", "agent_connecting", "healthy", "removed"}]
  /\ worker \in [Callers -> InstallerRow]
  /\ host \in MachineRow /\ trust \in HostKeys \cup {"none"} /\ probe \in ProbeRow
  /\ plan \in Plans /\ mishaps \in 0..MaxMishaps

(* What a session says of the machine h is so: its checkpoint, that a      *)
(* heartbeat was seen, that it is completed.                               *)
ToldOf(v, s, h, registered, ready) ==
  /\ v.next <= h.done[s]
  /\ v.status \in {"verifying", "completed"} =>
       s \in registered /\ s \in ready /\ h.marker # 0
  /\ v.status = "completed" => h.done[s] = Steps

(* Every lease beyond MaxAttempts is owed to a change of the host key: a   *)
(* session that met another key than it is pinned to has an attempt less   *)
(* than the accidents m allow, and so has one whose next meeting is bound  *)
(* to fail.                                                                *)
Owed(p, h) == p.seen # "none" /\ p.key # h.key
AttemptsPaid(v, h, p, m) ==
  /\ v.attempt <= MaxAttempts + m
  /\ v.status \in {"none", "checked"} => v.attempt = 0
  /\ v.status \notin Host!Leased => v.lease = 0
  /\ v.status = "waiting" => v.attempt = 0 /\ v.auth = "command"
  /\ v.status \notin {"none", "checked"} /\ v.auth = "ssh" /\ v.pin # h.key => m >= 1
  /\ v.status \in {"pending", "retry_wait"} /\ v.auth = "ssh" =>
       v.attempt + 1 <= MaxAttempts + m
  /\ v.status \in {"pending", "retry_wait"} /\ v.auth = "ssh" /\ v.pin # h.key =>
       v.attempt + 2 <= MaxAttempts + m
  /\ v.status \in Host!Leased /\ v.lease # 0 /\ v.auth = "ssh" /\ v.pin # h.key =>
       v.attempt + 1 <= MaxAttempts + m
  /\ v.status = "waiting_host_key" => v.auth = "ssh" /\ v.attempt + 1 <= MaxAttempts + m
  /\ v.status = "waiting_host_key" /\ Owed(p, h) => v.attempt + 2 <= MaxAttempts + m

(* What the place a worker has come to says of its session v and of the    *)
(* machine.                                                                *)
InstallerInv(x, v, h, registered, ready, m) ==
  /\ x.next <= h.done[x.s]
  /\ x.at # "idle" => x.lease # 0 /\ v.status \notin {"none", "checked"}
  /\ x.at \in Acting => 0 <= x.next /\ x.next < Steps
  /\ x.at \in Registering => x.next = Steps - 1
  /\ x.at = "check" => x.next + 1 <= h.done[x.s]
  /\ x.at \in {"verify", "await"} => x.next = Steps
  /\ x.at \in {"confirm", "write"} => x.s \in registered
  /\ x.at = "finish" /\ x.result = "completed" =>
       /\ x.s \in registered /\ x.s \in ready /\ h.marker # 0
       /\ h.done[x.s] = Steps
  /\ x.at = "finish" /\ x.result = "hostkey" /\ v.lease = x.lease =>
       v.auth = "ssh" /\ v.attempt + 1 <= MaxAttempts + m

(* An identity on the machine is that of a registered Agent.               *)
MarkerInv(h, registered) == h.marker # 0 => h.marker \in registered

ProbeInv(p, h, m) ==
  /\ p.status # "none" => p.seen # "none"
  /\ Owed(p, h) => m >= 1

BootInv ==
  /\ HostRows
  /\ \A s \in Sessions :
       /\ ToldOf(session[s], s, host, agents, beats)
       /\ AttemptsPaid(session[s], host, probe, mishaps)
       /\ node[s] = "removed" => s \notin agents
  /\ \A w \in Callers :
       InstallerInv(worker[w], session[worker[w].s], host, agents, beats, mishaps)
  /\ MarkerInv(host, agents) /\ ProbeInv(probe, host, mishaps)
BootHolds == part \in HostParts => BootInv

(* A lease's token is nobody else's: there are more tokens than rows and   *)
(* workers that could hold one.                                            *)
LEMMA ValuesCounted ==
  ASSUME NEW S, IsFiniteSet(S), NEW f, f = [x \in S |-> f[x]],
         NEW T, T = {f[x] : x \in S}
  PROVE  IsFiniteSet(T) /\ Cardinality(T) \in Nat /\ Cardinality(T) <= Cardinality(S)
<1>1. f \in Surjection(S, T)
  BY DEF Surjection
<1> QED BY <1>1, FS_Surjection, FS_CardinalityType

LEMMA UnionCounted ==
  ASSUME NEW S, IsFiniteSet(S), NEW T, IsFiniteSet(T)
  PROVE  /\ IsFiniteSet(S \cup T)
         /\ Cardinality(S \cup T) \in Nat
         /\ Cardinality(S \cup T) <= Cardinality(S) + Cardinality(T)
<1>1. IsFiniteSet(S \cap T) /\ Cardinality(S \cap T) \in Nat
  <2>1. S \cap T \in SUBSET S
    OBVIOUS
  <2> QED BY <2>1, FS_Subset, FS_CardinalityType
<1>2. /\ IsFiniteSet(S \cup T)
      /\ Cardinality(S \cup T) = Cardinality(S) + Cardinality(T) - Cardinality(S \cap T)
  BY FS_Union
<1>3. /\ Cardinality(S) \in Nat /\ Cardinality(T) \in Nat
      /\ Cardinality(S \cup T) \in Nat
  BY <1>2, FS_CardinalityType
<1> QED BY <1>1, <1>2, <1>3

LEMMA TokensTyped ==
  /\ Host!Tokens \subseteq Nat \ {0} /\ IsFiniteSet(Host!Tokens)
  /\ Cardinality(Callers) \in Nat /\ Cardinality(Sessions) \in Nat
  /\ Cardinality(Host!Tokens) = Cardinality(Callers) + 2 * Cardinality(Sessions) + 1
<1>1. Cardinality(Callers) \in Nat /\ Cardinality(Sessions) \in Nat
  BY ControlPlaneAssumption, FS_CardinalityType
<1>2. PICK n \in Nat : n = Cardinality(Callers) + 2 * Cardinality(Sessions) + 1
  BY <1>1
<1>3. Host!Tokens = 1..n
  <2>1. /\ Host!Cardinality(Callers) = Cardinality(Callers)
        /\ Host!Cardinality(Sessions) = Cardinality(Sessions)
    BY Zenon DEF Cardinality, Host!Cardinality
  <2> QED BY <1>2, <2>1, Zenon DEF Host!Tokens
<1>4. /\ IsFiniteSet(1..n)
      /\ Cardinality(1..n) = n
  <2>1. /\ IsFiniteSet(1..n)
        /\ Cardinality(1..n) = IF 1 > n THEN 0 ELSE n - 1 + 1
    BY FS_Interval
  <2>2. n >= 1
    BY <1>1, <1>2
  <2> QED BY <2>1, <2>2
<1>5. 1..n \subseteq Nat \ {0}
  OBVIOUS
<1> QED BY <1>1, <1>2, <1>3, <1>4, <1>5

LEMMA TokenIsFresh ==
  ASSUME HostRows
  PROVE  /\ Host!FreshToken \in Host!Tokens /\ Host!FreshToken # 0
         /\ \A s \in Sessions : session[s].lease # Host!FreshToken
         /\ \A w \in Callers : worker[w].lease # Host!FreshToken
<1> DEFINE leases == [s \in Sessions |-> session[s].lease]
           held   == [w \in Callers |-> worker[w].lease]
           L == {leases[s] : s \in Sessions}
           T == {token[s] : s \in Sessions}
           H == {held[w] : w \in Callers}
<1>1. /\ IsFiniteSet(L) /\ Cardinality(L) \in Nat /\ Cardinality(L) <= Cardinality(Sessions)
      /\ IsFiniteSet(T) /\ Cardinality(T) \in Nat /\ Cardinality(T) <= Cardinality(Sessions)
      /\ IsFiniteSet(H) /\ Cardinality(H) \in Nat /\ Cardinality(H) <= Cardinality(Callers)
  <2>1. IsFiniteSet(Sessions) /\ IsFiniteSet(Callers)
    BY ControlPlaneAssumption
  <2>2. IsFiniteSet(L) /\ Cardinality(L) \in Nat /\ Cardinality(L) <= Cardinality(Sessions)
    BY <2>1, ValuesCounted
  <2>3. token = [s \in Sessions |-> token[s]]
    BY DEF HostRows
  <2>4. IsFiniteSet(T) /\ Cardinality(T) \in Nat /\ Cardinality(T) <= Cardinality(Sessions)
    BY <2>1, <2>3, ValuesCounted
  <2>5. IsFiniteSet(H) /\ Cardinality(H) \in Nat /\ Cardinality(H) <= Cardinality(Callers)
    BY <2>1, ValuesCounted
  <2> QED BY <2>2, <2>4, <2>5
<1>2. \E t \in Host!Tokens : t \notin (L \cup T) \cup H
  <2> SUFFICES ASSUME Host!Tokens \subseteq (L \cup T) \cup H PROVE FALSE
    OBVIOUS
  <2> HIDE DEF L, T, H
  <2>1. /\ IsFiniteSet(L \cup T) /\ Cardinality(L \cup T) \in Nat
        /\ Cardinality(L \cup T) <= Cardinality(L) + Cardinality(T)
    BY <1>1, UnionCounted
  <2>2. /\ IsFiniteSet((L \cup T) \cup H) /\ Cardinality((L \cup T) \cup H) \in Nat
        /\ Cardinality((L \cup T) \cup H) <= Cardinality(L \cup T) + Cardinality(H)
    BY <1>1, <2>1, UnionCounted
  <2>3. Cardinality(Host!Tokens) <= Cardinality((L \cup T) \cup H)
    BY <2>2, FS_Subset
  <2> QED BY <1>1, <2>1, <2>2, <2>3, TokensTyped
<1>3. \E t \in Host!Tokens :
        /\ \A s \in Sessions : session[s].lease # t /\ token[s] # t
        /\ \A w \in Callers : worker[w].lease # t
  <2>1. PICK t \in Host!Tokens : t \notin (L \cup T) \cup H
    BY <1>2
  <2>2. ASSUME NEW s \in Sessions PROVE session[s].lease # t /\ token[s] # t
    <3>1. leases[s] \in L /\ token[s] \in T /\ leases[s] = session[s].lease
      OBVIOUS
    <3> QED BY <2>1, <3>1
  <2>3. ASSUME NEW w \in Callers PROVE worker[w].lease # t
    <3>1. held[w] \in H /\ held[w] = worker[w].lease
      OBVIOUS
    <3> QED BY <2>1, <3>1
  <2> QED BY <2>2, <2>3
<1>4. /\ Host!FreshToken \in Host!Tokens
      /\ \A s \in Sessions : session[s].lease # Host!FreshToken /\ token[s] # Host!FreshToken
      /\ \A w \in Callers : worker[w].lease # Host!FreshToken
  BY <1>3 DEF Host!FreshToken
<1> QED BY <1>4, TokensTyped

(* The machine and what Cloud has heard of it only go forward; an identity *)
(* may be replaced by that of another registered Agent.                    *)
WorldGoes ==
  /\ host'.key = host.key \/ mishaps + 1 <= mishaps'
  /\ mishaps <= mishaps' /\ agents \subseteq agents' /\ beats \subseteq beats'
  /\ \A s \in Sessions : host.done[s] <= host'.done[s]
  /\ host.marker # 0 => host'.marker # 0
  /\ MarkerInv(host', agents')
  /\ Owed(probe', host') => Owed(probe, host) \/ mishaps + 1 <= mishaps'

(* What a change of a session may not take from the workers that hold or   *)
(* held it.                                                                *)
SessionKept(v, v2) ==
  /\ v.status \notin {"none", "checked"} => v2.status \notin {"none", "checked"}
  /\ v2.lease \in {0, v.lease} \/ \A w \in Callers : worker[w].lease # v2.lease
  /\ v2.lease = v.lease /\ v.lease # 0 => v2.attempt = v.attempt /\ v2.auth = v.auth

LEMMA SessionStands ==
  ASSUME BootInv, HostRows', WorldGoes, NEW s \in Sessions
  PROVE  /\ ToldOf(session[s], s, host', agents', beats')
         /\ AttemptsPaid(session[s], host', probe', mishaps')
<1> DEFINE v == session[s]
<1>1. v \in BootstrapRow /\ ToldOf(v, s, host, agents, beats)
      /\ AttemptsPaid(v, host, probe, mishaps)
  BY DEF BootInv, HostRows
<1>2. /\ mishaps \in Nat /\ mishaps' \in Nat /\ MaxAttempts \in Nat /\ Steps \in Nat
      /\ host.done[s] \in 0..Steps /\ host'.done[s] \in 0..Steps
      /\ Sessions \subseteq Nat \ {0}
  BY ControlPlaneAssumption DEF BootInv, HostRows, MachineRow
<1> HIDE DEF v
<1>3. ToldOf(v, s, host', agents', beats')
  <2>1. host.done[s] <= host'.done[s] /\ v.next \in Int
    BY <1>1 DEF WorldGoes, BootstrapRow
  <2>2. v.next <= host'.done[s]
    BY <1>1, <1>2, <2>1 DEF ToldOf
  <2>3. v.status = "completed" => host'.done[s] = Steps
    BY <1>1, <1>2, <2>1 DEF ToldOf
  <2>4. v.status \in {"verifying", "completed"} =>
          s \in agents' /\ s \in beats' /\ host'.marker # 0
    BY <1>1, <1>2 DEF ToldOf, WorldGoes
  <2> QED BY <2>2, <2>3, <2>4 DEF ToldOf
<1>4. AttemptsPaid(v, host', probe', mishaps')
  <2>1. v.attempt \in Nat
    BY <1>1 DEF BootstrapRow
  <2>2. /\ mishaps <= mishaps'
        /\ host'.key = host.key \/ mishaps + 1 <= mishaps'
        /\ Owed(probe', host') => Owed(probe, host) \/ mishaps + 1 <= mishaps'
    BY DEF WorldGoes
  <2>3. CASE mishaps + 1 <= mishaps'
    BY <1>1, <1>2, <2>1, <2>3 DEF AttemptsPaid
  <2>4. CASE ~(mishaps + 1 <= mishaps')
    <3>1. /\ mishaps' = mishaps /\ host'.key = host.key
          /\ Owed(probe', host') => Owed(probe, host)
      BY <1>2, <2>2, <2>4
    <3> QED BY <1>1, <3>1 DEF AttemptsPaid
  <2> QED BY <2>3, <2>4
<1> QED BY <1>3, <1>4 DEF v

LEMMA InstallerStands ==
  ASSUME BootInv, HostRows', WorldGoes, NEW w \in Callers, NEW v \in BootstrapRow,
         SessionKept(session[worker[w].s], v)
  PROVE  InstallerInv(worker[w], v, host', agents', beats', mishaps')
<1> DEFINE x == worker[w]
           u == session[x.s]
<1>1. /\ x \in InstallerRow /\ x.s \in Sessions /\ u \in BootstrapRow
      /\ InstallerInv(x, u, host, agents, beats, mishaps) /\ SessionKept(u, v)
      /\ v.lease \in {0, u.lease} \/ x.lease # v.lease
  BY DEF BootInv, HostRows, InstallerRow, SessionKept, WorldGoes
<1>2. /\ mishaps \in Nat /\ mishaps' \in Nat /\ MaxAttempts \in Nat /\ Steps \in Nat
      /\ host.done[x.s] \in 0..Steps /\ host'.done[x.s] \in 0..Steps
      /\ Sessions \subseteq Nat \ {0} /\ mishaps <= mishaps'
      /\ host.done[x.s] <= host'.done[x.s] /\ x.next \in -1..Steps
      /\ agents \subseteq agents' /\ beats \subseteq beats'
      /\ host.marker # 0 => host'.marker # 0
      /\ u.attempt \in Nat
  <2>1. /\ mishaps \in Nat /\ mishaps' \in Nat /\ host \in MachineRow /\ host' \in MachineRow
    BY DEF BootInv, HostRows
  <2>2. /\ MaxAttempts \in Nat /\ Steps \in Nat /\ Sessions \subseteq Nat \ {0}
    BY ControlPlaneAssumption
  <2>3. x.next \in -1..Steps /\ u.attempt \in Nat
    BY <1>1 DEF InstallerRow, BootstrapRow
  <2>4. host.done[x.s] \in 0..Steps /\ host'.done[x.s] \in 0..Steps
    BY <1>1, <2>1 DEF MachineRow
  <2>5. /\ mishaps <= mishaps' /\ agents \subseteq agents' /\ beats \subseteq beats'
        /\ host.done[x.s] <= host'.done[x.s]
        /\ host.marker # 0 => host'.marker # 0
    BY <1>1 DEF WorldGoes
  <2> HIDE DEF x, u
  <2> QED BY <2>1, <2>2, <2>3, <2>4, <2>5
<1> HIDE DEF x, u
<1>3. /\ x.next <= host'.done[x.s]
      /\ x.at = "check" => x.next + 1 <= host'.done[x.s]
  BY <1>1, <1>2 DEF InstallerInv
<1>4. x.at # "idle" => x.lease # 0 /\ v.status \notin {"none", "checked"}
  BY <1>1 DEF InstallerInv, SessionKept
<1>5. x.at \in {"confirm", "write"} => x.s \in agents'
  BY <1>1, <1>2 DEF InstallerInv
<1>6. x.at = "finish" /\ x.result = "completed" =>
        /\ x.s \in agents' /\ x.s \in beats' /\ host'.marker # 0
        /\ host'.done[x.s] = Steps
  BY <1>1, <1>2 DEF InstallerInv
<1>7. x.at = "finish" /\ x.result = "hostkey" /\ v.lease = x.lease =>
        v.auth = "ssh" /\ v.attempt + 1 <= MaxAttempts + mishaps'
  BY <1>1, <1>2, <1>4 DEF InstallerInv, SessionKept
<1>8. InstallerInv(x, v, host', agents', beats', mishaps')
  BY <1>1, <1>3, <1>4, <1>5, <1>6, <1>7 DEF InstallerInv
<1> QED BY <1>8 DEF x

(* A step of one session, one worker or the machine.                       *)
LEMMA BootGoes ==
  ASSUME BootInv, HostRows', WorldGoes,
         \A s \in Sessions :
           \/ session'[s] = session[s]
           \/ /\ SessionKept(session[s], session'[s])
              /\ ToldOf(session'[s], s, host', agents', beats')
              /\ AttemptsPaid(session'[s], host', probe', mishaps'),
         \A w \in Callers :
           \/ worker'[w] = worker[w]
           \/ InstallerInv(worker'[w], session'[worker'[w].s], host', agents', beats',
                           mishaps'),
         \A s \in Sessions : node'[s] = "removed" => s \notin agents',
         ProbeInv(probe', host', mishaps')
  PROVE  BootInv'
<1>1. ASSUME NEW s \in Sessions
      PROVE  /\ ToldOf(session'[s], s, host', agents', beats')
             /\ AttemptsPaid(session'[s], host', probe', mishaps')
             /\ SessionKept(session[s], session'[s])
  BY SessionStands DEF SessionKept
<1>2. ASSUME NEW w \in Callers
      PROVE  InstallerInv(worker'[w], session'[worker'[w].s], host', agents', beats', mishaps')
  <2>1. CASE worker'[w] = worker[w]
    <3>1. worker[w].s \in Sessions
      BY DEF BootInv, HostRows, InstallerRow
    <3>2. /\ session'[worker[w].s] \in BootstrapRow
          /\ SessionKept(session[worker[w].s], session'[worker[w].s])
      BY <1>1, <3>1 DEF HostRows
    <3> QED BY <2>1, <3>2, InstallerStands
  <2> QED BY <2>1
<1>3. MarkerInv(host', agents')
  BY DEF WorldGoes
<1> QED BY <1>1, <1>2, <1>3 DEF BootInv

LEMMA HostInitInv == ASSUME Host!Init PROVE BootInv
<1>1. /\ session = [s \in Sessions |-> Host!NoSession] /\ vault = {} /\ agents = {}
      /\ token = [s \in Sessions |-> 0] /\ node = [s \in Sessions |-> "none"]
      /\ worker = [w \in Callers |-> Host!Idle] /\ trust = "none"
      /\ host.key \in HostKeys /\ host.marker = 0
      /\ host.done = [s \in Sessions |-> 0] /\ host \in MachineRow
      /\ probe = Host!NoProbe /\ beats = {} /\ plan = 1 /\ mishaps = 0
  <2>1. (CHOOSE k \in HostKeys : TRUE) \in HostKeys
    BY ControlPlaneAssumption
  <2> QED BY <2>1, ControlPlaneAssumption DEF Host!Init, Host!None, MachineRow
<1>2. /\ Host!NoSession \in BootstrapRow /\ Host!NoSession.status = "none"
      /\ Host!NoSession.next = -1 /\ Host!NoSession.attempt = 0
      /\ Host!NoSession.lease = 0
  BY ControlPlaneAssumption DEF Host!NoSession, Host!None, BootstrapRow, Host!Statuses
<1>3. /\ Host!Idle \in InstallerRow /\ Host!Idle.at = "idle" /\ Host!Idle.next = -1
      /\ Host!Idle.s = 1
  BY ControlPlaneAssumption DEF Host!Idle, Host!None, InstallerRow
<1>4. /\ Host!NoProbe \in ProbeRow /\ Host!NoProbe.seen = "none"
      /\ Host!NoProbe.status = "none"
  BY DEF Host!NoProbe, Host!None, ProbeRow
<1>5. HostRows
  BY <1>1, <1>2, <1>3, <1>4, ControlPlaneAssumption DEF HostRows
<1>6. ASSUME NEW s \in Sessions
      PROVE  /\ ToldOf(session[s], s, host, agents, beats)
             /\ AttemptsPaid(session[s], host, probe, mishaps)
             /\ node[s] = "removed" => s \notin agents
  BY <1>1, <1>2, <1>4, ControlPlaneAssumption DEF ToldOf, AttemptsPaid, Host!Leased, Owed
<1>7. ASSUME NEW w \in Callers
      PROVE  InstallerInv(worker[w], session[worker[w].s], host, agents, beats, mishaps)
  BY <1>1, <1>3, ControlPlaneAssumption DEF InstallerInv, Acting, Registering
<1>8. MarkerInv(host, agents) /\ ProbeInv(probe, host, mishaps)
  BY <1>1, <1>4 DEF MarkerInv, ProbeInv, Owed
<1> QED BY <1>5, <1>6, <1>7, <1>8 DEF BootInv

LEMMA MishapsGo ==
  ASSUME BootInv, Host!Mishap \/ Host!Calm
  PROVE  /\ mishaps \in Nat /\ mishaps' \in Nat /\ mishaps' \in 0..MaxMishaps
         /\ mishaps <= mishaps'
         /\ mishaps + 1 <= mishaps' \/ mishaps' = mishaps
         /\ Host!Mishap => mishaps + 1 <= mishaps'
BY ControlPlaneAssumption DEF BootInv, HostRows, Host!Mishap, Host!Calm

(* A step of a worker, for its session.                                    *)
LEMMA InstallerStep ==
  ASSUME BootInv, NEW w \in Callers, NEW x \in InstallerRow, NEW v \in BootstrapRow,
         NEW s \in Sessions, s = worker[w].s, worker[w].at # "idle",
         x.at # "idle" => x.s = s,
         worker' = [worker EXCEPT ![w] = x], session' = [session EXCEPT ![s] = v],
         UNCHANGED <<trust, beats, plan>>, vault' \subseteq Sessions,
         probe' \in ProbeRow, ProbeInv(probe', host', mishaps'),
         Owed(probe', host') => Owed(probe, host) \/ mishaps + 1 <= mishaps',
         mishaps' \in 0..MaxMishaps, mishaps <= mishaps',
         token' \in [Sessions -> {0} \cup Host!Tokens],
         node' \in [Sessions -> {"none", "pending", "agent_connecting", "healthy", "removed"}],
         agents \subseteq agents', agents' \subseteq Sessions,
         host' \in MachineRow, host'.key = host.key,
         \A r \in Sessions : host.done[r] <= host'.done[r],
         host'.marker = host.marker \/ (host'.marker = s /\ s \in agents),
         \A r \in Sessions : node'[r] = "removed" => r \notin agents',
         \/ v = session[s]
         \/ /\ SessionKept(session[s], v) /\ ToldOf(v, s, host', agents', beats')
            /\ AttemptsPaid(v, host', probe', mishaps'),
         InstallerInv(x, v, host', agents', beats', mishaps') \/ x = Host!Idle
  PROVE  BootInv'
<1>1. HostRows'
  BY DEF BootInv, HostRows
<1>2. WorldGoes
  <2>1. s # 0
    BY ControlPlaneAssumption
  <2> QED BY <2>1 DEF WorldGoes, BootInv, MarkerInv
<1>3. /\ session'[s] = v
      /\ \A r \in Sessions : r # s => session'[r] = session[r]
      /\ worker'[w] = x
      /\ \A u \in Callers : u # w => worker'[u] = worker[u]
  BY DEF BootInv, HostRows
<1>5. InstallerInv(x, session'[x.s], host', agents', beats', mishaps')
  <2>1. CASE x = Host!Idle
    <3>1. x.at = "idle" /\ x.next = -1 /\ x.s \in Sessions
      BY <2>1 DEF Host!Idle, InstallerRow
    <3>2. host'.done[x.s] \in 0..Steps /\ Steps \in Nat
      BY <3>1, <1>1, ControlPlaneAssumption DEF HostRows, MachineRow
    <3> QED BY <3>1, <3>2 DEF InstallerInv, Acting, Registering
  <2>2. CASE x.at = "idle" /\ x # Host!Idle
    BY <2>2 DEF InstallerInv, Acting, Registering
  <2>3. CASE x.at # "idle"
    BY <1>3, <2>1, <2>3
  <2> QED BY <2>1, <2>2, <2>3
<1> QED BY <1>1, <1>2, <1>3, <1>5, BootGoes

(* Only what a worker does changes.                                        *)
LEMMA WorkerStep ==
  ASSUME BootInv, NEW w \in Callers, NEW x \in InstallerRow, worker[w].at # "idle",
         x.at # "idle" => x.s = worker[w].s,
         worker' = [worker EXCEPT ![w] = x], Host!Mishap \/ Host!Calm,
         UNCHANGED <<session, vault, token, node, agents, host, trust, probe, beats, plan>>,
         \/ InstallerInv(x, session[worker[w].s], host, agents, beats, mishaps')
         \/ x = Host!Idle
  PROVE  BootInv'
<1> DEFINE s == worker[w].s
<1>1. s \in Sessions /\ session[s] \in BootstrapRow
  BY DEF BootInv, HostRows, InstallerRow
<1>2. session' = [session EXCEPT ![s] = session[s]]
  BY DEF BootInv, HostRows
<1>3. /\ mishaps' \in 0..MaxMishaps /\ mishaps <= mishaps' /\ mishaps \in Nat
      /\ mishaps' \in Nat
  BY MishapsGo
<1>4. /\ vault' \subseteq Sessions /\ probe' \in ProbeRow
      /\ token' \in [Sessions -> {0} \cup Host!Tokens]
      /\ node' \in [Sessions -> {"none", "pending", "agent_connecting", "healthy", "removed"}]
      /\ agents' \subseteq Sessions /\ host' \in MachineRow
      /\ \A r \in Sessions : node'[r] = "removed" => r \notin agents'
      /\ \A r \in Sessions : host.done[r] \in Int
      /\ ProbeInv(probe', host', mishaps')
  BY <1>3 DEF BootInv, HostRows, MachineRow, ProbeInv
<1>5. \A r \in Sessions : host.done[r] <= host'.done[r]
  BY <1>4
<1> HIDE DEF s
<1>6. s = worker[w].s
  BY DEF s
<1> QED BY <1>1, <1>2, <1>3, <1>4, <1>5, <1>6, InstallerStep

LEMMA GoesTyped ==
  ASSUME HostRows, NEW w \in Callers,
         NEW at \in {"idle", "leased", "init", "verify", "await", "finish"} \cup Acting,
         Host!Goes(w, at)
  PROVE  \E x \in InstallerRow :
           /\ worker' = [worker EXCEPT ![w] = x] /\ x.at = at
           /\ x.s = worker[w].s /\ x.lease = worker[w].lease
           /\ x.next = worker[w].next
<1> DEFINE x == [worker[w] EXCEPT !.at = at]
<1>1. worker[w] \in InstallerRow
  BY DEF HostRows
<1>2. /\ x \in InstallerRow /\ x.at = at /\ x.s = worker[w].s
      /\ x.lease = worker[w].lease /\ x.next = worker[w].next
  BY <1>1 DEF InstallerRow
<1>3. worker' = [worker EXCEPT ![w] = x]
  BY DEF Host!Goes
<1> QED BY <1>2, <1>3

LEMMA EndsTyped ==
  ASSUME HostRows, NEW w \in Callers,
         NEW result \in {"none", "retry", "fatal", "hostkey", "completed"},
         Host!Ends(w, result)
  PROVE  \E x \in InstallerRow :
           /\ worker' = [worker EXCEPT ![w] = x] /\ x.at = "finish" /\ x.result = result
           /\ x.s = worker[w].s /\ x.lease = worker[w].lease
           /\ x.next = worker[w].next
<1> DEFINE x == [worker[w] EXCEPT !.at = "finish", !.result = result]
<1>1. worker[w] \in InstallerRow
  BY DEF HostRows
<1>2. /\ x \in InstallerRow /\ x.at = "finish" /\ x.result = result
      /\ x.s = worker[w].s /\ x.lease = worker[w].lease /\ x.next = worker[w].next
  BY <1>1 DEF InstallerRow
<1>3. worker' = [worker EXCEPT ![w] = x]
  BY DEF Host!Ends
<1> QED BY <1>2, <1>3

LEMMA InstallerKnown ==
  ASSUME BootInv, NEW w \in Callers
  PROVE  /\ worker[w] \in InstallerRow /\ worker[w].s \in Sessions
         /\ session[worker[w].s] \in BootstrapRow
         /\ worker[w].next \in -1..Steps /\ Steps \in Nat \ {0}
         /\ host.done[worker[w].s] \in 0..Steps
         /\ mishaps \in Nat /\ MaxAttempts \in Nat \ {0}
         /\ InstallerInv(worker[w], session[worker[w].s], host, agents, beats, mishaps)
         /\ ToldOf(session[worker[w].s], worker[w].s, host, agents, beats)
         /\ AttemptsPaid(session[worker[w].s], host, probe, mishaps)
<1>1. /\ worker[w] \in InstallerRow /\ session \in [Sessions -> BootstrapRow]
      /\ host \in MachineRow /\ mishaps \in Nat
  BY DEF BootInv, HostRows
<1>2. /\ worker[w].s \in Sessions /\ worker[w].next \in -1..Steps
  BY <1>1 DEF InstallerRow
<1>3. session[worker[w].s] \in BootstrapRow /\ host.done[worker[w].s] \in 0..Steps
  BY <1>1, <1>2 DEF MachineRow
<1> QED BY <1>1, <1>2, <1>3, ControlPlaneAssumption DEF BootInv

(* A worker that has ended its job without a claim.                        *)
LEMMA EndsClaimless ==
  ASSUME BootInv, NEW w \in Callers, NEW x \in InstallerRow, worker[w].at # "idle",
         NEW v \in BootstrapRow, v.status \notin {"none", "checked"},
         x.at = "finish", x.result \in {"retry", "fatal"},
         x.s = worker[w].s, x.lease = worker[w].lease, x.next = worker[w].next,
         host'.done[x.s] \in Int, host.done[x.s] <= host'.done[x.s]
  PROVE  InstallerInv(x, v, host', agents', beats', mishaps')
<1>1. /\ worker[w].next <= host.done[x.s] /\ worker[w].lease # 0
      /\ worker[w].next \in -1..Steps /\ Steps \in Nat /\ host.done[x.s] \in 0..Steps
  BY InstallerKnown DEF InstallerInv
<1>2. x.next <= host'.done[x.s]
  BY <1>1
<1> QED BY <1>1, <1>2 DEF InstallerInv, Acting, Registering

(* What Cloud is told of a session by the worker that holds it.            *)
LEMMA SessionReported ==
  ASSUME BootInv, HostRows', WorldGoes, NEW s \in Sessions,
         session[s].status \notin {"none", "checked"},
         NEW st \in Host!Leased \ {"verifying"},
         NEW v, v = [session[s] EXCEPT !.status = st]
  PROVE  /\ v \in BootstrapRow /\ v.status = st /\ v.lease = session[s].lease
         /\ v.auth = session[s].auth /\ v.attempt = session[s].attempt
         /\ v.next = session[s].next /\ v.pin = session[s].pin
         /\ SessionKept(session[s], v) /\ ToldOf(v, s, host', agents', beats')
         /\ AttemptsPaid(v, host', probe', mishaps')
<1> DEFINE u == session[s]
<1>1. /\ u \in BootstrapRow /\ ToldOf(u, s, host', agents', beats')
      /\ AttemptsPaid(u, host', probe', mishaps') /\ u.status \notin {"none", "checked"}
  BY SessionStands DEF BootInv, HostRows
<1>2. /\ v \in BootstrapRow /\ v.status = st /\ v.lease = u.lease /\ v.auth = u.auth
      /\ v.attempt = u.attempt /\ v.next = u.next /\ v.pin = u.pin
  BY <1>1 DEF BootstrapRow, Host!Statuses
<1> HIDE DEF u
<1>3. ToldOf(v, s, host', agents', beats')
  BY <1>1, <1>2 DEF ToldOf, Host!Leased
<1>4. AttemptsPaid(v, host', probe', mishaps')
  BY <1>1, <1>2 DEF AttemptsPaid, Host!Leased
<1>5. SessionKept(u, v)
  BY <1>2 DEF SessionKept, Host!Leased
<1> QED BY <1>2, <1>3, <1>4, <1>5 DEF u

(* The plan is compared, the job is waited for, or the lease is gone.      *)
LEMMA WorkerTurnsInv ==
  ASSUME BootInv, NEW w \in Callers,
         \/ Host!ValidateBootstrapCheckpoint(w) \/ Host!WaitForHeartbeat(w)
         \/ Host!LeaseLost(w),
         UNCHANGED <<vault, token, node, agents, host, trust, probe, beats, plan>>
  PROVE  BootInv'
<1> DEFINE s == worker[w].s
<1>1. /\ worker[w] \in InstallerRow /\ s \in Sessions
      /\ worker[w].next \in -1..Steps /\ Steps \in Nat \ {0}
      /\ InstallerInv(worker[w], session[s], host, agents, beats, mishaps)
      /\ ToldOf(session[s], s, host, agents, beats) /\ host.done[s] \in 0..Steps
  BY InstallerKnown
<1>2. UNCHANGED <<session, mishaps>> /\ Host!Calm /\ HostRows
  BY DEF Host!ValidateBootstrapCheckpoint, Host!WaitForHeartbeat, Host!LeaseLost, BootInv,
         Host!Calm
<1>3. CASE Host!ValidateBootstrapCheckpoint(w)
  <2>1. worker[w].at = "leased" /\ worker[w].at # "idle"
    BY <1>3 DEF Host!ValidateBootstrapCheckpoint
  <2>2. CASE Host!Goes(w, "init")
    <3>1. PICK x \in InstallerRow :
            /\ worker' = [worker EXCEPT ![w] = x] /\ x.at = "init"
            /\ x.s = s /\ x.lease = worker[w].lease /\ x.next = worker[w].next
      BY <1>2, <2>2, GoesTyped
    <3>2. InstallerInv(x, session[s], host, agents, beats, mishaps')
      BY <1>1, <1>2, <2>1, <3>1 DEF InstallerInv, Acting, Registering
    <3> QED BY <1>2, <2>1, <3>1, <3>2, WorkerStep
  <2>3. CASE Host!Ends(w, "fatal")
    <3>1. PICK x \in InstallerRow :
            /\ worker' = [worker EXCEPT ![w] = x] /\ x.at = "finish" /\ x.result = "fatal"
            /\ x.s = s /\ x.lease = worker[w].lease /\ x.next = worker[w].next
      BY <1>2, <2>3, EndsTyped
    <3>2. InstallerInv(x, session[s], host, agents, beats, mishaps')
      BY <1>1, <1>2, <2>1, <3>1 DEF InstallerInv, Acting, Registering
    <3> QED BY <1>2, <2>1, <3>1, <3>2, WorkerStep
  <2>4. CASE worker[w].next # -1 /\ worker[w].next < Steps /\ Host!Goes(w, "connect")
    <3>1. PICK x \in InstallerRow :
            /\ worker' = [worker EXCEPT ![w] = x] /\ x.at = "connect"
            /\ x.s = s /\ x.lease = worker[w].lease /\ x.next = worker[w].next
      BY <1>2, <2>4, GoesTyped DEF Acting
    <3>2. InstallerInv(x, session[s], host, agents, beats, mishaps')
      BY <1>1, <1>2, <2>1, <2>4, <3>1 DEF InstallerInv, Acting, Registering
    <3> QED BY <1>2, <2>1, <3>1, <3>2, WorkerStep
  <2>5. CASE ~(worker[w].next < Steps) /\ Host!Goes(w, "verify")
    <3>1. PICK x \in InstallerRow :
            /\ worker' = [worker EXCEPT ![w] = x] /\ x.at = "verify"
            /\ x.s = s /\ x.lease = worker[w].lease /\ x.next = worker[w].next
      BY <1>2, <2>5, GoesTyped DEF Acting
    <3>2. InstallerInv(x, session[s], host, agents, beats, mishaps')
      BY <1>1, <1>2, <2>1, <2>5, <3>1 DEF InstallerInv, Acting, Registering
    <3> QED BY <1>2, <2>1, <3>1, <3>2, WorkerStep
  <2> QED BY <1>3, <2>2, <2>3, <2>4, <2>5 DEF Host!ValidateBootstrapCheckpoint
<1>4. CASE Host!WaitForHeartbeat(w)
  <2>1. worker[w].at = "await" /\ worker[w].at # "idle"
    BY <1>4 DEF Host!WaitForHeartbeat
  <2>2. PICK result \in {"completed", "retry"} :
          /\ Host!Ends(w, result)
          /\ result = "completed" => session[s].status = "verifying"
    BY <1>4 DEF Host!WaitForHeartbeat
  <2>3. PICK x \in InstallerRow :
          /\ worker' = [worker EXCEPT ![w] = x] /\ x.at = "finish" /\ x.result = result
          /\ x.s = s /\ x.lease = worker[w].lease /\ x.next = worker[w].next
    BY <1>2, <2>2, EndsTyped
  <2>4. host.done[s] = Steps
    BY <1>1, <2>1 DEF InstallerInv
  <2>5. InstallerInv(x, session[s], host, agents, beats, mishaps')
    BY <1>1, <1>2, <2>1, <2>2, <2>3, <2>4 DEF InstallerInv, Acting, Registering, ToldOf
  <2> QED BY <1>2, <2>1, <2>3, <2>5, WorkerStep
<1>5. CASE Host!LeaseLost(w)
  <2>1. Host!Idle \in InstallerRow /\ Host!Idle.at = "idle"
    BY ControlPlaneAssumption DEF Host!Idle, Host!None, InstallerRow
  <2>2. worker' = [worker EXCEPT ![w] = Host!Idle] /\ worker[w].at # "idle"
    BY <1>5 DEF Host!LeaseLost
  <2> QED BY <1>2, <2>1, <2>2, WorkerStep
<1> QED BY <1>3, <1>4, <1>5

LEMMA CrashWorkerInv ==
  ASSUME BootInv, NEW w \in Callers, Host!CrashWorker(w)
  PROVE  BootInv'
<1>1. /\ worker[w] # Host!Idle /\ Host!Mishap
      /\ worker' = [worker EXCEPT ![w] = Host!Idle]
      /\ UNCHANGED <<session, vault, token, node, agents, host, trust, probe, beats, plan>>
  BY DEF Host!CrashWorker
<1>2. Host!Idle \in InstallerRow /\ Host!Idle.at = "idle" /\ Host!Idle.next = -1
      /\ Host!Idle.s \in Sessions
  BY ControlPlaneAssumption DEF Host!Idle, Host!None, InstallerRow
<1>3. HostRows'
  BY <1>1, <1>2, MishapsGo DEF BootInv, HostRows
<1>4. WorldGoes
  <2>1. \A r \in Sessions : host.done[r] \in Int
    BY DEF BootInv, HostRows, MachineRow
  <2> QED BY <1>1, <2>1, MishapsGo DEF WorldGoes, MarkerInv, Owed, BootInv
<1>5. /\ worker'[w] = Host!Idle
      /\ \A u \in Callers : u # w => worker'[u] = worker[u]
  BY <1>1 DEF BootInv, HostRows
<1>6. InstallerInv(Host!Idle, session'[Host!Idle.s], host', agents', beats', mishaps')
  <2>1. host'.done[Host!Idle.s] \in 0..Steps /\ Steps \in Nat
    BY <1>2, <1>3, ControlPlaneAssumption DEF HostRows, MachineRow
  <2> QED BY <1>2, <2>1 DEF InstallerInv, Acting, Registering
<1>7. ProbeInv(probe', host', mishaps')
  BY <1>1, MishapsGo DEF ProbeInv, Owed, BootInv
<1> QED BY <1>1, <1>3, <1>4, <1>5, <1>6, <1>7, BootGoes DEF BootInv

(* A checkpoint that lies behind what the machine has completed.           *)
LEMMA CheckpointInv ==
  ASSUME BootInv, NEW w \in Callers, NEW next \in 0..Steps,
         NEW then \in {"connect", "step", "verify"}, worker[w].at # "idle",
         next <= host.done[worker[w].s],
         then \in {"connect", "step"} => next < Steps, then = "verify" => next = Steps,
         Host!UpdateBootstrapCheckpointForLease(w, next, then),
         UNCHANGED <<vault, token, node, agents, host, trust, probe, beats, plan>>
  PROVE  BootInv'
<1> DEFINE s == worker[w].s
           v == [session[s] EXCEPT !.next = next, !.plan = worker[w].plan]
<1>1. /\ worker[w] \in InstallerRow /\ s \in Sessions /\ session[s] \in BootstrapRow
      /\ worker[w].next \in -1..Steps /\ Steps \in Nat \ {0}
      /\ InstallerInv(worker[w], session[s], host, agents, beats, mishaps)
      /\ ToldOf(session[s], s, host, agents, beats) /\ host.done[s] \in 0..Steps
      /\ HostRows
  BY InstallerKnown DEF BootInv
<1>11. /\ next \in -1..Steps
       /\ then \in {"idle", "leased", "init", "verify", "await", "finish"} \cup Acting
  <2>1. next \in -1..Steps
    BY <1>1
  <2> QED BY <2>1 DEF Acting
<1>2. Host!Mishap \/ Host!Calm
  BY DEF Host!UpdateBootstrapCheckpointForLease
<1>3. /\ mishaps' \in 0..MaxMishaps /\ mishaps <= mishaps' /\ mishaps \in Nat
      /\ mishaps' \in Nat
  BY <1>2, MishapsGo
<1>4. /\ vault' \subseteq Sessions /\ probe' \in ProbeRow
      /\ token' \in [Sessions -> {0} \cup Host!Tokens]
      /\ node' \in [Sessions -> {"none", "pending", "agent_connecting", "healthy", "removed"}]
      /\ agents' \subseteq Sessions /\ host' \in MachineRow
      /\ \A r \in Sessions : node'[r] = "removed" => r \notin agents'
      /\ \A r \in Sessions : host.done[r] <= host'.done[r]
      /\ ProbeInv(probe', host', mishaps')
      /\ host'.marker = host.marker /\ host'.key = host.key
      /\ Owed(probe', host') => Owed(probe, host)
  BY <1>3 DEF BootInv, HostRows, MachineRow, ProbeInv
<1>5. /\ v \in BootstrapRow /\ v.status = session[s].status /\ v.lease = session[s].lease
      /\ v.auth = session[s].auth /\ v.attempt = session[s].attempt
      /\ v.pin = session[s].pin /\ v.next = next
  <2>1. worker[w].plan \in {0} \cup Plans /\ next \in -1..Steps
    BY <1>1 DEF InstallerRow
  <2> QED BY <1>1, <2>1 DEF BootstrapRow
<1> HIDE DEF v
<1>6. /\ SessionKept(session[s], v) /\ ToldOf(v, s, host', agents', beats')
      /\ AttemptsPaid(v, host', probe', mishaps')
  <2>1. AttemptsPaid(session[s], host', probe', mishaps')
    <3>1. HostRows' /\ WorldGoes
      <4>1. session' = [session EXCEPT ![s] = v] \/ session' = session
        BY DEF Host!UpdateBootstrapCheckpointForLease, v
      <4>2. session' \in [Sessions -> BootstrapRow]
        BY <1>1, <1>5, <4>1 DEF HostRows
      <4>3. worker' \in [Callers -> InstallerRow]
        <5>1. CASE \E result \in {"fatal", "retry"} : Host!Ends(w, result)
          BY <1>1, <5>1, EndsTyped DEF HostRows
        <5>2. CASE worker' = [worker EXCEPT ![w].at = then, ![w].next = next]
          <6>1. [worker[w] EXCEPT !.at = then, !.next = next] \in InstallerRow
            BY <1>1, <1>11 DEF InstallerRow
          <6>2. worker' = [worker EXCEPT ![w] = [worker[w] EXCEPT !.at = then, !.next = next]]
            BY <5>2
          <6> QED BY <1>1, <6>1, <6>2 DEF HostRows
        <5> QED BY <5>1, <5>2 DEF Host!UpdateBootstrapCheckpointForLease
      <4>4. HostRows'
        BY <1>1, <1>3, <1>4, <4>2, <4>3 DEF HostRows
      <4> QED BY <1>3, <1>4, <4>4 DEF WorldGoes, MarkerInv, BootInv
    <3> QED BY <1>1, <3>1, SessionStands
  <2>2. AttemptsPaid(v, host', probe', mishaps')
    BY <1>5, <2>1 DEF AttemptsPaid
  <2>3. ToldOf(v, s, host', agents', beats')
    BY <1>1, <1>5 DEF ToldOf
  <2>4. SessionKept(session[s], v)
    BY <1>5 DEF SessionKept
  <2> QED BY <2>2, <2>3, <2>4
<1>7. s = worker[w].s /\ v.status \notin {"none", "checked"}
  BY <1>1, <1>5 DEF InstallerInv
<1>8. CASE /\ session' = [session EXCEPT ![s] = v]
           /\ worker' = [worker EXCEPT ![w].at = then, ![w].next = next]
  <2> DEFINE x == [worker[w] EXCEPT !.at = then, !.next = next]
  <2>1. /\ x \in InstallerRow /\ x.at = then /\ x.s = s /\ x.lease = worker[w].lease
        /\ x.next = next
    BY <1>1, <1>11 DEF InstallerRow
  <2>2. worker' = [worker EXCEPT ![w] = x]
    BY <1>8
  <2> HIDE DEF x, s
  <2>3. InstallerInv(x, v, host', agents', beats', mishaps')
    BY <1>1, <1>5, <1>7, <2>1 DEF InstallerInv, Acting, Registering
  <2> QED BY <1>1, <1>3, <1>4, <1>5, <1>6, <1>7, <1>8, <2>1, <2>2, <2>3, InstallerStep
<1>9. ASSUME NEW result \in {"fatal", "retry"}, Host!Ends(w, result),
             session' = [session EXCEPT ![s] = v] \/ session' = session
      PROVE  BootInv'
  <2>1. PICK x \in InstallerRow :
          /\ worker' = [worker EXCEPT ![w] = x] /\ x.at = "finish" /\ x.result = result
          /\ x.s = s /\ x.lease = worker[w].lease /\ x.next = worker[w].next
    BY <1>1, <1>9, EndsTyped
  <2> HIDE DEF s
  <2>2. ASSUME NEW u \in {v, session[s]}
        PROVE  InstallerInv(x, u, host', agents', beats', mishaps')
    <3>1. u \in BootstrapRow /\ u.status \notin {"none", "checked"}
      BY <1>1, <1>5, <1>7 DEF InstallerInv
    <3>2. host'.done[x.s] \in Int /\ host.done[x.s] <= host'.done[x.s]
      BY <1>1, <2>1
    <3> QED BY <1>7, <2>1, <3>1, <3>2, EndsClaimless
  <2>3. CASE session' = [session EXCEPT ![s] = v]
    BY <1>1, <1>3, <1>4, <1>5, <1>6, <1>7, <2>1, <2>2, <2>3, InstallerStep
  <2>4. CASE session' = session
    <3>1. session' = [session EXCEPT ![s] = session[s]]
      BY <1>1, <2>4 DEF HostRows
    <3> QED BY <1>1, <1>3, <1>4, <1>7, <2>1, <2>2, <3>1, InstallerStep
  <2> QED BY <1>9, <2>3, <2>4
<1>10. \/ /\ session' = [session EXCEPT ![s] = v]
          /\ worker' = [worker EXCEPT ![w].at = then, ![w].next = next]
       \/ /\ \E result \in {"fatal", "retry"} : Host!Ends(w, result)
          /\ session' = [session EXCEPT ![s] = v] \/ session' = session
  BY DEF Host!UpdateBootstrapCheckpointForLease, v
<1> QED BY <1>8, <1>9, <1>10

LEMMA CheckpointStepsInv ==
  ASSUME BootInv, NEW w \in Callers, Host!InitCheckpoint(w) \/ Host!CheckpointStep(w),
         UNCHANGED <<vault, token, node, agents, host, trust, probe, beats, plan>>
  PROVE  BootInv'
<1>1. /\ worker[w].next \in -1..Steps /\ Steps \in Nat \ {0}
      /\ InstallerInv(worker[w], session[worker[w].s], host, agents, beats, mishaps)
      /\ host.done[worker[w].s] \in 0..Steps
  BY InstallerKnown
<1>2. CASE Host!InitCheckpoint(w)
  <2>1. /\ worker[w].at = "init"
        /\ Host!UpdateBootstrapCheckpointForLease(w, 0, "connect")
    BY <1>2 DEF Host!InitCheckpoint
  <2>2. 0 \in 0..Steps /\ 0 < Steps /\ 0 <= host.done[worker[w].s]
    BY <1>1
  <2> QED BY <2>1, <2>2, CheckpointInv
<1>3. CASE Host!CheckpointStep(w)
  <2> DEFINE next == worker[w].next + 1
             then == IF next < Steps THEN "step" ELSE "verify"
  <2>1. /\ worker[w].at = "check"
        /\ Host!UpdateBootstrapCheckpointForLease(w, next, then)
    BY <1>3 DEF Host!CheckpointStep
  <2>2. /\ 0 <= worker[w].next /\ worker[w].next < Steps
        /\ next <= host.done[worker[w].s]
    BY <1>1, <2>1 DEF InstallerInv, Acting
  <2>3. /\ next \in 0..Steps /\ then \in {"connect", "step", "verify"}
        /\ then \in {"connect", "step"} => next < Steps
        /\ then = "verify" => next = Steps
    BY <1>1, <2>2
  <2> HIDE DEF next, then
  <2> QED BY <2>1, <2>2, <2>3, CheckpointInv
<1> QED BY <1>2, <1>3

(* What stays typed when only sessions and workers change.                 *)
LEMMA TablesStand ==
  ASSUME BootInv, NEW s \in Sessions,
         UNCHANGED <<vault, token, node, agents, host, trust, probe, beats, plan, mishaps>>
  PROVE  /\ vault' \subseteq Sessions /\ probe' \in ProbeRow
         /\ token' \in [Sessions -> {0} \cup Host!Tokens]
         /\ node' \in [Sessions -> {"none", "pending", "agent_connecting", "healthy",
                                    "removed"}]
         /\ agents \subseteq agents' /\ agents' \subseteq Sessions /\ host' \in MachineRow
         /\ host'.key = host.key /\ host'.marker = host.marker
         /\ \A r \in Sessions : node'[r] = "removed" => r \notin agents'
         /\ \A r \in Sessions : host.done[r] \in 0..Steps /\ host.done[r] <= host'.done[r]
         /\ ProbeInv(probe', host', mishaps')
         /\ Owed(probe', host') => Owed(probe, host)
         /\ mishaps \in Nat /\ mishaps' \in 0..MaxMishaps /\ mishaps <= mishaps'
<1>1. mishaps \in 0..MaxMishaps /\ mishaps \in Nat
  BY ControlPlaneAssumption DEF BootInv, HostRows
<1>2. \A r \in Sessions : host.done[r] \in 0..Steps /\ host.done[r] <= host'.done[r]
  BY ControlPlaneAssumption DEF BootInv, HostRows, MachineRow
<1>3. ProbeInv(probe', host', mishaps') /\ (Owed(probe', host') => Owed(probe, host))
  BY DEF BootInv
<1> QED BY <1>1, <1>2, <1>3 DEF BootInv, HostRows

(* A worker that holds the lease reports where it is.                      *)
LEMMA ReportsInv ==
  ASSUME BootInv, NEW w \in Callers, NEW x \in InstallerRow, worker[w].at # "idle",
         x.at # "idle", x.s = worker[w].s,
         worker' = [worker EXCEPT ![w] = x],
         NEW st \in Host!Leased \ {"verifying"}, Host!Reports(w, st),
         UNCHANGED <<vault, token, node, agents, host, trust, probe, beats, plan, mishaps>>,
         \A v \in BootstrapRow :
           /\ v.status = st /\ v.lease = session[x.s].lease /\ v.auth = session[x.s].auth
           /\ v.attempt = session[x.s].attempt
           => InstallerInv(x, v, host', agents', beats', mishaps')
  PROVE  BootInv'
<1> DEFINE s == worker[w].s
           v == [session[s] EXCEPT !.status = st]
<1>1. /\ s \in Sessions /\ session[s].status \notin {"none", "checked"} /\ HostRows
      /\ session[s] \in BootstrapRow
  BY InstallerKnown DEF InstallerInv, BootInv
<1>2. session' = [session EXCEPT ![s] = v]
  BY DEF Host!Reports
<1>3. v \in BootstrapRow
  BY <1>1 DEF BootstrapRow, Host!Statuses
<1>4. HostRows' /\ WorldGoes
  <2>1. session' \in [Sessions -> BootstrapRow]
    BY <1>1, <1>2, <1>3 DEF HostRows
  <2>2. HostRows'
    BY <1>1, <2>1 DEF HostRows
  <2>3. \A r \in Sessions : host.done[r] <= host'.done[r]
    BY <1>1, TablesStand
  <2> QED BY <1>1, <2>2, <2>3, TablesStand DEF WorldGoes, MarkerInv, BootInv
<1>5. /\ v.status = st /\ v.lease = session[s].lease
      /\ v.auth = session[s].auth /\ v.attempt = session[s].attempt
      /\ SessionKept(session[s], v) /\ ToldOf(v, s, host', agents', beats')
      /\ AttemptsPaid(v, host', probe', mishaps')
  <2> HIDE DEF s
  <2> QED BY <1>1, <1>4, SessionReported
<1> HIDE DEF v
<1>6. InstallerInv(x, v, host', agents', beats', mishaps')
  BY <1>3, <1>5
<1>7. s = worker[w].s /\ x.s = s
  OBVIOUS
<1> HIDE DEF s
<1> QED BY <1>1, <1>2, <1>3, <1>5, <1>6, <1>7, TablesStand, InstallerStep

(* ... or its report fails, and it goes on.                                *)
LEMMA ProgressInv ==
  ASSUME BootInv, NEW w \in Callers, NEW x \in InstallerRow, worker[w].at # "idle",
         x.at # "idle", x.s = worker[w].s,
         worker' = [worker EXCEPT ![w] = x],
         NEW st \in Host!Leased \ {"verifying"}, Host!Progress(w, st),
         UNCHANGED <<vault, token, node, agents, host, trust, probe, beats, plan>>,
         \A v \in BootstrapRow, m \in Nat :
           /\ v.status \notin {"none", "checked"} /\ v.lease = session[x.s].lease
           /\ v.auth = session[x.s].auth /\ v.attempt = session[x.s].attempt
           /\ mishaps <= m
           => InstallerInv(x, v, host, agents, beats, m)
  PROVE  BootInv'
<1>1. /\ x.s \in Sessions /\ session[x.s] \in BootstrapRow
      /\ session[x.s].status \notin {"none", "checked"} /\ mishaps \in Nat
  BY InstallerKnown DEF InstallerInv
<1>2. mishaps' \in Nat /\ mishaps <= mishaps'
  BY MishapsGo DEF Host!Progress
<1>3. CASE Host!Reports(w, st) /\ Host!Calm
  <2>1. ASSUME NEW v \in BootstrapRow, v.status = st, v.lease = session[x.s].lease,
               v.auth = session[x.s].auth, v.attempt = session[x.s].attempt
        PROVE  InstallerInv(x, v, host', agents', beats', mishaps')
    <3>1. v.status \notin {"none", "checked"}
      BY <2>1 DEF Host!Leased
    <3>2. InstallerInv(x, v, host, agents, beats, mishaps')
      BY <1>2, <2>1, <3>1
    <3> QED BY <3>2
  <2>2. mishaps' = mishaps
    BY <1>3 DEF Host!Calm
  <2> QED BY <1>3, <2>1, <2>2, ReportsInv
<1>4. CASE Host!Mishap /\ UNCHANGED session
  <2>1. InstallerInv(x, session[worker[w].s], host, agents, beats, mishaps')
    BY <1>1, <1>2
  <2> QED BY <1>4, <2>1, WorkerStep
<1> QED BY <1>3, <1>4 DEF Host!Progress

(* What is known of every session.                                         *)
LEMMA SessionKnown ==
  ASSUME BootInv, NEW s \in Sessions
  PROVE  /\ session[s] \in BootstrapRow /\ ToldOf(session[s], s, host, agents, beats)
         /\ AttemptsPaid(session[s], host, probe, mishaps)
         /\ session[s].attempt \in Nat /\ session[s].next \in -1..Steps
         /\ mishaps \in Nat /\ MaxAttempts \in Nat \ {0} /\ Steps \in Nat \ {0}
         /\ ProbeInv(probe, host, mishaps) /\ HostRows /\ probe \in ProbeRow
         /\ trust \in HostKeys \cup {"none"} /\ plan \in Plans
<1>1. session[s] \in BootstrapRow /\ mishaps \in Nat
  BY DEF BootInv, HostRows
<1>2. session[s].attempt \in Nat /\ session[s].next \in -1..Steps
  BY <1>1 DEF BootstrapRow
<1> QED BY <1>1, <1>2, ControlPlaneAssumption DEF BootInv, HostRows

LEMMA HostTouchedInv ==
  ASSUME BootInv, NEW w \in Callers,
         Host!Connect(w) \/ Host!StartStep(w) \/ Host!Verify(w),
         UNCHANGED <<vault, token, node, agents, host, trust, probe, beats, plan>>
  PROVE  BootInv'
<1> DEFINE s == worker[w].s
<1>1. /\ worker[w] \in InstallerRow /\ s \in Sessions /\ session[s] \in BootstrapRow
      /\ worker[w].next \in -1..Steps /\ Steps \in Nat \ {0} /\ mishaps \in Nat
      /\ InstallerInv(worker[w], session[s], host, agents, beats, mishaps)
      /\ AttemptsPaid(session[s], host, probe, mishaps) /\ HostRows
      /\ session[s].attempt \in Nat /\ MaxAttempts \in Nat
  BY InstallerKnown, SessionKnown DEF BootInv
<1>2. /\ worker[w].at \in {"connect", "step", "verify"} /\ worker[w].at # "idle"
      /\ session[s].status \notin {"none", "checked"} /\ worker[w].lease # 0
  BY <1>1 DEF Host!Connect, Host!StartStep, Host!Verify, InstallerInv
<1>3. CASE Host!Connect(w)
  <2>1. worker[w].at = "connect" /\ Host!Progress(w, "connecting")
    BY <1>3 DEF Host!Connect
  <2>2. CASE Host!Goes(w, "step")
    <3>1. PICK x \in InstallerRow :
            /\ worker' = [worker EXCEPT ![w] = x] /\ x.at = "step"
            /\ x.s = s /\ x.lease = worker[w].lease /\ x.next = worker[w].next
      BY <1>1, <2>2, GoesTyped DEF Acting
    <3>2. ASSUME NEW v \in BootstrapRow, NEW m \in Nat, v.status \notin {"none", "checked"}
          PROVE  InstallerInv(x, v, host, agents, beats, m)
      BY <1>1, <1>2, <2>1, <3>1, <3>2 DEF InstallerInv, Acting, Registering
    <3> QED BY <1>2, <2>1, <3>1, <3>2, ProgressInv DEF Host!Leased
  <2>3. ASSUME NEW result \in {"hostkey", "retry", "fatal"}, Host!Ends(w, result),
               result = "hostkey" => session[s].auth = "ssh" /\ session[s].pin # host.key
        PROVE  BootInv'
    <3>1. PICK x \in InstallerRow :
            /\ worker' = [worker EXCEPT ![w] = x] /\ x.at = "finish" /\ x.result = result
            /\ x.s = s /\ x.lease = worker[w].lease /\ x.next = worker[w].next
      BY <1>1, <2>3, EndsTyped
    <3>2. ASSUME NEW v \in BootstrapRow, NEW m \in Nat, mishaps <= m,
                 v.status \notin {"none", "checked"}, v.lease = session[s].lease,
                 v.auth = session[s].auth, v.attempt = session[s].attempt
          PROVE  InstallerInv(x, v, host, agents, beats, m)
      <4>1. result = "hostkey" /\ v.lease = x.lease =>
              v.auth = "ssh" /\ v.attempt + 1 <= MaxAttempts + m
        BY <1>1, <1>2, <2>1, <2>3, <3>1, <3>2 DEF AttemptsPaid
      <4> QED BY <1>1, <1>2, <2>1, <3>1, <3>2, <4>1 DEF InstallerInv, Acting, Registering
    <3>3. \A v \in BootstrapRow, m \in Nat :
            /\ v.status \notin {"none", "checked"} /\ v.lease = session[x.s].lease
            /\ v.auth = session[x.s].auth /\ v.attempt = session[x.s].attempt
            /\ mishaps <= m
            => InstallerInv(x, v, host, agents, beats, m)
      BY <3>1, <3>2
    <3>4. "connecting" \in Host!Leased \ {"verifying"}
      BY DEF Host!Leased
    <3> QED BY <1>2, <2>1, <3>1, <3>3, <3>4, ProgressInv
  <2> QED BY <1>3, <2>2, <2>3 DEF Host!Connect, Host!Fails
<1>4. CASE Host!StartStep(w)
  <2>1. worker[w].at = "step" /\ Host!Progress(w, "installing")
    BY <1>4 DEF Host!StartStep
  <2>2. PICK at \in {"register", "run"} :
          Host!Goes(w, at) /\ (at = "register" => worker[w].next = Steps - 1)
    BY <1>4 DEF Host!StartStep
  <2>3. PICK x \in InstallerRow :
          /\ worker' = [worker EXCEPT ![w] = x] /\ x.at = at
          /\ x.s = s /\ x.lease = worker[w].lease /\ x.next = worker[w].next
    BY <1>1, <2>2, GoesTyped DEF Acting, Registering
  <2>4. ASSUME NEW v \in BootstrapRow, NEW m \in Nat, v.status \notin {"none", "checked"}
        PROVE  InstallerInv(x, v, host, agents, beats, m)
    BY <1>1, <1>2, <2>1, <2>2, <2>3, <2>4 DEF InstallerInv, Acting, Registering
  <2> QED BY <1>2, <2>1, <2>2, <2>3, <2>4, ProgressInv DEF Host!Leased
<1>5. CASE Host!Verify(w)
  <2>1. /\ worker[w].at = "verify" /\ Host!Progress(w, "verifying_agent")
        /\ Host!Goes(w, "await")
    BY <1>5 DEF Host!Verify
  <2>2. PICK x \in InstallerRow :
          /\ worker' = [worker EXCEPT ![w] = x] /\ x.at = "await"
          /\ x.s = s /\ x.lease = worker[w].lease /\ x.next = worker[w].next
    BY <1>1, <2>1, GoesTyped
  <2>3. ASSUME NEW v \in BootstrapRow, NEW m \in Nat, v.status \notin {"none", "checked"}
        PROVE  InstallerInv(x, v, host, agents, beats, m)
    BY <1>1, <1>2, <2>1, <2>2, <2>3 DEF InstallerInv, Acting, Registering
  <2> QED BY <1>2, <2>1, <2>2, <2>3, ProgressInv DEF Host!Leased
<1> QED BY <1>3, <1>4, <1>5

(* Something completes on the machine, and Cloud may come to know.         *)
LEMMA MachineWrites ==
  ASSUME BootInv, NEW s \in Sessions, NEW d \in 0..Steps, host.done[s] <= d,
         NEW m \in {host.marker, s},
         host'.marker = m, host'.key = host.key, host' = [host EXCEPT !.marker = m, !.done[s] = d]
  PROVE  /\ host' \in MachineRow /\ host'.done[s] = d
         /\ \A r \in Sessions : host.done[r] <= host'.done[r]
<1>1. /\ host \in MachineRow /\ Steps \in Nat
      /\ \A r \in Sessions : host.done[r] \in 0..Steps
  BY ControlPlaneAssumption DEF BootInv, HostRows, MachineRow
<1>2. m \in {0} \cup Sessions
  BY <1>1 DEF MachineRow
<1>3. host'.done = [host.done EXCEPT ![s] = d]
  BY <1>1 DEF MachineRow
<1>4. host'.done \in [Sessions -> 0..Steps] /\ host'.done[s] = d
  BY <1>1, <1>3 DEF MachineRow
<1>5. \A r \in Sessions : host.done[r] <= host'.done[r]
  BY <1>1, <1>3 DEF MachineRow
<1>6. host' \in MachineRow
  BY <1>1, <1>2, <1>4 DEF MachineRow
<1> QED BY <1>4, <1>5, <1>6

LEMMA MachineStep ==
  ASSUME BootInv, NEW w \in Callers, NEW x \in InstallerRow, worker[w].at # "idle",
         NEW s \in Sessions, s = worker[w].s, x.s = s,
         host' \in MachineRow, host'.key = host.key,
         host'.marker = host.marker \/ (host'.marker = s /\ s \in agents),
         \A r \in Sessions : host.done[r] <= host'.done[r],
         worker' = [worker EXCEPT ![w] = x],
         NEW v \in BootstrapRow, session' = [session EXCEPT ![s] = v],
         v = session[s] \/ Host!Reports(w, "waiting_agent"),
         UNCHANGED <<vault, token, node, agents, trust, probe, beats, plan, mishaps>>,
         InstallerInv(x, v, host', agents, beats, mishaps)
  PROVE  BootInv'
<1>1. /\ HostRows /\ mishaps \in 0..MaxMishaps /\ mishaps \in Nat
      /\ session[s].status \notin {"none", "checked"}
      /\ session[s] \in BootstrapRow
  BY ControlPlaneAssumption, InstallerKnown DEF BootInv, HostRows, InstallerInv
<1>2. v = session[s] \/ v = [session[s] EXCEPT !.status = "waiting_agent"]
  BY <1>1 DEF Host!Reports, HostRows
<1>3. HostRows'
  BY <1>1 DEF HostRows
<1>4. WorldGoes
  <2>1. s # 0
    BY ControlPlaneAssumption
  <2> QED BY <1>1, <2>1 DEF WorldGoes, BootInv, MarkerInv, Owed
<1>5. \/ v = session[s]
      \/ /\ SessionKept(session[s], v) /\ ToldOf(v, s, host', agents', beats')
         /\ AttemptsPaid(v, host', probe', mishaps')
  BY <1>1, <1>2, <1>3, <1>4, SessionReported DEF Host!Leased
<1>6. ProbeInv(probe', host', mishaps') /\ (Owed(probe', host') => Owed(probe, host))
  BY DEF BootInv, ProbeInv, Owed
<1>7. /\ vault' \subseteq Sessions /\ probe' \in ProbeRow
      /\ token' \in [Sessions -> {0} \cup Host!Tokens]
      /\ node' \in [Sessions -> {"none", "pending", "agent_connecting", "healthy",
                                 "removed"}]
      /\ agents' \subseteq Sessions
      /\ \A r \in Sessions : node'[r] = "removed" => r \notin agents'
  BY DEF BootInv, HostRows
<1>8. InstallerInv(x, v, host', agents', beats', mishaps')
  OBVIOUS
<1>9. mishaps' \in 0..MaxMishaps /\ mishaps <= mishaps' /\ agents \subseteq agents'
  BY <1>1
<1> QED BY <1>5, <1>6, <1>7, <1>8, <1>9, InstallerStep

LEMMA MaxOfTwo ==
  ASSUME NEW a \in Int, NEW b \in Int
  PROVE  Host!Max({a, b}) = IF a >= b THEN a ELSE b
BY DEF Host!Max

LEMMA RunStepInv ==
  ASSUME BootInv, NEW w \in Callers, Host!RunStep(w),
         UNCHANGED <<vault, token, node, agents, trust, probe, beats, plan>>
  PROVE  BootInv'
<1> DEFINE s == worker[w].s
<1>1. /\ worker[w] \in InstallerRow /\ s \in Sessions /\ session[s] \in BootstrapRow
      /\ worker[w].next \in -1..Steps /\ Steps \in Nat \ {0} /\ mishaps \in Nat
      /\ InstallerInv(worker[w], session[s], host, agents, beats, mishaps)
      /\ host.done[s] \in 0..Steps /\ HostRows /\ host \in MachineRow
  BY InstallerKnown DEF BootInv, HostRows
<1>2. worker[w].at \in {"run", "register"} /\ UNCHANGED <<session, mishaps>>
  BY DEF Host!RunStep
<1>3. CASE /\ host' = [host EXCEPT !.done[s] = Host!Max({host.done[s], worker[w].next + 1})]
           /\ Host!Goes(w, "check")
  <2>1. PICK x \in InstallerRow :
          /\ worker' = [worker EXCEPT ![w] = x] /\ x.at = "check"
          /\ x.s = s /\ x.lease = worker[w].lease /\ x.next = worker[w].next
    BY <1>1, <1>3, GoesTyped DEF Acting
  <2>2. PICK d \in 0..Steps :
          /\ d = Host!Max({host.done[s], worker[w].next + 1})
          /\ host.done[s] <= d /\ worker[w].next + 1 <= d
    <3>1. worker[w].next + 1 \in 0..Steps
      BY <1>1, <1>2 DEF InstallerInv, Acting, Registering
    <3>2. \/ Host!Max({host.done[s], worker[w].next + 1}) = host.done[s]
             /\ host.done[s] >= worker[w].next + 1
          \/ Host!Max({host.done[s], worker[w].next + 1}) = worker[w].next + 1
             /\ host.done[s] < worker[w].next + 1
      BY <1>1, <3>1, MaxOfTwo
    <3> QED BY <1>1, <3>1, <3>2
  <2>3. /\ host' \in MachineRow /\ host'.key = host.key /\ host'.marker = host.marker
        /\ host'.done[s] = d /\ \A r \in Sessions : host.done[r] <= host'.done[r]
    <3>1. /\ host' = [host EXCEPT !.marker = host.marker, !.done[s] = d]
          /\ host'.key = host.key /\ host'.marker = host.marker
      BY <1>1, <1>3, <2>2 DEF MachineRow
    <3> QED BY <1>1, <2>2, <3>1, MachineWrites
  <2>4. PICK v \in BootstrapRow : v = session[s] /\ session' = [session EXCEPT ![s] = v]
    BY <1>1, <1>2 DEF HostRows
  <2>5. InstallerInv(x, v, host', agents, beats, mishaps)
    BY <1>1, <1>2, <2>1, <2>2, <2>3, <2>4 DEF InstallerInv, Acting, Registering
  <2>6. s = worker[w].s /\ worker[w].at # "idle" /\ s \in Sessions
    BY <1>1, <1>2
  <2> HIDE DEF s
  <2> QED BY <1>2, <2>1, <2>3, <2>4, <2>5, <2>6, MachineStep
<1>4. ASSUME NEW result \in {"retry", "fatal"}, Host!Ends(w, result), UNCHANGED host
      PROVE  BootInv'
  <2>1. PICK x \in InstallerRow :
          /\ worker' = [worker EXCEPT ![w] = x] /\ x.at = "finish" /\ x.result = result
          /\ x.s = s /\ x.lease = worker[w].lease /\ x.next = worker[w].next
    BY <1>1, <1>4, EndsTyped
  <2>2. InstallerInv(x, session[s], host, agents, beats, mishaps')
    BY <1>1, <1>2, <2>1 DEF InstallerInv, Acting, Registering
  <2> QED BY <1>2, <1>4, <2>1, <2>2, WorkerStep DEF Host!Calm
<1> QED BY <1>3, <1>4 DEF Host!RunStep, Host!Fails

LEMMA ProcessLeaseInv ==
  ASSUME BootInv, NEW w \in Callers, Host!processLease(w)
  PROVE  BootInv'
<1>1. UNCHANGED <<vault, token, node, agents, trust, probe, beats, plan>>
  BY DEF Host!processLease
<1>2. CASE Host!RunStep(w)
  BY <1>1, <1>2, RunStepInv
<1>3. CASE /\ Host!InitCheckpoint(w) \/ Host!CheckpointStep(w)
           /\ UNCHANGED host
  BY <1>1, <1>3, CheckpointStepsInv
<1>4. CASE /\ Host!Connect(w) \/ Host!StartStep(w) \/ Host!Verify(w)
           /\ UNCHANGED host
  BY <1>1, <1>4, HostTouchedInv
<1>5. CASE /\ \/ Host!ValidateBootstrapCheckpoint(w) \/ Host!WaitForHeartbeat(w)
              \/ Host!LeaseLost(w)
           /\ UNCHANGED host
  BY <1>1, <1>5, WorkerTurnsInv
<1> QED BY <1>2, <1>3, <1>4, <1>5 DEF Host!processLease

LEMMA ReleasedTyped ==
  ASSUME NEW u \in BootstrapRow, NEW st \in Host!Statuses
  PROVE  /\ Host!Released(u, st) \in BootstrapRow
         /\ Host!Released(u, st).status = st /\ Host!Released(u, st).lease = 0
         /\ Host!Released(u, st).auth = u.auth
         /\ Host!Released(u, st).attempt = u.attempt
         /\ Host!Released(u, st).pin = u.pin /\ Host!Released(u, st).next = u.next
BY DEF Host!Released, BootstrapRow

LEMMA RetiredTyped ==
  ASSUME BootInv, NEW s \in Sessions, NEW st
  PROVE  /\ Host!retireBootstrapNode(s, st) \in
              {"none", "pending", "agent_connecting", "healthy", "removed"}
         /\ Host!retireBootstrapNode(s, st) = "removed" => s \notin agents
BY DEF Host!retireBootstrapNode, BootInv, HostRows

(* The job ends; its claim of success was earned, and a session that met   *)
(* another key has paid for it.                                            *)
LEMMA FinishInv ==
  ASSUME BootInv, NEW w \in Callers, Host!FinishBootstrapSessionForLease(w)
  PROVE  BootInv'
<1> DEFINE s == worker[w].s
           result == worker[w].result
           status == Host!FinishedStatus(session[s], result)
           v == Host!Released(session[s], status)
<1>1. /\ worker[w] \in InstallerRow /\ s \in Sessions /\ session[s] \in BootstrapRow
      /\ Steps \in Nat \ {0} /\ mishaps \in Nat /\ MaxAttempts \in Nat \ {0}
      /\ InstallerInv(worker[w], session[s], host, agents, beats, mishaps)
      /\ ToldOf(session[s], s, host, agents, beats)
      /\ AttemptsPaid(session[s], host, probe, mishaps) /\ HostRows
  BY InstallerKnown DEF BootInv
<1>2. /\ worker[w].at = "finish" /\ worker' = [worker EXCEPT ![w] = Host!Idle]
      /\ UNCHANGED <<agents, host, trust, beats, plan>>
  BY DEF Host!FinishBootstrapSessionForLease
<1>3. Host!Idle \in InstallerRow /\ Host!Idle.at = "idle"
  BY ControlPlaneAssumption DEF Host!Idle, Host!None, InstallerRow
<1>4. CASE Host!Mishap /\ UNCHANGED <<session, node, vault, token, probe>>
  BY <1>2, <1>3, <1>4, WorkerStep
<1>5. CASE /\ Host!validateBootstrapLease(w)
           /\ session' = [session EXCEPT ![s] = v]
           /\ node' = [node EXCEPT ![s] = Host!retireBootstrapNode(s, status)]
           /\ vault' \subseteq vault
           /\ token' \in {token, [token EXCEPT ![s] = 0]}
           /\ probe' = IF status = "waiting_host_key"
                       THEN [key |-> host.key, seen |-> "changed", status |-> "pending"]
                       ELSE probe
           /\ mishaps' = mishaps
  <2>1. /\ session[s].status \in Host!Leased /\ session[s].lease = worker[w].lease
        /\ worker[w].lease # 0
    BY <1>1, <1>2, <1>5 DEF Host!validateBootstrapLease, InstallerInv
  <2>2. /\ status \in {"waiting_host_key", "completed", "retry_wait", "dead_letter"}
        /\ status = "waiting_host_key" => result = "hostkey"
        /\ status = "completed" => result = "completed"
        /\ status = "retry_wait" =>
             session[s].auth = "ssh" /\ session[s].attempt < MaxAttempts
    BY DEF Host!FinishedStatus
  <2> HIDE DEF status
  <2>3. /\ v \in BootstrapRow /\ v.status = status /\ v.lease = 0
        /\ v.auth = session[s].auth /\ v.attempt = session[s].attempt
        /\ v.pin = session[s].pin /\ v.next = session[s].next
    BY <1>1, <2>2, ReleasedTyped DEF Host!Statuses, Host!Terminal, Host!Waiting
  <2> HIDE DEF v
  <2>4. /\ probe' \in ProbeRow /\ ProbeInv(probe', host', mishaps')
        /\ Owed(probe', host') => Owed(probe, host)
        /\ status = "waiting_host_key" => ~Owed(probe', host')
    <3>1. CASE status = "waiting_host_key"
      <4>1. /\ probe'.key = host.key /\ probe'.seen = "changed"
            /\ probe'.status = "pending" /\ probe' \in ProbeRow
        BY <1>1, <1>5, <3>1 DEF ProbeRow, HostRows, MachineRow
      <4> QED BY <1>2, <4>1 DEF ProbeInv, Owed
    <3>2. CASE status # "waiting_host_key"
      BY <1>1, <1>2, <1>5, <3>2 DEF BootInv, ProbeInv, Owed, HostRows
    <3> QED BY <3>1, <3>2
  <2>5. SessionKept(session[s], v)
    BY <2>1, <2>2, <2>3 DEF SessionKept
  <2>6. ToldOf(v, s, host', agents', beats')
    BY <1>1, <1>2, <2>2, <2>3 DEF ToldOf, InstallerInv
  <2>7. AttemptsPaid(v, host', probe', mishaps')
    <3>1. v.attempt \in Nat
      BY <2>3 DEF BootstrapRow
    <3>2. CASE status = "waiting_host_key"
      BY <1>1, <1>2, <1>5, <2>1, <2>2, <2>3, <2>4, <3>1, <3>2
         DEF AttemptsPaid, InstallerInv, Host!Leased
    <3>3. CASE status = "retry_wait"
      BY <1>1, <1>2, <1>5, <2>1, <2>2, <2>3, <3>1, <3>3 DEF AttemptsPaid, Host!Leased
    <3>4. CASE status \in {"completed", "dead_letter"}
      BY <1>1, <1>2, <1>5, <2>1, <2>3, <3>1, <3>4 DEF AttemptsPaid, Host!Leased
    <3> QED BY <2>2, <3>2, <3>3, <3>4
  <2>8. /\ node' \in [Sessions -> {"none", "pending", "agent_connecting", "healthy",
                                   "removed"}]
        /\ \A r \in Sessions : node'[r] = "removed" => r \notin agents'
    BY <1>1, <1>2, <1>5, RetiredTyped DEF BootInv, HostRows
  <2>9. /\ token' \in [Sessions -> {0} \cup Host!Tokens] /\ vault' \subseteq Sessions
        /\ host' \in MachineRow /\ mishaps' \in 0..MaxMishaps /\ mishaps <= mishaps'
        /\ agents \subseteq agents' /\ agents' \subseteq Sessions
        /\ \A r \in Sessions : host.done[r] <= host'.done[r]
    BY <1>1, <1>2, <1>5, ControlPlaneAssumption DEF HostRows, MachineRow
  <2>10. s = worker[w].s
    OBVIOUS
  <2> HIDE DEF s
  <2> QED BY <1>1, <1>2, <1>3, <1>5, <2>3, <2>4, <2>5, <2>6, <2>7, <2>8, <2>9, <2>10,
             InstallerStep
<1> QED BY <1>4, <1>5 DEF Host!FinishBootstrapSessionForLease, Host!Calm

(* A step of the registration that writes nothing on the machine.          *)
LEMMA RegistrationMovesInv ==
  ASSUME BootInv, NEW w \in Callers,
         Host!Exchange(w) \/ Host!RegisterAgent(w) \/ Host!ReadBootstrapSession(w),
         UNCHANGED <<vault, trust, probe, beats, plan>>
  PROVE  BootInv'
<1> DEFINE s == worker[w].s
<1>1. /\ worker[w] \in InstallerRow /\ s \in Sessions /\ session[s] \in BootstrapRow
      /\ worker[w].next \in -1..Steps /\ Steps \in Nat \ {0} /\ mishaps \in Nat
      /\ InstallerInv(worker[w], session[s], host, agents, beats, mishaps)
      /\ host.done[s] \in 0..Steps /\ HostRows
  BY InstallerKnown DEF BootInv
<1>2. /\ UNCHANGED <<session, host, mishaps>>
      /\ worker[w].at \in {"register", "insert", "confirm"}
  BY DEF Host!Exchange, Host!RegisterAgent, Host!ReadBootstrapSession
<1>3. /\ token' \in {token, [token EXCEPT ![s] = 0]}
      /\ \/ UNCHANGED <<node, agents>>
         \/ /\ agents' = agents \cup {s}
            /\ node' = [node EXCEPT ![s] = "agent_connecting"]
  BY DEF Host!Exchange, Host!RegisterAgent, Host!ReadBootstrapSession
<1>4. /\ token' \in [Sessions -> {0} \cup Host!Tokens]
      /\ node' \in [Sessions -> {"none", "pending", "agent_connecting", "healthy",
                                 "removed"}]
      /\ agents \subseteq agents' /\ agents' \subseteq Sessions
      /\ \A r \in Sessions : node'[r] = "removed" => r \notin agents'
  BY <1>1, <1>3 DEF HostRows, BootInv
<1>5. \E x \in InstallerRow :
        /\ worker' = [worker EXCEPT ![w] = x] /\ x.s = s
        /\ InstallerInv(x, session[s], host', agents', beats', mishaps')
  <2>1. CASE Host!Ends(w, "retry")
    <3>1. PICK x \in InstallerRow :
            /\ worker' = [worker EXCEPT ![w] = x] /\ x.at = "finish" /\ x.result = "retry"
            /\ x.s = s /\ x.lease = worker[w].lease /\ x.next = worker[w].next
      BY <1>1, <2>1, EndsTyped
    <3>2. InstallerInv(x, session[s], host', agents', beats', mishaps')
      BY <1>1, <1>2, <3>1 DEF InstallerInv, Acting, Registering
    <3> QED BY <3>1, <3>2
  <2>2. ASSUME NEW at \in {"insert", "confirm", "write"}, Host!Goes(w, at),
               at \in {"confirm", "write"} => s \in agents'
        PROVE  \E x \in InstallerRow :
                 /\ worker' = [worker EXCEPT ![w] = x] /\ x.s = s
                 /\ InstallerInv(x, session[s], host', agents', beats', mishaps')
    <3>1. PICK x \in InstallerRow :
            /\ worker' = [worker EXCEPT ![w] = x] /\ x.at = at
            /\ x.s = s /\ x.lease = worker[w].lease /\ x.next = worker[w].next
      BY <1>1, <2>2, GoesTyped DEF Acting, Registering
    <3>2. InstallerInv(x, session[s], host', agents', beats', mishaps')
      BY <1>1, <1>2, <2>2, <3>1 DEF InstallerInv, Acting, Registering
    <3> QED BY <3>1, <3>2
  <2>3. \/ Host!Ends(w, "retry")
        \/ \E at \in {"insert", "confirm", "write"} :
             /\ Host!Goes(w, at)
             /\ at \in {"confirm", "write"} => s \in agents'
    BY <1>1 DEF Host!Exchange, Host!RegisterAgent, Host!ReadBootstrapSession, InstallerInv
  <2> QED BY <2>1, <2>2, <2>3
<1>6. PICK x \in InstallerRow :
        /\ worker' = [worker EXCEPT ![w] = x] /\ x.s = s
        /\ InstallerInv(x, session[s], host', agents', beats', mishaps')
  BY <1>5
<1>7. session' = [session EXCEPT ![s] = session[s]]
  BY <1>1, <1>2 DEF HostRows
<1>8. /\ vault' \subseteq Sessions /\ probe' \in ProbeRow /\ host' \in MachineRow
      /\ ProbeInv(probe', host', mishaps') /\ mishaps' \in 0..MaxMishaps
      /\ mishaps <= mishaps'
      /\ \A r \in Sessions : host.done[r] <= host'.done[r]
      /\ Owed(probe', host') => Owed(probe, host)
  <2>1. ProbeInv(probe', host', mishaps') /\ (Owed(probe', host') => Owed(probe, host))
    BY <1>2 DEF BootInv, ProbeInv, Owed
  <2>2. \A r \in Sessions : host.done[r] <= host'.done[r]
    BY <1>1, <1>2, ControlPlaneAssumption DEF HostRows, MachineRow
  <2>3. mishaps' \in 0..MaxMishaps /\ mishaps <= mishaps'
    BY <1>1, <1>2 DEF HostRows
  <2>4. vault' \subseteq Sessions /\ probe' \in ProbeRow /\ host' \in MachineRow
    BY <1>1, <1>2 DEF HostRows
  <2> QED BY <2>1, <2>2, <2>3, <2>4
<1>9. s = worker[w].s /\ worker[w].at # "idle"
  BY <1>2
<1> HIDE DEF s
<1> QED BY <1>1, <1>2, <1>4, <1>6, <1>7, <1>8, <1>9, InstallerStep

(* The machine takes its identity, or shows that it has it.                *)
LEMMA IdentityInv ==
  ASSUME BootInv, NEW w \in Callers,
         Host!KeepsIdentity(w) \/ Host!UpdateBootstrapSession(w),
         UNCHANGED <<vault, trust, probe, beats, plan>>
  PROVE  BootInv'
<1> DEFINE s == worker[w].s
<1>1. /\ worker[w] \in InstallerRow /\ s \in Sessions /\ session[s] \in BootstrapRow
      /\ worker[w].next \in -1..Steps /\ Steps \in Nat \ {0} /\ mishaps \in Nat
      /\ InstallerInv(worker[w], session[s], host, agents, beats, mishaps)
      /\ host.done[s] \in 0..Steps /\ HostRows /\ host \in MachineRow
      /\ Sessions \subseteq Nat \ {0}
  BY InstallerKnown, ControlPlaneAssumption DEF BootInv, HostRows
<1>2. worker[w].at \in {"register", "write"} /\ UNCHANGED <<token, node, agents>>
  BY DEF Host!KeepsIdentity, Host!UpdateBootstrapSession
<1>3. session[s].status \notin {"none", "checked"}
  BY <1>1, <1>2 DEF InstallerInv
<1>4. ASSUME NEW v \in BootstrapRow, session' = [session EXCEPT ![s] = v],
             v = session[s] \/ Host!Reports(w, "waiting_agent"),
             UNCHANGED mishaps, Host!Goes(w, "check"),
             NEW m \in {host.marker, s}, m = host.marker \/ s \in agents,
             host' = [host EXCEPT !.marker = m, !.done[s] = Steps]
      PROVE  BootInv'
  <2>1. PICK x \in InstallerRow :
          /\ worker' = [worker EXCEPT ![w] = x] /\ x.at = "check"
          /\ x.s = s /\ x.lease = worker[w].lease /\ x.next = worker[w].next
    BY <1>1, <1>4, GoesTyped DEF Acting
  <2>2. v.status \notin {"none", "checked"}
    BY <1>1, <1>3, <1>4 DEF BootstrapRow, HostRows, Host!Reports
  <2>3. PICK d \in 0..Steps : d = Steps /\ host.done[s] <= d
    BY <1>1
  <2>4. /\ host' \in MachineRow /\ host'.key = host.key /\ host'.marker = m
        /\ host'.done[s] = Steps /\ \A r \in Sessions : host.done[r] <= host'.done[r]
    <3>1. /\ host' = [host EXCEPT !.marker = m, !.done[s] = d]
          /\ host'.key = host.key /\ host'.marker = m
      BY <1>1, <1>4, <2>3 DEF MachineRow
    <3> QED BY <1>1, <1>4, <2>3, <3>1, MachineWrites
  <2>5. InstallerInv(x, v, host', agents, beats, mishaps)
    BY <1>1, <1>2, <2>1, <2>2, <2>4 DEF InstallerInv, Acting, Registering
  <2>6. /\ s = worker[w].s /\ worker[w].at # "idle" /\ s \in Sessions
        /\ host'.marker = host.marker \/ (host'.marker = s /\ s \in agents)
    BY <1>1, <1>2, <1>4, <2>4
  <2>7. UNCHANGED <<vault, token, node, agents, trust, probe, beats, plan, mishaps>>
    BY <1>2, <1>4
  <2> HIDE DEF s
  <2> QED BY <1>4, <2>1, <2>4, <2>5, <2>6, <2>7, MachineStep
<1>5. CASE Host!KeepsIdentity(w)
  <2>1. CASE host.marker = s
    <3>1. /\ host' = [host EXCEPT !.done[s] = Steps] /\ Host!Goes(w, "check")
          /\ UNCHANGED <<session, mishaps>>
      BY <1>5, <2>1 DEF Host!KeepsIdentity
    <3>2. host' = [host EXCEPT !.marker = host.marker, !.done[s] = Steps]
      BY <1>1, <3>1 DEF MachineRow
    <3>3. session' = [session EXCEPT ![s] = session[s]]
      BY <1>1, <3>1 DEF HostRows
    <3> QED BY <1>1, <1>4, <3>1, <3>2, <3>3
  <2>2. CASE host.marker # s
    <3>1. Host!Ends(w, "fatal") /\ UNCHANGED <<session, host, mishaps>>
      BY <1>5, <2>2 DEF Host!KeepsIdentity
    <3>2. PICK x \in InstallerRow :
            /\ worker' = [worker EXCEPT ![w] = x] /\ x.at = "finish" /\ x.result = "fatal"
            /\ x.s = s /\ x.lease = worker[w].lease /\ x.next = worker[w].next
      BY <1>1, <3>1, EndsTyped
    <3>3. InstallerInv(x, session[s], host, agents, beats, mishaps')
      BY <1>1, <1>2, <3>1, <3>2 DEF InstallerInv, Acting, Registering
    <3> QED BY <1>2, <3>1, <3>2, <3>3, WorkerStep DEF Host!Calm
  <2> QED BY <2>1, <2>2
<1>6. CASE Host!UpdateBootstrapSession(w)
  <2> DEFINE v == [session[s] EXCEPT !.status = "waiting_agent"]
  <2>1. /\ worker[w].at = "write" /\ session' = [session EXCEPT ![s] = v]
        /\ v \in BootstrapRow
    BY <1>1, <1>6
       DEF Host!UpdateBootstrapSession, Host!Reports, BootstrapRow, Host!Statuses, Host!Leased
  <2>2. s \in agents
    BY <1>1, <2>1 DEF InstallerInv
  <2>3. CASE /\ host' = [host EXCEPT !.marker = s, !.done[s] = Steps]
             /\ Host!Goes(w, "check") /\ Host!Calm
    BY <1>4, <1>6, <2>1, <2>2, <2>3 DEF Host!Calm, Host!UpdateBootstrapSession
  <2>5. ASSUME NEW result \in {"retry", "fatal"}, Host!Ends(w, result), Host!Calm,
               host' = [host EXCEPT !.marker = s]
        PROVE  BootInv'
    <3>1. PICK x \in InstallerRow :
            /\ worker' = [worker EXCEPT ![w] = x] /\ x.at = "finish" /\ x.result = result
            /\ x.s = s /\ x.lease = worker[w].lease /\ x.next = worker[w].next
      BY <1>1, <2>5, EndsTyped
    <3>2. /\ host' \in MachineRow /\ host'.key = host.key /\ host'.marker = s
          /\ host'.done = host.done
      BY <1>1, <2>5 DEF MachineRow
    <3>3. \A r \in Sessions : host.done[r] <= host'.done[r]
      <4>1. \A r \in Sessions : host.done[r] \in Int
        BY DEF BootInv, HostRows, MachineRow
      <4> QED BY <3>2, <4>1
    <3>4. v.status \notin {"none", "checked"}
      BY <1>1 DEF BootstrapRow
    <3>5. InstallerInv(x, v, host', agents, beats, mishaps)
      <4> HIDE DEF v
      <4> QED BY <1>1, <1>2, <3>1, <3>2, <3>4 DEF InstallerInv, Acting, Registering
    <3>6. /\ UNCHANGED <<vault, token, node, agents, trust, probe, beats, plan, mishaps>>
          /\ Host!Reports(w, "waiting_agent") /\ s = worker[w].s /\ worker[w].at # "idle"
      BY <1>2, <1>6, <2>5 DEF Host!Calm, Host!UpdateBootstrapSession
    <3> HIDE DEF s, v
    <3> QED BY <1>1, <2>1, <2>2, <3>1, <3>2, <3>3, <3>5, <3>6, MachineStep
  <2>4. ASSUME NEW result \in {"retry", "fatal"}, Host!Ends(w, result), Host!Mishap,
               UNCHANGED host
        PROVE  BootInv'
    <3>1. PICK x \in InstallerRow :
            /\ worker' = [worker EXCEPT ![w] = x] /\ x.at = "finish" /\ x.result = result
            /\ x.s = s /\ x.lease = worker[w].lease /\ x.next = worker[w].next
      BY <1>1, <2>4, EndsTyped
    <3>2. mishaps' \in 0..MaxMishaps /\ mishaps <= mishaps' /\ mishaps' \in Nat
      BY <2>4, MishapsGo
    <3>3. HostRows'
      BY <1>1, <1>2, <2>1, <2>4, <3>1, <3>2 DEF HostRows
    <3>4. /\ \A r \in Sessions : host.done[r] <= host'.done[r]
          /\ host' \in MachineRow /\ host'.key = host.key /\ host'.marker = host.marker
      <4>1. \A r \in Sessions : host.done[r] \in Int
        BY DEF BootInv, HostRows, MachineRow
      <4> QED BY <1>1, <2>4, <4>1
    <3>5. WorldGoes
      BY <1>2, <2>4, <3>2, <3>4 DEF WorldGoes, MarkerInv, Owed, BootInv
    <3>6. /\ SessionKept(session[s], v) /\ ToldOf(v, s, host', agents', beats')
          /\ AttemptsPaid(v, host', probe', mishaps') /\ v.status = "waiting_agent"
      <4> HIDE DEF s
      <4> QED BY <1>1, <1>3, <3>3, <3>5, SessionReported DEF Host!Leased
    <3>7. InstallerInv(x, v, host', agents', beats', mishaps')
      <4>1. host'.done[x.s] \in Int /\ host.done[x.s] <= host'.done[x.s]
        <5>1. host' = host /\ x.s = s
          BY <2>4, <3>1
        <5> QED BY <1>1, <5>1
      <4> HIDE DEF v
      <4> QED BY <1>2, <2>1, <3>1, <3>6, <4>1, EndsClaimless
    <3>8. ProbeInv(probe', host', mishaps')
          /\ (Owed(probe', host') => Owed(probe, host))
      BY <1>1, <2>4, <3>2 DEF BootInv, ProbeInv, Owed
    <3>9. /\ vault' \subseteq Sessions /\ probe' \in ProbeRow
          /\ token' \in [Sessions -> {0} \cup Host!Tokens]
          /\ node' \in [Sessions -> {"none", "pending", "agent_connecting", "healthy",
                                     "removed"}]
          /\ agents' \subseteq Sessions
          /\ \A r \in Sessions : node'[r] = "removed" => r \notin agents'
      BY <1>2 DEF BootInv, HostRows
    <3>10. s = worker[w].s /\ worker[w].at # "idle"
      BY <1>2
    <3> HIDE DEF s, v
    <3> QED BY <1>1, <1>2, <2>1, <3>1, <3>2, <3>4, <3>6, <3>7, <3>8, <3>9, <3>10,
               InstallerStep
  <2> QED BY <1>6, <2>3, <2>4, <2>5 DEF Host!UpdateBootstrapSession, Host!Fails
<1> QED BY <1>5, <1>6

LEMMA WorkerStepsInv ==
  ASSUME BootInv, Host!WorkerSteps
  PROVE  BootInv'
<1>1. PICK w \in Callers :
        \/ Host!processLease(w) \/ Host!FinishBootstrapSessionForLease(w)
        \/ Host!handleAgentRegister(w) \/ Host!CrashWorker(w)
  BY DEF Host!WorkerSteps
<1>2. CASE Host!handleAgentRegister(w)
  BY <1>2, RegistrationMovesInv, IdentityInv DEF Host!handleAgentRegister
<1> QED BY <1>1, <1>2, ProcessLeaseInv, FinishInv, CrashWorkerInv

(* A step that changes one session and no worker.                          *)
LEMMA SessionStep ==
  ASSUME BootInv, NEW s \in Sessions, NEW v \in BootstrapRow,
         session' = [session EXCEPT ![s] = v], UNCHANGED <<worker, host, agents>>,
         Host!Mishap \/ Host!Calm,
         vault' \subseteq Sessions, beats \subseteq beats', beats' \subseteq Sessions,
         token' \in [Sessions -> {0} \cup Host!Tokens],
         node' \in [Sessions -> {"none", "pending", "agent_connecting", "healthy", "removed"}],
         \A r \in Sessions : node'[r] = "removed" => r \notin agents,
         trust' \in HostKeys \cup {"none"}, plan' \in Plans, probe' \in ProbeRow,
         probe'.key = probe.key, probe'.seen = probe.seen,
         probe'.status # "none" => probe'.seen # "none",
         \/ v = session[s]
         \/ /\ SessionKept(session[s], v) /\ ToldOf(v, s, host, agents, beats')
            /\ AttemptsPaid(v, host, probe', mishaps')
  PROVE  BootInv'
<1>1. mishaps' \in 0..MaxMishaps /\ mishaps' \in Nat /\ mishaps \in Nat /\ mishaps <= mishaps'
  BY MishapsGo
<1>2. HostRows'
  BY <1>1 DEF BootInv, HostRows
<1>3. WorldGoes
  <2>1. \A r \in Sessions : host.done[r] \in Int
    BY DEF BootInv, HostRows, MachineRow
  <2> QED BY <1>1, <2>1 DEF WorldGoes, MarkerInv, Owed, BootInv
<1>4. ProbeInv(probe', host', mishaps')
  BY <1>1 DEF BootInv, ProbeInv, Owed
<1>5. /\ session'[s] = v
      /\ \A r \in Sessions : r # s => session'[r] = session[r]
  BY DEF BootInv, HostRows
<1> QED BY <1>2, <1>3, <1>4, <1>5, BootGoes

(* A step that changes no session and no worker.                           *)
LEMMA SurroundingsStep ==
  ASSUME BootInv, UNCHANGED <<session, worker, agents, beats, vault, token, node>>,
         Host!Mishap \/ Host!Calm,
         host' \in MachineRow, host'.done = host.done, host'.marker = host.marker,
         host'.key = host.key \/ Host!Mishap,
         trust' \in HostKeys \cup {"none"}, plan' \in Plans, probe' \in ProbeRow,
         probe'.status # "none" => probe'.seen # "none",
         Owed(probe', host') => Owed(probe, host) \/ Host!Mishap
  PROVE  BootInv'
<1>1. /\ mishaps' \in 0..MaxMishaps /\ mishaps' \in Nat /\ mishaps \in Nat
      /\ mishaps <= mishaps' /\ (Host!Mishap => mishaps + 1 <= mishaps')
  BY MishapsGo
<1>2. HostRows'
  BY <1>1 DEF BootInv, HostRows
<1>3. WorldGoes
  <2>1. \A r \in Sessions : host.done[r] \in Int
    BY DEF BootInv, HostRows, MachineRow
  <2> QED BY <1>1, <2>1 DEF WorldGoes, MarkerInv, BootInv
<1>4. ProbeInv(probe', host', mishaps')
  BY <1>1 DEF BootInv, ProbeInv
<1>5. \A r \in Sessions : node'[r] = "removed" => r \notin agents'
  BY DEF BootInv
<1> QED BY <1>2, <1>3, <1>4, <1>5, BootGoes

(* Only the sessions, the vault and the tokens change.                     *)
LEMMA RowStep ==
  ASSUME BootInv, NEW s \in Sessions, NEW v \in BootstrapRow,
         session' = [session EXCEPT ![s] = v], Host!Mishap \/ Host!Calm,
         UNCHANGED <<worker, host, agents, trust, probe, beats, plan>>,
         vault' \subseteq Sessions,
         token' \in [Sessions -> {0} \cup Host!Tokens],
         node' \in [Sessions -> {"none", "pending", "agent_connecting", "healthy", "removed"}],
         \A r \in Sessions : node'[r] = "removed" => r \notin agents,
         SessionKept(session[s], v), ToldOf(v, s, host, agents, beats),
         AttemptsPaid(v, host, probe, mishaps')
  PROVE  BootInv'
<1>1. /\ trust' \in HostKeys \cup {"none"} /\ plan' \in Plans /\ probe' \in ProbeRow
      /\ probe'.key = probe.key /\ probe'.seen = probe.seen
      /\ probe'.status # "none" => probe'.seen # "none"
      /\ beats \subseteq beats' /\ beats' \subseteq Sessions
  BY DEF BootInv, HostRows, ProbeInv
<1> QED BY <1>1, SessionStep

(* What stays typed when a step leaves these tables alone.                 *)
LEMMA OtherTables ==
  ASSUME BootInv
  PROVE  /\ vault \subseteq Sessions /\ token \in [Sessions -> {0} \cup Host!Tokens]
         /\ node \in [Sessions -> {"none", "pending", "agent_connecting", "healthy",
                                   "removed"}]
         /\ \A r \in Sessions : node[r] = "removed" => r \notin agents
         /\ agents \subseteq Sessions /\ beats \subseteq Sessions /\ host \in MachineRow
BY DEF BootInv, HostRows

LEMMA RecoveredKnown ==
  ASSUME BootInv, NEW s \in Sessions
  PROVE  \/ Host!RecoveredSession(s) = session[s]
         \/ \E st \in {"expired", "dead_letter", "retry_wait"} :
              /\ Host!RecoveredSession(s) = Host!Released(session[s], st)
              /\ session[s].status \notin {"none", "checked"}
              /\ st = "retry_wait" => session[s].attempt < MaxAttempts
<1> DEFINE v == session[s]
<1>1. v.attempt \in Nat /\ MaxAttempts \in Nat
  BY SessionKnown
<1>2. Host!Lapsed(s) => v.lease # 0 /\ v.status \notin {"none", "checked"}
  BY DEF Host!Lapsed, Host!Leased
<1>3. CASE Host!Lapsed(s) /\ v.over
  <2>1. Host!RecoveredSession(s) = Host!Released(v, "expired")
    BY <1>2, <1>3 DEF Host!RecoveredSession
  <2> QED BY <1>2, <1>3, <2>1
<1>4. CASE Host!Lapsed(s) /\ ~v.over /\ v.attempt >= MaxAttempts
  <2>1. Host!RecoveredSession(s) = Host!Released(v, "dead_letter")
    BY <1>1, <1>2, <1>4 DEF Host!RecoveredSession
  <2> QED BY <1>2, <1>4, <2>1
<1>5. CASE Host!Lapsed(s) /\ ~v.over /\ v.attempt < MaxAttempts
  <2>1. Host!RecoveredSession(s) = Host!Released(v, "retry_wait")
    BY <1>1, <1>2, <1>5 DEF Host!RecoveredSession
  <2> QED BY <1>2, <1>5, <2>1
<1>6. CASE ~Host!Lapsed(s) /\ v.over /\ v.lease = 0 /\ v.status \in {"pending", "retry_wait"}
  <2>1. Host!RecoveredSession(s) = Host!Released(v, "expired")
    BY <1>6 DEF Host!RecoveredSession
  <2> QED BY <1>6, <2>1
<1>7. CASE ~Host!Lapsed(s) /\ ~(v.over /\ v.lease = 0 /\ v.status \in {"pending", "retry_wait"})
  <2>1. Host!RecoveredSession(s) = v
    BY <1>7 DEF Host!RecoveredSession
  <2> QED BY <2>1
<1> QED BY <1>1, <1>3, <1>4, <1>5, <1>6, <1>7

LEMMA RecoverInv ==
  ASSUME BootInv, Host!Recover
  PROVE  BootInv'
<1>1. /\ session' = [s \in Sessions |-> Host!RecoveredSession(s)]
      /\ node' = [s \in Sessions |-> Host!RecoveredNode(s)]
      /\ vault' \subseteq vault
      /\ token' = token \/ token' = [s \in Sessions |->
                             IF s \in {r \in Sessions : Host!Ended(r)} THEN 0 ELSE token[s]]
      /\ UNCHANGED <<agents, worker, host, trust, probe, beats, plan, mishaps>>
  BY DEF Host!Recover, Host!recoverExpiredBootstrapLeases
<1>2. ASSUME NEW s \in Sessions
      PROVE  /\ session'[s] \in BootstrapRow
             /\ \/ session'[s] = session[s]
                \/ /\ SessionKept(session[s], session'[s])
                   /\ ToldOf(session'[s], s, host', agents', beats')
                   /\ AttemptsPaid(session'[s], host', probe', mishaps')
  <2> DEFINE u == session[s]
  <2>1. /\ u \in BootstrapRow /\ ToldOf(u, s, host, agents, beats)
        /\ AttemptsPaid(u, host, probe, mishaps) /\ u.attempt \in Nat /\ mishaps \in Nat
        /\ MaxAttempts \in Nat \ {0}
    BY SessionKnown
  <2>2. session'[s] = Host!RecoveredSession(s)
    BY <1>1
  <2>3. CASE Host!RecoveredSession(s) = u
    BY <2>1, <2>2, <2>3
  <2>4. ASSUME NEW st \in {"expired", "dead_letter", "retry_wait"},
               Host!RecoveredSession(s) = Host!Released(u, st),
               u.status \notin {"none", "checked"},
               st = "retry_wait" => u.attempt < MaxAttempts
        PROVE  /\ session'[s] \in BootstrapRow
               /\ SessionKept(session[s], session'[s])
               /\ ToldOf(session'[s], s, host', agents', beats')
               /\ AttemptsPaid(session'[s], host', probe', mishaps')
    <3> DEFINE v == Host!Released(u, st)
    <3>1. /\ v \in BootstrapRow /\ v.status = st /\ v.lease = 0 /\ v.auth = u.auth
          /\ v.attempt = u.attempt /\ v.pin = u.pin /\ v.next = u.next
      BY <2>1, ReleasedTyped DEF Host!Statuses, Host!Terminal, Host!Waiting
    <3>2. session'[s] = v
      BY <2>2, <2>4
    <3> HIDE DEF v, u
    <3>3. SessionKept(u, v)
      BY <3>1 DEF SessionKept
    <3>4. ToldOf(v, s, host', agents', beats')
      BY <1>1, <2>1, <3>1 DEF ToldOf
    <3>5. AttemptsPaid(v, host', probe', mishaps')
      BY <1>1, <2>1, <2>4, <3>1 DEF AttemptsPaid, Host!Leased
    <3> QED BY <3>1, <3>2, <3>3, <3>4, <3>5 DEF u
  <2> QED BY <2>3, <2>4, RecoveredKnown
<1>3. ASSUME NEW s \in Sessions
      PROVE  /\ node'[s] \in {"none", "pending", "agent_connecting", "healthy", "removed"}
             /\ node'[s] = "removed" => s \notin agents
  <2>1. node'[s] = Host!RecoveredNode(s)
    BY <1>1
  <2> QED BY <2>1, RetiredTyped, OtherTables DEF Host!RecoveredNode
<1>4. HostRows'
  <2>1. session' \in [Sessions -> BootstrapRow]
    BY <1>1, <1>2
  <2>2. node' \in [Sessions -> {"none", "pending", "agent_connecting", "healthy", "removed"}]
    BY <1>1, <1>3
  <2>3. token' \in [Sessions -> {0} \cup Host!Tokens] /\ vault' \subseteq Sessions
    BY <1>1 DEF BootInv, HostRows
  <2> QED BY <1>1, <2>1, <2>2, <2>3 DEF BootInv, HostRows
<1>5. WorldGoes
  <2>1. \A r \in Sessions : host.done[r] \in Int
    BY DEF BootInv, HostRows, MachineRow
  <2>2. mishaps \in Nat
    BY ControlPlaneAssumption DEF BootInv, HostRows
  <2> QED BY <1>1, <2>1, <2>2 DEF WorldGoes, MarkerInv, Owed, BootInv
<1>6. ProbeInv(probe', host', mishaps')
  BY <1>1 DEF BootInv, ProbeInv, Owed
<1> QED BY <1>1, <1>2, <1>3, <1>4, <1>5, <1>6, BootGoes

(* A session that is leased: its row, and what it owes.                    *)
LEMMA LeasedKnown ==
  ASSUME BootInv, NEW s \in Sessions, Host!Mishap \/ Host!Calm,
         \/ session[s].auth = "ssh" /\ session[s].status \in {"pending", "retry_wait"}
         \/ session[s].auth = "command" /\ session[s].status = "waiting",
         NEW v, v = Host!LeasedSession(s)
  PROVE  /\ v \in BootstrapRow /\ v.status = "validating" /\ v.lease = Host!FreshToken
         /\ v.auth = session[s].auth /\ v.attempt = session[s].attempt + 1
         /\ v.next = session[s].next /\ v.pin = session[s].pin
         /\ SessionKept(session[s], v) /\ ToldOf(v, s, host, agents, beats)
         /\ AttemptsPaid(v, host, probe, mishaps')
<1> DEFINE u == session[s]
<1>1. /\ u \in BootstrapRow /\ ToldOf(u, s, host, agents, beats)
      /\ AttemptsPaid(u, host, probe, mishaps) /\ u.attempt \in Nat /\ mishaps \in Nat
      /\ MaxAttempts \in Nat \ {0} /\ HostRows
  BY SessionKnown
<1>2. /\ Host!FreshToken \in Host!Tokens /\ Host!FreshToken # 0
      /\ u.lease # Host!FreshToken
      /\ \A w \in Callers : worker[w].lease # Host!FreshToken
  BY <1>1, TokenIsFresh
<1>3. /\ v \in BootstrapRow /\ v.status = "validating" /\ v.lease = Host!FreshToken
      /\ v.auth = u.auth /\ v.attempt = u.attempt + 1 /\ v.next = u.next /\ v.pin = u.pin
  <2>1. "validating" \in Host!Statuses /\ u.attempt + 1 \in Nat
    BY <1>1 DEF Host!Statuses, Host!Leased
  <2>2. v = [u EXCEPT !.status = "validating", !.lease = Host!FreshToken,
                      !.live = TRUE, !.attempt = u.attempt + 1]
    BY DEF Host!LeasedSession
  <2> HIDE DEF u
  <2> QED BY <1>1, <1>2, <2>1, <2>2 DEF BootstrapRow
<1>4. mishaps' \in Nat /\ mishaps <= mishaps'
  BY MishapsGo
<1>5. \/ u.auth = "ssh" /\ u.status \in {"pending", "retry_wait"}
      \/ u.auth = "command" /\ u.status = "waiting"
  OBVIOUS
<1> HIDE DEF u
<1>6. SessionKept(u, v)
  BY <1>2, <1>3, <1>5 DEF SessionKept
<1>7. ToldOf(v, s, host, agents, beats)
  BY <1>1, <1>3 DEF ToldOf
<1>8. AttemptsPaid(v, host, probe, mishaps')
  BY <1>1, <1>3, <1>4, <1>5 DEF AttemptsPaid, Host!Leased
<1> QED BY <1>3, <1>6, <1>7, <1>8 DEF u

LEMMA FailLeasedInv ==
  ASSUME BootInv, NEW s \in Sessions, NEW result \in {"retry", "fatal"},
         Host!failLeasedBootstrap(s, result), Host!Mishap \/ Host!Calm,
         \/ session[s].auth = "ssh" /\ session[s].status \in {"pending", "retry_wait"}
         \/ session[s].auth = "command" /\ session[s].status = "waiting"
  PROVE  BootInv'
<1> DEFINE u == Host!LeasedSession(s)
           status == Host!FinishedStatus(u, result)
           v == Host!Released(u, status)
<1>1. /\ session' = [session EXCEPT ![s] = v]
      /\ node' = [node EXCEPT ![s] = Host!retireBootstrapNode(s, status)]
      /\ token' = [token EXCEPT ![s] = 0] /\ vault' \subseteq vault
      /\ UNCHANGED <<agents, worker, host, trust, probe, beats, plan>>
  BY DEF Host!failLeasedBootstrap
<1>2. /\ u \in BootstrapRow /\ u.auth = session[s].auth
      /\ u.next = session[s].next /\ u.pin = session[s].pin
      /\ SessionKept(session[s], u) /\ ToldOf(u, s, host, agents, beats)
      /\ AttemptsPaid(u, host, probe, mishaps') /\ u.status = "validating"
      /\ u.lease # 0 /\ u.attempt \in Nat /\ MaxAttempts \in Nat /\ mishaps' \in Nat
  <2>1. u.attempt \in Nat /\ MaxAttempts \in Nat /\ mishaps' \in Nat
    BY LeasedKnown, SessionKnown, MishapsGo
  <2> QED BY <2>1, LeasedKnown, SessionKnown, TokenIsFresh
<1> HIDE DEF u
<1>3. /\ status \in {"retry_wait", "dead_letter"}
      /\ status = "retry_wait" => u.auth = "ssh" /\ u.attempt < MaxAttempts
  BY DEF Host!FinishedStatus
<1> HIDE DEF status
<1>4. /\ v \in BootstrapRow /\ v.status = status /\ v.lease = 0 /\ v.auth = u.auth
      /\ v.attempt = u.attempt /\ v.pin = u.pin /\ v.next = u.next
  BY <1>2, <1>3, ReleasedTyped DEF Host!Statuses, Host!Terminal, Host!Waiting
<1> HIDE DEF v
<1>5. SessionKept(session[s], v) /\ ToldOf(v, s, host, agents, beats)
  BY <1>2, <1>3, <1>4 DEF SessionKept, ToldOf
<1>6. AttemptsPaid(v, host, probe, mishaps')
  BY <1>2, <1>3, <1>4 DEF AttemptsPaid, Host!Leased
<1>7. /\ node' \in [Sessions -> {"none", "pending", "agent_connecting", "healthy", "removed"}]
      /\ \A r \in Sessions : node'[r] = "removed" => r \notin agents
      /\ token' \in [Sessions -> {0} \cup Host!Tokens] /\ vault' \subseteq Sessions
  BY <1>1, RetiredTyped, OtherTables
<1> QED BY <1>1, <1>4, <1>5, <1>6, <1>7, RowStep

(* The lease is handed out; the worker takes it or never hears of it.      *)
LEMMA HandOutInv ==
  ASSUME BootInv, NEW w \in Callers, NEW s \in Sessions, Host!HandOut(w, s),
         vault' \subseteq vault,
         \/ session[s].auth = "ssh" /\ session[s].status \in {"pending", "retry_wait"}
         \/ session[s].auth = "command" /\ session[s].status = "waiting"
  PROVE  BootInv'
<1> DEFINE v == Host!LeasedSession(s)
<1>1. /\ session' = [session EXCEPT ![s] = v]
      /\ token' = [token EXCEPT ![s] = Host!FreshToken]
      /\ UNCHANGED <<node, agents, host, trust, probe, beats, plan>>
      /\ Host!Mishap \/ Host!Calm
  BY DEF Host!HandOut
<1>2. /\ v \in BootstrapRow /\ v.status = "validating" /\ v.lease = Host!FreshToken
      /\ v.next = session[s].next
      /\ SessionKept(session[s], v) /\ ToldOf(v, s, host, agents, beats)
      /\ AttemptsPaid(v, host, probe, mishaps')
  BY <1>1, LeasedKnown
<1>3. Host!FreshToken \in Host!Tokens /\ Host!FreshToken # 0
  BY SessionKnown, TokenIsFresh
<1>4. /\ vault' \subseteq Sessions /\ token' \in [Sessions -> {0} \cup Host!Tokens]
      /\ node' \in [Sessions -> {"none", "pending", "agent_connecting", "healthy", "removed"}]
      /\ \A r \in Sessions : node'[r] = "removed" => r \notin agents
  BY <1>1, <1>3, OtherTables
<1> HIDE DEF v
<1>5. CASE UNCHANGED worker
  BY <1>1, <1>2, <1>4, <1>5, RowStep
<1>6. CASE worker' = [worker EXCEPT ![w] =
                        [at |-> "leased", s |-> s, lease |-> Host!FreshToken,
                         next |-> session[s].next, plan |-> plan, result |-> "none"]]
  <2> DEFINE x == [at |-> "leased", s |-> s, lease |-> Host!FreshToken,
                   next |-> session[s].next, plan |-> plan, result |-> "none"]
  <2>1. session[s].next \in -1..Steps /\ plan \in {0} \cup Plans
    BY SessionKnown
  <2>2. /\ x \in InstallerRow /\ x.at = "leased" /\ x.s = s /\ x.lease = Host!FreshToken
        /\ x.next = session[s].next
    BY <1>3, <2>1 DEF InstallerRow
  <2>3. worker' = [worker EXCEPT ![w] = x]
    BY <1>6
  <2> HIDE DEF x
  <2>4. /\ session'[s] = v
        /\ \A r \in Sessions : r # s => session'[r] = session[r]
        /\ worker'[w] = x
        /\ \A u \in Callers : u # w => worker'[u] = worker[u]
    BY <1>1, <2>3 DEF BootInv, HostRows
  <2>6. HostRows'
    BY <1>1, <1>2, <1>4, <2>2, <2>3, MishapsGo DEF BootInv, HostRows
  <2>7. WorldGoes
    <3>1. \A r \in Sessions : host.done[r] \in Int
      BY DEF BootInv, HostRows, MachineRow
    <3> QED BY <1>1, <3>1, MishapsGo DEF WorldGoes, MarkerInv, Owed, BootInv
  <2>8. InstallerInv(x, v, host', agents', beats', mishaps')
    BY <1>1, <1>2, <1>3, <2>2 DEF InstallerInv, Acting, Registering, ToldOf
  <2>9. ProbeInv(probe', host', mishaps')
    BY <1>1, MishapsGo DEF BootInv, ProbeInv, Owed
  <2>10. \A r \in Sessions :
           \/ session'[r] = session[r]
           \/ /\ SessionKept(session[r], session'[r])
              /\ ToldOf(session'[r], r, host', agents', beats')
              /\ AttemptsPaid(session'[r], host', probe', mishaps')
    BY <1>1, <1>2, <2>4
  <2>11. \A u \in Callers :
           \/ worker'[u] = worker[u]
           \/ InstallerInv(worker'[u], session'[worker'[u].s], host', agents', beats',
                           mishaps')
    BY <2>2, <2>4, <2>8
  <2> QED BY <1>1, <1>4, <2>6, <2>7, <2>9, <2>10, <2>11, BootGoes
<1> QED BY <1>5, <1>6 DEF Host!HandOut, Host!None

LEMMA QueueInv ==
  ASSUME BootInv, Host!Queue
  PROVE  BootInv'
<1>1. CASE Host!Recover
  BY <1>1, RecoverInv
<1>2. ASSUME NEW w \in Callers, NEW s \in Sessions, Host!handleBootstrapWorkerLease(w, s)
      PROVE  BootInv'
  BY <1>2, HandOutInv, FailLeasedInv
     DEF Host!handleBootstrapWorkerLease, Host!LeaseNextBootstrapSession
<1>3. ASSUME NEW w \in Callers, NEW s \in Sessions, Host!handleBootstrapCommandClaim(w, s)
      PROVE  BootInv'
  BY <1>3, HandOutInv, FailLeasedInv DEF Host!handleBootstrapCommandClaim
<1> QED BY <1>1, <1>2, <1>3 DEF Host!Queue

(* A session is tested, created and given its credential.                  *)
LEMMA CreationInv ==
  ASSUME BootInv, NEW s \in Sessions,
         \/ Host!validateBootstrap(s) \/ Host!CreateBootstrapSession(s)
         \/ Host!handleBootstrapSessions(s)
  PROVE  BootInv'
<1> DEFINE u == session[s]
<1>1. /\ u \in BootstrapRow /\ ToldOf(u, s, host, agents, beats)
      /\ AttemptsPaid(u, host, probe, mishaps) /\ u.attempt \in Nat /\ mishaps \in Nat
      /\ MaxAttempts \in Nat \ {0} /\ HostRows /\ ProbeInv(probe, host, mishaps)
      /\ probe \in ProbeRow /\ u.auth \in {"ssh", "command"}
  BY SessionKnown DEF BootstrapRow
<1>2. /\ UNCHANGED <<agents, worker, host, beats, plan, mishaps>> /\ Host!Calm
      /\ token' \in [Sessions -> {0} \cup Host!Tokens]
  BY OtherTables
     DEF Host!validateBootstrap, Host!CreateBootstrapSession, Host!handleBootstrapSessions,
         Host!Calm
<1>3. CASE Host!validateBootstrap(s)
  <2> DEFINE v == [u EXCEPT !.status = "checked"]
  <2>1. /\ u.status = "none" /\ session' = [session EXCEPT ![s] = v]
        /\ UNCHANGED <<vault, node, trust, probe>>
    BY <1>3 DEF Host!validateBootstrap, Host!None
  <2>2. /\ v \in BootstrapRow /\ v.status = "checked" /\ v.lease = u.lease
        /\ v.auth = u.auth /\ v.attempt = u.attempt /\ v.pin = u.pin /\ v.next = u.next
    BY <1>1 DEF BootstrapRow, Host!Statuses
  <2> HIDE DEF v, u
  <2>3. SessionKept(u, v) /\ ToldOf(v, s, host, agents, beats)
    BY <1>1, <2>1, <2>2 DEF SessionKept, ToldOf, AttemptsPaid, Host!Leased
  <2>4. AttemptsPaid(v, host, probe, mishaps')
    BY <1>1, <1>2, <2>1, <2>2 DEF AttemptsPaid, Host!Leased
  <2> QED BY <1>2, <2>1, <2>2, <2>3, <2>4, OtherTables, RowStep DEF u
<1>4. CASE Host!handleBootstrapSessions(s)
  <2>1. /\ session' = session /\ vault' \subseteq Sessions
        /\ UNCHANGED <<node, trust, probe>>
    BY <1>4, OtherTables DEF Host!handleBootstrapSessions
  <2>2. session' = [session EXCEPT ![s] = u]
    BY <1>1, <2>1 DEF HostRows
  <2>3. SessionKept(u, u)
    BY DEF SessionKept
  <2> HIDE DEF u
  <2> QED BY <1>1, <1>2, <2>1, <2>2, <2>3, OtherTables, RowStep DEF u
<1>5. CASE Host!CreateBootstrapSession(s)
  <2>1. /\ u.status = "checked" /\ node' = [node EXCEPT ![s] = "pending"]
        /\ UNCHANGED vault
    BY <1>5 DEF Host!CreateBootstrapSession
  <2>2. /\ node' \in [Sessions -> {"none", "pending", "agent_connecting", "healthy",
                                   "removed"}]
        /\ \A r \in Sessions : node'[r] = "removed" => r \notin agents
    BY <2>1, OtherTables
  <2>3. u.attempt = 0 /\ u.lease = 0
    BY <1>1, <2>1 DEF AttemptsPaid, Host!Leased
  <2>4. CASE /\ Host!ProbeAccepted /\ trust' = probe.key
             /\ probe' = [probe EXCEPT !.status = "consumed"]
             /\ session' = [session EXCEPT ![s].status = "pending", ![s].pin = probe.key]
    <3> DEFINE v == [u EXCEPT !.status = "pending", !.pin = probe.key]
    <3>1. probe.seen # "none"
      BY <2>4 DEF Host!ProbeAccepted
    <3>2. probe.key # host.key => mishaps >= 1
      BY <1>1, <3>1 DEF ProbeInv, Owed
    <3>3. /\ probe' \in ProbeRow /\ probe'.key = probe.key /\ probe'.seen = probe.seen
          /\ trust' \in HostKeys \cup {"none"}
      BY <1>1, <2>4 DEF ProbeRow
    <3>4. session' = [session EXCEPT ![s] = v]
      BY <2>4
    <3>5. /\ v \in BootstrapRow /\ v.status = "pending" /\ v.lease = 0 /\ v.auth = u.auth
          /\ v.attempt = 0 /\ v.pin = probe.key /\ v.next = u.next
      BY <1>1, <2>3 DEF BootstrapRow, ProbeRow, Host!Statuses, Host!Waiting
    <3> HIDE DEF v, u
    <3>6. SessionKept(u, v) /\ ToldOf(v, s, host, agents, beats')
      BY <1>1, <1>2, <2>1, <3>5 DEF SessionKept, ToldOf
    <3>7. AttemptsPaid(v, host, probe', mishaps')
      BY <1>1, <1>2, <3>2, <3>5 DEF AttemptsPaid
    <3>8. /\ plan' \in Plans /\ beats \subseteq beats' /\ beats' \subseteq Sessions
          /\ vault' \subseteq Sessions /\ token' \in [Sessions -> {0} \cup Host!Tokens]
      BY <1>1, <1>2, <2>1 DEF HostRows
    <3> QED BY <1>2, <2>2, <3>1, <3>3, <3>4, <3>5, <3>6, <3>7, <3>8, SessionStep DEF u
  <2>5. CASE /\ session' = [session EXCEPT ![s].status = "waiting", ![s].auth = "command"]
             /\ UNCHANGED <<trust, probe>>
    <3> DEFINE v == [u EXCEPT !.status = "waiting", !.auth = "command"]
    <3>1. session' = [session EXCEPT ![s] = v]
      BY <2>5
    <3>2. /\ v \in BootstrapRow /\ v.status = "waiting" /\ v.lease = 0
          /\ v.auth = "command" /\ v.attempt = 0 /\ v.pin = u.pin /\ v.next = u.next
      BY <1>1, <2>3 DEF BootstrapRow, Host!Statuses, Host!Waiting
    <3> HIDE DEF v, u
    <3>3. SessionKept(u, v) /\ ToldOf(v, s, host, agents, beats)
      BY <1>1, <2>1, <3>2 DEF SessionKept, ToldOf
    <3>4. AttemptsPaid(v, host, probe, mishaps')
      BY <1>1, <1>2, <3>2 DEF AttemptsPaid, Host!Leased
    <3> QED BY <1>2, <2>1, <2>2, <2>5, <3>1, <3>2, <3>3, <3>4, OtherTables, RowStep DEF u
  <2> QED BY <1>5, <2>4, <2>5 DEF Host!CreateBootstrapSession
<1> QED BY <1>3, <1>4, <1>5

(* An operator sets a session going again.                                 *)
LEMMA AgainInv ==
  ASSUME BootInv, NEW s \in Sessions,
         Host!ManualRetryBootstrapSession(s) \/ Host!ResumeBootstrapSession(s)
  PROVE  BootInv'
<1> DEFINE u == session[s]
<1>1. /\ u \in BootstrapRow /\ ToldOf(u, s, host, agents, beats)
      /\ AttemptsPaid(u, host, probe, mishaps) /\ u.attempt \in Nat /\ mishaps \in Nat
      /\ MaxAttempts \in Nat \ {0} /\ HostRows /\ ProbeInv(probe, host, mishaps)
      /\ trust \in HostKeys \cup {"none"} /\ u.auth \in {"ssh", "command"}
  BY SessionKnown DEF BootstrapRow
<1>2. /\ UNCHANGED <<agents, worker, host, trust, probe, beats, plan, mishaps>>
      /\ Host!Calm /\ vault' \subseteq Sessions
      /\ token' \in [Sessions -> {0} \cup Host!Tokens]
  BY OtherTables DEF Host!ManualRetryBootstrapSession, Host!ResumeBootstrapSession, Host!Calm
<1>3. CASE Host!ManualRetryBootstrapSession(s)
  <2> DEFINE st == IF u.auth = "ssh" THEN "pending" ELSE "waiting"
             v == [u EXCEPT !.status = st, !.attempt = 0, !.lease = 0, !.live = FALSE]
  <2>1. /\ u.status = "dead_letter" /\ node' = [node EXCEPT ![s] = "pending"]
        /\ session' = [session EXCEPT ![s] = v]
    BY <1>3 DEF Host!ManualRetryBootstrapSession
  <2>2. /\ st \in {"pending", "waiting"} /\ st \in Host!Statuses
        /\ st = "waiting" => u.auth = "command"
    BY <1>1 DEF Host!Statuses, Host!Waiting
  <2> HIDE DEF st
  <2>3. /\ v \in BootstrapRow /\ v.status = st /\ v.lease = 0
        /\ v.auth = u.auth /\ v.attempt = 0 /\ v.pin = u.pin /\ v.next = u.next
    BY <1>1, <2>2 DEF BootstrapRow
  <2> HIDE DEF v, u
  <2>4. SessionKept(u, v) /\ ToldOf(v, s, host, agents, beats)
    BY <1>1, <2>1, <2>2, <2>3 DEF SessionKept, ToldOf
  <2>5. AttemptsPaid(v, host, probe, mishaps')
    BY <1>1, <1>2, <2>1, <2>2, <2>3 DEF AttemptsPaid, Host!Leased
  <2>6. /\ node' \in [Sessions -> {"none", "pending", "agent_connecting", "healthy",
                                   "removed"}]
        /\ \A r \in Sessions : node'[r] = "removed" => r \notin agents
        /\ token' \in [Sessions -> {0} \cup Host!Tokens]
    BY <1>2, <2>1, OtherTables
  <2> QED BY <1>2, <2>1, <2>3, <2>4, <2>5, <2>6, RowStep DEF u
<1>4. CASE Host!ResumeBootstrapSession(s)
  <2> DEFINE v == [u EXCEPT !.status = "pending", !.pin = trust, !.lease = 0, !.live = FALSE]
  <2>1. /\ u.status = "waiting_host_key" /\ probe.status = "confirmed" /\ trust = probe.key
        /\ session' = [session EXCEPT ![s] = v] /\ UNCHANGED node
    BY <1>4 DEF Host!ResumeBootstrapSession
  <2>2. /\ v \in BootstrapRow /\ v.status = "pending" /\ v.lease = 0 /\ v.auth = u.auth
        /\ v.attempt = u.attempt /\ v.pin = trust /\ v.next = u.next
    BY <1>1 DEF BootstrapRow, Host!Statuses, Host!Waiting
  <2> HIDE DEF v, u
  <2>3. trust # host.key => Owed(probe, host) /\ mishaps >= 1
    BY <1>1, <2>1 DEF ProbeInv, Owed
  <2>4. SessionKept(u, v) /\ ToldOf(v, s, host, agents, beats)
    BY <1>1, <2>1, <2>2 DEF SessionKept, ToldOf
  <2>5. AttemptsPaid(v, host, probe, mishaps')
    BY <1>1, <1>2, <2>1, <2>2, <2>3 DEF AttemptsPaid, Host!Leased
  <2> QED BY <1>2, <2>1, <2>2, <2>4, <2>5, OtherTables, RowStep DEF u
<1> QED BY <1>3, <1>4

LEMMA ProbesInv ==
  ASSUME BootInv,
         \/ Host!CreateSSHHostKeyObservation \/ Host!ConfirmSSHHostKeyRotation
         \/ Host!HostKeyChanges \/ Host!ProbeExpires \/ Host!UpgradePlan
  PROVE  BootInv'
<1>1. /\ HostRows /\ host \in MachineRow /\ probe \in ProbeRow /\ trust \in HostKeys \cup {"none"}
      /\ plan \in Plans /\ ProbeInv(probe, host, mishaps)
      /\ host.key \in HostKeys
  BY DEF BootInv, HostRows, MachineRow
<1>2. /\ UNCHANGED <<session, worker, agents, beats, vault, token, node>>
      /\ Host!Mishap \/ Host!Calm
  BY DEF Host!CreateSSHHostKeyObservation, Host!ConfirmSSHHostKeyRotation,
         Host!HostKeyChanges, Host!ProbeExpires, Host!UpgradePlan, Host!Calm
<1>3. CASE Host!CreateSSHHostKeyObservation
  <2> DEFINE seen == IF trust = "none" THEN "first_seen"
                     ELSE IF trust = host.key THEN "matched" ELSE "changed"
  <2>1. /\ probe' = [key |-> host.key, status |-> "pending", seen |-> seen]
        /\ UNCHANGED <<host, trust, plan>>
    BY <1>3 DEF Host!CreateSSHHostKeyObservation, Host!None
  <2>2. seen \in {"first_seen", "matched", "changed"}
    OBVIOUS
  <2> HIDE DEF seen
  <2>3. /\ probe' \in ProbeRow /\ probe'.key = host'.key /\ probe'.seen # "none"
    BY <1>1, <2>1, <2>2 DEF ProbeRow
  <2>4. ~Owed(probe', host')
    BY <2>3 DEF Owed
  <2> QED BY <1>1, <1>2, <2>1, <2>3, <2>4, SurroundingsStep
<1>4. CASE Host!ConfirmSSHHostKeyRotation
  <2>1. /\ probe.status # "none" /\ trust' = probe.key
        /\ probe' = [probe EXCEPT !.status = "confirmed"] /\ UNCHANGED <<host, plan>>
    BY <1>4 DEF Host!ConfirmSSHHostKeyRotation
  <2>2. /\ probe' \in ProbeRow /\ probe'.key = probe.key /\ probe'.seen = probe.seen
        /\ trust' \in HostKeys \cup {"none"} /\ probe.seen # "none"
    BY <1>1, <2>1 DEF ProbeRow, ProbeInv
  <2>3. Owed(probe', host') => Owed(probe, host)
    BY <2>1, <2>2 DEF Owed
  <2> QED BY <1>1, <1>2, <2>1, <2>2, <2>3, SurroundingsStep
<1>5. CASE Host!HostKeyChanges
  <2>1. PICK k \in HostKeys : host' = [host EXCEPT !.key = k]
    BY <1>5 DEF Host!HostKeyChanges
  <2>2. Host!Mishap /\ UNCHANGED <<trust, probe, plan>>
    BY <1>5 DEF Host!HostKeyChanges
  <2>3. host' \in MachineRow /\ host'.done = host.done /\ host'.marker = host.marker
    BY <1>1, <2>1 DEF MachineRow
  <2>4. probe'.status # "none" => probe'.seen # "none"
    BY <1>1, <2>2 DEF ProbeInv
  <2> QED BY <1>1, <1>2, <2>2, <2>3, <2>4, SurroundingsStep
<1>6. CASE Host!ProbeExpires
  <2>1. probe' = Host!NoProbe /\ UNCHANGED <<host, trust, plan>>
    BY <1>6 DEF Host!ProbeExpires
  <2>2. probe' \in ProbeRow /\ probe'.seen = "none" /\ probe'.status = "none"
    BY <2>1 DEF Host!NoProbe, Host!None, ProbeRow
  <2>3. ~Owed(probe', host')
    BY <2>2 DEF Owed
  <2> QED BY <1>1, <1>2, <2>1, <2>2, <2>3, SurroundingsStep
<1>7. CASE Host!UpgradePlan
  <2>1. plan' \in Plans /\ UNCHANGED <<host, trust, probe>>
    BY <1>7 DEF Host!UpgradePlan
  <2>2. /\ Owed(probe', host') => Owed(probe, host)
        /\ probe'.status # "none" => probe'.seen # "none"
    BY <1>1, <2>1 DEF ProbeInv
  <2> QED BY <1>1, <1>2, <2>1, <2>2, SurroundingsStep
<1> QED BY <1>3, <1>4, <1>5, <1>6, <1>7

(* A heartbeat, a lapse and the end of a session's time.                   *)
LEMMA HeartbeatInv ==
  ASSUME BootInv, NEW s \in Sessions, NEW ready \in BOOLEAN,
         Host!RecordAgentHeartbeat(s, ready)
  PROVE  BootInv'
<1> DEFINE u == session[s]
           v == [u EXCEPT !.status = "verifying"]
<1>1. /\ u \in BootstrapRow /\ ToldOf(u, s, host, agents, beats)
      /\ AttemptsPaid(u, host, probe, mishaps) /\ HostRows
      /\ ProbeInv(probe, host, mishaps)
  BY SessionKnown
<1>2. /\ host.marker = s /\ s \in agents
      /\ node' = [node EXCEPT ![s] = IF ready THEN "healthy" ELSE "agent_connecting"]
      /\ beats \subseteq beats' /\ beats' \subseteq Sessions
      /\ UNCHANGED <<vault, token, agents, worker, host, trust, probe, plan, mishaps>>
      /\ Host!Calm
  BY OtherTables DEF Host!RecordAgentHeartbeat, Host!Calm
<1>3. /\ node' \in [Sessions -> {"none", "pending", "agent_connecting", "healthy",
                                 "removed"}]
      /\ \A r \in Sessions : node'[r] = "removed" => r \notin agents
  BY <1>2, OtherTables
<1>4. /\ vault' \subseteq Sessions /\ token' \in [Sessions -> {0} \cup Host!Tokens]
      /\ trust' \in HostKeys \cup {"none"} /\ plan' \in Plans /\ probe' \in ProbeRow
      /\ probe'.key = probe.key /\ probe'.seen = probe.seen
      /\ probe'.status # "none" => probe'.seen # "none"
  BY <1>1, <1>2 DEF HostRows, ProbeInv
<1>5. CASE /\ session' = [session EXCEPT ![s] = v]
           /\ s \in beats' /\ u.status \in Host!Leased \cup {"pending"}
  <2>1. /\ v \in BootstrapRow /\ v.status = "verifying" /\ v.lease = u.lease
        /\ v.auth = u.auth /\ v.attempt = u.attempt /\ v.pin = u.pin /\ v.next = u.next
    BY <1>1 DEF BootstrapRow, Host!Statuses, Host!Leased
  <2> HIDE DEF v, u
  <2>2. SessionKept(u, v)
    BY <2>1 DEF SessionKept
  <2>3. ToldOf(v, s, host, agents, beats')
    BY <1>1, <1>2, <1>5, <2>1, ControlPlaneAssumption DEF ToldOf
  <2>4. AttemptsPaid(v, host, probe', mishaps')
    BY <1>1, <1>2, <1>5, <2>1 DEF AttemptsPaid, Host!Leased
  <2> QED BY <1>2, <1>3, <1>4, <1>5, <2>1, <2>2, <2>3, <2>4, SessionStep DEF u
<1>6. CASE UNCHANGED session
  <2>1. session' = [session EXCEPT ![s] = u]
    BY <1>1, <1>6 DEF HostRows
  <2> QED BY <1>1, <1>2, <1>3, <1>4, <2>1, SessionStep
<1> QED BY <1>5, <1>6 DEF Host!RecordAgentHeartbeat

LEMMA TimesInv ==
  ASSUME BootInv, NEW s \in Sessions, Host!LeaseLapses(s) \/ Host!SessionExpires(s)
  PROVE  BootInv'
<1> DEFINE u == session[s]
<1>1. /\ u \in BootstrapRow /\ ToldOf(u, s, host, agents, beats)
      /\ AttemptsPaid(u, host, probe, mishaps) /\ u.attempt \in Nat /\ mishaps \in Nat
      /\ MaxAttempts \in Nat
  BY SessionKnown
<1>2. /\ UNCHANGED <<node, agents, worker, host, trust, probe, beats, plan>>
      /\ vault' \subseteq Sessions /\ token' \in [Sessions -> {0} \cup Host!Tokens]
      /\ Host!Mishap \/ Host!Calm
  BY OtherTables DEF Host!LeaseLapses, Host!SessionExpires, Host!Calm
<1>3. PICK v \in BootstrapRow :
        /\ session' = [session EXCEPT ![s] = v] /\ v.status = u.status
        /\ v.lease = u.lease /\ v.auth = u.auth /\ v.attempt = u.attempt
        /\ v.pin = u.pin /\ v.next = u.next
  <2>1. CASE Host!LeaseLapses(s)
    <3> DEFINE v == [u EXCEPT !.live = FALSE]
    <3>1. /\ v \in BootstrapRow /\ v.status = u.status
          /\ v.lease = u.lease /\ v.auth = u.auth /\ v.attempt = u.attempt
          /\ v.pin = u.pin /\ v.next = u.next
      BY <1>1 DEF BootstrapRow
    <3>2. session' = [session EXCEPT ![s] = v]
      BY <2>1 DEF Host!LeaseLapses
    <3> QED BY <3>1, <3>2
  <2>2. CASE Host!SessionExpires(s)
    <3> DEFINE v == [u EXCEPT !.over = TRUE]
    <3>1. /\ v \in BootstrapRow /\ v.status = u.status
          /\ v.lease = u.lease /\ v.auth = u.auth /\ v.attempt = u.attempt
          /\ v.pin = u.pin /\ v.next = u.next
      BY <1>1 DEF BootstrapRow
    <3>2. session' = [session EXCEPT ![s] = v]
      BY <2>2 DEF Host!SessionExpires
    <3> QED BY <3>1, <3>2
  <2> QED BY <2>1, <2>2
<1>4. mishaps' \in Nat /\ mishaps <= mishaps'
  BY <1>2, MishapsGo
<1> HIDE DEF u
<1>5. SessionKept(u, v) /\ ToldOf(v, s, host, agents, beats)
  BY <1>1, <1>3 DEF SessionKept, ToldOf
<1>6. AttemptsPaid(v, host, probe, mishaps')
  BY <1>1, <1>3, <1>4 DEF AttemptsPaid
<1>7. /\ node' \in [Sessions -> {"none", "pending", "agent_connecting", "healthy", "removed"}]
      /\ \A r \in Sessions : node'[r] = "removed" => r \notin agents
  BY <1>2, OtherTables
<1> QED BY <1>2, <1>3, <1>5, <1>6, <1>7, RowStep DEF u

LEMMA SurroundingsInv ==
  ASSUME BootInv, Host!Clients \/ Host!Environment
  PROVE  BootInv'
<1>1. CASE Host!Clients
  BY <1>1, CreationInv, AgainInv, ProbesInv DEF Host!Clients
<1>2. CASE Host!Environment
  BY <1>2, HeartbeatInv, TimesInv, ProbesInv DEF Host!Environment
<1> QED BY <1>1, <1>2

LEMMA BootInvNext ==
  ASSUME BootInv, Host!Next
  PROVE  BootInv'
BY QueueInv, WorkerStepsInv, SurroundingsInv DEF Host!Next

LEMMA BootInvStutters ==
  ASSUME BootInv,
         UNCHANGED <<session, vault, token, node, agents, worker, host, trust, probe, beats,
                     plan, mishaps>>
  PROVE  BootInv'
BY DEF BootInv, HostRows, MarkerInv, ProbeInv, Owed

LEMMA BootHoldsInitially == ASSUME ControlPlaneInit PROVE BootHolds
<1> SUFFICES ASSUME part \in HostParts PROVE BootInv
  BY DEF BootHolds
<1>1. Host!Init
  BY DEF ControlPlaneInit, HostParts
<1> QED BY <1>1, HostInitInv

LEMMA BootHoldsStep ==
  ASSUME BootHolds, [ControlPlaneNext]_controlPlaneVars
  PROVE  BootHolds'
<1>1. CASE HostMoves /\ Host!Next
  <2>1. part \in HostParts /\ UNCHANGED part /\ BootInv
    BY <1>1 DEF HostMoves, BootHolds
  <2> QED BY <1>1, <2>1, BootInvNext DEF BootHolds
<1>2. CASE ConfigurationMoves \/ GitHubMoves \/ AccessMoves
  BY <1>2 DEF ConfigurationMoves, GitHubMoves, AccessMoves, BootHolds, HostParts
<1>3. CASE UNCHANGED controlPlaneVars
  <2>1. part' = part /\ UNCHANGED bootstrapVars
    BY <1>3 DEF controlPlaneVars
  <2>2. CASE part \in HostParts
    <3>1. BootInv
      BY <2>2 DEF BootHolds
    <3>2. UNCHANGED <<session, vault, token, node, agents, worker, host, trust, probe, beats,
                      plan, mishaps>>
      BY <2>1 DEF bootstrapVars
    <3> QED BY <3>1, <3>2, BootInvStutters DEF BootHolds
  <2>3. CASE part \notin HostParts
    BY <2>1, <2>3 DEF BootHolds
  <2> QED BY <2>2, <2>3
<1> QED BY <1>1, <1>2, <1>3 DEF ControlPlaneNext, Host!Next

LEMMA BootInvIsFactual ==
  ASSUME BootInv
  PROVE  Host!BootstrapTypeOK /\ Host!BootstrapIsFactual
<1>1. ASSUME NEW s \in Sessions
      PROVE  /\ session[s] \in BootstrapRow
             /\ session[s].attempt \in 0..(MaxAttempts + MaxMishaps)
             /\ session[s].next <= host.done[s]
             /\ session[s].status = "completed" =>
                  /\ s \in agents \cap beats /\ host.done[s] = Steps
                  /\ agents = {s} => host.marker = s
             /\ node[s] = "removed" => s \notin agents
  <2>1. /\ session[s] \in BootstrapRow /\ session[s].attempt \in Nat
        /\ ToldOf(session[s], s, host, agents, beats)
        /\ AttemptsPaid(session[s], host, probe, mishaps)
        /\ mishaps \in Nat /\ MaxAttempts \in Nat
    BY SessionKnown
  <2>2. mishaps <= MaxMishaps /\ MaxMishaps \in Nat
    BY ControlPlaneAssumption DEF BootInv, HostRows
  <2>3. session[s].attempt \in 0..(MaxAttempts + MaxMishaps)
    BY <2>1, <2>2 DEF AttemptsPaid
  <2>4. session[s].status = "completed" /\ agents = {s} => host.marker = s
    BY <2>1 DEF ToldOf, BootInv, MarkerInv
  <2> QED BY <2>1, <2>3, <2>4, OtherTables DEF ToldOf
<1>2. session \in
        [Sessions ->
         [status: Host!Statuses, auth: {"ssh", "command"},
          attempt: 0..(MaxAttempts + MaxMishaps), lease: {0} \cup Host!Tokens,
          live: BOOLEAN, over: BOOLEAN, next: -1..Steps, plan: {0} \cup Plans,
          pin: HostKeys \cup {"none"}]]
  <2>1. ASSUME NEW s \in Sessions
        PROVE  session[s] \in
                 [status: Host!Statuses, auth: {"ssh", "command"},
                  attempt: 0..(MaxAttempts + MaxMishaps), lease: {0} \cup Host!Tokens,
                  live: BOOLEAN, over: BOOLEAN, next: -1..Steps, plan: {0} \cup Plans,
                  pin: HostKeys \cup {"none"}]
    BY <1>1 DEF BootstrapRow
  <2>2. session = [s \in Sessions |-> session[s]]
    BY DEF BootInv, HostRows
  <2> QED BY <2>1, <2>2
<1>3. Host!BootstrapTypeOK
  BY <1>2, OtherTables DEF Host!BootstrapTypeOK, Host!None
<1> QED BY <1>1, <1>3 DEF Host!BootstrapIsFactual

(* What a bootstrap session says of its host is so, whatever crashes, lost *)
(* messages, lapsed leases, retries and changes of the host key come in    *)
(* between, for any number of workers and of sessions of the host, at work *)
(* side by side: a theorem of the model itself, which none of the bounds   *)
(* that TLC needs restricts.                                               *)
THEOREM HostIsFactual ==
  Host!Spec => [](Host!BootstrapTypeOK /\ Host!BootstrapIsFactual)
<1>1. Host!Init => BootInv
  BY HostInitInv
<1>2. BootInv /\ [Host!Next]_Host!bootstrapVars => BootInv'
  BY BootInvNext, BootInvStutters DEF Host!bootstrapVars
<1>3. BootInv => Host!BootstrapTypeOK /\ Host!BootstrapIsFactual
  BY BootInvIsFactual
<1> QED BY <1>1, <1>2, <1>3, PTL DEF Host!Spec

(* The same of the bootstrap sessions of the composition, which TLC checks *)
(* within its bounds.                                                      *)
THEOREM SessionsAreFactual == ControlPlaneSpec => []BootstrapIsFactual
<1>1. BootHolds => BootstrapIsFactual
  BY BootInvIsFactual DEF BootHolds, BootstrapIsFactual
<1> QED BY <1>1, BootHoldsInitially, BootHoldsStep, PTL DEF ControlPlaneSpec
=============================================================================
