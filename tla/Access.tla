------------------------------- MODULE Access -------------------------------
(***************************************************************************)
(* How a person gets, replaces and gives up the personal access token      *)
(* (PAT) every command uses.  Cloud keeps identities, memberships and PATs *)
(* in PostgreSQL and the browser logins under way in memory, where each    *)
(* state, grant and selection token is good for one use and is lost at a   *)
(* restart.  The CLI keeps one PAT in the keychain of the workstation and  *)
(* several of its commands may run at once.                                *)
(***************************************************************************)
EXTENDS Naturals

CONSTANTS
  Subjects,      \* GitHub accounts
  Logins,        \* browser logins of the workstation
  Commands,      \* rotations and logouts run on the workstation
  Projects,      \* projects people may create besides the first ones
  MaxTokens,     \* bound: PATs issued
  MaxMishaps     \* bound: restarts, expiries, lost answers, crashes

VARIABLES
  identity,      \* oauth_identities: the user of a GitHub account, or "none"
  members,       \* project_memberships
  owner,         \* the bootstrap state of the first owner
  pat,           \* personal_access_tokens
  login,         \* what Cloud holds of a login
  issued,        \* history: the PATs issued for a login
  keychain,      \* the PAT in the keychain, or 0
  command,       \* the local commands that change it
  givenUp,       \* history: PATs a person asked to revoke, or brought back
                 \* once they were replaced
  mishaps

accessVars ==
  <<identity, members, owner, pat, login, issued, keychain, command, givenUp,
    mishaps>>

(* A self-service account is named for its GitHub account, and the first   *)
(* project of a user for the user.                                         *)
Owner == "owner"
Users == Subjects \cup {Owner}
AllProjects == Users \cup Projects
Tokens == 1..MaxTokens

NoPAT == [user |-> "none", status |-> "none", purpose |-> "none"]
NoLogin ==
  [phase |-> "none", asked |-> "none", subject |-> "none", projects |-> {},
   project |-> "none", token |-> 0]
NoCommand == [phase |-> "none", old |-> 0, new |-> 0]

Init ==
  /\ identity = [s \in Subjects |-> "none"]
  /\ members = {}
  /\ owner = "none"
  /\ pat = [t \in Tokens |-> NoPAT]
  /\ login = [l \in Logins |-> NoLogin]
  /\ issued = [l \in Logins |-> {}]
  /\ keychain = 0
  /\ command = [c \in Commands |-> NoCommand]
  /\ givenUp = {}
  /\ mishaps = 0

Mishap == mishaps < MaxMishaps /\ mishaps' = mishaps + 1

Accounts == <<identity, members, owner>>
Workstation == <<keychain, command, givenUp>>

ProjectsOf(u) == {p \in AllProjects : <<u, p>> \in members}
FreshToken == {t \in Tokens : pat[t] = NoPAT /\ \A n \in 1..(t - 1) : pat[n] # NoPAT}

(* IssuePATForUser: a PAT is of a user who has a membership.               *)
IssuePAT(t, user, purpose) ==
  pat' = [pat EXCEPT ![t] = [user |-> user, status |-> "valid",
                             purpose |-> purpose]]

(* VerifyPAT joins the PAT with the memberships of its user.               *)
Verified(t, project) ==
  /\ t # 0 /\ pat[t].status = "valid"
  /\ <<pat[t].user, project>> \in members

----------------------------------------------------------------------------
(* Accounts *)

(* ensureOAuthIdentity: an identity has one user, a user one identity.     *)
CanLink(user, s) ==
  /\ identity[s] \in {"none", user}
  /\ \A x \in Subjects \ {s} : identity[x] # user

(* ProvisionBootstrapOwner, run by an administrator on the server.         *)
ProvisionBootstrapOwner(subjects, issuePAT) ==
  /\ \A s \in subjects : CanLink(Owner, s)
  /\ owner' = "initialized"
  /\ members' = members \cup {<<Owner, Owner>>}
  /\ identity' = [s \in Subjects |-> IF s \in subjects THEN Owner
                                                       ELSE identity[s]]
  /\ IF issuePAT /\ ~\E t \in Tokens : pat[t].purpose = "bootstrap"
       THEN \E t \in FreshToken : IssuePAT(t, Owner, "bootstrap")
       ELSE UNCHANGED pat
  /\ UNCHANGED <<login, issued, Workstation, mishaps>>

(* linkExistingOwner.                                                      *)
LinkExistingOwner(s) ==
  /\ owner = "initialized" /\ CanLink(Owner, s)
  /\ identity' = [identity EXCEPT ![s] = Owner]
  /\ members' = members \cup {<<Owner, Owner>>}
  /\ UNCHANGED <<owner, pat, login, issued, Workstation, mishaps>>

(* CreateProject, asked by a user the token in the keychain verifies as.   *)
CreateProject(p) ==
  /\ p \in Projects /\ \A u \in Users : <<u, p>> \notin members
  /\ \E from \in AllProjects :
       /\ Verified(keychain, from)
       /\ members' = members \cup {<<pat[keychain].user, p>>}
  /\ UNCHANGED <<identity, owner, pat, login, issued, Workstation, mishaps>>

(* A rotation has revoked the PAT, or is about to.                         *)
Replaced(t) ==
  \/ pat[t].status = "revoked"
  \/ \E c \in Commands : command[c].phase = "revokeOld" /\ command[c].old = t

(* opsi login: the PAT the server left in a file goes into the keychain,   *)
(* whatever is there and whatever runs.                                    *)
StoreInitialPAT(t) ==
  /\ pat[t].purpose = "bootstrap"
  /\ keychain' = t
  /\ givenUp' = IF Replaced(t) THEN givenUp \cup {t} ELSE givenUp
  /\ UNCHANGED <<Accounts, pat, login, issued, command, mishaps>>

----------------------------------------------------------------------------
(* Browser logins *)

Goes(l, phase) == login' = [login EXCEPT ![l].phase = phase]
OnlyLogin == UNCHANGED <<Accounts, pat, issued, Workstation>>

(* handleBrowserAuthStart: a fresh state, remembered for five minutes.     *)
BrowserAuthStart(l, project) ==
  /\ login[l].phase = "none"
  /\ login' = [login EXCEPT ![l] = [NoLogin EXCEPT !.phase = "state",
                                                   !.asked = project]]
  /\ OnlyLogin /\ UNCHANGED mishaps

(* exchangeGitHubUser: GitHub says which account authorized, if it answers.*)
ExchangeGitHubUser(l, s) ==
  \/ /\ login' = [login EXCEPT ![l].phase = "authorized", ![l].subject = s]
     /\ UNCHANGED mishaps
  \/ Goes(l, "done") /\ Mishap

(* handleBrowserAuthCallback: the state is consumed first, whatever the    *)
(* outcome.                                                                *)
BrowserAuthCallback(l, s) ==
  /\ login[l].phase = "state" /\ ExchangeGitHubUser(l, s)
  /\ OnlyLogin

(* EnsureOAuthUser: the identity is looked up ...                          *)
ResolveOAuthUser(l) ==
  /\ login[l].phase = "authorized"
  /\ Goes(l, IF identity[login[l].subject] = "none" THEN "unknown"
                                                   ELSE "resolved")
  /\ OnlyLogin /\ UNCHANGED mishaps

(* ... and ProvisionOAuthUser looks again under the lock of the identity   *)
(* before it makes the account with an organization and a project.         *)
ProvisionOAuthUser(l) ==
  LET s == login[l].subject IN
  /\ login[l].phase = "unknown" /\ Goes(l, "resolved")
  /\ IF identity[s] # "none"
       THEN UNCHANGED <<identity, members>>
       ELSE /\ identity' = [identity EXCEPT ![s] = s]
            /\ members' = members \cup {<<s, s>>}
  /\ UNCHANGED <<owner, pat, issued, Workstation, mishaps>>

(* UserProjects: the project asked for if it is one of the user's, or the  *)
(* only one; otherwise a grant to select among them.                       *)
ChooseProject(l) ==
  LET its == ProjectsOf(identity[login[l].subject])
      named == its \cap {login[l].asked} IN
  /\ login[l].phase = "resolved"
  /\ \/ /\ named # {}
        /\ login' = [login EXCEPT ![l].phase = "issue",
                                  ![l].project = login[l].asked]
     \/ /\ named = {}
        /\ \E p \in its :
             /\ its = {p}
             /\ login' = [login EXCEPT ![l].phase = "issue", ![l].project = p]
     \/ /\ named = {} /\ \E p, q \in its : p # q
        /\ login' = [login EXCEPT ![l].phase = "selectGrant",
                                  ![l].projects = its]
  /\ OnlyLogin /\ UNCHANGED mishaps

(* IssuePATForOAuth before the grant is stored: the PAT exists even if the *)
(* grant is never redeemed.  `next` says where its answer goes.            *)
IssueFor(l, next) ==
  LET user == identity[login[l].subject] IN
  \E t \in FreshToken :
    /\ <<user, login[l].project>> \in members
    /\ IssuePAT(t, user, "login")
    /\ issued' = [issued EXCEPT ![l] = @ \cup {t}]
    /\ login' = [login EXCEPT ![l].phase = next, ![l].token = t]
    /\ UNCHANGED <<Accounts, Workstation, mishaps>>

IssueGrant(l) == login[l].phase = "issue" /\ IssueFor(l, "grant")

(* handleBrowserAuthRedeem: the grant is deleted before its expiry is      *)
(* looked at; a grant to select becomes a selection token.                 *)
BrowserAuthRedeem(l) ==
  /\ \/ login[l].phase = "grant" /\ Goes(l, "delivered")
     \/ login[l].phase = "selectGrant" /\ Goes(l, "selection")
  /\ OnlyLogin /\ UNCHANGED mishaps

(* handleBrowserAuthSelectProject: consumed, then checked against the      *)
(* projects the login may choose from.                                     *)
SelectProject(l, p) ==
  /\ login[l].phase = "selection"
  /\ login' = [login EXCEPT
       ![l].phase = IF p \in login[l].projects THEN "selected" ELSE "done",
       ![l].project = IF p \in login[l].projects THEN p ELSE "none"]
  /\ OnlyLogin /\ UNCHANGED mishaps

IssueSelected(l) == login[l].phase = "selected" /\ IssueFor(l, "delivered")

(* A state, a grant or a selection token expires, or its use is answered   *)
(* into the void.                                                          *)
LoginLapses(l) ==
  /\ login[l].phase \in {"state", "grant", "selectGrant", "selection",
                         "delivered"}
  /\ Goes(l, "done") /\ Mishap /\ OnlyLogin

(* Cloud restarts: the logins it remembers are gone.                       *)
CloudRestart ==
  /\ Mishap
  /\ \E l \in Logins : login[l].phase \notin {"none", "delivered", "done"}
  /\ login' = [l \in Logins |->
       IF login[l].phase \in {"none", "delivered", "done"} THEN login[l]
       ELSE [login[l] EXCEPT !.phase = "done"]]
  /\ OnlyLogin

----------------------------------------------------------------------------
(* The workstation *)

OnlyCommands == UNCHANGED <<Accounts, login, issued>>

(* completeLocalBrowserLogin: the delivered PAT goes into the keychain.    *)
StoreDelivered(l) ==
  /\ login[l].phase = "delivered"
  /\ keychain' = login[l].token /\ Goes(l, "done")
  /\ UNCHANGED <<Accounts, pat, issued, command, givenUp, mishaps>>

(* rotateLocalPAT reads the keychain and asks Cloud for another PAT;       *)
(* RotatePAT leaves the one it was asked with as it is.                    *)
RotateStart(c) ==
  /\ command[c].phase = "none" /\ keychain # 0
  /\ command' = [command EXCEPT ![c] =
                   [phase |-> "rotate", old |-> keychain, new |-> 0]]
  /\ OnlyCommands /\ UNCHANGED <<pat, keychain, givenUp, mishaps>>

RotatePAT(c, project) ==
  /\ command[c].phase = "rotate"
  /\ IF Verified(command[c].old, project)
       THEN \E t \in FreshToken :
              /\ IssuePAT(t, pat[command[c].old].user, "rotation")
              /\ command' = [command EXCEPT ![c].phase = "store",
                                            ![c].new = t]
       ELSE /\ command' = [command EXCEPT ![c].phase = "done"]
            /\ UNCHANGED pat
  /\ OnlyCommands /\ UNCHANGED <<keychain, givenUp, mishaps>>

(* SetPAT before the old PAT is revoked; a keychain that refuses keeps the *)
(* old one.  `opsi auth rotate` ends here and leaves the old PAT valid.    *)
RotateStore(c) ==
  /\ command[c].phase = "store"
  /\ \/ /\ keychain' = command[c].new
        /\ \E next \in {"revokeOld", "done"} :
             command' = [command EXCEPT ![c].phase = next]
        /\ UNCHANGED mishaps
     \/ /\ Mishap /\ command' = [command EXCEPT ![c].phase = "done"]
        /\ UNCHANGED keychain
  /\ OnlyCommands /\ UNCHANGED <<pat, givenUp>>

(* Faulty variant: the old PAT is revoked while the new one is unstored.   *)
RevokeBeforeStore(c, project) ==
  /\ command[c].phase \in {"store", "revokeOld"}
  /\ Verified(command[c].old, project)
  /\ pat' = [pat EXCEPT ![command[c].old].status = "revoked"]
  /\ command' = [command EXCEPT ![c].phase =
                   IF @ = "store" THEN "done" ELSE @]
  /\ OnlyCommands /\ UNCHANGED <<keychain, givenUp, mishaps>>

(* Cloud revokes a PAT it verifies, unless it does not hear of it.         *)
RevokeCloudPAT(t, project) ==
  \/ /\ pat' = IF Verified(t, project)
                 THEN [pat EXCEPT ![t].status = "revoked"] ELSE pat
     /\ UNCHANGED mishaps
  \/ UNCHANGED pat /\ Mishap

(* The old one is revoked; that this failed is only reported.              *)
RotateRevoke(c, project) ==
  /\ command[c].phase = "revokeOld"
  /\ RevokeCloudPAT(command[c].old, project)
  /\ command' = [command EXCEPT ![c].phase = "done"]
  /\ OnlyCommands /\ UNCHANGED <<keychain, givenUp>>

(* logoutLocalSession: the PAT read is revoked, which may fail; then       *)
(* whatever the keychain holds is deleted.                                 *)
LogoutStart(c) ==
  /\ command[c].phase = "none" /\ keychain # 0
  /\ command' = [command EXCEPT ![c] =
                   [phase |-> "logout", old |-> keychain, new |-> 0]]
  /\ givenUp' = givenUp \cup {keychain}
  /\ OnlyCommands /\ UNCHANGED <<pat, keychain, mishaps>>

LogoutRevoke(c, project) ==
  /\ command[c].phase = "logout"
  /\ RevokeCloudPAT(command[c].old, project)
  /\ command' = [command EXCEPT ![c].phase = "delete"]
  /\ OnlyCommands /\ UNCHANGED <<keychain, givenUp>>

LogoutDelete(c) ==
  /\ command[c].phase = "delete"
  /\ keychain' = 0 /\ command' = [command EXCEPT ![c].phase = "done"]
  /\ OnlyCommands /\ UNCHANGED <<pat, givenUp, mishaps>>

(* The CLI is stopped between two steps of a command.                      *)
CommandCrash(c) ==
  /\ command[c].phase \notin {"none", "done"}
  /\ Mishap /\ command' = [command EXCEPT ![c].phase = "done"]
  /\ OnlyCommands /\ UNCHANGED <<pat, keychain, givenUp>>

----------------------------------------------------------------------------
AccountSteps ==
  \/ \E subjects \in {{}} \cup {{s} : s \in Subjects}, issue \in BOOLEAN :
       ProvisionBootstrapOwner(subjects, issue)
  \/ \E s \in Subjects : LinkExistingOwner(s)
  \/ \E p \in Projects : CreateProject(p)
  \/ \E t \in Tokens : StoreInitialPAT(t)

LoginSteps ==
  \/ \E l \in Logins, p \in Projects \cup {"none"} : BrowserAuthStart(l, p)
  \/ \E l \in Logins, s \in Subjects : BrowserAuthCallback(l, s)
  \/ \E l \in Logins :
       \/ ResolveOAuthUser(l) \/ ProvisionOAuthUser(l) \/ ChooseProject(l)
       \/ IssueGrant(l) \/ BrowserAuthRedeem(l) \/ IssueSelected(l)
       \/ LoginLapses(l) \/ StoreDelivered(l)
  \/ \E l \in Logins, p \in AllProjects : SelectProject(l, p)
  \/ CloudRestart

CommandSteps ==
  \/ \E c \in Commands :
       \/ RotateStart(c) \/ RotateStore(c) \/ LogoutStart(c)
       \/ LogoutDelete(c) \/ CommandCrash(c)
  \/ \E c \in Commands, p \in AllProjects :
       RotatePAT(c, p) \/ RotateRevoke(c, p) \/ LogoutRevoke(c, p)

Next == AccountSteps \/ LoginSteps \/ CommandSteps
Spec == Init /\ [][Next]_accessVars

----------------------------------------------------------------------------
(* One browser login ends in at most one PAT, whatever is repeated, lost   *)
(* or restarted, and the PAT is of the user the GitHub account that        *)
(* authorized is linked to, who may use the project of the session.        *)
OneLoginOnePAT ==
  \A l \in Logins :
    /\ \A t, u \in issued[l] : t = u
    /\ \A t \in issued[l] :
         /\ pat[t].user = identity[login[l].subject]
         /\ <<pat[t].user, login[l].project>> \in members

(* Rotating, however its steps interleave with other commands and wherever *)
(* they stop, never leaves the keychain with a PAT Cloud refuses: the PAT  *)
(* there is good unless a person asked to revoke it, or brought it back    *)
(* from its file once it was replaced.                                     *)
KeychainIsGood ==
  keychain # 0 /\ keychain \notin givenUp => pat[keychain].status = "valid"
=============================================================================
