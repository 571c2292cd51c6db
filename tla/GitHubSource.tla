---------------------------- MODULE GitHubSource ----------------------------
(***************************************************************************)
(* What Cloud knows of one GitHub App installation and who may build from  *)
(* its repositories (webhookrelay and registry/github_postgres.go).        *)
(* GitHub tells of changes by webhooks, which arrive late, in any order    *)
(* and more than once; a person claims the installation for a project      *)
(* through GitHub's authorization page; projects then claim repositories   *)
(* and bind services to them.  Cloud keeps rows in PostgreSQL and, in      *)
(* memory, the deliveries it is processing and the claims under way: both  *)
(* are gone after a restart.                                               *)
(***************************************************************************)
EXTENDS Naturals

CONSTANTS
  Repositories,  \* repositories of the installation
  Projects,
  ServiceKeys,   \* names of services; a project has one service of each
  Deliveries,    \* bound: X-GitHub-Delivery ids GitHub uses
  Handlers,      \* webhook requests under way at once
  MaxMishaps     \* bound: restarts, lost answers, expiries, redeliveries

VARIABLES
  github,        \* the installation and its repositories as they are
  sent,          \* what GitHub announced under each delivery id
  replay,        \* the in-memory replay store
  handler,       \* webhook requests
  recorded,      \* github_webhook_deliveries
  installation,  \* the github_installations row: its status
  repository,    \* github_repositories
  link,          \* projects with an active installation link
  claim,         \* github_repository_claims: the project, or "none"
  binding,       \* active github_service_bindings: the repository
  flow,          \* installation claims under way, and their one-time grant
  applied,       \* history: how often a delivery changed the rows
  answered,      \* history: deliveries GitHub was told are processed
  mishaps

gitHubVars ==
  <<github, sent, replay, handler, recorded, installation, repository, link,
    claim, binding, flow, applied, answered, mishaps>>

Services == Projects \X ServiceKeys
Statuses == {"active", "suspended", "deleted"}
NoEvent == [event |-> "none", action |-> "none", repository |-> "none",
            archived |-> FALSE]
NoRow == [status |-> "none", archived |-> FALSE]
NoHandler == [phase |-> "idle", delivery |-> "none"]
NoFlow == [phase |-> "none", status |-> "none", repositories |-> {},
           archived |-> {}]

Init ==
  /\ github = [status |-> "none", repositories |-> {}, archived |-> {}]
  /\ sent = [d \in Deliveries |-> NoEvent]
  /\ replay = [d \in Deliveries |-> "none"]
  /\ handler = [h \in Handlers |-> NoHandler]
  /\ recorded = {}
  /\ installation = "none"
  /\ repository = [r \in Repositories |-> NoRow]
  /\ link = {}
  /\ claim = [r \in Repositories |-> "none"]
  /\ binding = [s \in Services |-> "none"]
  /\ flow = [p \in Projects |-> NoFlow]
  /\ applied = [d \in Deliveries |-> 0]
  /\ answered = {}
  /\ mishaps = 0

Mishap == mishaps < MaxMishaps /\ mishaps' = mishaps + 1

RowVars == <<recorded, installation, repository, link, claim, binding>>
IntakeVars == <<replay, handler, applied, answered>>
Outside == <<github, sent>>

----------------------------------------------------------------------------
(* GitHub *)

(* Something changes at GitHub, which announces it under a fresh delivery. *)
Announce(event, action, repo, archived) ==
  \E d \in Deliveries :
    /\ sent[d] = NoEvent
    /\ sent' = [sent EXCEPT ![d] =
         [event |-> event, action |-> action, repository |-> repo,
          archived |-> archived]]
    /\ UNCHANGED <<RowVars, IntakeVars, flow, mishaps>>

InstallationChanges ==
  \/ /\ github.status = "none"
     /\ github' = [github EXCEPT !.status = "active",
                                 !.repositories = Repositories]
     /\ Announce("installation", "created", "none", FALSE)
  \/ /\ github.status = "active"
     /\ github' = [github EXCEPT !.status = "suspended"]
     /\ Announce("installation", "suspend", "none", FALSE)
  \/ /\ github.status = "suspended"
     /\ github' = [github EXCEPT !.status = "active"]
     /\ Announce("installation", "unsuspend", "none", FALSE)
  \/ /\ github.status \in {"active", "suspended"}
     /\ github' = [github EXCEPT !.status = "deleted", !.repositories = {}]
     /\ Announce("installation", "deleted", "none", FALSE)
  \/ /\ github.status = "active"
     /\ UNCHANGED github
     /\ Announce("installation", "new_permissions_accepted", "none", FALSE)

RepositoryChanges(r) ==
  /\ github.status \in {"active", "suspended"}
  /\ \/ /\ r \in github.repositories
        /\ github' = [github EXCEPT !.repositories = @ \ {r}]
        /\ \/ Announce("installation_repositories", "removed", r, FALSE)
           \/ Announce("repository", "deleted", r, FALSE)
     \/ /\ r \notin github.repositories
        /\ github' = [github EXCEPT !.repositories = @ \cup {r}]
        /\ \/ Announce("installation_repositories", "added", r, FALSE)
           \/ Announce("repository", "transferred", r, r \in github.archived)
     \/ /\ r \in github.repositories \ github.archived
        /\ github' = [github EXCEPT !.archived = @ \cup {r}]
        /\ Announce("repository", "archived", r, TRUE)
     \/ /\ r \in github.repositories \cap github.archived
        /\ github' = [github EXCEPT !.archived = @ \ {r}]
        /\ Announce("repository", "unarchived", r, FALSE)
     \/ /\ r \in github.repositories   \* edited or renamed
        /\ UNCHANGED github
        /\ Announce("repository", "edited", r, r \in github.archived)

----------------------------------------------------------------------------
(* Webhooks *)

(* handleGitHubAppWebhook up to the reservation of the delivery; a repeated *)
(* delivery is answered at once, or refused while the first is under way.  *)
Receive(h, d) ==
  /\ sent[d] # NoEvent /\ handler[h] = NoHandler
  /\ \/ /\ d \notin answered /\ UNCHANGED mishaps
     \/ /\ d \in answered /\ Mishap
  /\ \/ /\ replay[d] = "none"
        /\ replay' = [replay EXCEPT ![d] = "in_flight"]
        /\ handler' = [handler EXCEPT ![h] =
                         [phase |-> "reserved", delivery |-> d]]
        /\ UNCHANGED answered
     \/ /\ replay[d] = "completed"
        /\ answered' = answered \cup {d}
        /\ UNCHANGED <<replay, handler>>
  /\ UNCHANGED <<Outside, RowVars, flow, applied>>

(* upsertGitHubRepositoryTx: only under a known installation.              *)
UpsertRepository(r, row) ==
  /\ installation # "none"
  /\ repository' = [repository EXCEPT ![r] = row]
RemoveAll ==
  repository' = [r \in Repositories |->
    IF repository[r] = NoRow THEN NoRow
    ELSE [repository[r] EXCEPT !.status = "removed"]]

(* applyGitHubWebhookTx: FALSE where it fails.                             *)
ApplyInstallation(e) ==
  /\ e.event = "installation"
  /\ \/ /\ e.action \in {"created", "unsuspend"}
        /\ installation' = "active" /\ UNCHANGED repository
     \/ /\ e.action = "suspend"
        /\ installation' = "suspended" /\ UNCHANGED repository
     \/ /\ e.action = "deleted"
        /\ installation' = "deleted" /\ RemoveAll
     \/ /\ e.action = "new_permissions_accepted"
        /\ installation' = IF installation = "none" THEN "active"
                           ELSE installation
        /\ IF installation = "deleted" THEN RemoveAll
           ELSE UNCHANGED repository

ApplyRepositories(e) ==
  /\ e.event = "installation_repositories"
  /\ LET r == e.repository IN
     \/ /\ e.action = "added" /\ repository[r] # NoRow
        /\ repository' = [repository EXCEPT ![r].status = "active"]
     \/ /\ e.action = "removed"
        /\ repository' = IF repository[r] = NoRow THEN repository
                         ELSE [repository EXCEPT ![r].status = "removed"]
  /\ UNCHANGED installation

ApplyRepository(e) ==
  /\ e.event = "repository"
  /\ UpsertRepository(e.repository,
       [status |-> IF e.action = "deleted" THEN "deleted" ELSE "active",
        archived |-> e.archived])
  /\ UNCHANGED installation

Applies(e) ==
  CASE e.event = "installation" -> TRUE
    [] e.event = "installation_repositories" ->
         e.action = "removed" \/ repository[e.repository] # NoRow
    [] e.event = "repository" -> installation # "none"

(* Faulty variant: the delivery's row is not looked for.                   *)
AlreadyRecordedInMemory(d) == replay[d] = "completed"

AlreadyRecorded(d) == d \in recorded

(* HandleGitHubAppEvent: delivery row and effects in one transaction; a    *)
(* duplicate counts as handled, a failure releases the reservation.        *)
RecordGitHubWebhookEvent(h) ==
  LET d == handler[h].delivery IN
  /\ handler[h].phase = "reserved"
  /\ \/ /\ AlreadyRecorded(d)
        /\ handler' = [handler EXCEPT ![h].phase = "handled"]
        /\ UNCHANGED <<replay, recorded, installation, repository, applied,
                       mishaps>>
     \/ /\ ~AlreadyRecorded(d) /\ Applies(sent[d])
        /\ recorded' = recorded \cup {d}
        /\ \/ ApplyInstallation(sent[d])
           \/ ApplyRepositories(sent[d])
           \/ ApplyRepository(sent[d])
        /\ applied' = [applied EXCEPT ![d] = @ + 1]
        /\ handler' = [handler EXCEPT ![h].phase = "handled"]
        /\ UNCHANGED <<replay, mishaps>>
     \/ /\ \/ /\ ~AlreadyRecorded(d) /\ ~Applies(sent[d])
              /\ UNCHANGED mishaps
           \/ Mishap
        /\ replay' = [replay EXCEPT ![d] = "none"]
        /\ handler' = [handler EXCEPT ![h] = NoHandler]
        /\ UNCHANGED <<recorded, installation, repository, applied>>
  /\ UNCHANGED <<Outside, link, claim, binding, flow, answered>>

(* complete, and the answer, which may be lost.                            *)
CompleteDelivery(h) ==
  LET d == handler[h].delivery IN
  /\ handler[h].phase = "handled"
  /\ replay' = [replay EXCEPT ![d] = IF @ = "in_flight" THEN "completed"
                                     ELSE @]
  /\ handler' = [handler EXCEPT ![h] = NoHandler]
  /\ \/ /\ answered' = answered \cup {d}
        /\ UNCHANGED mishaps
     \/ Mishap /\ UNCHANGED answered
  /\ UNCHANGED <<Outside, RowVars, flow, applied>>

(* The entry of a delivery is dropped after a day.                         *)
ReplayExpires(d) ==
  /\ replay[d] = "completed"
  /\ Mishap
  /\ replay' = [replay EXCEPT ![d] = "none"]
  /\ UNCHANGED <<Outside, RowVars, handler, flow, applied, answered>>

----------------------------------------------------------------------------
(* Claiming the installation for a project *)

ClaimStart(p) ==
  /\ flow[p].phase = "none"
  /\ flow' = [flow EXCEPT ![p] = [NoFlow EXCEPT !.phase = "started"]]
  /\ UNCHANGED <<Outside, RowVars, IntakeVars, mishaps>>

(* The callback consumes the state, then asks GitHub what the user's       *)
(* installation looks like and which repositories it has.  The user may be *)
(* another one, or have no access, or GitHub may not answer.               *)
VerifyAccess(p) ==
  /\ flow[p].phase = "started"
  /\ \/ flow' = [flow EXCEPT ![p] = NoFlow]
     \/ /\ github.status \in {"active", "suspended"}
        /\ flow' = [flow EXCEPT ![p] =
             [phase |-> "verified", status |-> github.status,
              repositories |-> github.repositories,
              archived |-> github.repositories \cap github.archived]]
  /\ UNCHANGED <<Outside, RowVars, IntakeVars, mishaps>>

(* One of the statements that follow fails; what the earlier ones wrote    *)
(* stays.                                                                  *)
ClaimFails(p) ==
  /\ flow[p].phase \in {"verified", "syncing"}
  /\ Mishap
  /\ flow' = [flow EXCEPT ![p] = NoFlow]
  /\ UNCHANGED <<Outside, RowVars, IntakeVars>>

SyncInstallation(p) ==
  /\ flow[p].phase = "verified"
  /\ installation' = flow[p].status
  /\ flow' = [flow EXCEPT ![p].phase = "syncing"]
  /\ UNCHANGED <<Outside, IntakeVars, recorded, repository, link, claim,
                 binding, mishaps>>

(* A repository is written as GitHub described it then.                    *)
SyncRepository(p) ==
  /\ flow[p].phase = "syncing"
  /\ \E r \in flow[p].repositories :
       /\ UpsertRepository(r, [status |-> "active",
                               archived |-> r \in flow[p].archived])
       /\ flow' = [flow EXCEPT ![p].repositories = @ \ {r},
                               ![p].archived = @ \ {r}]
  /\ UNCHANGED <<Outside, IntakeVars, recorded, installation, link, claim,
                 binding, mishaps>>

(* ClaimGitHubInstallation and the grant the CLI redeems; or the           *)
(* installation is not active by now.                                      *)
ClaimInstallation(p) ==
  /\ flow[p].phase = "syncing" /\ flow[p].repositories = {}
  /\ link' = IF installation = "active" THEN link \cup {p} ELSE link
  /\ flow' = [flow EXCEPT ![p] =
       IF installation = "active" THEN [NoFlow EXCEPT !.phase = "granted"]
       ELSE NoFlow]
  /\ UNCHANGED <<Outside, IntakeVars, recorded, installation, repository,
                 claim, binding, mishaps>>

(* The grant works once and not for ever.                                  *)
RedeemGrant(p) ==
  /\ flow[p].phase = "granted"
  /\ flow' = [flow EXCEPT ![p] = NoFlow]
  /\ UNCHANGED <<Outside, RowVars, IntakeVars, mishaps>>

----------------------------------------------------------------------------
(* Repositories and services of projects *)

(* claimableGitHubRepositoryTx, under the repository's row lock.           *)
Claimable(p, r) ==
  /\ repository[r].status = "active" /\ ~repository[r].archived
  /\ p \in link
  /\ installation = "active"

ClaimRepository(p, r) ==
  /\ Claimable(p, r) /\ claim[r] = "none"
  /\ claim' = [claim EXCEPT ![r] = p]
  /\ UNCHANGED <<Outside, IntakeVars, recorded, installation, repository,
                 link, binding, flow, mishaps>>

ActiveBindings(r) == {s \in Services : binding[s] = r}

ReleaseRepository(p, r) ==
  /\ claim[r] = p
  /\ ActiveBindings(r) = {}
  /\ claim' = [claim EXCEPT ![r] = "none"]
  /\ UNCHANGED <<Outside, IntakeVars, recorded, installation, repository,
                 link, binding, flow, mishaps>>

CreateServiceBinding(s, r) ==
  /\ Claimable(s[1], r) /\ claim[r] = s[1]
  /\ binding[s] = "none"
  /\ \A t \in ActiveBindings(r) : t[2] # s[2]
  /\ binding' = [binding EXCEPT ![s] = r]
  /\ UNCHANGED <<Outside, IntakeVars, recorded, installation, repository,
                 link, claim, flow, mishaps>>

(* Removal looks at neither installation nor repository.                   *)
RemoveServiceBinding(s) ==
  /\ binding[s] # "none"
  /\ binding' = [binding EXCEPT ![s] = "none"]
  /\ UNCHANGED <<Outside, IntakeVars, recorded, installation, repository,
                 link, claim, flow, mishaps>>

(* ResolveBuildBinding: the services a build of r may be for.              *)
ResolveBuildBinding(r, key) ==
  {s \in ActiveBindings(r) :
     /\ s[2] = key
     /\ repository[r].status = "active" /\ ~repository[r].archived
     /\ installation = "active"
     /\ claim[r] = s[1]}

----------------------------------------------------------------------------
Restart ==
  /\ Mishap
  /\ replay' = [d \in Deliveries |-> "none"]
  /\ handler' = [h \in Handlers |-> NoHandler]
  /\ flow' = [p \in Projects |-> NoFlow]
  /\ UNCHANGED <<Outside, RowVars, applied, answered>>

GitHubChanges ==
  \/ InstallationChanges
  \/ \E r \in Repositories : RepositoryChanges(r)

WebhookSteps ==
  \/ \E h \in Handlers, d \in Deliveries : Receive(h, d)
  \/ \E h \in Handlers : RecordGitHubWebhookEvent(h)
  \/ \E h \in Handlers : CompleteDelivery(h)
  \/ \E d \in Deliveries : ReplayExpires(d)

ClaimSteps ==
  \E p \in Projects :
    \/ ClaimStart(p)
    \/ VerifyAccess(p)
    \/ ClaimFails(p)
    \/ SyncInstallation(p)
    \/ SyncRepository(p)
    \/ ClaimInstallation(p)
    \/ RedeemGrant(p)

OwnershipSteps ==
  \/ \E p \in Projects, r \in Repositories :
       ClaimRepository(p, r) \/ ReleaseRepository(p, r)
  \/ \E s \in Services, r \in Repositories : CreateServiceBinding(s, r)
  \/ \E s \in Services : RemoveServiceBinding(s)

Next == GitHubChanges \/ WebhookSteps \/ ClaimSteps \/ OwnershipSteps \/ Restart

Spec == Init /\ [][Next]_gitHubVars

----------------------------------------------------------------------------
(* Rows and requests hold values the code writes; a repository is known    *)
(* only under a known installation.                                        *)
GitHubTypeOK ==
  /\ replay \in [Deliveries -> {"none", "in_flight", "completed"}]
  /\ installation \in Statuses \cup {"none"}
  /\ repository \in [Repositories ->
       [status: {"none", "active", "removed", "deleted"}, archived: BOOLEAN]]
  /\ claim \in [Repositories -> Projects \cup {"none"}]
  /\ binding \in [Services -> Repositories \cup {"none"}]
  /\ (\E r \in Repositories : repository[r] # NoRow) => installation # "none"

(* However deliveries are repeated, reordered, interrupted by a restart or *)
(* processed at the same time, each changes the rows at most once, and one *)
(* that GitHub was told is processed has changed them                      *)
(* (handleGitHubAppWebhook, RecordGitHubWebhookEvent).                     *)
DeliveriesApplyOnce ==
  \A d \in Deliveries :
    /\ applied[d] = IF d \in recorded THEN 1 ELSE 0
    /\ d \in answered => d \in recorded
    /\ replay[d] = "completed" => d \in recorded

(* Whatever happens at GitHub and to claims, a bound service's repository  *)
(* is claimed by its own project and a build of a repository and key is    *)
(* for one service at most (ReleaseGitHubRepository,                       *)
(* CreateGitHubServiceBinding, ResolveBuildBinding).                       *)
BoundIsClaimed ==
  /\ \A s \in Services : binding[s] # "none" => claim[binding[s]] = s[1]
  /\ \A r \in Repositories, key \in ServiceKeys :
       \A s, t \in ResolveBuildBinding(r, key) : s = t
=============================================================================
