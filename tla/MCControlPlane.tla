--------------------------- MODULE MCControlPlane ---------------------------
(* What users change through Cloud's control plane, side by side: the      *)
(* configuration of applications, bootstrap sessions of one host (one      *)
(* session, or two that may be installed side by side), what Cloud knows   *)
(* of a GitHub installation, and logins and PATs.  The models share no     *)
(* state; `part` says which of them moves in a behaviour, so the states to *)
(* check are the sum of theirs.                                            *)
EXTENDS Integers, FiniteSets, TLC

CONSTANTS
  Apps, Routes, Dependencies, Databases, Keys, ReviewIds, Callers,
  MaxTroubles,
  HostKeys, Sessions, Steps, MaxAttempts, Plans,
  Repositories, ServiceKeys,
  Logins, MaxTokens,
  MaxMishaps

(* "none" stands for no account and no project; a revision tells the key   *)
(* that made it from the review that did; sessions and plans are numbered  *)
(* from one, and bounds are numbers.                                       *)
ASSUME ControlPlaneAssumption ==
  /\ "none" \notin Apps \cup Callers /\ Keys \cap ReviewIds = {}
  /\ IsFiniteSet(Callers) /\ IsFiniteSet(Sessions)
  /\ Sessions \subseteq Nat \ {0} /\ 1 \in Sessions /\ 1 \in Plans
  /\ HostKeys # {}
  /\ Steps \in Nat \ {0} /\ MaxAttempts \in Nat \ {0} /\ MaxMishaps \in Nat

VARIABLES
  part,
  log, lock, sent, stored, review, binding, down, runtime, answer, call,
  troubles,
  session, vault, token, node, agents, worker, host, trust, probe, beats,
  plan, mishaps,
  github, deliveries, replay, handler, recorded, installation, repository,
  link, claim, serviceBinding, flow, applied, answered, losses,
  identity, members, owner, pat, login, issued, keychain, command, givenUp,
  lapses

configurationVars ==
  <<log, lock, sent, stored, review, binding, down, runtime, answer, call,
    troubles>>
bootstrapVars ==
  <<session, vault, token, node, agents, worker, host, trust, probe, beats,
    plan, mishaps>>
gitHubVars ==
  <<github, deliveries, replay, handler, recorded, installation, repository,
    link, claim, serviceBinding, flow, applied, answered, losses>>
accessVars ==
  <<identity, members, owner, pat, login, issued, keychain, command, givenUp,
    lapses>>
controlPlaneVars ==
  <<part, configurationVars, bootstrapVars, gitHubVars, accessVars>>

Configuration == INSTANCE ServiceConfiguration
Host == INSTANCE Bootstrap WITH Workers <- Callers
GitHub ==
  INSTANCE GitHubSource WITH Projects <- Callers, Handlers <- Callers,
                             Deliveries <- Apps, sent <- deliveries,
                             binding <- serviceBinding, mishaps <- losses
Login ==
  INSTANCE Access WITH Subjects <- Apps, Commands <- Callers,
                       Projects <- Repositories, mishaps <- lapses

(* The variables of the models that do not move.                           *)
Unused == "unused"
NoConfiguration ==
  /\ log = Unused /\ lock = Unused /\ sent = Unused /\ stored = Unused
  /\ review = Unused /\ binding = Unused /\ down = Unused
  /\ runtime = Unused /\ answer = Unused /\ call = Unused
  /\ troubles = Unused
NoBootstrap ==
  /\ session = Unused /\ vault = Unused /\ token = Unused /\ node = Unused
  /\ agents = Unused /\ worker = Unused /\ host = Unused /\ trust = Unused
  /\ probe = Unused /\ beats = Unused /\ plan = Unused /\ mishaps = Unused
NoGitHub ==
  /\ github = Unused /\ deliveries = Unused /\ replay = Unused
  /\ handler = Unused /\ recorded = Unused /\ installation = Unused
  /\ repository = Unused /\ link = Unused /\ claim = Unused
  /\ serviceBinding = Unused /\ flow = Unused /\ applied = Unused
  /\ answered = Unused /\ losses = Unused
NoAccess ==
  /\ identity = Unused /\ members = Unused /\ owner = Unused
  /\ pat = Unused /\ login = Unused /\ issued = Unused
  /\ keychain = Unused /\ command = Unused /\ givenUp = Unused
  /\ lapses = Unused

HostParts == {"one session", "two sessions"}

ControlPlaneInit ==
  \/ /\ part = "configuration"
     /\ Configuration!Init /\ NoBootstrap /\ NoGitHub /\ NoAccess
  \/ /\ part \in HostParts
     /\ Host!Init /\ NoConfiguration /\ NoGitHub /\ NoAccess
  \/ /\ part = "github"
     /\ GitHub!Init /\ NoConfiguration /\ NoBootstrap /\ NoAccess
  \/ /\ part = "access"
     /\ Login!Init /\ NoConfiguration /\ NoBootstrap /\ NoGitHub

ConfigurationMoves ==
  /\ part = "configuration"
  /\ UNCHANGED <<part, bootstrapVars, gitHubVars, accessVars>>
HostMoves ==
  /\ part \in HostParts
  /\ UNCHANGED <<part, configurationVars, gitHubVars, accessVars>>
GitHubMoves ==
  /\ part = "github"
  /\ UNCHANGED <<part, configurationVars, bootstrapVars, accessVars>>
AccessMoves ==
  /\ part = "access"
  /\ UNCHANGED <<part, configurationVars, bootstrapVars, gitHubVars>>

(* Bounds of the bootstrap parts, for TLC.  One session: a second one is   *)
(* not created, and it does not meet a mishap, another plan and the end of *)
(* its time all three.  Two sessions, the first over SSH: each is leased   *)
(* once and meets none of them.                                            *)
OneSession ==
  /\ \A s, r \in Sessions :
       session[s].status # "none" /\ session[r].status # "none" => s = r
  /\ mishaps = 0 \/ plan = 1 \/ \A s \in Sessions : ~session[s].over
TwoSessions ==
  /\ mishaps = 0 /\ plan = 1
  /\ \A s \in Sessions : session[s].attempt <= 1 /\ ~session[s].over
  /\ session[1].auth = "ssh"
HostBounds ==
  /\ part = "one session" => OneSession
  /\ part = "two sessions" => TwoSessions

ControlPlaneNext ==
  \/ ConfigurationMoves /\ Configuration!Writes
  \/ ConfigurationMoves /\ \E c \in Callers : Configuration!ReviewSteps(c)
  \/ ConfigurationMoves /\ \E c \in Callers : Configuration!RealizeSteps(c)
  \/ ConfigurationMoves /\ \E c \in Callers : Configuration!CompileSteps(c)
  \/ ConfigurationMoves /\ Configuration!Others
  \/ HostMoves /\ Host!Queue /\ HostBounds'
  \/ HostMoves /\ Host!WorkerSteps /\ HostBounds'
  \/ HostMoves /\ Host!Clients /\ HostBounds'
  \/ HostMoves /\ Host!Environment /\ HostBounds'
  \/ GitHubMoves /\ GitHub!GitHubChanges
  \/ GitHubMoves /\ GitHub!WebhookSteps
  \/ GitHubMoves /\ GitHub!ClaimSteps
  \/ GitHubMoves /\ GitHub!OwnershipSteps
  \/ GitHubMoves /\ GitHub!Restart
  \/ AccessMoves /\ Login!AccountSteps
  \/ AccessMoves /\ Login!LoginSteps
  \/ AccessMoves /\ Login!CommandSteps

ControlPlaneSpec ==
  ControlPlaneInit /\ [][ControlPlaneNext]_controlPlaneVars

(* One public route, and one application of the other at build time.       *)
OneRoute == {[host |-> "h", path |-> "/"]}
BuildTimeDependencies ==
  {[to |-> a, phase |-> "build", strategy |-> "public_http"] : a \in Apps}

(* Two callers are also two workers, two commands, or two projects and two *)
(* webhook requests; two applications are also two delivery ids or two     *)
(* GitHub accounts: each part treats them as interchangeable.              *)
ControlPlaneSymmetry == Permutations(Callers) \cup Permutations(Apps)

(* Each property includes the types of the rows it is about.               *)

(* A review or a key changes a configuration once, to what was reviewed,   *)
(* and an application is given no binding of another one.                  *)
ConfigurationIsAsReviewed ==
  part = "configuration" =>
    /\ Configuration!ConfigurationTypeOK
    /\ Configuration!AppliedOnceAsReviewed
    /\ Configuration!NoForeignBinding

(* What a bootstrap session says of its host is so.                        *)
BootstrapIsFactual ==
  part \in HostParts => Host!BootstrapTypeOK /\ Host!BootstrapIsFactual

(* However webhooks arrive, each changes the rows once, and a bound        *)
(* service's repository is claimed by its own project.                     *)
GitHubIsFollowed ==
  part = "github" =>
    /\ GitHub!GitHubTypeOK
    /\ GitHub!DeliveriesApplyOnce
    /\ GitHub!BoundIsClaimed

(* A login ends in at most one PAT, of the right user, and rotation never  *)
(* leaves the keychain with a PAT Cloud refuses.                           *)
AccessIsSound ==
  part = "access" => Login!OneLoginOnePAT /\ Login!KeychainIsGood
=============================================================================
