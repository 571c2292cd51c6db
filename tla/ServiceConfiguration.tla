------------------------ MODULE ServiceConfiguration ------------------------
(* The configuration authority of a project's applications: compare-and-   *)
(* swap revisions with idempotency keys, durable proposal reviews, the     *)
(* realization of managed-resource dependencies as bindings, and what a    *)
(* deployment compiles from all of it.  A request is a sequence of database*)
(* statements; an apply locks only its own application's row, and reads the*)
(* others as they are committed at that moment.                            *)
EXTENDS Naturals, Sequences, FiniteSets

CONSTANTS
  Apps,          \* applications of one project and environment
  Routes,        \* public routes, records of a host and a path
  Dependencies,  \* application dependencies: to, phase, strategy
  Databases,     \* managed resources
  Keys,          \* idempotency keys of configuration requests
  ReviewIds,     \* proposal reviews
  Callers,       \* concurrent requests
  MaxTroubles    \* bound: crashed requests and failing resources

VARIABLES
  log,      \* control_services.configuration: every revision, newest last
  lock,     \* the request whose transaction holds the row FOR UPDATE
  sent,     \* what each idempotency key was first sent with
  stored,   \* control_mutation_idempotency
  review,   \* proposal_reviews
  binding,  \* resource_bindings, by the key that created them
  down,     \* managed resources that are failed or being deleted
  runtime,  \* the binding each application's last deployment was given
  answer,   \* dependencies reported as realized
  call,     \* where each request is and what it has read
  troubles

configurationVars ==
  <<log, lock, sent, stored, review, binding, down, runtime, answer, call,
    troubles>>

NoRoute == [host |-> "none", path |-> "none"]
Empty == [route |-> NoRoute, deps |-> {}, db |-> "none", link |-> "none",
          by |-> "none"]
Revision(a) == Len(log[a])
Current(a) == log[a][Revision(a)]
NoRequest == [op |-> "none", app |-> "none", base |-> 0, draft |-> Empty]
NoCall == [op |-> "none", at |-> "idle", id |-> "none", app |-> "none",
           base |-> 0, draft |-> Empty, ready |-> {}]
NoReview == [status |-> "none", app |-> "none", base |-> 0, draft |-> Empty,
             late |-> FALSE]
Open == {"review_required", "approved"}

Init ==
  /\ log = [a \in Apps |-> <<Empty>>]
  /\ lock = [a \in Apps |-> "none"]
  /\ sent = [k \in Keys |-> NoRequest]
  /\ stored = {}
  /\ review = [r \in ReviewIds |-> NoReview]
  /\ binding = [k \in Keys |-> [app |-> "none", db |-> "none",
                                life |-> "absent"]]
  /\ down = {}
  /\ runtime = [a \in Apps |-> [binding |-> "none", want |-> "none",
                              secret |-> "none"]]
  /\ answer = {}
  /\ call = [c \in Callers |-> NoCall]
  /\ troubles = 0

----------------------------------------------------------------------------
(* Validation of a draft against the other applications' configurations *)

Conflicts(r1, r2) == r1.host = r2.host /\ r1.path = r2.path

RouteFree(a, d) ==
  d.route # NoRoute =>
    \A b \in Apps \ {a} :
      Current(b).route # NoRoute => ~Conflicts(Current(b).route, d.route)

(* Replacing the target of an active dependency needs a cutover.           *)
TargetKept(a, d) ==
  \/ Current(a).db = "none"
  \/ d.db \in {"none", Current(a).db}

ResolveDependencyTarget(a, d) ==
  /\ \A x \in d.deps : x.to # a
  /\ d.db # "none" => d.db \notin down

StrategyAllowed(d) ==
  \A x \in d.deps :
    LET there == Current(x.to).route
    IN  /\ x.strategy \in {"public_http", "same_origin"} => there # NoRoute
        /\ x.strategy = "same_origin" /\ d.route # NoRoute =>
             d.route.host = there.host

BuildTargets(deps) == {x.to : x \in {y \in deps : y.phase = "build"}}

(* The depth-first search visits what build dependencies reach, from the   *)
(* draft's targets, and fails on the application itself.                   *)
ReachedFrom[n \in 0..Cardinality(Apps), s \in SUBSET Apps] ==
  IF n = 0 THEN s
  ELSE ReachedFrom[n - 1,
         s \cup UNION {BuildTargets(Current(b).deps) : b \in s}]

checkDependencyCycle(a, d) ==
  a \notin ReachedFrom[Cardinality(Apps), BuildTargets(d.deps)]

validateServiceConfiguration(a, d) ==
  /\ RouteFree(a, d)
  /\ TargetKept(a, d)
  /\ ResolveDependencyTarget(a, d)
  /\ StrategyAllowed(d)
  /\ checkDependencyCycle(a, d)

(* A client edits one part of the configuration it has just read.          *)
Edits(a) ==
  LET now == Current(a)
  IN  {[now EXCEPT !.route = r] : r \in Routes \cup {NoRoute}}
      \cup {[now EXCEPT !.deps = @ \cup {x}] : x \in Dependencies}
      \cup {[now EXCEPT !.db = d] : d \in Databases \cup {"none"}}
      \cup {[now EXCEPT !.link = k] : k \in Keys \cup {"none"}}

----------------------------------------------------------------------------
(* ApplyServiceConfiguration, as a part of three kinds of requests *)

At(c, op, at) == call[c].op = op /\ call[c].at = at
Moves(c, at) == call' = [call EXCEPT ![c].at = at]
Ends(c) == call' = [call EXCEPT ![c] = NoCall]
Applying == {"apply", "applyReview", "realize"}

markStale(r) ==
  review' = [review EXCEPT ![r].status = IF @ \in Open THEN "stale" ELSE @]

(* What the caller of ApplyServiceConfiguration does with an error: the    *)
(* review is marked stale; realization carries on and answers.             *)
Refused(c) ==
  CASE call[c].op = "apply" -> Ends(c) /\ UNCHANGED review
    [] call[c].op = "applyReview" -> Ends(c) /\ markStale(call[c].id)
    [] OTHER -> Moves(c, "answer") /\ UNCHANGED review

Granted(c) ==
  /\ IF call[c].op = "apply" THEN Ends(c)
     ELSE Moves(c, IF call[c].op = "applyReview" THEN "mark" ELSE "answer")
  /\ UNCHANGED review

Payload(c) ==
  [op |-> call[c].op, id |-> call[c].id, app |-> call[c].app,
   base |-> call[c].base, draft |-> call[c].draft]
SameKey(c) == {p \in stored : p.op = call[c].op /\ p.id = call[c].id
                              /\ p.app = call[c].app}

ReplayKey(c) ==
  /\ call[c].op \in Applying /\ call[c].at = "key"
  /\ IF SameKey(c) = {} THEN Moves(c, "lock") /\ UNCHANGED review
     ELSE IF Payload(c) \in stored THEN Granted(c) ELSE Refused(c)
  /\ UNCHANGED <<log, lock, sent, stored, binding, down, runtime, answer,
                 troubles>>

(* Faulty variant: the expected revision is not compared under the lock.   *)
LockAnyRevision(c) ==
  LET a == call[c].app
  IN  /\ call[c].op \in Applying /\ call[c].at = "lock"
      /\ lock[a] = "none"
      /\ IF validateServiceConfiguration(a, call[c].draft)
         THEN /\ lock' = [lock EXCEPT ![a] = c]
              /\ Moves(c, "write")
              /\ UNCHANGED review
         ELSE Refused(c) /\ UNCHANGED lock
      /\ UNCHANGED <<log, sent, stored, binding, down, runtime, answer,
                     troubles>>

LockService(c) ==
  LET a == call[c].app
  IN  /\ call[c].op \in Applying /\ call[c].at = "lock"
      /\ lock[a] = "none"
      /\ IF /\ call[c].base = Revision(a)
            /\ validateServiceConfiguration(a, call[c].draft)
         THEN /\ lock' = [lock EXCEPT ![a] = c]
              /\ Moves(c, "write")
              /\ UNCHANGED review
         ELSE Refused(c) /\ UNCHANGED lock
      /\ UNCHANGED <<log, sent, stored, binding, down, runtime, answer,
                     troubles>>

CommitConfiguration(c) ==
  LET a == call[c].app
  IN  /\ call[c].op \in Applying /\ call[c].at = "write"
      /\ log' = [log EXCEPT ![a] =
                   Append(@, [call[c].draft EXCEPT !.by = call[c].id])]
      /\ stored' = stored \cup {Payload(c)}
      /\ lock' = [lock EXCEPT ![a] = "none"]
      /\ Granted(c)
      /\ UNCHANGED <<sent, binding, down, runtime, answer, troubles>>

ApplyServiceConfiguration(c) ==
  ReplayKey(c) \/ LockService(c) \/ CommitConfiguration(c)

(* A configuration apply or a dependency apply arrives, a new one or one   *)
(* the client sends again with its key.                                    *)
handleServiceConfigurationAPI(c, k) ==
  /\ call[c] = NoCall
  /\ \E request \in
       IF sent[k] # NoRequest THEN {sent[k]}
       ELSE UNION {{[op |-> "apply", app |-> a, base |-> Revision(a),
                     draft |-> d] : d \in Edits(a)} : a \in Apps} :
       /\ request.op = "apply"
       /\ sent' = [sent EXCEPT ![k] = request]
       /\ call' = [call EXCEPT ![c] =
            [op |-> "apply", at |-> "key", id |-> k, app |-> request.app,
             base |-> request.base, draft |-> request.draft, ready |-> {}]]
  /\ UNCHANGED <<log, lock, stored, review, binding, down, runtime, answer,
                 troubles>>

----------------------------------------------------------------------------
(* Proposal reviews *)

PreviewServiceConfiguration(a, d) == validateServiceConfiguration(a, d)

CreateProposalReview(c, r, a, d) ==
  /\ call[c] = NoCall /\ review[r] = NoReview
  /\ PreviewServiceConfiguration(a, d)
  /\ call' = [call EXCEPT ![c] =
       [op |-> "review", at |-> "insert", id |-> r, app |-> a,
        base |-> Revision(a), draft |-> d, ready |-> {}]]
  /\ UNCHANGED <<log, lock, sent, stored, review, binding, down, runtime,
                 answer, troubles>>

InsertProposalReview(c) ==
  LET r == call[c].id  a == call[c].app
  IN  /\ At(c, "review", "insert")
      /\ lock[a] = "none"
      /\ review' = IF Revision(a) = call[c].base /\ review[r] = NoReview
                   THEN [review EXCEPT ![r] =
                           [status |-> "review_required", app |-> a,
                            base |-> call[c].base, draft |-> call[c].draft,
                            late |-> FALSE]]
                   ELSE review
      /\ Ends(c)
      /\ UNCHANGED <<log, lock, sent, stored, binding, down, runtime, answer,
                     troubles>>

proposalReviewStale(r) ==
  LET v == review[r]
  IN  CASE v.status \notin Open -> v.status
        [] v.status \in Open /\ v.late -> "expired"
        [] v.status \in Open /\ ~v.late /\ Revision(v.app) # v.base -> "stale"
        [] OTHER -> v.status

(* Reading a review writes its stale or expired status back.               *)
GetProposalReview(r) ==
  review' = [review EXCEPT ![r].status = proposalReviewStale(r)]

ListProposalReviews(r) ==
  /\ review[r] # NoReview
  /\ GetProposalReview(r)
  /\ UNCHANGED <<log, lock, sent, stored, binding, down, runtime, answer,
                 call, troubles>>

(* Approve, reject and apply read the review first and write it in a later *)
(* statement.                                                              *)
handleProposalReviewAPI(c, r, op) ==
  /\ call[c] = NoCall /\ review[r] # NoReview
  /\ GetProposalReview(r)
  /\ IF proposalReviewStale(r) \in (IF op = "approve" THEN {"review_required"}
                                    ELSE Open)
     THEN call' = [call EXCEPT ![c] =
            [NoCall EXCEPT !.op = op, !.at = "update", !.id = r]]
     ELSE UNCHANGED call
  /\ UNCHANGED <<log, lock, sent, stored, binding, down, runtime, answer,
                 troubles>>

ApproveProposalReview(c) ==
  LET r == call[c].id
  IN  /\ At(c, "approve", "update")
      /\ review' = [review EXCEPT ![r].status =
                      IF @ = "review_required" THEN "approved" ELSE @]
      /\ Ends(c)
      /\ UNCHANGED <<log, lock, sent, stored, binding, down, runtime, answer,
                     troubles>>

RejectProposalReview(c) ==
  LET r == call[c].id
  IN  /\ At(c, "reject", "update")
      /\ review' = [review EXCEPT ![r].status =
                      IF @ \in Open THEN "rejected" ELSE @]
      /\ Ends(c)
      /\ UNCHANGED <<log, lock, sent, stored, binding, down, runtime, answer,
                     troubles>>

ApplyProposalReview(c, r) ==
  LET v == review[r]
  IN  /\ call[c] = NoCall /\ v # NoReview
      /\ IF proposalReviewStale(r) # "approved"
         THEN GetProposalReview(r) /\ UNCHANGED call
         ELSE /\ PreviewServiceConfiguration(v.app, v.draft)
              /\ UNCHANGED review
              /\ call' = [call EXCEPT ![c] =
                   [op |-> "applyReview", at |-> "key", id |-> r,
                    app |-> v.app, base |-> v.base, draft |-> v.draft,
                    ready |-> {}]]
      /\ UNCHANGED <<log, lock, sent, stored, binding, down, runtime, answer,
                     troubles>>

MarkApplied(c) ==
  LET r == call[c].id
  IN  /\ At(c, "applyReview", "mark")
      /\ review' = [review EXCEPT ![r].status =
                      IF @ = "approved" THEN "applied" ELSE @]
      /\ Ends(c)
      /\ UNCHANGED <<log, lock, sent, stored, binding, down, runtime, answer,
                     troubles>>

ReviewExpires(r) ==
  /\ review[r].status \in Open /\ ~review[r].late
  /\ review' = [review EXCEPT ![r].late = TRUE]
  /\ UNCHANGED <<log, lock, sent, stored, binding, down, runtime, answer,
                 call, troubles>>

----------------------------------------------------------------------------
(* Realization of a managed-resource dependency *)

ReadyBindings == {k \in Keys : binding[k].life = "ready"}

(* Exactly one binding must match; a selected id narrows the match.        *)
SelectBinding(seen, a, db, selected) ==
  LET matches == {k \in seen : /\ binding[k].app = a /\ binding[k].db = db
                               /\ selected # "none" => k = selected}
  IN  IF Cardinality(matches) = 1 THEN matches ELSE {}

applyDependencies(c, k, a) ==
  /\ call[c] = NoCall
  /\ sent[k] = NoRequest \/ (sent[k].op = "realize" /\ sent[k].app = a)
  /\ sent' = [sent EXCEPT ![k] = [NoRequest EXCEPT !.op = "realize",
                                                   !.app = a]]
  /\ call' = [call EXCEPT ![c] =
       [op |-> "realize", at |-> "plan", id |-> k, app |-> a,
        base |-> Revision(a), draft |-> Current(a), ready |-> {}]]
  /\ UNCHANGED <<log, lock, stored, review, binding, down, runtime, answer,
                 troubles>>

PlanDependencyRealization(c) ==
  LET cfg == call[c].draft
      match == SelectBinding(ReadyBindings, call[c].app, cfg.db, cfg.link)
  IN  /\ At(c, "realize", "plan")
      /\ CASE cfg.db = "none" -> Moves(c, "key")
           [] cfg.db # "none" /\ match # {} ->
                call' = [call EXCEPT ![c].at = "key",
                           ![c].draft.link = CHOOSE k \in match : TRUE]
           [] cfg.db # "none" /\ match = {} /\ cfg.link = "none" ->
                Moves(c, "create")
           [] OTHER -> Ends(c)
      /\ UNCHANGED <<log, lock, sent, stored, review, binding, down, runtime,
                     answer, troubles>>

(* A key that was used returns its binding; an application has one binding *)
(* row per logical name.                                                   *)
CreateBinding(c) ==
  LET k == call[c].id  a == call[c].app  db == call[c].draft.db
      linked == call' = [call EXCEPT ![c].at = "key", ![c].draft.link = k]
  IN  /\ At(c, "realize", "create")
      /\ CASE db \in down -> Ends(c) /\ UNCHANGED binding
           [] db \notin down /\ binding[k].life \in {"provisioning", "ready"} ->
                UNCHANGED binding
                /\ IF binding[k].db = db THEN linked ELSE Ends(c)
           [] /\ db \notin down /\ binding[k].life = "absent"
              /\ \A o \in Keys : binding[o].app = a =>
                   binding[o].life \in {"absent", "gone"} ->
                linked /\ binding' = [binding EXCEPT ![k] =
                            [app |-> a, db |-> db, life |-> "provisioning"]]
           [] OTHER -> Ends(c) /\ UNCHANGED binding
      /\ UNCHANGED <<log, lock, sent, stored, review, down, runtime, answer,
                     troubles>>

(* The answer lists the dependency as ready, whatever became of the apply. *)
AnswerRealized(c) ==
  /\ At(c, "realize", "answer")
  /\ answer' = IF call[c].draft.db = "none" THEN answer
               ELSE answer \cup {[app |-> call[c].app, base |-> call[c].base,
                                  binding |-> call[c].draft.link]}
  /\ Ends(c)
  /\ UNCHANGED <<log, lock, sent, stored, review, binding, down, runtime,
                 troubles>>

BindingReady(k) ==
  /\ binding[k].life = "provisioning"
  /\ binding' = [binding EXCEPT ![k].life = "ready"]
  /\ UNCHANGED <<log, lock, sent, stored, review, down, runtime, answer, call,
                 troubles>>

BindingRemoved(k) ==
  /\ binding[k].life \in {"provisioning", "ready"}
  /\ binding' = [binding EXCEPT ![k].life = "gone"]
  /\ UNCHANGED <<log, lock, sent, stored, review, down, runtime, answer, call,
                 troubles>>

----------------------------------------------------------------------------
(* What a deployment compiles, and the secrets it is given later *)

(* Without any dependency every unambiguous ready binding of the           *)
(* application is injected under its logical name.                         *)
HasDependencies(cfg) == cfg.deps # {} \/ cfg.db # "none"
SelectLegacy(seen, a, cfg) ==
  {k \in seen : SelectBinding(seen, a, binding[k].db, cfg.link) = {k}}
SelectMapping(seen, a, cfg) ==
  IF cfg.db = "none" \/ cfg.link = "none" THEN {}
  ELSE SelectBinding(seen, a, cfg.db, cfg.link)
Injected(seen, a, cfg) ==
  IF HasDependencies(cfg) THEN SelectMapping(seen, a, cfg)
  ELSE SelectLegacy(seen, a, cfg)

ListBindings(c, a) ==
  /\ call[c] = NoCall
  /\ call' = [call EXCEPT ![c] = [NoCall EXCEPT !.op = "compile",
                !.at = "config", !.app = a, !.ready = ReadyBindings]]
  /\ UNCHANGED <<log, lock, sent, stored, review, binding, down, runtime,
                 answer, troubles>>

CompileServiceRuntime(a) ==
  LET cfg == Current(a)
  IN  RouteFree(a, cfg) /\ StrategyAllowed(cfg) /\ checkDependencyCycle(a, cfg)

ApplicationRuntimeConfiguration(c) ==
  LET a == call[c].app  cfg == Current(a)
      given == Injected(call[c].ready, a, cfg)
  IN  /\ At(c, "compile", "config")
      /\ IF CompileServiceRuntime(a) /\ (cfg.db = "none" \/ given # {})
         THEN \E k \in IF given = {} THEN {"none"} ELSE given :
                runtime' = [runtime EXCEPT ![a] =
                              [binding |-> k, want |-> cfg.db,
                               secret |-> "none"]]
         ELSE UNCHANGED runtime
      /\ Ends(c)
      /\ UNCHANGED <<log, lock, sent, stored, review, binding, down, answer,
                     troubles>>

(* At the lease the identity is resolved again, from what is there now.    *)
ResolveSecretMaterials(a) ==
  LET k == runtime[a].binding
  IN  /\ k # "none" /\ runtime[a].secret = "none"
      /\ k \in Injected(ReadyBindings, a, Current(a))
      /\ runtime' = [runtime EXCEPT ![a].secret = k]
      /\ UNCHANGED <<log, lock, sent, stored, review, binding, down, answer,
                     call, troubles>>

----------------------------------------------------------------------------
Trouble == troubles < MaxTroubles /\ troubles' = troubles + 1

(* The process or the connection dies: the transaction rolls back.         *)
RequestDies(c) ==
  /\ call[c] # NoCall
  /\ Trouble
  /\ lock' = [a \in Apps |-> IF lock[a] = c THEN "none" ELSE lock[a]]
  /\ Ends(c)
  /\ UNCHANGED <<log, sent, stored, review, binding, down, runtime, answer>>

ResourceFails(d) ==
  /\ d \notin down
  /\ Trouble
  /\ down' = down \cup {d}
  /\ UNCHANGED <<log, lock, sent, stored, review, binding, runtime, answer,
                 call>>

ReviewSteps(c) ==
  \/ InsertProposalReview(c)
  \/ ApproveProposalReview(c)
  \/ RejectProposalReview(c)
  \/ MarkApplied(c)
  \/ \E r \in ReviewIds :
       \/ ApplyProposalReview(c, r)
       \/ \E op \in {"approve", "reject"} : handleProposalReviewAPI(c, r, op)
       \/ \E a \in Apps : \E d \in Edits(a) : CreateProposalReview(c, r, a, d)

RealizeSteps(c) ==
  \/ PlanDependencyRealization(c)
  \/ CreateBinding(c)
  \/ AnswerRealized(c)
  \/ \E k \in Keys, a \in Apps : applyDependencies(c, k, a)

CompileSteps(c) ==
  \/ ApplicationRuntimeConfiguration(c)
  \/ \E a \in Apps : ListBindings(c, a)

Others ==
  \/ \E r \in ReviewIds : ListProposalReviews(r) \/ ReviewExpires(r)
  \/ \E k \in Keys : BindingReady(k) \/ BindingRemoved(k)
  \/ \E a \in Apps : ResolveSecretMaterials(a)
  \/ \E c \in Callers : RequestDies(c)
  \/ \E d \in Databases : ResourceFails(d)

Writes ==
  \E c \in Callers :
    \/ ApplyServiceConfiguration(c)
    \/ \E k \in Keys : handleServiceConfigurationAPI(c, k)

Next ==
  \/ Writes
  \/ \E c \in Callers : ReviewSteps(c) \/ RealizeSteps(c) \/ CompileSteps(c)
  \/ Others

Spec == Init /\ [][Next]_configurationVars

----------------------------------------------------------------------------
(* Rows keep the statuses the code writes, and only a writer holds a lock. *)
ConfigurationTypeOK ==
  /\ \A a \in Apps : lock[a] # "none" =>
       call[lock[a]].at = "write" /\ call[lock[a]].app = a
  /\ \A r \in ReviewIds :
       review[r].status \in Open \cup {"none", "applied", "rejected",
                                       "stale", "expired"}
  /\ \A k \in Keys :
       binding[k].life \in {"absent", "provisioning", "ready", "gone"}

(* A review shown as applied replaced exactly the revision it was made for,*)
(* by exactly what was reviewed, however requests and retries interleave;  *)
(* and a key or a review changes the configuration at most once, although  *)
(* copies of the request run at the same time or after a crash             *)
(* (ApplyServiceConfiguration, ApplyProposalReview).                       *)
AppliedOnceAsReviewed ==
  /\ \A r \in ReviewIds :
       LET v == review[r]
       IN  v.status = "applied" =>
             /\ Revision(v.app) > v.base
             /\ log[v.app][v.base + 1] = [v.draft EXCEPT !.by = r]
  /\ \A a \in Apps : \A i, j \in 2..Revision(a) :
       log[a][i].by = log[a][j].by => i = j

(* An application is only ever given a binding that was made for it, and   *)
(* for the resource it depends on, whatever ids its configuration names.   *)
NoForeignBinding ==
  \A a \in Apps :
    LET k == runtime[a].binding
    IN  k # "none" => /\ binding[k].app = a
                      /\ runtime[a].want \in {"none", binding[k].db}
=============================================================================
