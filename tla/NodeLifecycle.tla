--------------------------- MODULE NodeLifecycle ---------------------------
(***************************************************************************)
(* The nodes of one project, the Agents registered for them, and the       *)
(* drain and remove jobs that one node's Agent executes on another (or on  *)
(* itself) with kubectl (PostgresService of cloud/internal/registry,       *)
(* agent/internal/nodelifecycle and the runner's loop).                    *)
(*                                                                         *)
(* An Agent's call is authorized in one statement and executed in another; *)
(* rows may change between.  A request for a job reads the nodes, chooses  *)
(* an executor and inserts the job, each in a statement of its own.  Lease *)
(* expiry runs inside every poll of the project.  The status of a project  *)
(* is a cache of "has a healthy server" that is computed again when it is  *)
(* read, and is left out; capacities, versions and endpoints are too.      *)
(***************************************************************************)
EXTENDS Naturals

CONSTANTS
  Nodes, Servers,   \* the nodes of the project, and those with role server
  Agents,           \* ids of Agent rows
  Jobs,             \* requests for a lifecycle job, and their jobs
  MaxAttempts,      \* max_attempts of a job
  MaxPosts,         \* posts of one result (3 in the code)
  MaxAccidents      \* bound: crashes, failed kubectl, lost answers, lapses


VARIABLES
  node,       \* nodes: status and the Agent row last registered
  agent,      \* agents: node, status, whether the credential was rotated
  runtime,    \* runtimes.server_node_id
  job,        \* node_lifecycle_jobs, and the request before the insert
  beat,       \* a heartbeat Cloud has authorized and not yet recorded
  runner,     \* the Agent process of a node: its credential, its job
  cluster,    \* the node's object in Kubernetes
  accidents

rowVars == <<node, agent, runtime, job>>
nodeLifecycleVars == <<rowVars, beat, runner, cluster, accidents>>

Terminal == {"completed", "failed"}
NoAgent == [node |-> "none", status |-> "absent", rotated |-> FALSE]
NoJob == [status |-> "absent", action |-> "none", target |-> "none",
          executor |-> "none", attempts |-> 0, lapsed |-> FALSE]
Idle(a, old) ==
  [pc |-> "idle", agent |-> a, old |-> old, job |-> "none", token |-> 0,
   result |-> "none", posts |-> 0]

(* Nodes exist once their first Agent registers; see Bootstrap.            *)
Init ==
  /\ node = [n \in Nodes |-> [status |-> "pending", agent |-> "none"]]
  /\ agent = [a \in Agents |-> NoAgent]
  /\ runtime = "none"
  /\ job = [j \in Jobs |-> NoJob]
  /\ beat = [n \in Nodes |-> FALSE]
  /\ runner = [n \in Nodes |-> Idle("none", FALSE)]
  /\ cluster = [n \in Nodes |-> "joined"]
  /\ accidents = 0

Accident == accidents < MaxAccidents /\ accidents' = accidents + 1
Calm == UNCHANGED accidents

----------------------------------------------------------------------------
(* Agents *)

(* RegisterAgent: another row for the node, whose agent_id it becomes.     *)
(* The rows registered before stay as they are.                            *)
RegisterAgent(n, a) ==
  /\ agent[a] = NoAgent
  /\ agent' = [agent EXCEPT ![a] = [NoAgent EXCEPT !.node = n,
                                                   !.status = "active"]]
  /\ node' = [node EXCEPT ![n] = [status |-> "agent_connecting",
                                  agent |-> a]]
  /\ UNCHANGED <<runtime, job, beat, runner, cluster>> /\ Calm

(* VerifyAgent: any row of the node whose credential the process holds,    *)
(* if it is active.                                                        *)
VerifyAgent(n) ==
  LET a == runner[n].agent IN
  /\ a # "none"
  /\ agent[a].status = "active" /\ agent[a].rotated = runner[n].old

(* RotateAgent: the process is given the new credential when it restarts.  *)
RotateAgent(a) ==
  /\ agent[a].status = "active" /\ ~agent[a].rotated
  /\ agent' = [agent EXCEPT ![a].rotated = TRUE]
  /\ UNCHANGED <<node, runtime, job, beat, runner, cluster>> /\ Calm

RevokeAgent(a) ==
  /\ agent[a].status = "active"
  /\ agent' = [agent EXCEPT ![a].status = "revoked"]
  /\ UNCHANGED <<node, runtime, job, beat, runner, cluster>> /\ Calm

(* The Agent (re)starts with the credential of a row of its node.          *)
Restart(n, a) ==
  /\ agent[a].node = n
  /\ runner' = [runner EXCEPT ![n] = Idle(a, agent[a].rotated)]
  /\ runner' # runner
  /\ IF runner[n].pc = "idle" THEN Calm ELSE Accident
  /\ UNCHANGED <<rowVars, beat, cluster>>

(* A heartbeat is authorized; later RecordAgentHeartbeat sets the status,  *)
(* whatever it was.                                                        *)
AuthorizeHeartbeat(n) ==
  /\ VerifyAgent(n) /\ ~beat[n]
  /\ beat' = [beat EXCEPT ![n] = TRUE]
  /\ UNCHANGED <<rowVars, runner, cluster>> /\ Calm

RecordAgentHeartbeat(n) ==
  /\ beat[n]
  /\ beat' = [beat EXCEPT ![n] = FALSE]
  /\ \E status \in {"healthy", "agent_connecting"} :
       /\ node' = [node EXCEPT ![n].status = status]
       /\ runtime' = IF status = "healthy" /\ n \in Servers
                       THEN n ELSE runtime
  /\ UNCHANGED <<agent, job, runner, cluster>> /\ Calm

(* MarkNodeOffline: the operator's target reset, which revokes the Agent   *)
(* the node names.                                                         *)
MarkNodeOffline(n) ==
  /\ node[n].status # "pending"
  /\ node' = [node EXCEPT ![n].status = "offline"]
  /\ agent' = [a \in Agents |->
                 IF a = node[n].agent THEN [agent[a] EXCEPT !.status = "revoked"]
                 ELSE agent[a]]
  /\ runtime' = IF runtime = n THEN "none" ELSE runtime
  /\ UNCHANGED <<job, beat, runner, cluster>> /\ Calm
  /\ rowVars' # rowVars

----------------------------------------------------------------------------
(* Requests *)

(* lifecycleAgent: a healthy node whose Agent is active.                   *)
lifecycleAgent(e) ==
  /\ node[e].status = "healthy"
  /\ agent[node[e].agent].status = "active"

(* RequestNodeLifecycle up to its insert.  A key that names a job already  *)
(* only reads it.  The test for the only healthy server is not a guard     *)
(* here: the caller may override it with force.                            *)
CheckRequest(j, n, action) ==
  /\ job[j] = NoJob
  /\ node[n].status # "pending"
  /\ \E e \in Nodes :
       /\ lifecycleAgent(e)
       /\ job' = [job EXCEPT ![j] = [NoJob EXCEPT !.status = "checked",
                                       !.action = action, !.target = n,
                                       !.executor = e]]
  /\ UNCHANGED <<node, agent, runtime, beat, runner, cluster>> /\ Calm

InsertJob(j) ==
  /\ job[j].status = "checked"
  /\ job' = [job EXCEPT ![j].status = "requested"]
  /\ UNCHANGED <<node, agent, runtime, beat, runner, cluster>> /\ Calm

----------------------------------------------------------------------------
(* Leases *)

LeaseLapses(j) ==
  /\ job[j].status = "accepted" /\ ~job[j].lapsed
  /\ Accident
  /\ job' = [job EXCEPT ![j].lapsed = TRUE]
  /\ UNCHANGED <<node, agent, runtime, beat, runner, cluster>>

(* expireNodeLifecycleLeases: back to the queue, or failed for good.       *)
Expired(r) ==
  IF r.status = "accepted" /\ r.lapsed
    THEN [r EXCEPT !.lapsed = FALSE,
                   !.status = IF r.attempts >= MaxAttempts
                                THEN "failed" ELSE "requested"]
    ELSE r
expireNodeLifecycleLeases == [j \in Jobs |-> Expired(job[j])]

(* The poll is authorized; the deployment and data jobs, which are asked   *)
(* for first, had nothing.                                                 *)
AuthorizePoll(n) ==
  /\ runner[n].pc = "idle" /\ VerifyAgent(n)
  /\ runner' = [runner EXCEPT ![n].pc = "polling"]
  /\ UNCHANGED <<rowVars, beat, cluster>> /\ Calm

(* LeaseNodeLifecycle: a requested job of the polling node, or none.  The  *)
(* token is as good as the number of the attempt.                          *)
LeaseNodeLifecycle(n) ==
  LET jobs == expireNodeLifecycleLeases
      due == {j \in Jobs : jobs[j].status = "requested"
                             /\ jobs[j].executor = n}
  IN /\ runner[n].pc = "polling"
     /\ \/ /\ due = {}
           /\ job' = jobs
           /\ runner' = [runner EXCEPT ![n].pc = "idle"]
           /\ Calm
        \/ \E j \in due :
             /\ job' = [jobs EXCEPT ![j].status = "accepted",
                                    ![j].attempts = @ + 1]
             /\ \/ /\ runner' = [runner EXCEPT ![n].pc = "present",
                                   ![n].job = j,
                                   ![n].token = jobs[j].attempts + 1]
                   /\ Calm
                \/ /\ runner' = [runner EXCEPT ![n].pc = "idle"]
                   /\ Accident
     /\ UNCHANGED <<node, agent, runtime, beat, cluster>>

----------------------------------------------------------------------------
(* Service.Execute of the Agent: one kubectl command after the other *)

Target(n) == job[runner[n].job].target
Action(n) == job[runner[n].job].action
Goes(n, pc) == runner' = [runner EXCEPT ![n].pc = pc]
Ends(n, result) ==
  runner' = [runner EXCEPT ![n].pc = "report", ![n].result = result]

(* verifyPresent, cordon and drain; what is to be verified then.           *)
VerifyPresent(n) ==
  /\ runner[n].pc = "present"
  /\ \/ cluster[Target(n)] # "gone" /\ Goes(n, "cordon") /\ Calm
     \/ cluster[Target(n)] = "gone" /\ Ends(n, "failed") /\ Calm
     \/ Accident /\ Ends(n, "failed")
  /\ UNCHANGED <<rowVars, beat, cluster>>

(* A command may fail before or after its effect.                          *)
Cordon(n) ==
  /\ runner[n].pc = "cordon"
  /\ \/ /\ cluster[Target(n)] # "gone"
        /\ cluster' = [cluster EXCEPT ![Target(n)] = "cordoned"]
        /\ Goes(n, "drain") /\ Calm
     \/ /\ cluster[Target(n)] = "gone"
        /\ Ends(n, "failed") /\ Calm /\ UNCHANGED cluster
     \/ /\ Accident
        /\ \E after \in {cluster[Target(n)],
                        IF cluster[Target(n)] = "gone" THEN "gone"
                                                       ELSE "cordoned"} :
             cluster' = [cluster EXCEPT ![Target(n)] = after]
        /\ Ends(n, "failed")
  /\ UNCHANGED <<rowVars, beat>>

Drain(n) ==
  /\ runner[n].pc = "drain"
  /\ \/ /\ cluster[Target(n)] # "gone" /\ Calm
        /\ Goes(n, IF Action(n) = "drain" THEN "unschedulable" ELSE "delete")
     \/ cluster[Target(n)] = "gone" /\ Calm /\ Ends(n, "failed")
     \/ Accident /\ Ends(n, "failed")
  /\ UNCHANGED <<rowVars, beat, cluster>>

VerifyUnschedulable(n) ==
  /\ runner[n].pc = "unschedulable"
  /\ \/ cluster[Target(n)] = "cordoned" /\ Calm /\ Ends(n, "completed")
     \/ cluster[Target(n)] # "cordoned" /\ Calm /\ Ends(n, "failed")
     \/ Accident /\ Ends(n, "failed")
  /\ UNCHANGED <<rowVars, beat, cluster>>

Delete(n) ==
  /\ runner[n].pc = "delete"
  /\ \/ /\ cluster[Target(n)] # "gone" /\ Calm
        /\ cluster' = [cluster EXCEPT ![Target(n)] = "gone"]
        /\ Goes(n, "gone")
     \/ /\ cluster[Target(n)] = "gone" /\ Calm
        /\ Ends(n, "failed") /\ UNCHANGED cluster
     \/ /\ Accident
        /\ \E after \in {cluster[Target(n)], "gone"} :
             cluster' = [cluster EXCEPT ![Target(n)] = after]
        /\ Ends(n, "failed")
  /\ UNCHANGED <<rowVars, beat>>

(* verifyRemoved: only "not found" says that the node is gone.             *)
VerifyRemoved(n) ==
  /\ runner[n].pc = "gone"
  /\ \/ cluster[Target(n)] = "gone" /\ Calm /\ Ends(n, "completed")
     \/ cluster[Target(n)] # "gone" /\ Calm /\ Ends(n, "failed")
     \/ Accident /\ Ends(n, "failed")
  /\ UNCHANGED <<rowVars, beat, cluster>>

----------------------------------------------------------------------------
(* Results *)

AuthorizeResult(n) ==
  /\ runner[n].pc = "report" /\ VerifyAgent(n)
  /\ Goes(n, "reporting")
  /\ UNCHANGED <<rowVars, beat, cluster>> /\ Calm

(* handleNodeLifecycle posts three times at most: also a refusal is tried  *)
(* again.                                                                  *)
PostFailed(n) ==
  IF runner[n].posts + 1 < MaxPosts
    THEN [runner EXCEPT ![n].pc = "report", ![n].posts = @ + 1]
    ELSE [runner EXCEPT ![n] = Idle(@.agent, @.old)]
PostEnds(n) == [runner EXCEPT ![n] = Idle(@.agent, @.old)]

(* CompleteNodeLifecycle of a live lease: the job, the target's row, and   *)
(* for a removed node every Agent row of it.                               *)
Accepts(n) ==
  LET r == job[runner[n].job] IN
  r.status = "accepted" /\ ~r.lapsed /\ r.attempts = runner[n].token

(* Faulty variant: only the Agent the node names is revoked.               *)
RevokedByRemovalOfCurrent(t) == {node[t].agent}

RevokedByRemoval(t) == {a \in Agents : agent[a].node = t}

CompleteRows(n) ==
  LET r == job[runner[n].job]
      removed == runner[n].result = "completed" /\ r.action = "remove"
  IN /\ job' = [job EXCEPT ![runner[n].job].status = runner[n].result]
     /\ node' = IF runner[n].result = "completed"
                  THEN [node EXCEPT ![r.target].status =
                          IF removed THEN "removed" ELSE "draining"]
                  ELSE node
     /\ agent' = IF removed
                   THEN [a \in Agents |->
                           IF a \in RevokedByRemoval(r.target)
                             THEN [agent[a] EXCEPT !.status = "revoked"]
                             ELSE agent[a]]
                   ELSE agent

CompleteNodeLifecycle(n) ==
  /\ runner[n].pc = "reporting"
  /\ \/ /\ Accepts(n) /\ CompleteRows(n)
        /\ \/ runner' = PostEnds(n) /\ Calm
           \/ runner' = PostFailed(n) /\ Accident
     \/ /\ ~Accepts(n)
        /\ runner' = IF job[runner[n].job].status \in Terminal
                       THEN PostEnds(n) ELSE PostFailed(n)
        /\ Calm /\ UNCHANGED <<job, node, agent>>
  /\ UNCHANGED <<runtime, beat, cluster>>

(* The post is refused at the door: the Agent was revoked or rotated.      *)
PostDenied(n) ==
  /\ runner[n].pc = "report" /\ ~VerifyAgent(n)
  /\ runner' = PostFailed(n)
  /\ UNCHANGED <<rowVars, beat, cluster>> /\ Calm

----------------------------------------------------------------------------
Operators ==
  \/ \E n \in Nodes, a \in Agents : RegisterAgent(n, a) \/ Restart(n, a)
  \/ \E a \in Agents : RotateAgent(a) \/ RevokeAgent(a)
  \/ \E n \in Nodes : MarkNodeOffline(n)
  \/ \E j \in Jobs, n \in Nodes, action \in {"drain", "remove"} :
       CheckRequest(j, n, action)
  \/ \E j \in Jobs : InsertJob(j)

Heartbeats ==
  \E n \in Nodes : AuthorizeHeartbeat(n) \/ RecordAgentHeartbeat(n)

Leases ==
  \/ \E j \in Jobs : LeaseLapses(j)
  \/ \E n \in Nodes : AuthorizePoll(n) \/ LeaseNodeLifecycle(n)

Execution ==
  \E n \in Nodes :
    \/ VerifyPresent(n)
    \/ Cordon(n)
    \/ Drain(n)
    \/ VerifyUnschedulable(n)
    \/ Delete(n)
    \/ VerifyRemoved(n)

Results ==
  \E n \in Nodes :
    AuthorizeResult(n) \/ CompleteNodeLifecycle(n) \/ PostDenied(n)

Next == Operators \/ Heartbeats \/ Leases \/ Execution \/ Results

Spec == Init /\ [][Next]_nodeLifecycleVars

----------------------------------------------------------------------------
(* The rows hold values the code writes.                                   *)
NodeLifecycleTypeOK ==
  /\ node \in [Nodes -> [status : {"pending", "agent_connecting", "healthy",
                                   "offline", "draining", "removed"},
                         agent : Agents \cup {"none"}]]
  /\ \A a \in Agents : agent[a].status \in {"absent", "active", "revoked"}
  /\ \A j \in Jobs : job[j].attempts \in 0..MaxAttempts
  /\ runtime \in Servers \cup {"none"}

(* A node that is shown as removed is gone from the cluster, whatever      *)
(* failed, was repeated under a new lease or was reported late, and no     *)
(* Agent of it is let in: neither the one the node names nor one           *)
(* registered before it.  A heartbeat authorized before may still write    *)
(* over the status; that the removal's target is gone stays true           *)
(* (verifyRemoved, CompleteNodeLifecycle).                                 *)
RemovedIsLockedOut ==
  /\ \A n \in Nodes : node[n].status = "removed" =>
       /\ cluster[n] = "gone"
       /\ \A a \in Agents : agent[a].node = n => agent[a].status = "revoked"
  /\ \A j \in Jobs : job[j].status = "completed" /\ job[j].action = "remove" =>
       cluster[job[j].target] = "gone"
=============================================================================
