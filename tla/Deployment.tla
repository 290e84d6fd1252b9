----------------------------- MODULE Deployment -----------------------------
(***************************************************************************)
(* The life of one managed cluster: POST /deploy and its background task   *)
(* (services/deployer.py over Ansible, services/agent_deployer.py over the *)
(* agents), start, stop and delete, the removal of a service, and the      *)
(* status endpoints that bring the header in line with the services        *)
(* (services/cluster_manager.py).                                          *)
(*                                                                         *)
(* All of them run in threadpools of several workers and meet only in the  *)
(* database and on the hosts.  A request's SQLAlchemy session reads a row  *)
(* once and writes only the attributes it changed from what it read, so    *)
(* the value a request started from matters until it commits.              *)
(***************************************************************************)
EXTENDS Naturals

CONSTANTS
    Host,      \* hosts of the cluster, one Kafka service on each
    Deploy     \* POST /deploy requests, each with its task

ASSUME DeploymentAssumption == Host # {}

VARIABLES
    state,     \* Cluster.state, "gone" once the row is deleted
    svc,       \* svc[h]: the status of the Service row, "removed" without one
    unit,      \* unit[h]: the cluster's systemd unit on h
    task,      \* task[d]: the status of the DeploymentTask row
    job,       \* job[d]: the request thread, then the background task
    op         \* the lifecycle or status request in progress

vars == <<state, svc, unit, task, job, op>>

State == {"configured", "deploying", "running", "stopped", "error"}
Status == {"pending", "running", "stopped", "error", "removed"}
Final == {"completed", "completed_with_errors", "error", "success"}

\* Where a deploy is: it has returned in "over" and in "agent failed", died with
\* its worker in "killed", and in "stranded" a failed flush has left its session
\* unusable to whatever was to tell of the failure.
Ended == {"over", "agent failed", "killed", "stranded"}
Stage == Ended \cup {"idle", "checked", "queued", "ports",
                     "rejecting", "playing", "failing", "applying",
                     "installing", "succeeding"}
Live(d) == job[d].at \notin Ended \cup {"idle"}

TypeOK ==
    /\ state \in State \cup {"gone"}
    /\ svc \in [Host -> Status]
    /\ unit \in [Host -> {"absent", "up", "down", "failed"}]
    /\ task \in [Deploy -> Final \cup {"none", "running"}]
    /\ job \in [Deploy -> [at : Stage, list : SUBSET Host, done : SUBSET Host]]
    /\ op \in [kind : {"none", "status", "start", "stop", "delete", "remove"}, todo : SUBSET Host,
               state : State, read : [Host -> Status], svc : [Host -> Status], ok : BOOLEAN]

Idle == [kind |-> "none", todo |-> {}, state |-> "configured", ok |-> TRUE,
         read |-> [h \in Host |-> "pending"], svc |-> [h \in Host |-> "pending"]]

\* create_cluster has committed.
Init ==
    /\ state = "configured"
    /\ svc = [h \in Host |-> "pending"]
    /\ unit = [h \in Host |-> "absent"]
    /\ task = [d \in Deploy |-> "none"]
    /\ job = [d \in Deploy |-> [at |-> "idle", list |-> {}, done |-> {}]]
    /\ op = Idle

Exists == state # "gone"
Served == {h \in Host : svc[h] # "removed"}
SetState(s) == state' = s
SetStatus(d, s) == task' = [task EXCEPT ![d] = s]

\* Deploy d goes on, with the hosts whose services it has loaded and those of them
\* it has brought up; they only matter from Load to the hand-over.
Advance(d, from, to) ==
    job[d].at = from /\ job' = [job EXCEPT ![d] = [at |-> to, list |-> {}, done |-> {}]]
Load(d, to) ==
    job[d].at = "queued" /\ job' = [job EXCEPT ![d] = [at |-> to, list |-> Served, done |-> {}]]
Keep(d, from, to) == job[d].at = from /\ job' = [job EXCEPT ![d].at = to]

\* The rows deploy d writes when its playbook has succeeded are all there.
Whole(d) == job[d].list \subseteq Served

-----------------------------------------------------------------------------
(* start_deployment, between its commits.                                  *)

\* The guard, on the row this request read.
CheckDeploy(d) ==
    /\ Exists
    /\ state # "deploying"
    /\ Advance(d, "idle", "checked")
    /\ UNCHANGED <<state, svc, unit, task, op>>

\* init_task, and the background task is queued.
PostTask(d) ==
    /\ Advance(d, "checked", "queued")
    /\ SetStatus(d, "running")
    /\ UNCHANGED <<state, svc, unit, op>>

-----------------------------------------------------------------------------
(* deploy_cluster, the Ansible path.  Which path a task takes depends on   *)
(* deploy_via and on the agents connected when it starts.                  *)

\* Before the port check the cluster's own unit is stopped on every host that
\* can be reached, whatever the cluster is doing.
StopOwnUnits(d) ==
    /\ Exists
    /\ Load(d, "ports")
    /\ \E reached \in SUBSET Host :
         unit' = [h \in Host |-> IF h \in reached /\ unit[h] # "absent" THEN "down" ELSE unit[h]]
    /\ UNCHANGED <<state, svc, task, op>>

\* A failed check, a failed download or an exception: the task is closed first,
\* the cluster's state set next.
Reject(d) ==
    /\ Exists
    /\ \E s \in {"queued", "ports", "playing"} : Advance(d, s, "rejecting")
    /\ SetStatus(d, "error")
    /\ UNCHANGED <<state, svc, unit, op>>

\* Seeded fault: the task is closed and the cluster forgotten.
MarkNothing(d) ==
    /\ Exists
    /\ Advance(d, "rejecting", "over")
    /\ UNCHANGED <<state, svc, unit, task, op>>

MarkRejected(d) ==
    /\ Exists
    /\ Advance(d, "rejecting", "over")
    /\ SetState("error")
    /\ UNCHANGED <<svc, unit, task, op>>

MarkDeploying(d) ==
    /\ Exists
    /\ Keep(d, "ports", "playing")
    /\ SetState("deploying")
    /\ UNCHANGED <<svc, unit, task, op>>

\* The playbook brings one host up; it asks nobody whether the cluster or the
\* service is still there.
PlayHost(d, h) ==
    /\ job[d].at = "playing"
    /\ h \in job[d].list \ job[d].done
    /\ job' = [job EXCEPT ![d].done = @ \cup {h}]
    /\ unit' = [unit EXCEPT ![h] = "up"]
    /\ UNCHANGED <<state, svc, task, op>>

\* A non-zero exit code: here the state comes first.
PlaybookFails(d) ==
    /\ Exists
    /\ Advance(d, "playing", "failing")
    /\ SetState("error")
    /\ UNCHANGED <<svc, unit, task, op>>

\* Seeded fault: the failed task is never closed.
LeaveFailed(d) ==
    /\ Advance(d, "failing", "over")
    /\ UNCHANGED <<state, svc, unit, task, op>>

CloseFailed(d) ==
    /\ Advance(d, "failing", "over")
    /\ SetStatus(d, "completed_with_errors")
    /\ UNCHANGED <<state, svc, unit, op>>

\* The loaded services are "running".
AllUp(d) == [h \in Host |-> IF h \in job[d].list THEN "running" ELSE svc[h]]

\* Seeded fault: nobody looks at the exit code.
PlaybookReturns(d) ==
    /\ Exists
    /\ Whole(d)
    /\ Keep(d, "playing", "applying")
    /\ svc' = AllUp(d)
    /\ SetState("running")
    /\ UNCHANGED <<unit, task, op>>

\* Exit code 0: services and cluster become "running" in one commit.
PlaybookSucceeds(d) ==
    /\ Exists
    /\ Whole(d)
    /\ job[d].done = job[d].list
    /\ Keep(d, "playing", "applying")
    /\ svc' = AllUp(d)
    /\ SetState("running")
    /\ UNCHANGED <<unit, task, op>>

\* Initial ACLs and monitoring follow on a best-effort basis, whatever they
\* raise, and even if the cluster is deleted meanwhile.
Complete(d) ==
    /\ Advance(d, "applying", "over")
    /\ SetStatus(d, "completed")
    /\ UNCHANGED <<state, svc, unit, op>>

\* The cluster was deleted under the task.  Reading an expired row raises and
\* the last-ditch handler marks the task; a failed flush leaves the session
\* unusable to that handler as well, and the task row as it was.  Over the agents
\* the host in hand may have been started by then.
Escape(d) ==
    /\ ~Exists
    /\ job[d].at \in {"queued", "ports", "rejecting", "playing", "installing"}
    /\ \/ Advance(d, job[d].at, "over") /\ SetStatus(d, "error") /\ UNCHANGED unit
       \/ Advance(d, job[d].at, "stranded") /\ UNCHANGED <<task, unit>>
       \/ /\ job[d].at = "installing"
          /\ \E h \in job[d].list \ job[d].done : unit' = [unit EXCEPT ![h] = "up"]
          /\ Advance(d, job[d].at, "stranded")
          /\ UNCHANGED task
    /\ UNCHANGED <<state, svc, op>>

\* A service was removed under the task: the flush of its status raises, after the
\* playbook or in the middle of the agents' loop (a row found missing earlier is
\* an exception like any other), and no handler can write any more.
FlushFails(d) ==
    /\ Exists
    /\ \/ /\ job[d].at = "playing"
          /\ job[d].done = job[d].list
          /\ ~Whole(d)
          /\ UNCHANGED unit
       \/ /\ job[d].at = "installing"
          /\ \E h \in job[d].list \ (job[d].done \cup Served) : unit' = [unit EXCEPT ![h] = "up"]
    /\ Advance(d, job[d].at, "stranded")
    /\ UNCHANGED <<state, svc, task, op>>

-----------------------------------------------------------------------------
(* agent_deployer.deploy_cluster.                                          *)

AgentRefuses(d) ==
    /\ Exists
    /\ Advance(d, "queued", "over")
    /\ SetStatus(d, "error")
    /\ UNCHANGED <<state, svc, unit, op>>

AgentMarks(d) ==
    /\ Exists
    /\ Load(d, "installing")
    /\ SetState("deploying")
    /\ UNCHANGED <<svc, unit, task, op>>

\* One host through all seven steps, and its Service row.
AgentHost(d, h) ==
    /\ Exists
    /\ job[d].at = "installing"
    /\ h \in (job[d].list \ job[d].done) \cap Served
    /\ job' = [job EXCEPT ![d].done = @ \cup {h}]
    /\ unit' = [unit EXCEPT ![h] = "up"]
    /\ svc' = [svc EXCEPT ![h] = "running"]
    /\ UNCHANGED <<state, task, op>>

\* Any step fails or raises: only the task row is told.
AgentFails(d) ==
    /\ Exists
    /\ job[d].done # job[d].list
    /\ Advance(d, "installing", "agent failed")
    /\ SetStatus(d, "error")
    /\ UNCHANGED <<state, svc, unit, op>>

AgentSucceeds(d) ==
    /\ Exists
    /\ job[d].done = job[d].list
    /\ Keep(d, "installing", "succeeding")
    /\ SetState("running")
    /\ UNCHANGED <<svc, unit, task, op>>

AgentCloses(d) ==
    /\ Advance(d, "succeeding", "over")
    /\ SetStatus(d, "success")
    /\ UNCHANGED <<state, svc, unit, op>>

\* The worker running d dies; nothing resumes or closes its task.
Kill(d) ==
    /\ Live(d)
    /\ Advance(d, job[d].at, "killed")
    /\ UNCHANGED <<state, svc, unit, task, op>>

-----------------------------------------------------------------------------
(* Requests read, visit the hosts of their services, and commit.           *)

Begin(kind, hosts) ==
    /\ op = Idle
    /\ Exists
    /\ op' = [kind |-> kind, todo |-> hosts, state |-> state, ok |-> TRUE,
              read |-> svc, svc |-> svc]
    /\ UNCHANGED <<state, svc, unit, task, job>>

\* remove_service asks for no particular state of the cluster.
BeginRemove(h) == h \in Served /\ Begin("remove", {h})

\* One host dealt with: the service is believed to be s, and well says whether
\* the visit succeeded.
Visited(h, s, well) ==
    /\ h \in op.todo
    /\ op' = [op EXCEPT !.todo = @ \ {h}, !.svc[h] = s, !.ok = @ /\ well]

\* Seeded fault: what systemctl said goes to the row unmapped.
ReportedRaw(h) == unit[h]

\* get_cluster_status on one host: what systemctl is-active says of the unit.
Reported(h) == CASE unit[h] = "up" -> "running" [] unit[h] = "failed" -> "error"
                 [] unit[h] = "down" -> "stopped" [] OTHER -> op.svc[h]
ProbeHost(h) ==
    /\ op.kind = "status"
    /\ Visited(h, Reported(h), TRUE)
    /\ UNCHANGED <<state, svc, unit, task, job>>

\* The host cannot be reached: its status is left as it was read.
ProbeFails(h) ==
    /\ op.kind = "status"
    /\ Visited(h, op.svc[h], TRUE)
    /\ UNCHANGED <<state, svc, unit, task, job>>

\* start_cluster on one host.
StartHost(h) ==
    /\ op.kind = "start"
    /\ \/ /\ unit[h] # "absent"
          /\ Visited(h, "running", TRUE)
          /\ unit' = [unit EXCEPT ![h] = "up"]
       \/ Visited(h, "error", FALSE) /\ UNCHANGED unit
    /\ UNCHANGED <<state, svc, task, job>>

\* cleanup_service: the unit is stopped, for a delete or a removal taken away as
\* well; if that fails the service keeps its status.  Over an agent that cannot
\* be asked the unit may be taken for missing, and a removal can be forced.
StopHost(h) ==
    /\ op.kind \in {"stop", "delete", "remove"}
    /\ \/ /\ Visited(h, IF op.kind = "remove" THEN "removed" ELSE "stopped", TRUE)
          /\ \/ unit' = [unit EXCEPT ![h] = IF @ = "absent" \/ op.kind # "stop"
                                            THEN "absent" ELSE "down"]
             \/ UNCHANGED unit
       \/ Visited(h, op.svc[h], FALSE) /\ UNCHANGED unit
    /\ UNCHANGED <<state, svc, task, job>>

\* Seeded fault: a cluster that was running is not looked at again.
SyncedLax(st, ss) ==
    LET statuses == {ss[h] : h \in Host} \ {"removed"} IN
    CASE st = "deploying" \/ statuses = {} -> st
      [] st # "deploying" /\ "error" \in statuses -> "error"
      [] st # "deploying" /\ statuses = {"running"} -> "running"
      [] st # "deploying" /\ statuses = {"stopped"} -> "stopped"
      [] OTHER -> st

\* sync_cluster_state_from_services: the state a cluster in state st takes when
\* its services have the statuses ss.
Synced(st, ss) ==
    LET statuses == {ss[h] : h \in Host} \ {"removed"} IN
    CASE st = "deploying" \/ statuses = {} -> st
      [] st # "deploying" /\ "error" \in statuses -> "error"
      [] st # "deploying" /\ statuses = {"running"} -> "running"
      [] st # "deploying" /\ statuses = {"stopped"} -> "stopped"
      [] OTHER -> IF st = "running" THEN "error" ELSE st

\* The state the request wants to leave behind.
Wanted == CASE op.kind = "status" -> Synced(op.state, op.svc)
            [] op.kind = "start" -> IF op.ok THEN "running" ELSE "error"
            [] op.kind = "stop" -> IF op.ok THEN "stopped" ELSE "error"
            [] OTHER -> op.state

\* db.commit: only what differs from the row as it was read is written.
Written(old, read, new) == IF new = read THEN old ELSE new
Commit ==
    /\ op.kind # "none"
    /\ op.todo = {}
    /\ svc' = [h \in Host |-> Written(svc[h], op.read[h], op.svc[h])]
    /\ SetState(IF op.kind = "delete" /\ op.ok THEN "gone"
                ELSE Written(state, op.state, Wanted))
    /\ op' = Idle
    /\ UNCHANGED <<unit, task, job>>

\* get_cluster: every view of the cluster syncs its header.
GetCluster ==
    /\ Exists
    /\ SetState(Synced(state, svc))
    /\ UNCHANGED <<svc, unit, task, job, op>>

\* Kafka dies on a host.
UnitDies(h) ==
    /\ unit[h] = "up"
    /\ unit' = [unit EXCEPT ![h] = "failed"]
    /\ UNCHANGED <<state, svc, task, job, op>>

-----------------------------------------------------------------------------
Request(d) == CheckDeploy(d) \/ PostTask(d)

Ansible(d) == \/ StopOwnUnits(d) \/ Reject(d) \/ MarkRejected(d)
              \/ MarkDeploying(d) \/ PlaybookFails(d) \/ CloseFailed(d)
              \/ PlaybookSucceeds(d) \/ Complete(d) \/ Escape(d) \/ FlushFails(d)
              \/ \E h \in Host : PlayHost(d, h)

Agents(d) == \/ AgentRefuses(d) \/ AgentMarks(d) \/ AgentFails(d)
             \/ AgentSucceeds(d) \/ AgentCloses(d) \/ \E h \in Host : AgentHost(d, h)

Change == \/ \E kind \in {"start", "stop", "delete"} : Begin(kind, Served)
          \/ \E h \in Host : BeginRemove(h)

Watch == \/ Begin("status", Served) \/ Commit \/ GetCluster
         \/ \E h \in Host : ProbeHost(h) \/ ProbeFails(h)

Next == \/ \E d \in Deploy : Request(d) \/ Ansible(d) \/ Agents(d) \/ Kill(d)
        \/ Change \/ Watch
        \/ \E h \in Host : StartHost(h) \/ StopHost(h) \/ UnitDies(h)

Visit(h) == ProbeHost(h) \/ ProbeFails(h) \/ StartHost(h) \/ StopHost(h)

\* A worker's threads run on, the console keeps polling the status, and a host
\* that is probed again and again answers now and then.
Fairness ==
    /\ \A d \in Deploy : WF_vars(PostTask(d) \/ Ansible(d) \/ Agents(d))
    /\ WF_vars(Begin("status", Served) \/ Commit \/ \E h \in Host : Visit(h))
    /\ WF_vars(GetCluster)
    /\ \A h \in Host : SF_vars(ProbeHost(h))

Spec == Init /\ [][Next]_vars
FairSpec == Spec /\ Fairness

-----------------------------------------------------------------------------
(* Properties.                                                             *)

\* A cluster shows "deploying" only while some deploy is at work on it, was
\* killed at it, failed over the agents, or lost its session to a failed flush:
\* any other deploy, in whatever order it closes task and cluster, hands the
\* cluster back.
DeployingIsOwned ==
    state = "deploying" =>
        \E d \in Deploy : job[d].at \in {"playing", "rejecting", "installing",
                                         "agent failed", "killed", "stranded"}

\* The verdict on a task is final: the console that saw it stops asking, and no
\* second deploy, delete or late handler changes it afterwards.
VerdictIsFinal ==
    [][\A d \in Deploy : task[d] \in Final => task'[d] = task[d]]_vars

\* The cluster as DeployPromise sees it.
Brought == [d \in Deploy |-> job[d].done]
Quit == {d \in Deploy : job[d].at \in Ended \cup {"rejecting", "failing"}}
D == INSTANCE DeployPromise WITH
         Node <- Host, Attempt <- Deploy, header <- state, verdict <- task, brought <- Brought, quit <- Quit,
         members <- Served

\* However deploys, requests and their stale rows overlap, the operator is told
\* what DeployPromise allows: one verdict on each deploy, success only of one that
\* has brought up every host that still has its service, and a cluster handed over
\* no sooner.
KeepsDeployPromise == D!PSafety

\* Every deploy that was accepted ends with a verdict, unless its worker dies or
\* the cluster or a service is removed under it just before a flush.
DeployEnds ==
    \A d \in Deploy : (task[d] = "running")
        ~> (task[d] \in Final \/ job[d].at \in {"killed", "stranded"})

\* What is still going on besides watching.
Disturbance == Change \/ \E h \in Host : UnitDies(h)

\* However stale the rows were that requests wrote back from, polling repairs the
\* picture once things are quiet: services follow the units, and the header of a
\* cluster that has any says "running" exactly when every one does.
HeaderConverges ==
    (<>[][~Disturbance]_vars) =>
        <>[](Exists /\ state # "deploying" /\ Served # {} /\ (\A d \in Deploy : ~Live(d)) =>
               /\ state = "running" <=> \A h \in Served : svc[h] = "running"
               /\ \A h \in Served : /\ unit[h] = "up" => svc[h] = "running"
                                    /\ svc[h] = "running" => unit[h] \in {"up", "absent"})

\* What start_deployment answers to a second POST, "Deployment already in
\* progress": without a crash, "deploying" means that some deploy is running.
DeployingMeansInProgress ==
    state = "deploying" =>
        \/ \E d \in Deploy : Live(d)
        \/ \E d \in Deploy : job[d].at = "killed"

\* What delete_cluster's comment says: once the row is gone no unit of the
\* cluster keeps running on a host.
DeletedLeavesNothing == ~Exists => \A h \in Host : unit[h] # "up"

=============================================================================
