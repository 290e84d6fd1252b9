------------------------------ MODULE Rolling ------------------------------
(***************************************************************************)
(* Rolling restarts (services/rolling_restart_manager.py) and rolling      *)
(* upgrades (services/upgrade_manager.py) of one managed cluster.          *)
(*                                                                         *)
(* Each request starts a background thread that goes through the nodes one *)
(* by one over SSH and keeps its progress in the memory of its worker.     *)
(* Threads know nothing of each other.  Brokers boot, die and are stopped  *)
(* beside them.  What the partitions do is left out: both operations wait  *)
(* for them after each broker, but only for so long.                       *)
(*                                                                         *)
(* A restart goes to the systemd unit of the cluster, an upgrade always to *)
(* kafka.service and /opt/kafka: the same for a cluster made before a unit *)
(* and a directory of its own were given to each, else those of an older   *)
(* cluster on the same hosts.                                              *)
(***************************************************************************)
EXTENDS Naturals, FiniteSets

CONSTANTS
    Broker,       \* services with role broker or broker_controller
    Controller,   \* the other Kafka services, restarted first
    Fragile,      \* bound: nodes that may die, and whose host may be deleted
    Mortal,       \* bound: units whose processes may die
    Restart,      \* rolling restart requests
    Upgrade       \* rolling upgrade requests, all to the same version

ASSUME RollingAssumption ==
    /\ Broker # {} /\ Broker \cap Controller = {}
    /\ Restart \cap Upgrade = {}

Node == Broker \cup Controller
Task == Restart \cup Upgrade

VARIABLES
    unit,         \* the unit of the cluster's Kafka services
    hosts,        \* nodes whose Host row exists
    proc,         \* proc[u, n]: the process of unit u on the host of n
    install,      \* install[n]: what lies in /opt/kafka on the host of n
    svc,          \* svc[n]: the status of the Service row
    cluster,      \* the Cluster row: state and kafka_version
    status,       \* status[t]: the entry of t in its worker's memory
    job           \* job[t]: where the thread of t is

vars == <<unit, hosts, proc, install, svc, cluster, status, job>>

Unit == {"kafka", "own"}

\* A thread has returned in "over" and died with its worker in "killed".
Stage == {"idle", "queued", "checked", "next", "stopped", "unpacking", "removed",
          "extracted", "checking", "isr", "flushed", "over", "killed"}

\* node: the node in hand; plan: the nodes to visit; todo: those still to be visited; out: those stopped
\* and not seen healthy since; seen: those seen healthy after the start; read:
\* the Service rows as they were loaded.
Job == [at : Stage, node : Node, plan : SUBSET Node, todo : SUBSET Node, out : SUBSET Node,
        seen : SUBSET Node, read : [Node -> {"running", "stopped", "error"}]]

TypeOK ==
    /\ unit \in Unit
    /\ hosts \subseteq Node
    /\ proc \in [Unit \X Node -> {"down", "starting", "ready"}]
    /\ install \in [Node -> {"old", "none", "new"}]
    /\ svc \in [Node -> {"running", "stopped", "error"}]
    /\ cluster \in [state : {"running", "upgrading", "error", "stopped"}, version : {"old", "new"}]
    /\ status \in [Task -> {"none", "running", "completed", "error", "failed", "lost"}]
    /\ job \in [Task -> Job]

\* A cluster that was deployed and runs; beside one with a unit of its own runs an
\* older one, without which every upgrade is refused.
AllRunning == [n \in Node |-> "running"]
SomeNode == CHOOSE n \in Node : TRUE
Init ==
    /\ unit \in Unit
    /\ hosts = Node
    /\ proc = [p \in Unit \X Node |-> IF p[1] \in {unit, "kafka"} THEN "ready" ELSE "down"]
    /\ install = [n \in Node |-> "old"]
    /\ svc = AllRunning
    /\ cluster = [state |-> "running", version |-> "old"]
    /\ status = [t \in Task |-> "none"]
    /\ job = [t \in Task |-> [at |-> "idle", node |-> SomeNode, plan |-> {}, todo |-> {},
                              out |-> {}, seen |-> {}, read |-> AllRunning]]

Go(t, from, to) == job[t].at = from /\ job' = [job EXCEPT ![t].at = to]
\* The unit t works on.
UnitOf(t) == IF t \in Restart THEN unit ELSE "kafka"
Close(t, s) == status' = [status EXCEPT ![t] = s]

\* A thread that is gone leaves nothing but the node it had out.
Gone(t, at) == job' = [job EXCEPT ![t] = [@ EXCEPT !.at = at, !.node = SomeNode, !.plan = {},
                                           !.todo = {}, !.seen = {}, !.read = AllRunning]]

\* init_restart_task or init_upgrade_task, and the background task is queued.
StartTask(t) ==
    /\ Go(t, "idle", "queued")
    /\ Close(t, "running")
    /\ UNCHANGED <<unit, hosts, proc, install, svc, cluster>>

-----------------------------------------------------------------------------
(* Steps both operations take.                                             *)

\* Controllers are restarted before brokers; an upgrade goes by node id.
MayBeNext(t, n) == n \in job[t].todo /\ (n \in Broker => job[t].todo \subseteq Broker)

\* systemctl stop; a non-zero exit code, or a unit that is still active after the
\* wait, is only a warning.
StopNode(t, n) ==
    /\ job[t].at = "next"
    /\ MayBeNext(t, n)
    /\ job' = [job EXCEPT ![t] = [@ EXCEPT !.at = "stopped", !.node = n,
                                           !.todo = job[t].todo \ {n},
                                           !.out = job[t].out \cup {n}]]
    /\ proc' \in {proc, [proc EXCEPT ![<<UnitOf(t), n>>] = "down"]}
    /\ UNCHANGED <<unit, hosts, install, svc, cluster, status>>

\* systemctl start: nothing happens to a unit that is still active.
StartNode(t) ==
    /\ Go(t, IF t \in Restart THEN "stopped" ELSE "extracted", "checking")
    /\ proc' = [proc EXCEPT ![<<UnitOf(t), job[t].node>>] = IF @ = "down" THEN "starting" ELSE @]
    /\ UNCHANGED <<unit, hosts, install, svc, cluster, status>>

\* The unit is active and, for a broker, its port is open; an upgrade takes any
\* listener on 9092 for it.
Well(t, n) ==
    \/ proc[UnitOf(t), n] = "ready"
    \/ proc[UnitOf(t), n] = "starting" /\ n \in Controller
    \/ proc[UnitOf(t), n] = "starting" /\ t \in Upgrade /\ proc["own", n] = "ready"

\* Healthy in time.  The restart holds the row back, the upgrade commits it.
NodeHealthy(t) ==
    /\ job[t].at = "checking"
    /\ Well(t, job[t].node)
    /\ job' = [job EXCEPT ![t] = [@ EXCEPT !.at = IF job[t].node \in Broker THEN "isr" ELSE "next",
                                           !.out = job[t].out \ {job[t].node},
                                           !.seen = job[t].seen \cup {job[t].node}]]
    /\ svc' = IF t \in Upgrade THEN [svc EXCEPT ![job[t].node] = "running"] ELSE svc
    /\ UNCHANGED <<unit, hosts, proc, install, cluster, status>>

\* The partitions have caught up, or the wait has timed out.
LeaveIsr(t) ==
    /\ Go(t, "isr", "next")
    /\ UNCHANGED <<unit, hosts, proc, install, svc, cluster, status>>

\* The worker dies, and its memory of the task with it.
Kill(t) ==
    /\ job[t].at \notin {"idle", "over", "killed"}
    /\ Gone(t, "killed")
    /\ Close(t, "lost")
    /\ UNCHANGED <<unit, hosts, proc, install, svc, cluster>>

-----------------------------------------------------------------------------
(* rolling_restart.                                                        *)

\* The services in scope, none if a ZooKeeper cluster is asked for its controllers;
\* those whose host row is missing are skipped in the loop.  The cluster may have
\* been deleted since it was asked for.
LoadServices(t) ==
    /\ t \in Restart
    /\ job[t].at = "queued"
    /\ \/ Gone(t, "over") /\ \E s \in {"completed", "error"} : Close(t, s)
       \/ \E scope \in {Broker, Controller, Node} \ {{}} :
            /\ job' = [job EXCEPT ![t] = [@ EXCEPT !.at = "next", !.read = svc,
                                       !.plan = scope \cap hosts, !.todo = scope \cap hosts]]
            /\ UNCHANGED status
    /\ UNCHANGED <<unit, hosts, proc, install, svc, cluster>>

\* Seeded fault: the verdict of the task is written to the row.
FlushedVerdict(t, failed) == [n \in Node |-> IF n \in failed THEN "failed" ELSE svc[n]]

\* db.commit writes the statuses that differ from what was loaded: "running" for
\* the nodes seen healthy, "error" for those in failed.
Flushed(t, failed) ==
    [n \in Node |->
        LET new == IF n \in failed THEN "error"
                   ELSE IF n \in job[t].seen THEN "running" ELSE job[t].read[n] IN
        IF new = job[t].read[n] THEN svc[n] ELSE new]

\* Seeded fault: the loop goes on to the next node.
NextAfterFailure(t, n) ==
    /\ job' = [job EXCEPT ![t] = [@ EXCEPT !.at = "next", !.todo = @ \ {n}]]
    /\ UNCHANGED <<unit, hosts, proc, install, svc, cluster, status>>

\* Node n has failed: its status is committed and the task ends.
GiveUpAt(t, n) ==
    /\ Gone(t, "over")
    /\ svc' = Flushed(t, {n})
    /\ Close(t, "error")
    /\ UNCHANGED <<unit, hosts, proc, install, cluster>>

\* No health within 60 s, or an exception: an SSH command times out, the connection
\* is lost or was not made at all.
RestartFails(t) ==
    /\ t \in Restart
    /\ \/ job[t].at = "next" /\ \E n \in Node : MayBeNext(t, n) /\ GiveUpAt(t, n)
       \/ job[t].at \in {"stopped", "checking", "isr"} /\ GiveUpAt(t, job[t].node)

\* Seeded fault: the thread returns without a verdict.
ReturnSilently(t) ==
    /\ t \in Restart
    /\ job[t].at = "stopped"
    /\ Gone(t, "over")
    /\ UNCHANGED <<unit, hosts, proc, install, svc, cluster, status>>

\* systemctl start fails, or a commit does: the task ends, nothing is written.
StartFails(t) ==
    /\ t \in Restart
    /\ job[t].at \in {"next", "stopped", "checking", "isr"}
    /\ Gone(t, "over")
    /\ Close(t, "error")
    /\ UNCHANGED <<unit, hosts, proc, install, svc, cluster>>

\* All nodes are done: the rows are committed.
Flush(t) ==
    /\ t \in Restart
    /\ job[t].todo = {}
    /\ job[t].at = "next"
    /\ job' = [job EXCEPT ![t] = [@ EXCEPT !.at = "flushed", !.read = AllRunning]]
    /\ svc' = Flushed(t, {})
    /\ UNCHANGED <<unit, hosts, proc, install, cluster, status>>

-----------------------------------------------------------------------------
(* rolling_upgrade.                                                        *)

\* pre_upgrade_check passes: a newer version, kafka.service active on the host of
\* every broker, one of them known to run.
PassCheck(t) ==
    /\ t \in Upgrade
    /\ cluster.version = "old"
    /\ Broker \subseteq hosts
    /\ \A b \in Broker : proc["kafka", b] # "down"
    /\ \E b \in Broker : svc[b] = "running"
    /\ Go(t, "queued", "checked")
    /\ UNCHANGED <<unit, hosts, proc, install, svc, cluster, status>>

\* The brokers are loaded and the state is set.
BeginUpgrade(t) ==
    /\ job[t].at = "checked"
    /\ job' = [job EXCEPT ![t] = [@ EXCEPT !.at = "next", !.plan = Broker, !.todo = Broker]]
    /\ cluster' = [cluster EXCEPT !.state = "upgrading"]
    /\ UNCHANGED <<unit, hosts, proc, install, svc, status>>

MarkStopped(t) ==
    /\ t \in Upgrade
    /\ Go(t, "stopped", "unpacking")
    /\ svc' = [svc EXCEPT ![job[t].node] = "stopped"]
    /\ UNCHANGED <<unit, hosts, proc, install, cluster, status>>

\* rm -rf of the install directory, once tarball and configuration are in /tmp.
RemoveOld(t) ==
    /\ Go(t, "unpacking", "removed")
    /\ install' = [install EXCEPT ![job[t].node] = "none"]
    /\ UNCHANGED <<unit, hosts, proc, svc, cluster, status>>

\* Seeded fault: the exit code of the extraction is not looked at.
UnpackUnchecked(t) ==
    /\ Go(t, "removed", "extracted")
    /\ install' \in {install, [install EXCEPT ![job[t].node] = "new"]}
    /\ UNCHANGED <<unit, hosts, proc, svc, cluster, status>>

\* tar, mv, and the configuration is copied back.
UnpackNew(t) ==
    /\ Go(t, "removed", "extracted")
    /\ install' = [install EXCEPT ![job[t].node] = "new"]
    /\ UNCHANGED <<unit, hosts, proc, svc, cluster, status>>

\* Any step raises, or the pre-check refuses: the task learns of it, the rows and
\* the host stay as they are.
UpgradeFails(t) ==
    /\ t \in Upgrade
    /\ job[t].at \in {"queued", "checked", "next", "stopped", "unpacking", "removed",
                      "extracted", "checking", "isr"}
    /\ Gone(t, "over")
    /\ Close(t, "failed")
    /\ UNCHANGED <<unit, hosts, proc, install, svc, cluster>>

\* The version is recorded; verification only logs.
RecordVersion(t) ==
    /\ t \in Upgrade
    /\ job[t].todo = {}
    /\ Go(t, "next", "flushed")
    /\ cluster' = [state |-> "running", version |-> "new"]
    /\ UNCHANGED <<unit, hosts, proc, install, svc, status>>

\* The verdict of a run that got through: the last status is flushed, the job closes.
Report(t) ==
    /\ Go(t, "flushed", "over")
    /\ Close(t, "completed")
    /\ UNCHANGED <<unit, hosts, proc, install, svc, cluster>>

\* get_cluster syncs the header with the rows, an upgrade's as well: only
\* "deploying" is spared.
Synced ==
    IF \E n \in Node : svc[n] = "error" THEN "error"
    ELSE IF \E s \in {"running", "stopped"} : \A n \in Node : svc[n] = s THEN svc[SomeNode]
    ELSE IF cluster.state = "running" THEN "error" ELSE cluster.state
GetCluster ==
    /\ cluster' = [cluster EXCEPT !.state = Synced]
    /\ UNCHANGED <<unit, hosts, proc, install, svc, status, job>>

\* delete_host asks nobody.
DeleteHost(n) ==
    /\ n \in hosts \cap Fragile
    /\ hosts' = hosts \ {n}
    /\ UNCHANGED <<unit, proc, install, svc, cluster, status, job>>

Boot(u, n) ==
    /\ proc[u, n] = "starting"
    /\ u = "kafka" => install[n] # "none"
    /\ proc' = [proc EXCEPT ![<<u, n>>] = "ready"]
    /\ UNCHANGED <<unit, hosts, install, svc, cluster, status, job>>

Die(u, n) ==
    /\ n \in Fragile /\ u \in Mortal
    /\ proc[u, n] # "down"
    /\ proc' = [proc EXCEPT ![<<u, n>>] = "down"]
    /\ UNCHANGED <<unit, hosts, install, svc, cluster, status, job>>

Thread(t) ==
    \/ StartNode(t) \/ NodeHealthy(t) \/ LeaveIsr(t) \/ Report(t)
    \/ \E n \in Node : StopNode(t, n)
    \/ LoadServices(t) \/ RestartFails(t) \/ StartFails(t) \/ Flush(t)
    \/ PassCheck(t) \/ BeginUpgrade(t) \/ MarkStopped(t) \/ RemoveOld(t)
    \/ UnpackNew(t) \/ UpgradeFails(t) \/ RecordVersion(t)

Next == \/ \E t \in Task : StartTask(t) \/ Thread(t) \/ Kill(t)
        \/ \E n \in Node : DeleteHost(n)
        \/ \E u \in Unit, n \in Node : Boot(u, n) \/ Die(u, n)
        \/ GetCluster

\* The steps that wait for a host.  A command has no timeout: exec_command waits for
\* the exit status before its timeout counts; nor has a copy.
OnHost(t) ==
    \/ job[t].at = "next" /\ job[t].todo # {}
    \/ job[t].at \in {"queued", "flushed"} /\ t \in Upgrade
    \/ job[t].at \in {"stopped", "unpacking", "removed", "extracted", "checking", "isr"}

\* So a thread need only take its other steps.
Spec == Init /\ [][Next]_vars
FairSpec == Spec /\ \A t \in Task : WF_vars(~OnHost(t) /\ Thread(t))

-----------------------------------------------------------------------------
(* Properties.                                                             *)

\* An operation that cannot bring a node back ends there: it never has two nodes
\* out at a time, and reports success only if each is back and was seen so.
OneNodeOut ==
    \A t \in Task :
        /\ Cardinality(job[t].out) <= 1
        /\ status[t] = "completed" => job[t].out = {} /\ job[t].plan \subseteq job[t].seen

\* An operation as RollPromise sees it.
Planned == [t \in Task |-> job[t].plan]
Out == [t \in Task |-> job[t].out]
Back == [t \in Task |-> job[t].seen]
Roll == INSTANCE RollPromise WITH
            First <- Controller, Must <- Broker, Roll <- Task, told <- status, plan <- Planned,
            out <- Out, back <- Back, version <- cluster.version

\* Whatever other operations, deaths and stale rows come in between, each operation
\* by itself keeps what RollPromise says: one node out at a time, each once,
\* controllers first, one verdict, success only with all of them back, and a
\* version raised only when all brokers were.
KeepsRollPromise == Roll!PSafety

\* The broker's installation is gone by an upgrade that is about to replace it or is
\* known to have failed.
TakenBy(t, b) ==
    /\ b \in job[t].out
    /\ job[t].at = "removed" \/ status[t] \in {"failed", "lost"}

\* A broker whose installation was removed is never forgotten by a task that goes
\* on or reports success.
RemovalIsReported ==
    \A b \in Broker : install[b] = "none" => \E t \in Upgrade : TakenBy(t, b)

\* kafka_version is only raised once each broker's host has the new version in
\* /opt/kafka, whatever restarts, deaths and failed steps come in between, and it is
\* still there unless another upgrade has it out, which passed its check before.
VersionIsInstalled ==
    cluster.version = "new" =>
        \A b \in Broker : install[b] = "new" \/ \E t \in Upgrade : TakenBy(t, b)

\* That this is the version the brokers run does not hold: the upgrade of a cluster
\* with a unit and a directory of its own replaces those of another.
VersionRuns == cluster.version = "new" => unit = "kafka"

\* A task that was started gets a verdict, its worker dies, or it waits for ever for
\* one answer of a host: from some time on no task is running but one that waits so.
TaskEnds == \A t \in Task : <>[](status[t] = "running" => OnHost(t))

\* What the head of rolling_restart_manager.py says: "restart Kafka brokers one by
\* one".  No two brokers are down because a rolling operation stopped them.
OneByOne ==
    Cardinality({b \in Broker : proc[unit, b] = "down" /\
                   \E t \in Task : job[t].at = "stopped" /\ b \in job[t].out}) <= 1

=============================================================================
