------------------------------ MODULE Registry ------------------------------
(***************************************************************************)
(* Deploying a schema registry to a cluster that runs                      *)
(* (services/deployer.py, deploy_schema_registry): a background task that  *)
(* checks the port, records port and Service row, and runs a playbook for  *)
(* the one unit, schema-registry, a host has for all clusters.             *)
(***************************************************************************)
CONSTANTS
    SrCluster,     \* clusters
    SrHost,        \* hosts
    SrPort,        \* ports
    SrRequest      \* bound: tasks in all

ASSUME SrAssumption == "none" \notin SrPort

VARIABLES
    srRows,        \* Service rows of role schema_registry
    srPort,        \* schema_registry_port in the cluster's config_json, if it has one
    unit,          \* on a host: the unit file installed, and what runs
    srTask,        \* the tasks, and where their threads are
    lonely         \* history: clusters whose tasks never overlapped or died

srVars == <<srRows, srPort, unit, srTask, lonely>>

Nobody == "none"
SrUnit == [of : SrCluster \cup {Nobody}, port : SrPort \cup {Nobody}]
NoUnit == [of |-> Nobody, port |-> Nobody]
SrRow == [cluster : SrCluster, id : SrRequest, host : SrHost, status : {"deploying", "running", "error"}]
SrTask == [at : {"idle", "check", "find", "create", "reuse", "render", "copy", "start", "wait", "over", "dead"},
           cluster : SrCluster \cup {Nobody}, host : SrHost \cup {Nobody}, port : SrPort \cup {Nobody},
           row : SrRequest,
           status : {"running", "completed", "completed_with_errors", "error"},
           holder : SrCluster \cup {Nobody}]

SrTypeOK ==
    /\ srRows \subseteq SrRow
    /\ srPort \in [SrCluster -> SrPort \cup {Nobody}]
    /\ unit \in [SrHost -> [file : SrUnit, runs : SrUnit]]
    /\ srTask \in [SrRequest -> SrTask]
    /\ lonely \subseteq SrCluster

SrInit ==
    /\ srRows = {}
    /\ srPort = [c \in SrCluster |-> Nobody]
    /\ unit = [h \in SrHost |-> [file |-> NoUnit, runs |-> NoUnit]]
    /\ srTask = [r \in SrRequest |->
                    [at |-> "idle", cluster |-> Nobody, host |-> Nobody, port |-> Nobody, row |-> r,
                     status |-> "running", holder |-> Nobody]]
    /\ lonely = SrCluster

RowsOf(c) == {row \in srRows : row.cluster = c}
RowOf(r) == {row \in srRows : row.id = srTask[r].row}
MarkRow(r, status) == srRows' = (srRows \ RowOf(r)) \cup {[row EXCEPT !.status = status] : row \in RowOf(r)}
SrGoes(r, at) == srTask' = [srTask EXCEPT ![r].at = at]
SrEnds(r, status) == srTask' = [srTask EXCEPT ![r] = [@ EXCEPT !.at = "over", !.status = status]]
UnderWay(r) == srTask[r].at \notin {"idle", "over", "dead"}

-----------------------------------------------------------------------------
\* The endpoint makes the task and queues the thread, whatever the cluster's other tasks do.
AskRegistry(r, c, h, p) ==
    /\ srTask[r].at = "idle"
    /\ srTask' = [srTask EXCEPT ![r] = [@ EXCEPT !.at = "check", !.cluster = c, !.host = h, !.port = p]]
    /\ lonely' = IF \E q \in SrRequest : UnderWay(q) /\ srTask[q].cluster = c THEN lonely \ {c} ELSE lonely
    /\ UNCHANGED <<srRows, srPort, unit>>

\* The stop that is to precede the check is never sent: SSHManager is a local name of the
\* whole function there, unbound until later, and the error is swallowed.
Stopped(h) == unit

\* Who listens where, by unit name.
Listening(units, h) == {units[h].runs} \ {NoUnit}
Conflicts(units, r) == {u \in Listening(units, srTask[r].host) : u.port = srTask[r].port}

\* The port pre-flight: a port somebody listens on refuses the deploy, a host that
\* cannot be reached does not.
CheckPort(r) ==
    LET t == srTask[r] IN
    /\ t.at = "check"
    /\ unit' = Stopped(t.host)
    /\ \/ \E u \in Conflicts(unit', r) :
            srTask' = [srTask EXCEPT ![r] = [t EXCEPT !.at = "over", !.status = "error", !.holder = u.of]]
       \/ SrGoes(r, "find")
    /\ UNCHANGED <<srRows, srPort, lonely>>

\* The cluster's row, the first if there are two, is looked for ...
FindRow(r) ==
    /\ srTask[r].at = "find"
    /\ \/ /\ RowsOf(srTask[r].cluster) = {} /\ SrGoes(r, "create")
       \/ \E row \in RowsOf(srTask[r].cluster) :
            srTask' = [srTask EXCEPT ![r] = [@ EXCEPT !.at = "reuse", !.row = row.id]]
    /\ UNCHANGED <<srRows, srPort, unit, lonely>>

RecordPort(r) == srPort' = [srPort EXCEPT ![srTask[r].cluster] = srTask[r].port]

\* ... created if there was none ...
CreateRow(r) ==
    LET t == srTask[r] IN
    /\ t.at = "create"
    /\ srRows' = srRows \cup {[cluster |-> t.cluster, id |-> r, host |-> t.host, status |-> "deploying"]}
    /\ RecordPort(r)
    /\ SrGoes(r, "render")
    /\ UNCHANGED <<unit, lonely>>

\* Seeded fault: the port is recorded for a new row only.
ReuseForgetsPort(r) ==
    LET t == srTask[r] IN
    /\ t.at = "reuse"
    /\ srRows' = (srRows \ RowOf(r)) \cup {[row EXCEPT !.host = t.host, !.status = "deploying"] : row \in RowOf(r)}
    /\ unit' = [unit EXCEPT ![t.host].runs = NoUnit]
    /\ SrGoes(r, "render")
    /\ UNCHANGED <<srPort, lonely>>

\* ... or moved to the host; the unit there is stopped, whosever it is, if the host can be
\* reached, and the one on the host it moved from runs on.
ReuseRow(r) ==
    LET t == srTask[r] IN
    /\ t.at = "reuse"
    /\ srRows' = (srRows \ RowOf(r)) \cup {[row EXCEPT !.host = t.host, !.status = "deploying"] : row \in RowOf(r)}
    /\ RecordPort(r)
    /\ \/ unit' = [unit EXCEPT ![t.host].runs = NoUnit]
       \/ UNCHANGED unit
    /\ SrGoes(r, "render")
    /\ UNCHANGED lonely

\* No broker in the cluster, or no Apicurio archive after three downloads.
GiveUp(r) ==
    /\ srTask[r].at = "render"
    /\ MarkRow(r, "error")
    /\ SrEnds(r, "error")
    /\ UNCHANGED <<srPort, unit, lonely>>

RenderRegistry(r) ==
    /\ srTask[r].at = "render"
    /\ SrGoes(r, "copy")
    /\ UNCHANGED <<srRows, srPort, unit, lonely>>

\* The playbook: the unit file is replaced, ...
CopyUnit(r) ==
    LET t == srTask[r] IN
    /\ t.at = "copy"
    /\ unit' = [unit EXCEPT ![t.host].file = [of |-> t.cluster, port |-> t.port]]
    /\ SrGoes(r, "start")
    /\ UNCHANGED <<srRows, srPort, lonely>>

\* ... the unit is started, which does nothing to one that runs, ...
StartUnit(r) ==
    LET h == srTask[r].host IN
    /\ srTask[r].at = "start"
    /\ unit' = [unit EXCEPT ![h].runs = IF unit[h].runs = NoUnit THEN unit[h].file ELSE unit[h].runs]
    /\ SrGoes(r, "wait")
    /\ UNCHANGED <<srRows, srPort, lonely>>

\* ... and its port is waited for.
PlaybookSucceeds(r) ==
    /\ srTask[r].at = "wait"
    /\ unit[srTask[r].host].runs.port = srTask[r].port
    /\ MarkRow(r, "running")
    /\ SrEnds(r, "completed")
    /\ UNCHANGED <<srPort, unit, lonely>>

\* Any of its tasks may fail.
PlaybookFails(r) ==
    /\ srTask[r].at \in {"copy", "start", "wait"}
    /\ MarkRow(r, "error")
    /\ SrEnds(r, "completed_with_errors")
    /\ UNCHANGED <<srPort, unit, lonely>>

\* An exception (there is no handler) or the end of the worker: nobody writes a verdict.
ThreadDies(r) ==
    /\ UnderWay(r)
    /\ SrGoes(r, "dead")
    /\ lonely' = lonely \ {srTask[r].cluster}
    /\ UNCHANGED <<srRows, srPort, unit>>

SrNext ==
    \E r \in SrRequest :
        \/ \E c \in SrCluster, h \in SrHost, p \in SrPort : AskRegistry(r, c, h, p)
        \/ CheckPort(r) \/ FindRow(r) \/ CreateRow(r) \/ ReuseRow(r) \/ GiveUp(r) \/ RenderRegistry(r)
        \/ CopyUnit(r) \/ StartUnit(r) \/ PlaybookSucceeds(r) \/ PlaybookFails(r) \/ ThreadDies(r)

SrSpec == SrInit /\ [][SrNext]_srVars

-----------------------------------------------------------------------------
(* Properties.                                                             *)

\* The hosts another cluster's tasks have had to do with are not the cluster's own.
Foreign(c) == {srTask[r].host : r \in {r \in SrRequest : srTask[r].at # "idle" /\ srTask[r].cluster # c}}

\* A registry whose row says running runs on the host of the row and listens on the port
\* the cluster's config names, whatever deploys before it, to this host or another, were
\* refused, failed or moved it; so far as its tasks neither overlapped nor died and the
\* host is its own.
RegistryIsServed ==
    \A row \in srRows :
        LET c == row.cluster IN
        (/\ row.status = "running" /\ c \in lonely /\ row.host \notin Foreign(c)
         /\ \A r \in SrRequest : srTask[r].cluster = c => ~UnderWay(r))
        => unit[row.host].runs = [of |-> c, port |-> srPort[c]]

\* What the comment over the pre-flight says: a redeploy can reclaim its own port.
RedeployReclaimsPort ==
    \A r \in SrRequest : srTask[r].at = "over" => srTask[r].holder # srTask[r].cluster

=============================================================================
