# A formal model of Tantor

Tantor manages Kafka clusters on Linux hosts. A FastAPI back end (the SCM, several uvicorn workers over
one SQL database) deploys brokers with Ansible over SSH or through a Go agent that runs on each host and
keeps a WebSocket open to the SCM; a React console shows clusters, task logs and alerts.

This directory holds TLA+ modules of the parts in which several actors meet, the TLC configurations that
check them on small instances, and proofs, checked by TLAPS, of what holds for every instance.
`PROJECT.json` lists for each definition the source lines it stands for. Paths below are relative to `src/`;

    tlc -workers 2 -config MCAgentLink.cfg MCAgentLink     # one run
    tlapm AgentLinkProofs.tla                              # the proofs of one module

## 1. Inventory

| Part | State it keeps | Operations | Meets |
|---|---|---|---|
| Agent session: `agent/internal/ws/client.go`, `api/agents.py`, `services/agent_registry.py` | the Agent row (active, token hash and expiry, `token_version`); `config.yaml` and `agent.jwt` on the host; the Run loop; a map host to session in each worker | mint, revoke, install, dial, register, ack, evict, drop, restart | the RPC layer sends to whatever session the map holds |
| Agent RPC: `services/agent_transport.py`, `services/agent_registry.py`, `agent/internal/{dispatch,exec}` | pending futures of a session, the send lock, the running commands of the agent | `run_op`, `send_cmd`, deliver, time out, fall back to SSH | called by start, stop, restart and Kafka admin, from threadpool threads |
| Cluster deployment and life cycle: `api/clusters.py`, `services/{deployer,agent_deployer,cluster_manager}.py` | `Cluster.state`, `Service.status`, `DeploymentTask.status`, systemd units on the hosts | deploy, start, stop, delete, status, header sync | threads that share nothing but rows and hosts |
| Deploy log and stream: `services/deployer.py`, `api/ws.py`, `models/deployment_task.py` | the capped list of lines, `last_index` of each console | append, cut, stash and take the ACLs, poll | written by the deployers, read by the console |
| Rolling restart and upgrade: `services/rolling_restart_manager.py`, `services/upgrade_manager.py` | tasks in one worker's memory, brokers on the hosts | start, per-broker step, ISR wait, poll | clusters, RPC |
| Clusters, services, ports: `api/clusters.py`, `services/{port_preflight,cluster_paths,cluster_manager}.py` | Cluster and Service rows, port sets, units | create, quick deploy, add, remove, delete, clean up | deployment |
| Schema registry deploy: `services/deployer.py` | a Service row, a port in `config_json`, one unit per host, a task | check port, record, play, verdict | port pre-flight |
| Broker configuration: `services/config_manager.py`, `api/broker_config.py` | `server.properties` on each broker, the audit log | edit, bulk edit, roll back | agent or SSH |
| Alerts and monitoring: `api/{alerts,monitoring}.py`, `services/{alert_manager,monitoring_deployer}.py` | rules, channels, the MonitoringConfig row; the files and daemons of the stack | edit, push, reload, deploy; incidents from a webhook | Prometheus, Alertmanager, Grafana |
| Cluster linking: `services/cluster_linking_manager.py`, `api/cluster_linking.py` | ClusterLink rows, the MirrorMaker file, unit and process of a host | create, edit, deploy, start, stop, poll, delete | SSH |
| Kafka administration: `services/{kafka_admin,external_admin}.py`, `api/{topics,security}.py` | a five-second cache of topics, `kafka_users`, the audit trail; Kafka's topics, credentials and ACLs | list, create, delete, extend, validate; SCRAM users; ACLs | agent, SSH or a client library |
| Users: `api/auth.py`, `services/{auth_service,ldap_service}.py` | User rows, JWTs | login, create, disable, provision | every endpoint |
| Connect, ksqlDB and schema registry clients, TLS, config rendering, scans | little of their own | HTTP calls, command lines, text | RPC and SSH |
| Console (`frontend/`), installers, Terraform | | | poll and call the back end |

What is hard:

* **The session.** Three parties (the agent's loop, the handler's coroutine, the token endpoints in
  threads) write the same few facts; each end learns of a broken connection when it learns of it; a
  reconnect overlaps with the handler it replaces; workers do not share their maps.
  *Correct* means: commands go only to sessions that are served, at most one is open per host, a mint or
  revoke outdates the JWTs there are, a dead session leaves the map, and an undisturbed agent ends up registered.
* **The call.** Three clocks race with one answer, and the fallback repeats the operation elsewhere.
  *Correct* means: an answer is true, the agent runs an operation at most once, nothing is left pending,
  every caller is released.
* **The cluster.** Requests read a row, work for seconds or minutes, and write back what they changed; two
  deploys, or a deploy and a delete, overlap; a worker dies half way.
  *Correct* means: "deploying" has an owner, a verdict is final, every deploy whose rows stay ends with one, and polling
  repairs whatever stale write was left behind.
* **The rolling operations.** A thread takes one node after the other down, over SSH, for minutes; nodes,
  hosts and workers fail beside it, and so may a second thread nobody excluded.
  *Correct* means: a node that does not come back stops the operation, the recorded version is in
  `/opt/kafka` of every broker's host, a destroyed installation is not passed over, every task ends unless a host
  keeps it waiting.
* **The log.** A reader indexes a list that is cut and shortened under it.
  *Correct* means: the newest lines survive, over SSH the head as well, a console sees lines in order, its stream ends.
* **Rows and the world.** Everything else the console does changes a row and something outside of the
  database (a file, a unit, Kafka), one after the other, without a lock, in several steps that may fail
  or be the worker's last; and other requests read either side in between. *Correct* means: what a row
  says is so (a cluster's ports are its own, a removed service does not run, a registry, a link or a
  monitoring stack called running runs as its row says, credentials are those of the users listed),
  and what the audit log and the topic list tell is what happened, except after what the code gives
  no protection against, which each property names.

`PROJECT.json` lists each hazard at the line where it bites, with the properties that guard it or the
reason why none does yet.

## 2. Modules

    AgentLink  <- MCAgentLink              the session of agent and SCM
               <- AgentLinkProofs
    RpcPromise <- AgentRpc <- MCAgentRpc   one call; RpcPromise is what a caller may rely on
                           <- AgentRpcProofs
    DeployPromise <- Deployment <- MCDeployment    a cluster from configured to gone
                                <- DeploymentProofs
    RollPromise   <- Rolling    <- MCRolling       rolling restarts and upgrades
                                <- RollingProofs
    StreamPromise <- TaskLog    <- MCTaskLog       the log of a task and its readers
    Registry   <- MCRegistry               deploying a schema registry
    Topics, Access, Linking           <- AdminProofs       topics, users and permissions, links
    Provision, Registry               <- ProvisionProofs   clusters, hosts and ports; the registry
    BrokerConfig, Monitoring, TaskLog <- OperationsProofs  edits, alerting, logs
    MCConsole  -> BrokerConfig, Monitoring, Provision, Registry, Linking, Topics, Access, TaskLog
               <- ConsoleProofs            from the parts to all of them

The MC modules only extend the module they check: parameters are constants and the `.cfg` files give them
values. `MCConsole` checks eight modules in one run. They share no variable, so their behaviours in parallel are
mere products; `part`, chosen in the initial state, says which of them moves, and the states of the parts add
up. Where the properties are about parts of the program that meet (a deploy and the log it writes, a removal and a
deploy of the same cluster), the meeting is inside one module. Where one part only reads what another writes, the model
cuts: `BrokerConfig`, `Linking`, `Monitoring`, `Topics` and `Access` take the Cluster and Service rows that
`Provision` changes as given, and section 6 says what of that is lost. Definitions that a comment calls *Seeded fault* stand next to the definition they distort. They
are used by no behaviour; putting one in the place of its neighbour makes the property that
`PROJECT.json` pairs with it fail, which shows that the property depends on that code.

### AgentLink

`row[h]` is the Agent row, `box[h]` the broker host (the install command last shown, `config.yaml`, the
token in the process, `agent.jwt`, the phase and back-off of `Run`), `conn[c]` a connection with the
`agent_ws` handler that serves it, `byHost[w]` the registry of worker `w`. Registration tokens are numbered as they
are minted, a JWT is named by the `token_version` it was made at; hashing and signing are thereby abstracted to
"names this token" and "names this row at this version". Either may expire (`TokenExpires`, `JwtExpires`), and
an expired JWT is refused for ever, since the agent prefers its JWT to the configured token.

The token endpoints read the row, hash, and commit the columns they changed. `past[h]` keeps everything the
row has been, and `CommitMint` and `CommitRevoke` may rest on any of it, so any number of requests overlap in any way;
`Written` leaves a column alone that the request did not change from what it read. `crossed[h]` is history: a
commit has written over another's. The module begins when each host has had its first mint; `host_id` is not unique, and
two first mints at once would make two rows.

The handler is cut at its awaits and at its transaction: `Authenticate`, `CommitRow`, `SendAck`,
`RegisterSession`, `ClosePrevious`, `LeaveLoop`. Between `_authenticate` and the ack there is no await, so
`LoopFree` keeps every other handler of that worker out, while commits of the token endpoints, which run in
threads, and the other workers may step in between: this is how `CommitRow` can clear a newer token than
the one that was presented. A socket is `open`, `closed` by the server, or `half`: left by the agent, with
the server unaware. `Removed` is `AgentRegistry.remove` as it is, keyed by the agent's id.

### AgentRpc and RpcPromise

One host on one worker. `Invoke` is `run_op` up to the submission, then the coroutine takes the lock,
sends, and waits; `CallerTimeout`, `AwaitTimeout` and the agent's own deadline may fire in any order. What the
agent answers says whether the command ran (`Ran`, `NotRun`): a `result` with an exit status, that of the kill at the
deadline included, and the error frame with the code `timeout` of a command that outlived its deadline
without being killed, or ended well at it (`exec.go:63`), are of one that ran; every other error frame, and the `result`
with exit code -1 of a command that could not be started, of one that did not. `Receive` is
`_receive_loop` with `deliver`. `Drop` loses commands, kills running ones and loses any part of the
answers on their way. `Fallback` is the `except` branch of every caller.

`RpcPromise` has three variables and four actions: ask, run at the agent, settle, run over SSH. It says
what a caller may rely on (`PromisedAnswer` reads an answer as "ran" or "did not run"), and also how little "no answer" means: both transports may then have
run the operation. `KeepsPromise` maps `caller`, `runs` and `ssh` to it and is checked with its fairness.

### Deployment

`state`, `svc` and `task` are columns, `unit[h]` is what systemd has on host `h`, `job[d]` the position of
a deploy between its commits, and `op` one start, stop, delete or status request. SQLAlchemy writes
only the attributes that differ from what was read; `Written` does that, so a request that read an old
state and wants to leave the same state behind writes nothing, and one that wants another state overwrites
whatever was committed meanwhile. `Synced` is `sync_cluster_state_from_services`. A deploy knows the services it
has loaded (`Load`); `remove_service` asks for no particular state of the cluster, so it may take one of them away
in the middle. A deleted cluster makes later reads raise: `Escape` is the last-ditch handler with its outcomes. A
removed service makes the flush of its status raise (`FlushFails`), after the playbook or in the agents'
loop, and no handler can write any more: the deploy is `stranded`, its task running and the cluster deploying for
ever. `Kill` is the death of a worker; the code has no recovery at start-up and neither has the model.

`DeployPromise` is what the operator may rely on: five variables (the header, the verdicts, the hosts each
attempt has brought up, the attempts that have quit, the hosts that have not left) and nothing of requests, stale rows
or stages. `KeepsDeployPromise` maps `state` and `task` to the first two, takes the next two from `job` and the
members from the rows (`Served`). The promise also says what is *not*
promised: a playbook brings up hosts of a cluster that is gone, and between hand-over and verdict
the header may be turned by anybody.

### TaskLog

Lines are numbered as they are logged; `Capped` is the cut in the `_append_log` of `deployer.py`, which keeps a head and
puts a marker, and `Trimmed` that of `agent_deployer.py`, which keeps the newest lines only. `StashAcls` and `TakeAcls`
are the sentinel line that carries the initial ACLs through the log. `SetStatus` and `Return` keep the
order of each path: after a playbook the verdict precedes the closing lines, elsewhere it is the last
thing. `Poll` is one round of `deployment_logs`, which reads lines and status together.

`StreamPromise` is what somebody who follows a deploy may rely on: how many lines were logged, whether
any was taken from the log, whether there is a verdict, and what each follower has been shown, but not how the log is
kept. `KeepsStreamPromise` counts the log as whole (`Whole`) until it is cut, and not at all for a deploy
with initial ACLs, whose sentinel is one line that no console need see.

### Provision

Units are named by cluster, host and role (`UnitName`), which is what `cluster_paths` makes of a fresh id; rows have an id
besides (`RowId`), since nobody forbids a second service of one role on a host. Port sets are numbered
by the number of steps of 100 from the default (`Slots`, ten in the code). A request reads rows (`PickPorts`,
`BeginDeploy`, `BeginRemove`, ...), may be busy on the hosts (`Play`, `CleanUp`, the connection tests of
`add_services`), and commits. Requests that should have looked at each other do not: `excused` and `crossed`
record, at the moment it happens, that one overlapped another or that ports were taken without comparing, and
the properties promise nothing of those and everything of the rest. `CleanUp` is one step although units are
stopped one after the other, because what another request may do in between is possible before and after. Over SSH its
success means that the units are stopped; over an agent a `systemctl cat` that fails counts as "no such unit" and an
`is-active` that fails as "not running" (`agent_transport.py:129-147`), and where the host's row is gone nobody is asked:
`unsure` remembers the units a clean-up took for stopped while they ran on. A request adds one row, and
`create_cluster` gives a host one role.

### Registry

A task walks from `check` over `find`, `create` or `reuse`, `render`, `copy`, `start` and `wait` to its
verdict; each step is a commit of the code or a task of the playbook. The unit `schema-registry` is one
per host whatever the cluster, so a deploy for one cluster replaces another's registry. There is no
`except` clause: `ThreadDies` leaves the task running. `Stopped` is the stop of the old registry, which
never takes place (section 4).

### BrokerConfig

`properties[b]` is the file as a function from keys to values, `audit` the rows of `ConfigAuditLog`. An edit
reads the whole file, replaces a line, writes the whole file, and commits an entry; `via` is the way it
went. An agent whose answer does not come may still write: `late` keeps that write until it happens. A bulk
edit does one broker after another and goes on after a failure that is a `ValueError` or `RuntimeError`; a
rollback is an update that afterwards marks the newest entry of its key.

### Monitoring

Every edit of a rule or channel commits, reads all rows and overwrites the two files of each
deployed stack (`ReadRows`, `Push`, `NextReload`); a deploy is a series of steps over SSH, each of which may
fail, with the flag `failed` looked at where the code looks (`FailIfNeeded`), and `SaveConfig` at the end.
Prometheus does not start, or keeps what it has, when a rule's expression is one it cannot parse (`bad`). A push that
`amtool` refuses because of a channel writes both files and reloads neither: the second disjunct of `Push`.

### Linking

`links` are the rows, `mm2[h]` the file, the unit, its state and what runs, of MirrorMaker on a host. The unit has
`Restart=on-failure`: one that fails is `activating` until systemd has started it again (`MirrorFails`, `MirrorRestarts`),
and a poll writes nothing for such a unit, nor does a deploy ask what became of its start. `LoadLink`
reads the row, the steps of the operation follow, and `WriteState` writes the state only where it differs
from what was loaded. `StartFails` and `StopFails` report a failure whether or not systemd did as it was told.

### Topics

`call[r]` is a request thread, `cache` the entry of `_TOPIC_LIST_CACHE`. Reading the cache, asking Kafka and
storing the answer are three steps, as the lock is not held while Kafka is asked. A change is executed, then
the cache is dropped (`DropCache`). `missed` is history: the topics changed since a list was
read. A validation lists, makes the test topic, probes it with messages and removes it.

### Access

`credentials`, `acls` are Kafka's, `rows` and `trail` the database's. Passwords are named by the request
that set them. A deletion goes through the mechanisms one by one; an ACL request on an external
cluster goes through its operations one by one, on a managed cluster it is one command. The audit entries
come with the commit at the end. `rows` is a set, each row named by the request that made it: the query that a
rotation begins with has no order, so it may take any row of the user.

### Rolling

`job[t]` is the thread of request `t`: the node in hand, the plan, what is still to come, and two histories
that properties read: `out`, the nodes stopped and not seen healthy since, and `seen`. `unit` says which systemd unit the
cluster has: a restart goes to that one (`UnitOf`), an upgrade to `kafka` and to `/opt/kafka`, whatever the
cluster's own. `proc[u, n]` is the process of unit `u` on the host of `n`, `install[n]` what lies in `/opt/kafka` there,
`svc` and `cluster` the rows, `status[t]` the entry in the worker's memory. Restart and upgrade share the steps on a node (`StopNode`, `StartNode`,
`NodeHealthy`, `LeaveIsr`) and differ in their ends: a restart commits its rows when it gives up or is done
(`Flushed`, with the rows as they were loaded), an upgrade commits row by row and touches
none when it fails. A stop may leave the process running, as the code only warns; a start is then a no-op.
The wait for replicas ends either way, so `LeaveIsr` has no condition. `GetCluster` is the header sync, which
reads the rows of an upgrade in progress like any others.

`RollPromise` is what an operator may rely on of one operation, however many there are: a plan, at most one node out of
it, nodes that are back, one verdict, and a version that is raised only with all brokers back.
`KeepsRollPromise` reads plan, `out` and `seen` from `job`. What several operations do to a cluster together is
not promised: that is `OneByOne`, which is violated.

## 3. Runs

| Run | Instance | Shows |
|---|---|---|
| `agent_link` | 1 host, 2 workers, 2 connections, a mint and revokes that overlap | `RegistryServed`, `OneOpenSession`, `PendingIsNewest`, `CommitOutdates`; under `FairSpec` `DeadSessionLeaves`, `AgentSettles` |
| `agent_link_evict` | 1 worker | **violated**: `OnlyHolderRemoved` |
| `agent_rpc` | 2 calls, 2 sessions | `TruthfulAnswer`, `AgentAtMostOnce`, `PendingMatchesCoroutine`, `CallsEnd`, `KeepsPromise` |
| `agent_rpc_drop` | 1 call, 1 session | **violated**: `DropFailsInFlight` |
| `deploy_overlap` | 1 host, 2 deploys | `DeployingIsOwned`, `KeepsDeployPromise` |
| `deploy_settles` | 2 hosts, 1 deploy | `DeployEnds`, `HeaderConverges` |
| `deploy_stuck` | 1 host, 1 deploy | **violated**: `DeployingMeansInProgress` |
| `task_log_ends` | 3 lines, 1 console | **violated**: `StreamEnds` |
| `rolling` | 2 brokers, 1 controller, 1 restart beside 1 upgrade | `KeepsRollPromise`, `VersionIsInstalled`, `RemovalIsReported`, `TaskEnds` |
| `rolling_two` | 2 brokers, 2 restarts | **violated**: `OneByOne` |
| `console`, part `config` | 2 brokers, 1 key, 2 values, 2 requests | `AuditReplays`, `MarksOwnEntry` |
| part `monitoring` | 1 cluster, 1 host, 1 rule, 1 channel, 2 requests at a time, 3 in all | `RulesInForce`, `DeployedIsServed` |
| part `provision` | 2 clusters, 2 hosts, 2 rows per role and host, 2 port sets, 2 requests at a time, 4 in all | `PortsDistinct`, `RemovalKeepsEnough`, `NoUnitLeft` |
| part `registry` | 2 clusters, 2 hosts, 2 ports, 2 tasks | `RegistryIsServed` |
| part `linking` | 1 link, 1 host, 2 settings, 2 requests at a time, 6 in all | `RunningLinkKeptUp`, `StartAppliesSettings` |
| part `topics` | 1 topic and the test topic, 2 threads, 2 partitions | `ListIsCurrent` |
| part `access` | 1 user, 2 mechanisms, 2 permissions, 3 requests | `RowsTellCredentials`, `TrailTellsAcls` |
| part `log` | cap 5, head 2, 10 lines, 1 console | `HeadAndTail`, `StreamInOrder`, `KeepsStreamPromise` |
| `registry_redeploy` | 1 cluster, 1 host, 2 ports, 2 tasks | **violated**: `RedeployReclaimsPort` |

Four of these properties are refinements: `KeepsPromise`, `KeepsDeployPromise`, `KeepsRollPromise` and
`KeepsStreamPromise` say that the module, seen through a mapping of its state, behaves as its abstract specification
allows at every step. `VerdictIsFinal`, `OneNodeOut` and `StreamIsPrefix`, which they imply, stay as
definitions with theorems of their own.

Each passing run also checks the module's `TypeOK`, except `deploy_settles`, whose instance differs
only in size; `console` checks `ConsoleTypeOK`, that of the part that moves.

**Bounds.** `MaxVersion` and `MaxToken` bound mints and revokes of a host: after the first mint one more version and
one more token, reached by a mint and revokes in either order that have all read the first version. That suffices for a
credential that is outdated while it is in use, for a commit that clears a newer token, and for a mint and
a revoke that write over each other; that versions go on is left to the proofs. `Conn` bounds connections alive at
once (slots are reused without limit): two give the reconnect that overlaps with its predecessor.
`DelayCap = 1` collapses the back-off, whose value no checked property but the type depends on.
Hosts share nothing in `AgentLink`, so one is enough there; the theorems cover the rest. Two calls
over two sessions give an answer for another call and for another session. Two deploys of one
host contend for the state; services and units that disagree between hosts need two hosts, which
`deploy_settles` has. `Deployment` has one start, stop, delete, removal or status request in progress at a time
(`op`), next to any number of header syncs and of deploys: two overlapping stops are left out.
Two brokers are the fewest of which two can be out; the controller is there for the order and the
weaker health check. `Fragile` bounds the nodes that die of themselves and whose host may be deleted; one
broker suffices, as what the thread meets is the same for each. `Mortal` bounds the units whose processes die, to the
one both operations may work on. A second upgrade is left to the proofs. `MaxLogged` is twice `MaxLines`, so the log is cut several times, before and after the sentinel leaves.
In `console`, no part tells its requests `r1` and `r2` apart, so behaviours are checked up to their exchange
(`RequestSymmetry`). Two requests are what it takes for one to come between another's read and its write; the
third of `Access` comes after two that overlapped, and so do the further operations of `Monitoring`
(edit, lost push, deploy), `Provision` (create, add, remove, deploy) and `Linking` (deploy, edit, stop, start,
poll). Two brokers let a rollback on one meet an edit of the other; one key is enough for lost lines since
two edits of the same file lose each other's whatever the key. Two hosts let clusters share one, both or
none; with two clusters the fallback of quick deploy for a host whose port sets are all taken is
not reached, and left to the proof, where `Slots` may be one. A monitoring host shared by two
clusters is excluded by the properties (`alone`), so one cluster is checked. `MaxPartitions` of two gives
a topic something to grow to.
`CHECK_DEADLOCK FALSE` is set where the system really stops: all calls answered, the cluster gone, the
log written.

**Fairness.** `AgentLink`: strong fairness of a handler's next step, because asyncio runs every ready
coroutine although another handler of the worker may hold the loop again and again; weak fairness of
dialling, reading the ack and seeing a close, because `Run` never stops. Nothing is assumed of the
operator, the network or crashes; `AgentSettles` assumes that disturbances end and that the JWT the agent has stays current, as an outdated or expired one is refused for ever. `AgentRpc`: the
clocks run and the coroutine gets its turns; the agent and the network owe nothing. `Deployment`: the
background task's thread goes on, the console keeps polling, a host that is probed again and again
answers now and then (strong fairness of `ProbeHost`). `TaskLog`: the console's loop polls. The other parts of `console` have
safety properties only and assume nothing. `Rolling`:
weak fairness of a thread's next step unless it waits for a host (`OnHost`): `SSHManager.exec_command` waits for the exit
status before its timeout counts, and a copy has none, so a host that hangs keeps the thread for ever. Nothing is
assumed of hosts, brokers or workers, and `TaskEnds` says that a task ends or waits so.

## 4. What the violated runs show

* **`OnlyHolderRemoved`.** `AgentRegistry.remove` means to leave a newer session alone but compares
  `agent_id`, which names the Agent row and is the same for every session of a host. After a reconnect
  the old handler, closed by the new one, takes the new session out of the map: the host is
  "disconnected" until the agent happens to reconnect.
* **`DropFailsInFlight`.** `docs/AGENT_PROTOCOL.md` says that commands in flight at a drop are failed with
  `connection_lost`. They stay pending until `wait_for` gives up. `CallsEnd` shows that they do end.
* **`DeployingMeansInProgress`.** A deploy over the agents that fails tells its task and leaves the cluster
  "deploying": every later deploy is refused as already in progress and the header is never synced.
* **`StreamEnds`.** A successful deploy over the agents closes its task as `success`, a status the
  WebSocket does not know, so its consoles poll for ever.
* **`OneByOne`.** `POST /rolling-restart` asks nobody: two restarts, or a restart and an upgrade, go through
  the same brokers side by side and have two of them stopped at a time. The shortest trace takes them in
  different orders (the query has none); with one order it takes a second request while the first is
  further on.
* **`RedeployReclaimsPort`.** The comment over the schema registry's pre-flight says that an existing registry
  is stopped first, so that a redeploy can reclaim its own port. `SSHManager` is used there but
  imported further down in the same function: Python takes it for an unbound local, the `UnboundLocalError`
  is swallowed by `except Exception: pass`, nothing is stopped, and the redeploy is refused over its own port.

Seen while modelling, stated where a definition fits, and in no run yet: `RegenerateHelps` (the
troubleshooting table of `agent/README.md` advises a new token, but the agent prefers its JWT and
the installer does not restart a running service); `DeletedLeavesNothing` (a deploy in progress starts the
units again after a delete removed them); `StreamComplete` (a console closes on the verdict, before the
closing lines); initial ACLs are lost if the first deploy fails or goes over the agents;
the duplicate detection and the heartbeat cut-off of `docs/AGENT_PROTOCOL.md` are not in
the code, and a command killed at its deadline is answered with a result (exit code -1), not with the error `timeout`,
which is left to commands that could not be killed; the reconnect delay is never reset after a good session;
a mint and a revoke that overlap leave a pending token on an inactive row, or an active row without one, and
two that overlap write the same version, so that a JWT issued between them stays valid;
a service removed under a deploy leaves its task running and the cluster deploying for ever (`stranded`);
`VersionRuns` (an upgrade stops, replaces and starts the unit `kafka` in the default directory, although clusters
have units and directories of their own, so the recorded version need not be what the cluster runs);
a clean-up over an agent that does not answer succeeds with the unit running, though the comment over it in
`delete_cluster` says that every unit is stopped and its ports verified free; a failed upgrade leaves the cluster "upgrading" and its broker
stopped; restart tasks are said to follow the pattern of `deployer.py`, which keeps its tasks in the database,
but a poll of another worker finds none; a restart counts the nodes it skipped as restarted.

In the parts of `console`, modelled as the code does it and without a run of their own:

* *Configuration.* A bulk edit of an external cluster calls `external_admin.describe_cluster`, which does not
  exist, takes the failure for an empty list and reports success with no broker edited. A bulk edit is said
  never to abort the batch and catches `ValueError` and `RuntimeError` only. A rollback marks "the latest" entry of
  its key without asking for the broker (`MarksOwnEntry` has to except an edit of another broker). An external
  cluster's topic configuration is changed with a call that resets every key not named.
* *Topics.* `_topic_list_invalidate` is documented for create, delete and alter; alterations and more partitions
  do not call it. The comment on internal topics says the SSH path skips them; only the TCP path does. The
  validation of an external cluster goes past the cache in both directions.
* *Users.* Rotating the password of a user without a row creates a credential; a user with a row
  under each mechanism keeps the old password under the other. The exit codes of a deletion are ignored.
* *Monitoring.* A comment in `_trigger_reload` says that after a failed push "operator can re-deploy"; but a rule that does
  not parse keeps Prometheus from starting, and the deploy fails before it would push the corrected file. Reloads go to
  the port of the settings, not to the stack's own. Two clusters on one monitoring host overwrite each
  other's files. An external Prometheus step is meant to bail out loudly from a subshell whose status nobody reads.
  A dashboard that cannot be provisioned does not fail the deploy.
* *Linking.* A start does not restart a unit that runs, so edited settings wait for a stop; a failed stop leaves the row
  as it was; a MirrorMaker that fails at every start is called running, by the deploy whatever `is-active` says and by polls
  because they pass over `activating`.
* *Alerts.* An incident row is "one firing/resolution pair", but a second firing reuses the row and keeps the
  first start and the first resolution; a failure to list the firing alerts reads as none firing, and
  resolves what is open. Incidents are not in a module.

## 5. Proofs

Every invariant and every action property that a run checks is also proved, for any number of clusters, hosts,
requests, calls, deploys, brokers, topics and so on and every bound, and so is the safety part of every refinement. A run
says on a small instance that the inductive invariant holds; the proof says that it is kept by every step. Each proof
has one step per action of `Next`; frame lemmas say once what a step of one actor leaves to the others.

Assumptions on the constants are named, stand in the module that declares them and are evaluated by every run:
the sets a console cannot be without are not empty, values that stand for "none" are not members of the set they
stand beside, bounds are numbers, a cap leaves room for a head, a marker and a tail. Only `Provision` asks that a
set (of hosts, of row ids) be finite, as it counts. No theorem has a hypothesis besides.

**`AgentLinkProofs`**, from `LinkAssumption`.

* `TypeCorrect`: `TypeOK` alone is not inductive: `ReceiveAck` follows `box[h].link` into `conn`, which makes sense only
  if an agent that registers holds a connection. `Typed` adds that (`PhaseLink`).
* `SessionsServed`: an entry of the map points to a handler of that host and worker that is replacing its
  predecessor or receiving. The step that matters is `LeaveLoop`: `Removed` empties the slot whoever
  holds it, so it also empties it of the session that returns. The same generosity is what
  `OnlyHolderRemoved` complains of: the code errs on the side of forgetting a live session, never of keeping
  a dead one.
* `NewestTokenOnly`: the late clearing of `CommitRow` can only take a token away. A mint or revoke commits on a row that
  may have changed since it was read; `ReadsFit` says what old readings still tell of the row while no commit was
  crossed, which is why the row of a pending token is active then. That the token is the newest holds crossed or not.
* `OneSessionOpen`: follows from `LinkConsistent`, which says of every connection who holds it: an open one is
  the `link` of its host's box, and one the box has left is not open at its end. Of two open ones both would be
  the link. `Follows` is the frame: no step but a dial makes a connection open.
* `CommitsOutdate`: no JWT and no ack runs ahead of the row (`CredentialsBehind`) as the ack an agent reads comes from
  its own connection, hence its own row (`LinkConsistent`). A commit that was not crossed raises the version of that
  very row (`EndpointGrows`), so all of them are behind afterwards.

**`AgentRpcProofs`**, from `RpcAssumption`. `RpcInv` says what the parties know of a call. `FramesTell`: a frame travels
on the session the call was submitted to, a command only while the agent has not started it, an answer only as the
execution ended. `CallsTell`: the agent ran it at most once and not before it was sent (`AgentTells`); a future
holds what the agent did and is in the dict as long as its coroutine waits (`FutureTells`); the caller falls back
only without an answer (`CallerTells`). From it `RpcTypeCorrect`, `AnswersTruthful`, `RunAtMostOnce`, `NoFutureLeft`.

* `TransportKeepsPromise`: `Spec => P!PSafety`, the safety part of `KeepsPromise`. Under the mapping of `AgentRpc` each action is an action of
  `RpcPromise` or a stutter, one lemma each. `RpcInv` is needed where the promise says "not twice" and "only what happened".

**`DeploymentProofs`**, from `DeploymentAssumption`. `DeployInv` joins the types to `TasksFollow` (the status of a task follows
the stage of its deploy, so that whatever closes a task finds it running, or finds the verdict it would write) and
`Owned` (a cluster that shows deploying has a deploy at work, killed, failed over the agents, or stranded). Both are
about rows read long before they are written, so the proof goes through `Written`. From it `DeployTypeCorrect`, `DeployingHasOwner` and,
as an action property, `VerdictStays`.

* `DeploymentKeepsPromise`: `Spec => KeepsDeployPromise`. `PromiseInv` adds to `DeployInv` that only a deploy that is
  bringing hosts up has any done (`DoneFits`), that it has loaded every service still there and handed over with all of
  them up (`ListFits`, `HandsOver`), and that a request knows of removals and none is left of a cluster that is gone
  (`ReadFits`, `RemovesOnly`, `GoneFits`). `DoneFits` is what lets a later stage stand for "all up"; `GoneFits` is why `Commit`, which does not look
  whether the row is there, never brings a cluster back. `AdvanceSeen` says once what the promise sees of a step from
  one stage to another; a lemma per action of the promise follows (`TakeShows`, `HandOverShows`, `FailShows`, ...).
  `QuitShows` is the delicate one: a deploy that has already quit may still turn the header.

**`RollingProofs`**, from `RollingAssumption`.

* `TypeCorrect`, and `OneOut`. The strengthening says per thread what it has out at each place (`OutShape`), that no
  node of the plan is lost (`PlanKept`), and that success comes last (`Verdict`). `RestartFails` and `UpgradeFails`
  are the steps that matter: the thread ends and keeps what it had out.
* `VersionTold`: for any number of upgrades. `Upgrading` says that where an upgrade has seen a broker, or starts it, the old
  installation is gone for good, since nothing brings one back; `Raised` that this is so of every broker once the version is
  raised. What is not new there was taken out by an upgrade that passed its check before (`RemovalTold`), and
  the property says that it has it out still. `Restarting`: a restart never touches an installation.
* `RollingKeepsPromise`: `Spec => KeepsRollPromise`, for any number of restarts and upgrades. `Steered` adds per
  thread that what is told follows its stage, that what is to come is planned and not yet seen, and that an
  upgrade at work has planned all brokers; that controllers come first then follows from `MayBeNext` and `PlanKept`,
  and that a version is raised with all brokers back from the empty list of those to come.
* `RemovalTold`: a task that failed or was lost has no thread any more
  (`Settled`), so what it had out stays its business; the removal of a second upgrade makes that one the one that answers.

**`AdminProofs`**, from `TopicsAssumption`, `AccessAssumption` and `LinkingAssumption`.

* `TopicsTyped`, `ServedListUpToRaces`. What is stored was read earlier, so the invariant has to speak of lists on their way:
  `OnTheWay` says that one agrees with Kafka but for what `missed` has collected since. The step that matters is
  `StoreList`, and `ChangeSeen` the lemma about every change.
* `AccessTyped`, `RowsTell`, `TrailTells`. A request applies its change first and commits rows and trail after it. `UserHolds`
  and `GrantHolds` say, for what no two requests have fought over, how far its one request has got. `RowsKnown` is
  needed because a rotation finds its row before it runs the command, and `UserHolds` has to say that the row
  is still there when it writes it.
* `LinkTyped`, `RunningKeptUp`, `StartApplies`. A request writes the row from the state it has loaded and the host from the
  settings it has loaded. `LinkInv` ties an undisturbed request to the row it works on and the file it has installed
  to the settings it has loaded (`RequestsHold`), a host to the links placed on it (`HostsHold`), and a link of its
  own host to what its unit is doing there (`LinksHold`): up for a link called running, whether it mirrors at the
  moment or not.

**`ProvisionProofs`**, from `SlotsAssumption` and `SrAssumption`.

* `PortsStayDistinct`: `Apart` says that a picked port set differs from that of every cluster of which a service was seen;
  it survives because a cluster never comes back and never changes its ports.
* `UnitsHaveRows`: `Calm` says what a request in progress may rely on: no deploy beside a clean-up, units that a
  deletion has to stop among those it has read, what runs on after a clean-up `unsure`, services of a playbook still there.
* `EnoughRemain`: `AllBacked` says that what is being removed was counted, still leaves enough, and that nobody else
  removes from that cluster; it rests on facts about cardinalities (`OfFinite`, `EnoughGrows`, `QuickEnough`).
* All three and `ProvisionTyped` need `ProvShaped`: a request is about a cluster that was created, and about services of it.
* `RegistryTyped`, `RunningIsServed`: `SrInv` says what a task may rely on while its cluster's tasks neither overlap nor
  die: that the row it found or made is the one there is and the port recorded is the one it asked for
  (`TaskFits`), and that a host no other cluster was sent to has no unit of another (`UnitsFit`).

**`OperationsProofs`**, from `ConfigAssumption`, `MonAssumption` and `LogAssumption`.

* `AuditReplays` (`LogReplays`): what a commit records was read before the write. `Kept` says that while no two edits of a broker overlap, the
  one at work has read the file as it is and writes it with one line changed; `Chained` that the log goes on from entry
  to entry. Both speak of the newest entry of a set, which `LastOne` finds by well-founded induction on the numbers.
* `MarksOwnEntry` (`MarksItsOwn`): the mark goes to the newest entry of the key. `RollbackFits` says that a
  rollback has written nothing before its commit, then exactly one entry, the newest unless `apart`.
* `RulesInForce` and `DeployedIsServed` (`RulesAreInForce`, `DeployedServes`): a stack is up and has its rules before the deploy records it. `Progress` says how far each
  request has got and what therefore holds on its host already: after the start of Prometheus it is served,
  after a reload that did not fail it is in force. `OwnHosts` says that no row, file, stack or request of another cluster
  reaches the hosts of a cluster that is alone. `MonSettled` is the property with the requests in progress excepted.
* `HeadAndTail` (`LogKeepsEnds`): over the agents a cut leaves a run of lines a run. Over SSH what it
  makes of a log depends on where its lines lie. `Shaped` gives every line by its place: the log counts
  up, from 1 or, the sentinel gone, from 2 (`Uncut`), or it is cut into first lines, one or two markers, last lines (`Cut`);
  that there are never three is because a cut keeps the head's length and drops what follows.
  `AppendFull` says what `Capped` does to each place.
* `StreamInOrder` (`StreamGoesUp`): `InOrder` adds that what lies past a console's index is newer than all it was sent, which the cut
  and the taking of the ACLs both keep, because they move lines to the front. `StreamIsPrefix` (`StreamSkipsNothing`):
  `InStep` says that the index counts what was sent.
* `TaskLogKeepsStreamPromise`: `LogSpec => KeepsStreamPromise`. A poll shows what lies past the index, so `InOrder` and `InStep`
  give order and completeness of what a console has been shown; `StreamInv` adds to `LogInv` that an empty log
  is one nothing was logged to, and that there is a verdict only at the end, so that none is taken back.

**`ConsoleProofs`**. `ConsoleIsItsParts`: a behaviour of `ConsoleSpec` is a behaviour of each of the eight parts, since a part that
does not move stutters. With it the theorems about the parts become theorems about the composition that
`console` checks: `ConsoleTyped` for `ConsoleTypeOK`, and `ConsoleKeepsPromises` for all its other properties at once.

Only model-checked: liveness (`CallsEnd`, `DeployEnds`, `HeaderConverges`, `DeadSessionLeaves`, `AgentSettles`, `TaskEnds`, the
fairness part of `KeepsPromise`), since fairness and ENABLED are outside the proof system's reach, and what the
violated runs say.

## 6. Not modelled

In the modelled parts: heartbeats (they only touch `last_seen`), the agent's allowlist and the commands
themselves (a command is refused or runs), the multi-worker choice of transport (a caller on a worker
without the session falls back, which `Invoke` covers with an empty slot), TLS, a host deleted under its
agent, two rows for one host (first mints at once), SSH and Ansible themselves (they succeed, fail or leave a host
unreached), the content of log lines, services added under a deploy, restarts of external clusters and of ksqlDB or Connect units,
replicas and partitions, probes that write Service rows under a rolling operation.

Between the parts of `console`: a redeploy of the cluster writes `server.properties` anew, which ends the chain that
`AuditReplays` follows; a start of a link computes the file's path from the Service rows, so that it writes to another file than
its unit reads once the host's broker has come or gone; a daemon of the monitoring stack restarted outside a deploy, on a
file that does not parse, stays down with the stack called deployed; the brokers that `Topics` and `Access` ask are there.

In the parts of `console`: path and unit names as text, the ports of ksqlDB, Connect and JMX, the deploying
state that refuses a second deploy (`Provision` lets it happen; `Deployment` has it), foreign keys of the
database when a service is added to a deleted cluster (the row is there or the request fails), dashboards'
contents, incidents, metric collection, the task table of linking that only a progress view reads, a topic command that
an agent executes after SSH has done so, consumer groups, messages, partition reassignment, quotas.

Whole parts: configuration and template rendering, certificates, security scans, the clients of Connect,
ksqlDB and the schema registry, installers and Terraform are sequential scripts, text or thin clients; the
console appears as the requests it makes. Users and the key file are planned.

## 7. Plan

1. `Incidents`: the life of an incident under repeated and reordered webhook calls, and the poll that resolves it.
2. The initial ACLs from `config_json` through the sentinel to the broker, joining `Deployment` and
   `TaskLog`; `DeletedLeavesNothing` as a run.
3. `Users`: tokens issued before a role change, the last administrator, LDAP provisioning. The key file
   written by two workers at start-up.
4. `Rolling`: the restart of an external cluster; a probe of `Deployment` beside a rolling operation.
5. Proofs: an abstract specification of the session, in which a host is connected or not, that `AgentLink` implements;
   `AgentLink` and `AgentRpc` together, with what each worker sends over the one open session.
