----------------------------- MODULE Provision -----------------------------
(***************************************************************************)
(* Which clusters exist, on which hosts and ports (api/clusters.py with    *)
(* services/port_preflight.py and services/cluster_paths.py): the wizard,  *)
(* quick deploy, adding and removing a service, deleting a cluster.  Each  *)
(* request reads rows, may be busy on the hosts, and then commits.         *)
(***************************************************************************)
EXTENDS Naturals, FiniteSets

CONSTANTS
    ClusterId,     \* clusters; a fresh id, and so fresh paths and unit names, for each
    Machine,       \* registered hosts, one at least: quick deploy asks for that
    PlacedRole,    \* roles a service is given, of the four of ServiceRole
    RowId,         \* ids of the rows of one role on a host: nobody forbids a second row
    Slots,         \* port sets find_free_port_set tries, ten in the code
    ProvRequest,   \* bound: requests under way
    ProvOps        \* bound: requests in all

ServiceRole == {"broker", "controller", "broker_controller", "ksqldb"}
ASSUME SlotsAssumption ==
    /\ Slots \in Nat \ {0} /\ ProvOps \in Nat
    /\ PlacedRole \subseteq ServiceRole /\ "broker_controller" \in PlacedRole
    /\ IsFiniteSet(Machine) /\ Machine # {}
    /\ IsFiniteSet(RowId) /\ RowId \subseteq Nat /\ RowId # {}

VARIABLES
    clusters,      \* the Cluster rows: slot of the port set, replication factor
    services,      \* the Service rows <<cluster, host, role, id>>
    active,        \* units that run <<cluster, host, role>>
    preq,          \* where a request is
    made,          \* requests so far
    crossed,       \* history: pairs of clusters whose ports nobody compared
    excused,       \* history: clusters with a forced removal or with overlapping requests
    unsure         \* history: units that run on since a clean-up took them for stopped

provVars == <<clusters, services, active, preq, made, crossed, excused, unsure>>

Slot == 0 .. Slots - 1
Placement == ClusterId \X Machine \X PlacedRole \X RowId
UnitName == ClusterId \X Machine \X PlacedRole
UnitsOf(s) == {<<x[1], x[2], x[3]>> : x \in s}
ClusterRow == [at : {"unused", "there", "gone"}, slot : Slot, rf : 1 .. 3]
ProvWork == [at : {"idle", "picked", "adding", "cleaning", "clean", "refused", "playing"},
             op : {"quick", "add", "remove", "delete", "deploy"},
             cluster : ClusterId \cup {"none"}, slot : Slot, fallback : BOOLEAN,
             todo : SUBSET Placement, seen : SUBSET Placement, force : BOOLEAN]

ProvTypeOK ==
    /\ clusters \in [ClusterId -> ClusterRow]
    /\ services \subseteq Placement /\ active \subseteq UnitName /\ unsure \subseteq UnitName
    /\ preq \in [ProvRequest -> ProvWork] /\ made \in 0 .. ProvOps
    /\ crossed \subseteq SUBSET ClusterId /\ excused \subseteq ClusterId

NoRequest == [at |-> "idle", op |-> "quick", cluster |-> "none", slot |-> 0, fallback |-> FALSE,
              todo |-> {}, seen |-> {}, force |-> FALSE]

\* A request that is under way on a cluster, about some services of it.
Begun(at, op, c, todo) ==
    [NoRequest EXCEPT !.at = at, !.op = op, !.cluster = c, !.todo = todo]

ProvInit ==
    /\ clusters = [c \in ClusterId |-> [at |-> "unused", slot |-> 0, rf |-> 1]]
    /\ services = {} /\ active = {}
    /\ preq = [r \in ProvRequest |-> NoRequest]
    /\ made = 0 /\ crossed = {} /\ excused = {} /\ unsure = {}

There == {c \in ClusterId : clusters[c].at = "there"}
Of(s, c) == {x \in s : x[1] = c}
HostsIn(s) == {x[2] : x \in s}
Brokers(s) == {x \in s : x[3] \in {"broker", "broker_controller"}}
Controllers(s) == {x \in s : x[3] \in {"controller", "broker_controller"}}
Enough(s, rf) == Cardinality(Brokers(s)) >= rf /\ Controllers(s) # {}
PairsWith(c, ds) == {{c, d} : d \in ds \ {c}}

Counted == made < ProvOps /\ made' = made + 1
Admit(r, work) ==
    /\ preq[r].at = "idle"
    /\ Counted
    /\ preq' = [preq EXCEPT ![r] = work]
Ended(r) == preq' = [preq EXCEPT ![r] = NoRequest]
BusyOn(r, c) == {preq[q].op : q \in {q \in ProvRequest \ {r} : preq[q].cluster = c}}

-----------------------------------------------------------------------------
(* Creating clusters.                                                      *)

\* create_cluster: one transaction.  The ports are the operator's choice.
CreateCluster(c, slot, rf, placed) ==
    /\ clusters[c].at = "unused"
    /\ Counted
    /\ clusters' = [clusters EXCEPT ![c] = [at |-> "there", slot |-> slot, rf |-> rf]]
    /\ services' = services \cup placed
    /\ crossed' = crossed \cup PairsWith(c, There)
    /\ excused' = IF Enough(placed, rf) THEN excused ELSE excused \cup {c}
    /\ UNCHANGED <<active, preq, unsure>>

\* Seeded fault: only clusters that have a unit running count.
RunningSlots == {clusters[c].slot : c \in {c \in There : Of(active, c) # {}}}

\* Port sets of the clusters that have a service on a host; quick deploy takes every host.
OccupiedSlots == {clusters[c].slot : c \in {c \in There : Of(services, c) # {}}}

\* quick_deploy reads the rows and settles on the first free port set, or falls back to
\* the default one.
PickPorts(r) ==
    LET free == Slot \ OccupiedSlots IN
    /\ \E s \in Slot :
         /\ IF free = {} THEN s = 0 ELSE s \in free /\ \A t \in free : s <= t
         /\ Admit(r, [NoRequest EXCEPT !.at = "picked", !.seen = services, !.slot = s,
                         !.fallback = (free = {})])
    /\ UNCHANGED <<clusters, services, active, crossed, excused, unsure>>

SomeId == CHOOSE i \in RowId : TRUE
QuickFactor == IF Cardinality(Machine) < 3 THEN Cardinality(Machine) ELSE 3

\* It inserts the cluster with a broker and controller on every host, and deploys it.
CommitQuick(r, c) ==
    LET placed == {c} \X Machine \X {"broker_controller"} \X {SomeId}
        unseen == {d \in There : preq[r].fallback \/ ~(Of(services, d) \subseteq preq[r].seen)} IN
    /\ preq[r].at = "picked"
    /\ clusters[c].at = "unused"
    /\ clusters' = [clusters EXCEPT ![c] = [at |-> "there", slot |-> preq[r].slot, rf |-> QuickFactor]]
    /\ services' = services \cup placed
    /\ crossed' = crossed \cup PairsWith(c, unseen)
    /\ preq' = [preq EXCEPT ![r] = Begun("playing", "deploy", c, placed)]
    /\ UNCHANGED <<made, active, excused, unsure>>

-----------------------------------------------------------------------------
(* Deploying: what it starts is what it read when it began.                *)

\* What other requests of the cluster are doing that this one does not look at.
Excuses(r, c, ops) == excused' = IF BusyOn(r, c) \cap ops # {} THEN excused \cup {c} ELSE excused

BeginDeploy(r, c) ==
    /\ c \in There
    /\ Admit(r, Begun("playing", "deploy", c, Of(services, c)))
    /\ Excuses(r, c, {"remove", "delete"})
    /\ UNCHANGED <<clusters, services, active, crossed, unsure>>

\* The playbook starts the units, all of them or, if it fails or dies, some.
Play(r) ==
    /\ preq[r].at = "playing"
    /\ \E started \in SUBSET UnitsOf(preq[r].todo) : active' = active \cup started
    /\ Ended(r)
    /\ UNCHANGED <<made, clusters, services, crossed, excused, unsure>>

-----------------------------------------------------------------------------
(* add_services: the hosts' connections are tested before the rows come.   *)

\* The row gets the first id that no row has or is about to get.
Fresh(x) == x \notin services /\ \A q \in ProvRequest : x \notin preq[q].todo
BeginAdd(r, x) ==
    /\ x[1] \in There
    /\ Fresh(x) /\ \A i \in RowId : i < x[4] => ~Fresh(<<x[1], x[2], x[3], i>>)
    /\ Admit(r, Begun("adding", "add", x[1], {x}))
    /\ UNCHANGED <<clusters, services, active, crossed, excused, unsure>>

\* Nothing is looked at again: the cluster may be gone, its ports taken on that host.
CommitAdd(r) ==
    LET c == preq[r].cluster IN
    /\ preq[r].at = "adding"
    /\ services' = services \cup preq[r].todo
    /\ crossed' = crossed \cup PairsWith(c, {d \in There : HostsIn(Of(services, d)) \cap HostsIn(preq[r].todo) # {}})
    /\ Ended(r)
    /\ UNCHANGED <<made, clusters, active, excused, unsure>>

RefuseAdd(r) ==
    /\ preq[r].at = "adding"
    /\ Ended(r)
    /\ UNCHANGED <<made, clusters, services, active, crossed, excused, unsure>>

-----------------------------------------------------------------------------
(* remove_service and delete_cluster: units are stopped, then rows go.     *)

\* Seeded fault: the service to be removed counts among those that remain.
MayRemoveLax(x) ==
    LET all == Of(services, x[1]) IN
    /\ x \in Brokers(all) => Cardinality(Brokers(all)) >= clusters[x[1]].rf
    /\ x \in Controllers(all) => Controllers(all) # {}

\* The dependency checks.
MayRemove(x) ==
    LET remaining == Of(services, x[1]) \ {x} IN
    /\ x \in Brokers(services) =>
         Brokers(remaining) # {} /\ Cardinality(Brokers(remaining)) >= clusters[x[1]].rf
    /\ x \in Controllers(services) => Controllers(remaining) # {}

BeginRemove(r, x, force) ==
    /\ x[1] \in There /\ x \in services
    /\ force \/ MayRemove(x)
    /\ Admit(r, [Begun("cleaning", "remove", x[1], {x}) EXCEPT !.force = force])
    /\ IF force THEN excused' = excused \cup {x[1]} ELSE Excuses(r, x[1], {"remove", "deploy"})
    /\ UNCHANGED <<clusters, services, active, crossed, unsure>>

BeginDelete(r, c) ==
    /\ c \in There
    /\ Admit(r, Begun("cleaning", "delete", c, Of(services, c)))
    /\ Excuses(r, c, {"deploy"})
    /\ UNCHANGED <<clusters, services, active, crossed, unsure>>

Stopping(r, at) ==
    /\ preq[r].at = "cleaning"
    /\ preq' = [preq EXCEPT ![r] = [@ EXCEPT !.at = at]]
    /\ UNCHANGED <<made, clusters, services, crossed, excused>>

\* Seeded fault: the results of the clean-up are not looked at.
CleanUpTrusted(r) ==
    \E stopped \in SUBSET UnitsOf(preq[r].todo) :
        /\ active' = active \ stopped
        /\ Stopping(r, "clean")
        /\ UNCHANGED unsure

\* cleanup_service, one service after the other.  All results are good: over SSH the
\* units are stopped and their ports seen free, but over an agent an answer that fails is
\* taken for a unit that is not there or has stopped, and a removed service whose host
\* row is gone is not stopped at all.  Or some result is a failure, which refuses all but
\* a forced removal.
CleanUp(r) ==
    \E stopped \in SUBSET UnitsOf(preq[r].todo) :
        /\ active' = active \ stopped
        /\ \/ Stopping(r, "clean") /\ unsure' = active' \cap (unsure \cup UnitsOf(preq[r].todo))
           \/ Stopping(r, IF preq[r].force THEN "clean" ELSE "refused") /\ unsure' = unsure \cap active'

\* The rows of a refused removal stay, and of one whose worker died after the clean-up.
RefuseRemoval(r) ==
    /\ preq[r].at \in {"clean", "refused"}
    /\ Ended(r)
    /\ UNCHANGED <<made, clusters, services, active, crossed, excused, unsure>>

CommitRemove(r) ==
    /\ preq[r].at = "clean" /\ preq[r].op = "remove"
    /\ services' = services \ preq[r].todo
    /\ Ended(r)
    /\ UNCHANGED <<made, clusters, active, crossed, excused, unsure>>

CommitDelete(r) ==
    LET c == preq[r].cluster IN
    /\ preq[r].at = "clean" /\ preq[r].op = "delete"
    /\ services' = services \ Of(services, c)
    /\ clusters' = [clusters EXCEPT ![c] = [at |-> "gone", slot |-> 0, rf |-> 1]]
    /\ crossed' = {pair \in crossed : c \notin pair}
    /\ Ended(r)
    /\ UNCHANGED <<made, active, excused, unsure>>

-----------------------------------------------------------------------------
ProvNext ==
    \/ \E c \in ClusterId, slot \in Slot, rf \in 1 .. 2, hs \in (SUBSET Machine) \ {{}} :
         \E role \in [hs -> PlacedRole] : CreateCluster(c, slot, rf, {<<c, h, role[h], SomeId>> : h \in hs})
    \/ \E r \in ProvRequest :
         \/ PickPorts(r) \/ Play(r) \/ CommitAdd(r) \/ RefuseAdd(r)
         \/ CleanUp(r) \/ RefuseRemoval(r) \/ CommitRemove(r) \/ CommitDelete(r)
         \/ \E c \in ClusterId : CommitQuick(r, c) \/ BeginDeploy(r, c) \/ BeginDelete(r, c)
         \/ \E x \in Placement : BeginAdd(r, x)
         \/ \E x \in services, force \in BOOLEAN : BeginRemove(r, x, force)

ProvSpec == ProvInit /\ [][ProvNext]_provVars

-----------------------------------------------------------------------------
(* Properties.                                                             *)

\* A quick deploy never gives a cluster ports that an earlier cluster of the same host
\* has, however clusters were created, scaled and deleted before; only rows committed
\* after its look, a host where every port set is taken, the operator's own choice of
\* ports or of a host to scale to can bring two clusters onto the same ports.
PortsDistinct ==
    \A c, d \in There : c # d /\ {c, d} \notin crossed
                        /\ HostsIn(Of(services, c)) \cap HostsIn(Of(services, d)) # {}
        => clusters[c].slot # clusters[d].slot

\* Removing services one by one never leaves fewer brokers than the replication factor,
\* or no controller, unless it was forced or two requests of the cluster overlapped: the
\* count is read before the clean-up on the host and trusted after it.
RemovalKeepsEnough ==
    \A c \in There \ excused : Enough(Of(services, c), clusters[c].rf)

\* What runs on a host belongs to a row: no deleted cluster and no removed service
\* leaves a unit behind, except a forced removal, one that overlapped a deploy, which
\* starts what it had read before, and one that was told that the unit had stopped.
NoUnitLeft ==
    \A x \in active \ unsure : x[1] \notin excused => x \in UnitsOf(services) /\ x[1] \in There

=============================================================================
