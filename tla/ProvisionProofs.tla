-------------------------- MODULE ProvisionProofs --------------------------
(***************************************************************************)
(* What Provision and Registry promise, for any clusters, hosts, roles,    *)
(* ports, port sets, requests and tasks.                                   *)
(*                                                                         *)
(* No promise on ports and units is inductive.  Between a request's look   *)
(* at the rows and its commit lies what it remembers: ProvShaped says what *)
(* a request is about, Apart that the port set it has picked is free of    *)
(* the clusters it saw, Quiet what its clean-up or playbook may rely on.   *)
(*                                                                         *)
(* That a registry called running is served is not inductive either:       *)
(* between a task's look for the row and its verdict lies what it          *)
(* remembers.  SrInv says what it may rely on while its cluster's tasks do *)
(* not overlap: that the row it found or made is the one there is, that    *)
(* the port recorded is the one it was asked for (TaskFits), and that a    *)
(* host no other cluster was sent to has no unit of another (UnitsFit), so *)
(* that a unit with the port waited for is the cluster's own.              *)
(***************************************************************************)
EXTENDS Provision, Registry, Integers, FiniteSetTheorems, TLAPS

\* A request is about a cluster that was created, and about services of it.
Shape(p) ==
    /\ p.at \in {"idle", "picked"} => p.cluster = "none"
    /\ p.at \notin {"idle", "picked"} =>
         /\ p.cluster \in ClusterId /\ clusters[p.cluster].at # "unused"
         /\ \A x \in p.todo : x[1] = p.cluster
    /\ p.at = "playing" => p.op = "deploy"
    /\ p.at \in {"cleaning", "clean", "refused"} => p.op \in {"remove", "delete"}
    /\ \A x \in p.seen : clusters[x[1]].at # "unused"

\* Services, seen or there, belong to clusters that were created.
ProvShaped ==
    /\ clusters = [c \in ClusterId |-> clusters[c]]
    /\ services \subseteq Placement /\ active \subseteq UnitName
    /\ preq \in [ProvRequest -> ProvWork]
    /\ \A x \in services : clusters[x[1]].at # "unused"
    /\ \A r \in ProvRequest : Shape(preq[r])

\* A port set that was picked is that of no cluster with a service among those seen.
Apart ==
    \A r \in ProvRequest : preq[r].at = "picked" /\ ~preq[r].fallback =>
        \A x \in preq[r].seen : x[1] \in There => clusters[x[1]].slot # preq[r].slot

\* What cleans up a cluster, or has cleaned up, has no deploy beside it and knows every
\* unit it has to stop, and which of them it took for stopped; what deploys has the
\* services it read.
Deploying == {preq[q].cluster : q \in {q \in ProvRequest : preq[q].at = "playing"}}
Calm(p) ==
    /\ p.at = "playing" => p.cluster \in There /\ p.todo \subseteq services
    /\ p.at \in {"cleaning", "clean"} => ~p.force /\ p.cluster \notin Deploying
    /\ p.at = "cleaning" /\ p.op = "delete" => Of(active \ unsure, p.cluster) \subseteq UnitsOf(p.todo)
    /\ p.at = "clean" => active \cap UnitsOf(p.todo) \subseteq unsure
    /\ p.at = "clean" /\ p.op = "delete" => Of(active, p.cluster) \subseteq unsure
Quiet == \A r \in ProvRequest : preq[r].cluster \notin excused => Calm(preq[r])

PortsInv == ProvShaped /\ Apart /\ PortsDistinct
UnitsInv == ProvShaped /\ Quiet /\ NoUnitLeft

-----------------------------------------------------------------------------
(* Shape.                                                                  *)

LEMMA NoRequestTyped ==
  NoRequest \in ProvWork /\ NoRequest.at = "idle" /\ NoRequest.cluster = "none" /\ NoRequest.seen = {}
  BY SlotsAssumption DEF NoRequest, ProvWork, Slot

LEMMA SomeIdTyped == SomeId \in RowId
  BY SlotsAssumption DEF SomeId

\* The units of rows of one cluster are that cluster's.
LEMMA UnitsTyped ==
  ASSUME NEW s \in SUBSET Placement
  PROVE  /\ UnitsOf(s) \subseteq UnitName
         /\ \A c : (\A x \in s : x[1] = c) => \A u \in UnitsOf(s) : u[1] = c
  BY DEF UnitsOf, UnitName, Placement

\* One request moves, no cluster becomes unused again: what it is about decides.
LEMMA OneMoves ==
  ASSUME ProvShaped, NEW r \in ProvRequest, NEW w \in ProvWork, preq' = [preq EXCEPT ![r] = w],
         clusters' = [c \in ClusterId |-> clusters'[c]],
         \A c \in ClusterId : clusters[c].at # "unused" => clusters'[c].at # "unused",
         services' \subseteq Placement, active' \subseteq UnitName,
         \A x \in services' : clusters'[x[1]].at # "unused",
         Shape(w)'
  PROVE  /\ ProvShaped'
         /\ preq'[r] = w
         /\ \A q \in ProvRequest \ {r} : preq'[q] = preq[q]
<1>1. preq' \in [ProvRequest -> ProvWork] /\ \A q \in ProvRequest : preq'[q] = IF q = r THEN w ELSE preq[q]
  BY DEF ProvShaped
<1>2. ASSUME NEW q \in ProvRequest PROVE Shape(preq[q])'
  <2>1. CASE q = r
    BY <1>1, <2>1 DEF Shape
  <2>2. CASE q # r
    <3>1. preq'[q] = preq[q] /\ Shape(preq[q]) /\ preq[q] \in ProvWork
      BY <1>1, <2>2 DEF ProvShaped
    <3>2. \A x \in preq[q].seen : x[1] \in ClusterId
      BY <3>1 DEF ProvWork, Placement
    <3> QED BY <3>1, <3>2 DEF Shape
  <2> QED BY <2>1, <2>2
<1> QED BY <1>1, <1>2 DEF ProvShaped

\* What each action makes of its request.
LEMMA EndedShaped ==
  ASSUME ProvShaped, NEW r \in ProvRequest, Ended(r),
         clusters' = [c \in ClusterId |-> clusters'[c]],
         \A c \in ClusterId : clusters[c].at # "unused" => clusters'[c].at # "unused",
         services' \subseteq Placement, active' \subseteq UnitName,
         \A x \in services' : clusters'[x[1]].at # "unused"
  PROVE  /\ ProvShaped'
         /\ preq'[r] = NoRequest
         /\ \A q \in ProvRequest \ {r} : preq'[q] = preq[q]
<1>1. Shape(NoRequest)'
  BY DEF Shape, NoRequest
<1> QED BY <1>1, NoRequestTyped, OneMoves DEF Ended

\* Nothing changes but one request, which stays about what it was.
LEMMA WorkShaped ==
  ASSUME ProvShaped, NEW r \in ProvRequest, NEW w \in ProvWork, preq' = [preq EXCEPT ![r] = w],
         UNCHANGED <<clusters, services>>, active' \subseteq UnitName, Shape(w)
  PROVE  ProvShaped'
<1>1. Shape(w)'
  BY DEF Shape
<1> QED BY <1>1, OneMoves DEF ProvShaped

\* A request that begins on a cluster that is there.
LEMMA AdmitShaped ==
  ASSUME ProvShaped, NEW r \in ProvRequest, NEW w \in ProvWork, Admit(r, w), w.cluster \in There,
         w.at \in {"playing", "adding", "cleaning"}, \A x \in w.todo : x[1] = w.cluster, w.seen = {},
         w.at = "playing" => w.op = "deploy", w.at = "cleaning" => w.op \in {"remove", "delete"},
         UNCHANGED <<clusters, services, active>>
  PROVE  ProvShaped'
<1>1. Shape(w)
  BY DEF Shape, There
<1> QED BY <1>1, WorkShaped DEF Admit, ProvShaped

LEMMA ShapedKept == ProvShaped /\ [ProvNext]_provVars => ProvShaped'
<1> SUFFICES ASSUME ProvShaped, [ProvNext]_provVars PROVE ProvShaped'
  OBVIOUS
<1>1. ASSUME NEW c \in ClusterId, NEW slot \in Slot, NEW rf \in 1 .. 2, NEW hs \in (SUBSET Machine) \ {{}},
             NEW role \in [hs -> PlacedRole], CreateCluster(c, slot, rf, {<<c, h, role[h], SomeId>> : h \in hs})
      PROVE  ProvShaped'
  <2>1. {<<c, h, role[h], SomeId>> : h \in hs} \subseteq Placement
    BY SomeIdTyped DEF Placement
  <2>2. /\ clusters' = [d \in ClusterId |-> clusters'[d]]
        /\ \A d \in ClusterId : clusters[d].at # "unused" => clusters'[d].at # "unused"
        /\ clusters'[c].at # "unused"
    BY <1>1 DEF CreateCluster, ProvShaped
  <2>3. /\ services' \subseteq Placement /\ active' \subseteq UnitName
        /\ \A x \in services' : clusters'[x[1]].at # "unused"
    BY <1>1, <2>1, <2>2 DEF CreateCluster, ProvShaped, Placement
  <2>4. ASSUME NEW r \in ProvRequest PROVE Shape(preq[r])'
    <3>1. preq'[r] = preq[r] /\ Shape(preq[r]) /\ preq[r] \in ProvWork
      BY <1>1 DEF CreateCluster, ProvShaped
    <3>2. \A x \in preq[r].seen : x[1] \in ClusterId
      BY <3>1 DEF ProvWork, Placement
    <3> QED BY <2>2, <3>1, <3>2 DEF Shape
  <2> QED BY <1>1, <2>2, <2>3, <2>4 DEF CreateCluster, ProvShaped
<1>2. ASSUME NEW r \in ProvRequest, PickPorts(r) PROVE ProvShaped'
  <2>1. PICK s \in Slot, fallback \in BOOLEAN :
           preq' = [preq EXCEPT ![r] = [NoRequest EXCEPT !.at = "picked", !.seen = services, !.slot = s,
                                          !.fallback = fallback]]
    BY <1>2 DEF PickPorts, Admit
  <2> DEFINE w == [NoRequest EXCEPT !.at = "picked", !.seen = services, !.slot = s, !.fallback = fallback]
  <2>2. w \in ProvWork /\ w.at = "picked" /\ w.cluster = "none" /\ w.seen = services
    BY NoRequestTyped DEF ProvWork, ProvShaped
  <2>3. Shape(w)
    BY <2>2 DEF Shape, ProvShaped
  <2> HIDE DEF w
  <2> QED BY <1>2, <2>1, <2>2, <2>3, WorkShaped DEF PickPorts, ProvShaped, w
<1>3. ASSUME NEW r \in ProvRequest, NEW c \in ClusterId, CommitQuick(r, c) PROVE ProvShaped'
  <2> DEFINE placed == {c} \X Machine \X {"broker_controller"} \X {SomeId}
             w == Begun("playing", "deploy", c, placed)
  <2>1. placed \subseteq Placement /\ \A x \in placed : x[1] = c
    BY SlotsAssumption, SomeIdTyped DEF Placement
  <2>2. /\ w \in ProvWork
        /\ w.at = "playing" /\ w.op = "deploy" /\ w.cluster = c /\ w.todo = placed /\ w.seen = {}
    <3> HIDE DEF placed
    <3>1. w \in ProvWork
      BY <2>1, NoRequestTyped DEF Begun, ProvWork
    <3> QED BY <3>1 DEF Begun, NoRequest
  <2>3. /\ clusters' = [d \in ClusterId |-> clusters'[d]]
        /\ \A d \in ClusterId : clusters[d].at # "unused" => clusters'[d].at # "unused"
        /\ clusters'[c].at # "unused"
    BY <1>3 DEF CommitQuick, ProvShaped
  <2>4. /\ services' \subseteq Placement /\ active' \subseteq UnitName
        /\ \A x \in services' : clusters'[x[1]].at # "unused"
    BY <1>3, <2>1, <2>3 DEF CommitQuick, ProvShaped, Placement
  <2>5. Shape(w)'
    BY <2>1, <2>2, <2>3 DEF Shape
  <2>6. preq' = [preq EXCEPT ![r] = w]
    BY <1>3 DEF CommitQuick
  <2> HIDE DEF w, placed
  <2> QED BY <2>2, <2>3, <2>4, <2>5, <2>6, OneMoves
<1>4. ASSUME NEW r \in ProvRequest, NEW c \in ClusterId, BeginDeploy(r, c) PROVE ProvShaped'
  <2>1. Of(services, c) \subseteq Placement /\ \A x \in Of(services, c) : x[1] = c
    BY DEF Of, ProvShaped
  <2> DEFINE w == Begun("playing", "deploy", c, Of(services, c))
  <2>2. /\ w \in ProvWork
        /\ w.at = "playing" /\ w.op = "deploy" /\ w.cluster = c /\ w.todo = Of(services, c) /\ w.seen = {}
    <3>1. w \in ProvWork
      BY <2>1, NoRequestTyped DEF Begun, ProvWork
    <3> QED BY <3>1 DEF Begun, NoRequest
  <2>3. Admit(r, w) /\ c \in There /\ UNCHANGED <<clusters, services, active>>
    BY <1>4 DEF BeginDeploy
  <2> HIDE DEF w
  <2> QED BY <2>1, <2>2, <2>3, AdmitShaped
<1>5. ASSUME NEW r \in ProvRequest, Play(r) PROVE ProvShaped'
  <2>1. UnitsOf(preq[r].todo) \subseteq UnitName
    BY UnitsTyped DEF ProvShaped, ProvWork
  <2> QED BY <1>5, <2>1, EndedShaped DEF Play, ProvShaped
<1>6. ASSUME NEW r \in ProvRequest, NEW x \in Placement, BeginAdd(r, x) PROVE ProvShaped'
  <2> DEFINE w == Begun("adding", "add", x[1], {x})
  <2>1. w \in ProvWork /\ w.at = "adding" /\ w.cluster = x[1] /\ w.todo = {x} /\ w.seen = {}
    <3>1. x[1] \in ClusterId /\ {x} \in SUBSET Placement
      BY DEF Placement
    <3>2. w \in ProvWork
      BY <3>1, NoRequestTyped DEF Begun, ProvWork
    <3> QED BY <3>2 DEF Begun, NoRequest
  <2>2. Admit(r, w) /\ x[1] \in There /\ UNCHANGED <<clusters, services, active>>
    BY <1>6 DEF BeginAdd
  <2> HIDE DEF w
  <2> QED BY <2>1, <2>2, AdmitShaped
<1>7. ASSUME NEW r \in ProvRequest, CommitAdd(r) PROVE ProvShaped'
  <2>1. /\ preq[r].todo \subseteq Placement
        /\ \A x \in preq[r].todo : clusters[x[1]].at # "unused"
    BY <1>7 DEF ProvShaped, Shape, ProvWork, CommitAdd
  <2> QED BY <1>7, <2>1, EndedShaped DEF CommitAdd, ProvShaped
<1>8. ASSUME NEW r \in ProvRequest, RefuseAdd(r) \/ RefuseRemoval(r) PROVE ProvShaped'
  BY <1>8, EndedShaped DEF RefuseAdd, RefuseRemoval, ProvShaped
<1>9. ASSUME NEW r \in ProvRequest, NEW x \in services, NEW force \in BOOLEAN, BeginRemove(r, x, force)
      PROVE  ProvShaped'
  <2>1. {x} \in SUBSET Placement /\ x[1] \in There
    BY <1>9 DEF ProvShaped, BeginRemove
  <2> DEFINE w == [Begun("cleaning", "remove", x[1], {x}) EXCEPT !.force = force]
  <2>2. w \in ProvWork /\ w.at = "cleaning" /\ w.op = "remove" /\ w.cluster = x[1] /\ w.todo = {x} /\ w.seen = {}
    <3>1. Begun("cleaning", "remove", x[1], {x}) \in ProvWork
      BY <2>1, NoRequestTyped DEF There, Begun, ProvWork
    <3>2. w \in ProvWork
      BY <3>1 DEF ProvWork
    <3> QED BY <3>2 DEF Begun, NoRequest
  <2>3. Admit(r, w) /\ UNCHANGED <<clusters, services, active>>
    BY <1>9 DEF BeginRemove
  <2> HIDE DEF w
  <2> QED BY <2>1, <2>2, <2>3, AdmitShaped
<1>10. ASSUME NEW r \in ProvRequest, NEW c \in ClusterId, BeginDelete(r, c) PROVE ProvShaped'
  <2>1. Of(services, c) \subseteq Placement /\ \A x \in Of(services, c) : x[1] = c
    BY DEF Of, ProvShaped
  <2> DEFINE w == Begun("cleaning", "delete", c, Of(services, c))
  <2>2. /\ w \in ProvWork
        /\ w.at = "cleaning" /\ w.op = "delete" /\ w.cluster = c /\ w.todo = Of(services, c) /\ w.seen = {}
    <3>1. w \in ProvWork
      BY <2>1, NoRequestTyped DEF Begun, ProvWork
    <3> QED BY <3>1 DEF Begun, NoRequest
  <2>3. Admit(r, w) /\ c \in There /\ UNCHANGED <<clusters, services, active>>
    BY <1>10 DEF BeginDelete
  <2> HIDE DEF w
  <2> QED BY <2>1, <2>2, <2>3, AdmitShaped
<1>11. ASSUME NEW r \in ProvRequest, CleanUp(r) PROVE ProvShaped'
  <2>1. PICK at \in {"clean", "refused"} : preq' = [preq EXCEPT ![r] = [preq[r] EXCEPT !.at = at]]
    BY <1>11 DEF CleanUp, Stopping
  <2>2. [preq[r] EXCEPT !.at = at] \in ProvWork /\ Shape([preq[r] EXCEPT !.at = at])
    BY <1>11 DEF CleanUp, Stopping, ProvShaped, Shape, ProvWork
  <2>3. active' \subseteq UnitName /\ UNCHANGED <<clusters, services>>
    BY <1>11 DEF CleanUp, Stopping, ProvShaped
  <2> QED BY <2>1, <2>2, <2>3, WorkShaped
<1>12. ASSUME NEW r \in ProvRequest, CommitRemove(r) PROVE ProvShaped'
  BY <1>12, EndedShaped DEF CommitRemove, ProvShaped
<1>13. ASSUME NEW r \in ProvRequest, CommitDelete(r) PROVE ProvShaped'
  <2>1. /\ clusters' = [d \in ClusterId |-> clusters'[d]]
        /\ \A d \in ClusterId : clusters[d].at # "unused" => clusters'[d].at # "unused"
    BY <1>13 DEF CommitDelete, ProvShaped
  <2>2. services' \subseteq services /\ active' = active
    BY <1>13 DEF CommitDelete
  <2>3. \A x \in services' : clusters'[x[1]].at # "unused"
    BY <2>1, <2>2 DEF ProvShaped, Placement
  <2> QED BY <1>13, <2>1, <2>2, <2>3, EndedShaped DEF CommitDelete, ProvShaped
<1>14. CASE UNCHANGED provVars
  BY <1>14 DEF provVars, ProvShaped, Shape
<1> QED BY <1>1, <1>2, <1>3, <1>4, <1>5, <1>6, <1>7, <1>8, <1>9, <1>10, <1>11, <1>12, <1>13, <1>14
        DEF ProvNext

-----------------------------------------------------------------------------
(* Ports.                                                                  *)

SharesHost(c, d) == HostsIn(Of(services, c)) \cap HostsIn(Of(services, d)) # {}

\* What was picked stays apart: no cluster comes back, none changes its port set.
LEMMA ApartKept ==
  ASSUME ProvShaped, Apart,
         \A q \in ProvRequest : preq'[q] = preq[q] \/ preq'[q].at # "picked",
         \A c \in ClusterId : clusters[c].at # "unused" /\ c \in There' =>
             c \in There /\ clusters'[c].slot = clusters[c].slot
  PROVE  Apart'
<1> SUFFICES ASSUME NEW q \in ProvRequest, preq'[q].at = "picked", ~preq'[q].fallback,
                    NEW x \in preq'[q].seen, x[1] \in There'
             PROVE  clusters'[x[1]].slot # preq'[q].slot
  BY DEF Apart
<1>1. preq'[q] = preq[q] /\ preq[q] \in ProvWork /\ Shape(preq[q])
  BY DEF ProvShaped
<1>2. x[1] \in ClusterId /\ clusters[x[1]].at # "unused"
  BY <1>1 DEF ProvWork, Placement, Shape
<1> QED BY <1>1, <1>2 DEF Apart

\* Rows that stay or go take no cluster onto another's ports.
LEMMA DistinctKept ==
  ASSUME PortsDistinct, UNCHANGED clusters, services' \subseteq services, UNCHANGED crossed
  PROVE  PortsDistinct'
  BY DEF PortsDistinct, There, HostsIn, Of

LEMMA PortsKept == PortsInv /\ [ProvNext]_provVars => PortsInv'
<1> SUFFICES ASSUME PortsInv, [ProvNext]_provVars PROVE Apart' /\ PortsDistinct'
  BY ShapedKept DEF PortsInv
<1> USE DEF PortsInv
<1>1. ASSUME NEW c \in ClusterId, NEW slot \in Slot, NEW rf \in 1 .. 2, NEW hs \in (SUBSET Machine) \ {{}},
             NEW role \in [hs -> PlacedRole], CreateCluster(c, slot, rf, {<<c, h, role[h], SomeId>> : h \in hs})
      PROVE  Apart' /\ PortsDistinct'
  <2>1. clusters[c].at = "unused" /\ \A d \in ClusterId \ {c} : clusters'[d] = clusters[d]
    BY <1>1 DEF CreateCluster, ProvShaped
  <2>2. Apart'
    BY <1>1, <2>1, ApartKept DEF CreateCluster, There
  <2>3. ASSUME NEW a \in There', NEW b \in There', a # b, {a, b} \notin crossed', SharesHost(a, b)'
        PROVE  clusters'[a].slot # clusters'[b].slot
    <3>1. a # c /\ b # c
      BY <1>1, <2>1, <2>3 DEF CreateCluster, PairsWith, There
    <3>2. Of(services', a) = Of(services, a) /\ Of(services', b) = Of(services, b)
      BY <1>1, <3>1 DEF CreateCluster, Of
    <3>3. a \in There /\ b \in There /\ {a, b} \notin crossed
      BY <1>1, <2>1, <2>3, <3>1 DEF There, CreateCluster
    <3>4. SharesHost(a, b)
      BY <2>3, <3>2 DEF SharesHost
    <3> QED BY <2>1, <2>3, <3>1, <3>3, <3>4 DEF PortsDistinct, SharesHost, There
  <2> QED BY <2>2, <2>3 DEF PortsDistinct, SharesHost
<1>2. ASSUME NEW r \in ProvRequest, PickPorts(r) PROVE Apart' /\ PortsDistinct'
  <2>1. PortsDistinct'
    BY <1>2, DistinctKept DEF PickPorts
  <2> DEFINE free == Slot \ OccupiedSlots
  <2>2. PICK s \in Slot :
          /\ free # {} => s \in free
          /\ preq' = [preq EXCEPT ![r] = [NoRequest EXCEPT !.at = "picked", !.seen = services, !.slot = s,
                                            !.fallback = (free = {})]]
    BY <1>2 DEF PickPorts, Admit
  <2>3. /\ preq'[r].seen = services /\ preq'[r].slot = s
        /\ ~preq'[r].fallback => free # {}
        /\ \A q \in ProvRequest \ {r} : preq'[q] = preq[q]
    BY <2>2 DEF ProvShaped, NoRequest
  <2>4. ASSUME ~preq'[r].fallback, NEW x \in services, x[1] \in There
        PROVE  clusters[x[1]].slot # s
    <3>1. x \in Of(services, x[1])
      BY DEF Of
    <3>2. clusters[x[1]].slot \in OccupiedSlots
      BY <2>4, <3>1 DEF OccupiedSlots
    <3> QED BY <2>2, <2>3, <2>4, <3>2
  <2>5. UNCHANGED <<clusters, services>> /\ There' = There
    BY <1>2 DEF PickPorts, There
  <2>6. Apart'
    BY <2>3, <2>4, <2>5 DEF Apart
  <2> QED BY <2>1, <2>6
<1>3. ASSUME NEW r \in ProvRequest, NEW c \in ClusterId, CommitQuick(r, c) PROVE Apart' /\ PortsDistinct'
  <2>1. /\ clusters[c].at = "unused" /\ \A d \in ClusterId \ {c} : clusters'[d] = clusters[d]
        /\ clusters'[c].slot = preq[r].slot
        /\ preq[r].at = "picked"
    BY <1>3 DEF CommitQuick, ProvShaped
  <2>2. Apart'
    <3>1. preq'[r].at # "picked" /\ \A q \in ProvRequest \ {r} : preq'[q] = preq[q]
      BY <1>3 DEF CommitQuick, ProvShaped, Begun, NoRequest
    <3> QED BY <2>1, <3>1, ApartKept DEF There
  <2>3. ASSUME NEW d \in There, d # c, {c, d} \notin crossed', SharesHost(c, d)'
        PROVE  clusters'[c].slot # clusters'[d].slot
    <3>1. Of(services', d) = Of(services, d)
      BY <1>3, <2>3 DEF CommitQuick, Of
    <3>2. ~preq[r].fallback /\ Of(services, d) \subseteq preq[r].seen
      BY <1>3, <2>3 DEF CommitQuick, PairsWith
    <3>3. PICK x \in Of(services, d) : TRUE
      BY <2>3, <3>1 DEF SharesHost, HostsIn
    <3>4. x \in preq[r].seen /\ x[1] = d
      BY <3>2, <3>3 DEF Of
    <3>5. clusters[d].slot # preq[r].slot
      BY <2>1, <3>2, <3>4 DEF Apart
    <3> QED BY <2>1, <2>3, <3>5 DEF There
  <2>4. ASSUME NEW a \in There', NEW b \in There', a # b, {a, b} \notin crossed', SharesHost(a, b)'
        PROVE  clusters'[a].slot # clusters'[b].slot
    <3>1. CASE a = c
      <4>1. b \in There /\ b # c
        BY <2>1, <2>4, <3>1 DEF There
      <4> QED BY <2>3, <2>4, <3>1, <4>1
    <3>2. CASE b = c
      <4>1. a \in There /\ a # c
        BY <2>1, <2>4, <3>2 DEF There
      <4>2. {c, a} \notin crossed' /\ SharesHost(c, a)'
        <5>1. {c, a} = {a, b}
          BY <3>2
        <5>2. SharesHost(b, a)'
          BY <2>4 DEF SharesHost
        <5> QED BY <2>4, <3>2, <5>1, <5>2
      <4> QED BY <2>3, <3>2, <4>1, <4>2
    <3>3. CASE a # c /\ b # c
      <4>1. Of(services', a) = Of(services, a) /\ Of(services', b) = Of(services, b)
        BY <1>3, <3>3 DEF CommitQuick, Of
      <4>2. a \in There /\ b \in There /\ {a, b} \notin crossed
        BY <1>3, <2>1, <2>4, <3>3 DEF There, CommitQuick
      <4>3. SharesHost(a, b)
        BY <2>4, <4>1 DEF SharesHost
      <4> QED BY <2>1, <2>4, <3>3, <4>2, <4>3 DEF PortsDistinct, SharesHost, There
    <3> QED BY <3>1, <3>2, <3>3
  <2> QED BY <2>2, <2>4 DEF PortsDistinct, SharesHost
<1>4. ASSUME NEW r \in ProvRequest, NEW w, w.at # "picked", preq' = [preq EXCEPT ![r] = w],
             UNCHANGED <<clusters, crossed>>, services' \subseteq services
      PROVE  Apart' /\ PortsDistinct'
  <2>1. \A q \in ProvRequest : preq'[q] = preq[q] \/ preq'[q].at # "picked"
    BY <1>4 DEF ProvShaped
  <2>2. There' = There
    BY <1>4 DEF There
  <2> QED BY <1>4, <2>1, <2>2, ApartKept, DistinctKept
<1>5. ASSUME NEW r \in ProvRequest,
             \/ \E c \in ClusterId : BeginDeploy(r, c) \/ BeginDelete(r, c)
             \/ \E x \in Placement : BeginAdd(r, x)
      PROVE  Apart' /\ PortsDistinct'
  <2>1. ASSUME NEW at \in {"playing", "adding", "cleaning"}, NEW op, NEW d, NEW todo,
               preq' = [preq EXCEPT ![r] = Begun(at, op, d, todo)],
               UNCHANGED <<clusters, crossed, services>>
        PROVE  Apart' /\ PortsDistinct'
    <3>1. Begun(at, op, d, todo).at # "picked"
      BY DEF Begun, NoRequest
    <3> QED BY <1>4, <2>1, <3>1
  <2>2. ASSUME NEW c \in ClusterId, BeginDeploy(r, c) PROVE Apart' /\ PortsDistinct'
    BY <2>1, <2>2 DEF BeginDeploy, Admit
  <2>3. ASSUME NEW c \in ClusterId, BeginDelete(r, c) PROVE Apart' /\ PortsDistinct'
    BY <2>1, <2>3 DEF BeginDelete, Admit
  <2>4. ASSUME NEW x \in Placement, BeginAdd(r, x) PROVE Apart' /\ PortsDistinct'
    BY <2>1, <2>4 DEF BeginAdd, Admit
  <2> QED BY <1>5, <2>2, <2>3, <2>4
<1>6. ASSUME NEW r \in ProvRequest, NEW x \in services, NEW force \in BOOLEAN, BeginRemove(r, x, force)
      PROVE  Apart' /\ PortsDistinct'
  <2>1. [Begun("cleaning", "remove", x[1], {x}) EXCEPT !.force = force].at # "picked"
    BY DEF Begun, NoRequest
  <2> QED BY <1>4, <1>6, <2>1 DEF BeginRemove, Admit
<1>7. ASSUME NEW r \in ProvRequest, CleanUp(r) PROVE Apart' /\ PortsDistinct'
  <2>1. PICK at \in {"clean", "refused"} : preq' = [preq EXCEPT ![r] = [preq[r] EXCEPT !.at = at]]
    BY <1>7 DEF CleanUp, Stopping
  <2>2. UNCHANGED <<clusters, crossed, services>>
    BY <1>7 DEF CleanUp, Stopping
  <2>3. [preq[r] EXCEPT !.at = at].at # "picked"
    BY DEF ProvShaped, ProvWork
  <2> QED BY <1>4, <2>1, <2>2, <2>3
<1>8. ASSUME NEW r \in ProvRequest, Play(r) \/ RefuseAdd(r) \/ RefuseRemoval(r) \/ CommitRemove(r)
      PROVE  Apart' /\ PortsDistinct'
  <2>1. UNCHANGED <<clusters, crossed>> /\ services' \subseteq services /\ Ended(r)
    BY <1>8 DEF Play, RefuseAdd, RefuseRemoval, CommitRemove
  <2> QED BY <1>4, <2>1, NoRequestTyped DEF Ended
<1>9. ASSUME NEW r \in ProvRequest, CommitAdd(r) PROVE Apart' /\ PortsDistinct'
  <2>1. \A q \in ProvRequest : preq'[q] = preq[q] \/ preq'[q].at # "picked"
    BY <1>9, NoRequestTyped DEF ProvShaped, CommitAdd, Ended
  <2>2. There' = There /\ UNCHANGED clusters
    BY <1>9 DEF There, CommitAdd
  <2>3. Apart'
    BY <2>1, <2>2, ApartKept
  <2>4. ASSUME NEW a \in There, NEW b \in There, a # b, {a, b} \notin crossed', SharesHost(a, b)'
        PROVE  clusters[a].slot # clusters[b].slot
    <3> DEFINE c == preq[r].cluster
    <3>1. /\ \A x \in preq[r].todo : x[1] = c
          /\ \A d \in There : HostsIn(Of(services, d)) \cap HostsIn(preq[r].todo) # {} /\ d # c
               => {c, d} \in crossed'
          /\ services' = services \cup preq[r].todo /\ crossed \subseteq crossed'
      BY <1>9 DEF CommitAdd, ProvShaped, Shape, PairsWith
    <3>2. PICK x \in services', y \in services' : x[1] = a /\ y[1] = b /\ x[2] = y[2]
      BY <2>4 DEF SharesHost, HostsIn, Of
    <3>3. {a, b} = {b, a}
      OBVIOUS
    <3>4. x \in services
      BY <2>4, <3>1, <3>2, <3>3 DEF HostsIn, Of
    <3>5. y \in services
      BY <2>4, <3>1, <3>2, <3>3 DEF HostsIn, Of
    <3>6. SharesHost(a, b) /\ {a, b} \notin crossed
      BY <2>4, <3>1, <3>2, <3>4, <3>5 DEF SharesHost, HostsIn, Of
    <3> QED BY <2>4, <3>6 DEF PortsDistinct, SharesHost
  <2> QED BY <2>2, <2>3, <2>4 DEF PortsDistinct, SharesHost
<1>10. ASSUME NEW r \in ProvRequest, CommitDelete(r) PROVE Apart' /\ PortsDistinct'
  <2> DEFINE c == preq[r].cluster
  <2>1. /\ \A d \in ClusterId \ {c} : clusters'[d] = clusters[d]
        /\ \A d \in There' : d \in There /\ d # c
        /\ services' \subseteq services
    BY <1>10 DEF CommitDelete, ProvShaped, There
  <2>2. \A q \in ProvRequest : preq'[q] = preq[q] \/ preq'[q].at # "picked"
    BY <1>10, NoRequestTyped DEF ProvShaped, CommitDelete, Ended
  <2>3. Apart'
    BY <2>1, <2>2, ApartKept DEF There
  <2>4. ASSUME NEW a \in There', NEW b \in There', a # b, {a, b} \notin crossed', SharesHost(a, b)'
        PROVE  clusters'[a].slot # clusters'[b].slot
    <3>1. {a, b} \notin crossed
      BY <1>10, <2>1, <2>4 DEF CommitDelete
    <3>2. SharesHost(a, b)
      BY <2>1, <2>4 DEF SharesHost, HostsIn, Of
    <3> QED BY <2>1, <2>4, <3>1, <3>2 DEF PortsDistinct, SharesHost, There
  <2> QED BY <2>3, <2>4 DEF PortsDistinct, SharesHost
<1>11. CASE UNCHANGED provVars
  BY <1>11 DEF provVars, Apart, PortsDistinct, There
<1> QED BY <1>1, <1>2, <1>3, <1>5, <1>6, <1>7, <1>8, <1>9, <1>10, <1>11 DEF ProvNext

-----------------------------------------------------------------------------
(* Units.                                                                  *)

\* A request that does not move stays calm if its cluster's rows stay while it plays,
\* and no deploy and no unit comes to it while it cleans.
LEMMA CalmKept ==
  ASSUME ProvShaped, NEW q \in ProvRequest, preq'[q] = preq[q], Calm(preq[q]),
         preq[q].at = "playing" =>
             preq[q].cluster \in There' /\ \A x \in preq[q].todo : x \in services => x \in services',
         preq[q].at \in {"cleaning", "clean"} =>
             /\ preq[q].cluster \in Deploying' => preq[q].cluster \in Deploying
             /\ \A u \in active' : u[1] = preq[q].cluster => u \in active /\ (u \in unsure => u \in unsure')
  PROVE  Calm(preq[q])'
<1>1. preq[q].at \in {"cleaning", "clean"} => \A u \in UnitsOf(preq[q].todo) : u[1] = preq[q].cluster
  BY UnitsTyped DEF ProvShaped, Shape, ProvWork
<1>2. ASSUME preq[q].at \in {"cleaning", "clean"}
      PROVE  /\ Of(active, preq[q].cluster)' \subseteq Of(active, preq[q].cluster)
             /\ Of(active \ unsure, preq[q].cluster)' \subseteq Of(active \ unsure, preq[q].cluster)
             /\ Of(active, preq[q].cluster)' \cap unsure \subseteq unsure'
  BY <1>2 DEF Of
<1>3. CASE preq[q].at \in {"cleaning", "clean"}
  <2> DEFINE c == preq[q].cluster
             units == UnitsOf(preq[q].todo)
  <2>1. active' \cap units \subseteq Of(active', c)
    BY <1>1, <1>3 DEF Of
  <2>2. preq[q].at = "clean" => active \cap units \subseteq unsure
    BY DEF Calm
  <2>3. preq[q].at = "clean" => active' \cap units \subseteq unsure'
    BY <1>2, <1>3, <2>1, <2>2 DEF Of
  <2>4. preq[q].at = "clean" /\ preq[q].op = "delete" => Of(active', c) \subseteq unsure'
    BY <1>2, <1>3 DEF Calm, Of
  <2>5. preq[q].at = "cleaning" /\ preq[q].op = "delete" => Of(active' \ unsure', c) \subseteq units
    BY <1>2, <1>3 DEF Calm, Of
  <2>6. ~preq[q].force /\ c \notin Deploying'
    BY <1>3 DEF Calm
  <2>7. UnitsOf(preq[q].todo)' = units /\ Of(active, preq[q].cluster)' = Of(active', c)
        /\ Of(active \ unsure, preq[q].cluster)' = Of(active' \ unsure', c)
    BY DEF UnitsOf, Of
  <2> HIDE DEF c, units
  <2> QED BY <1>3, <2>3, <2>4, <2>5, <2>6, <2>7 DEF Calm, c
<1>4. CASE preq[q].at \notin {"cleaning", "clean"}
  BY <1>4 DEF Calm
<1> QED BY <1>3, <1>4

\* One request moves, and does not begin to play: nobody's cluster is deployed anew.
LEMMA NoNewDeploy ==
  ASSUME ProvShaped, NEW r \in ProvRequest, NEW w, preq' = [preq EXCEPT ![r] = w], w.at # "playing"
  PROVE  /\ Deploying' \subseteq Deploying /\ preq'[r] = w
         /\ \A q \in ProvRequest \ {r} : preq'[q] = preq[q]
  BY DEF ProvShaped, Deploying

\* A request that changes rows and units of nobody, and is calm itself.
LEMMA OthersCalm ==
  ASSUME UnitsInv, NEW r \in ProvRequest, NEW w, preq' = [preq EXCEPT ![r] = w], w.at # "playing",
         UNCHANGED clusters, services \subseteq services', active' \subseteq active, excused \subseteq excused',
         unsure \cap active' \subseteq unsure', w.cluster \notin excused' => Calm(w)'
  PROVE  Quiet' /\ NoUnitLeft'
<1>1. /\ Deploying' \subseteq Deploying /\ preq'[r] = w
      /\ \A q \in ProvRequest \ {r} : preq'[q] = preq[q]
  BY NoNewDeploy DEF UnitsInv
<1>2. There' = There
  BY DEF There
<1>3. ASSUME NEW q \in ProvRequest, preq'[q].cluster \notin excused' PROVE Calm(preq[q])'
  <2>1. CASE q = r
    BY <1>1, <1>3, <2>1 DEF Calm
  <2>2. CASE q # r
    <3>1. preq'[q] = preq[q] /\ Calm(preq[q])
      BY <1>1, <1>3, <2>2 DEF UnitsInv, Quiet
    <3> QED BY <1>1, <1>2, <3>1, CalmKept DEF UnitsInv, Calm
  <2> QED BY <2>1, <2>2
<1>4. NoUnitLeft'
  <2>1. UnitsOf(services) \subseteq UnitsOf(services')
    BY DEF UnitsOf
  <2> QED BY <1>2, <2>1 DEF UnitsInv, NoUnitLeft
<1> QED BY <1>3, <1>4 DEF Quiet

LEMMA UnitsKept == UnitsInv /\ [ProvNext]_provVars => UnitsInv'
<1> SUFFICES ASSUME UnitsInv, [ProvNext]_provVars PROVE Quiet' /\ NoUnitLeft'
  BY ShapedKept DEF UnitsInv
<1> USE DEF UnitsInv
<1>1. ASSUME NEW c \in ClusterId, NEW slot \in Slot, NEW rf \in 1 .. 2, NEW hs \in (SUBSET Machine) \ {{}},
             NEW role \in [hs -> PlacedRole], CreateCluster(c, slot, rf, {<<c, h, role[h], SomeId>> : h \in hs})
      PROVE  Quiet' /\ NoUnitLeft'
  <2>1. /\ There \subseteq There' /\ UNCHANGED <<active, preq, unsure>> /\ Deploying' = Deploying
        /\ services \subseteq services' /\ excused \subseteq excused'
    BY <1>1 DEF CreateCluster, ProvShaped, There, Deploying
  <2>2. ASSUME NEW q \in ProvRequest, preq'[q].cluster \notin excused' PROVE Calm(preq[q])'
    <3>1. preq'[q] = preq[q] /\ Calm(preq[q])
      BY <2>1, <2>2 DEF Quiet
    <3> QED BY <2>1, <3>1, CalmKept DEF Calm
  <2> QED BY <2>1, <2>2 DEF Quiet, NoUnitLeft, UnitsOf
<1>2. ASSUME NEW r \in ProvRequest, PickPorts(r) PROVE Quiet' /\ NoUnitLeft'
  <2>1. PICK w : preq' = [preq EXCEPT ![r] = w] /\ w.at = "picked"
    <3>1. PICK s, fallback : preq' = [preq EXCEPT ![r] = [NoRequest EXCEPT !.at = "picked", !.seen = services,
                                                            !.slot = s, !.fallback = fallback]]
      BY <1>2 DEF PickPorts, Admit
    <3>2. [NoRequest EXCEPT !.at = "picked", !.seen = services, !.slot = s, !.fallback = fallback].at = "picked"
      BY DEF NoRequest
    <3> QED BY <3>1, <3>2
  <2>2. Calm(w)'
    BY <2>1 DEF Calm
  <2> QED BY <1>2, <2>1, <2>2, OthersCalm DEF PickPorts
<1>3. ASSUME NEW r \in ProvRequest, NEW c \in ClusterId, CommitQuick(r, c) PROVE Quiet' /\ NoUnitLeft'
  <2> DEFINE placed == {c} \X Machine \X {"broker_controller"} \X {SomeId}
             w == Begun("playing", "deploy", c, placed)
  <2>1. w.at = "playing" /\ w.cluster = c /\ w.todo = placed
    BY DEF Begun, NoRequest
  <2>2. preq' = [preq EXCEPT ![r] = w] /\ services' = services \cup placed /\ UNCHANGED <<active, excused, unsure>>
    BY <1>3 DEF CommitQuick
  <2>3. There' = There \cup {c} /\ clusters[c].at = "unused"
    BY <1>3 DEF CommitQuick, There, ProvShaped
  <2> HIDE DEF w, placed
  <2>4. preq'[r] = w /\ \A q \in ProvRequest \ {r} : preq'[q] = preq[q]
    BY <2>2 DEF ProvShaped
  <2>5. Deploying' \subseteq Deploying \cup {c}
    BY <2>1, <2>4 DEF Deploying
  <2>6. ASSUME NEW q \in ProvRequest, preq'[q].cluster \notin excused' PROVE Calm(preq[q])'
    <3>1. CASE q = r
      <4>1. preq'[q].at = "playing" /\ preq'[q].cluster \in There' /\ preq'[q].todo \subseteq services'
        BY <2>1, <2>2, <2>3, <2>4, <3>1
      <4> QED BY <4>1 DEF Calm
    <3>2. CASE q # r
      <4>1. preq'[q] = preq[q] /\ Calm(preq[q])
        BY <2>2, <2>4, <2>6, <3>2 DEF Quiet
      <4>2. preq[q].at \in {"cleaning", "clean"} => preq[q].cluster # c
        BY <2>3 DEF ProvShaped, Shape
      <4> QED BY <2>2, <2>3, <2>5, <4>1, <4>2, CalmKept DEF Calm
    <3> QED BY <3>1, <3>2
  <2> QED BY <2>2, <2>3, <2>6 DEF Quiet, NoUnitLeft, UnitsOf
<1>4. ASSUME NEW r \in ProvRequest, NEW c \in ClusterId, BeginDeploy(r, c) PROVE Quiet' /\ NoUnitLeft'
  <2> DEFINE w == Begun("playing", "deploy", c, Of(services, c))
  <2>1. w.at = "playing" /\ w.cluster = c /\ w.todo = Of(services, c)
    BY DEF Begun, NoRequest
  <2>2. preq' = [preq EXCEPT ![r] = w] /\ c \in There /\ UNCHANGED <<clusters, services, active, unsure>>
    BY <1>4 DEF BeginDeploy, Admit
  <2> HIDE DEF w
  <2>3. preq'[r] = w /\ \A q \in ProvRequest \ {r} : preq'[q] = preq[q]
    BY <2>2 DEF ProvShaped
  <2>4. Deploying' \subseteq Deploying \cup {c} /\ There' = There
    BY <2>1, <2>2, <2>3 DEF Deploying, There
  <2>5. ASSUME NEW q \in ProvRequest \ {r}, preq[q].cluster = c, preq[q].at \in {"cleaning", "clean"}
        PROVE  c \in excused'
    <3>1. preq[q].op \in BusyOn(r, c) /\ preq[q].op \in {"remove", "delete"}
      BY <2>5 DEF BusyOn, ProvShaped, Shape
    <3> QED BY <1>4, <3>1 DEF BeginDeploy, Excuses
  <2>6. excused \subseteq excused'
    BY <1>4 DEF BeginDeploy, Excuses
  <2>7. ASSUME NEW q \in ProvRequest, preq'[q].cluster \notin excused' PROVE Calm(preq[q])'
    <3>1. CASE q = r
      <4>1. preq'[q].at = "playing" /\ preq'[q].cluster \in There' /\ preq'[q].todo \subseteq services'
        BY <2>1, <2>2, <2>3, <2>4, <3>1 DEF Of
      <4> QED BY <4>1 DEF Calm
    <3>2. CASE q # r
      <4>1. preq'[q] = preq[q] /\ Calm(preq[q])
        BY <2>3, <2>6, <2>7, <3>2 DEF Quiet
      <4>2. preq[q].at \in {"cleaning", "clean"} => preq[q].cluster # c
        BY <2>5, <2>7, <3>2, <4>1
      <4> QED BY <2>2, <2>4, <4>1, <4>2, CalmKept DEF Calm
    <3> QED BY <3>1, <3>2
  <2> QED BY <2>2, <2>4, <2>6, <2>7 DEF Quiet, NoUnitLeft, UnitsOf
<1>5. ASSUME NEW r \in ProvRequest, Play(r) PROVE Quiet' /\ NoUnitLeft'
  <2> DEFINE c == preq[r].cluster
  <2>1. PICK started \in SUBSET UnitsOf(preq[r].todo) : active' = active \cup started
    BY <1>5 DEF Play
  <2>2. preq[r].at = "playing" /\ c \in Deploying /\ \A x \in started : x[1] = c
    BY <1>5, <2>1, UnitsTyped DEF Play, Deploying, ProvShaped, Shape, ProvWork
  <2>3. UNCHANGED <<clusters, services, excused, unsure>> /\ There' = There /\ preq' = [preq EXCEPT ![r] = NoRequest]
    BY <1>5 DEF Play, There, Ended
  <2>4. /\ Deploying' \subseteq Deploying /\ preq'[r] = NoRequest
        /\ \A q \in ProvRequest \ {r} : preq'[q] = preq[q]
    BY <2>3, NoRequestTyped, NoNewDeploy
  <2>5. ASSUME NEW q \in ProvRequest, preq'[q].cluster \notin excused' PROVE Calm(preq[q])'
    <3>1. CASE q = r
      BY <2>4, <3>1, NoRequestTyped DEF Calm
    <3>2. CASE q # r
      <4>1. preq'[q] = preq[q] /\ Calm(preq[q])
        BY <2>3, <2>4, <2>5, <3>2 DEF Quiet
      <4>2. preq[q].at \in {"cleaning", "clean"} => preq[q].cluster # c
        BY <2>2, <4>1 DEF Calm
      <4>3. preq[q].at \in {"cleaning", "clean"} => \A x \in active' : x[1] = preq[q].cluster => x \in active
        BY <2>1, <2>2, <4>2
      <4> QED BY <2>3, <2>4, <4>1, <4>3, CalmKept DEF Calm
    <3> QED BY <3>1, <3>2
  <2>6. ASSUME NEW x \in started, c \notin excused PROVE x \in UnitsOf(services) /\ x[1] \in There
    <3>1. preq[r].todo \subseteq services /\ c \in There
      BY <2>2, <2>6 DEF Quiet, Calm
    <3> QED BY <2>2, <3>1 DEF UnitsOf
  <2>7. NoUnitLeft'
    <3>1. UnitsOf(services)' = UnitsOf(services)
      BY <2>3 DEF UnitsOf
    <3> QED BY <2>1, <2>2, <2>3, <2>6, <3>1 DEF NoUnitLeft
  <2> QED BY <2>5, <2>7 DEF Quiet
<1>6. ASSUME NEW r \in ProvRequest, NEW x \in Placement, BeginAdd(r, x) PROVE Quiet' /\ NoUnitLeft'
  <2> DEFINE w == Begun("adding", "add", x[1], {x})
  <2>1. w.at = "adding"
    BY DEF Begun, NoRequest
  <2> HIDE DEF w
  <2>2. Calm(w)'
    BY <2>1 DEF Calm
  <2>3. preq' = [preq EXCEPT ![r] = w]
    BY <1>6 DEF BeginAdd, Admit, w
  <2> QED BY <1>6, <2>1, <2>2, <2>3, OthersCalm DEF BeginAdd
<1>7. ASSUME NEW r \in ProvRequest, CommitAdd(r) \/ RefuseAdd(r) \/ RefuseRemoval(r)
      PROVE  Quiet' /\ NoUnitLeft'
  <2>1. Calm(NoRequest)'
    BY NoRequestTyped DEF Calm
  <2> QED BY <1>7, <2>1, NoRequestTyped, OthersCalm DEF CommitAdd, RefuseAdd, RefuseRemoval, Ended
<1>8. ASSUME NEW r \in ProvRequest, NEW c, NEW ops, "deploy" \in ops, Excuses(r, c, ops), c \notin excused',
             preq[r].at = "idle"
      PROVE  c \notin Deploying
  BY <1>8 DEF Excuses, BusyOn, Deploying, ProvShaped, Shape
<1>9. ASSUME NEW r \in ProvRequest, NEW x \in services, NEW force \in BOOLEAN, BeginRemove(r, x, force)
      PROVE  Quiet' /\ NoUnitLeft'
  <2> DEFINE w == [Begun("cleaning", "remove", x[1], {x}) EXCEPT !.force = force]
  <2>1. w.at = "cleaning" /\ w.op = "remove" /\ w.cluster = x[1] /\ (w.force <=> force)
    BY DEF Begun, NoRequest
  <2>2. preq' = [preq EXCEPT ![r] = w] /\ preq[r].at = "idle" /\ UNCHANGED <<clusters, services, active, unsure>>
    BY <1>9 DEF BeginRemove, Admit
  <2> HIDE DEF w
  <2>3. excused \subseteq excused'
    BY <1>9 DEF BeginRemove, Excuses
  <2>4. Deploying' \subseteq Deploying
    BY <2>1, <2>2, NoNewDeploy
  <2>5. ASSUME x[1] \notin excused' PROVE ~force /\ x[1] \notin Deploying
    BY <1>8, <1>9, <2>2, <2>5 DEF BeginRemove
  <2>6. w.cluster \notin excused' => Calm(w)'
    BY <2>1, <2>4, <2>5 DEF Calm
  <2> QED BY <2>1, <2>2, <2>3, <2>6, OthersCalm
<1>10. ASSUME NEW r \in ProvRequest, NEW c \in ClusterId, BeginDelete(r, c) PROVE Quiet' /\ NoUnitLeft'
  <2>1. PICK w : w = Begun("cleaning", "delete", c, Of(services, c))
    OBVIOUS
  <2>2. w.at = "cleaning" /\ w.op = "delete" /\ w.cluster = c /\ w.todo = Of(services, c) /\ ~w.force
    BY <2>1 DEF Begun, NoRequest
  <2>3. preq' = [preq EXCEPT ![r] = w] /\ preq[r].at = "idle" /\ UNCHANGED <<clusters, services, active, unsure>>
    BY <1>10, <2>1 DEF BeginDelete, Admit
  <2>4. excused \subseteq excused'
    BY <1>10 DEF BeginDelete, Excuses
  <2>5. Deploying' \subseteq Deploying
    BY <2>2, <2>3, NoNewDeploy
  <2>6. ASSUME c \notin excused' PROVE c \notin Deploying
    BY <1>8, <1>10, <2>3, <2>6 DEF BeginDelete
  <2>7. ASSUME c \notin excused PROVE Of(active \ unsure, c) \subseteq UnitsOf(Of(services, c))
    BY <2>7 DEF NoUnitLeft, Of, UnitsOf
  <2>8. w.cluster \notin excused' => Calm(w)'
    BY <2>2, <2>3, <2>4, <2>5, <2>6, <2>7 DEF Calm, Of
  <2> QED BY <2>2, <2>3, <2>4, <2>8, OthersCalm
<1>11. ASSUME NEW r \in ProvRequest, CleanUp(r) PROVE Quiet' /\ NoUnitLeft'
  <2>1. PICK at \in {"clean", "refused"} :
          /\ preq' = [preq EXCEPT ![r] = [preq[r] EXCEPT !.at = at]]
          /\ at = "clean" => preq[r].force \/ active' \cap UnitsOf(preq[r].todo) \subseteq unsure'
          /\ unsure \cap active' \subseteq unsure'
    BY <1>11 DEF CleanUp, Stopping
  <2>2. PICK w : w = [preq[r] EXCEPT !.at = at]
    OBVIOUS
  <2>3. /\ w.at = at /\ w.op = preq[r].op /\ w.cluster = preq[r].cluster /\ w.todo = preq[r].todo
        /\ (w.force <=> preq[r].force)
    BY <2>2 DEF ProvShaped, ProvWork
  <2>4. /\ preq[r].at = "cleaning" /\ active' \subseteq active
        /\ UNCHANGED <<clusters, services, excused>> /\ preq' = [preq EXCEPT ![r] = w]
    BY <1>11, <2>1, <2>2 DEF CleanUp, Stopping
  <2>5. Deploying' \subseteq Deploying
    BY <2>3, <2>4, NoNewDeploy
  <2>6. ASSUME w.cluster \notin excused' PROVE Calm(w)'
    <3>1. Calm(preq[r])
      BY <2>3, <2>4, <2>6 DEF Quiet
    <3>2. /\ ~w.force /\ w.cluster \notin Deploying'
          /\ w.op = "delete" => Of(active \ unsure, w.cluster) \subseteq UnitsOf(w.todo)
      BY <2>3, <2>4, <2>5, <3>1 DEF Calm
    <3>3. at = "clean" =>
            /\ active' \cap UnitsOf(w.todo) \subseteq unsure'
            /\ w.op = "delete" => Of(active', w.cluster) \subseteq unsure'
      BY <2>1, <2>3, <2>4, <3>2 DEF Of
    <3> QED BY <2>3, <3>2, <3>3 DEF Calm
  <2> QED BY <2>1, <2>3, <2>4, <2>6, OthersCalm
<1>12. ASSUME NEW r \in ProvRequest, CommitRemove(r) \/ CommitDelete(r) PROVE Quiet' /\ NoUnitLeft'
  <2> DEFINE c == preq[r].cluster
  <2>1. /\ preq[r].at = "clean" /\ UNCHANGED <<active, excused, unsure>> /\ preq' = [preq EXCEPT ![r] = NoRequest]
        /\ \A x \in preq[r].todo : x[1] = c
    BY <1>12 DEF CommitRemove, CommitDelete, Ended, ProvShaped, Shape
  <2>2. \A x \in services : x[1] # c => x \in services'
    BY <1>12, <2>1 DEF CommitRemove, CommitDelete, Of
  <2>3. \A d \in There \ {c} : d \in There'
    BY <1>12 DEF CommitRemove, CommitDelete, ProvShaped, There
  <2>4. /\ Deploying' \subseteq Deploying /\ preq'[r] = NoRequest
        /\ \A q \in ProvRequest \ {r} : preq'[q] = preq[q]
    BY <2>1, NoRequestTyped, NoNewDeploy
  <2>5. ASSUME NEW q \in ProvRequest, preq'[q].cluster \notin excused' PROVE Calm(preq[q])'
    <3>1. CASE q = r
      BY <2>4, <3>1, NoRequestTyped DEF Calm
    <3>2. CASE q # r
      <4>1. preq'[q] = preq[q] /\ Calm(preq[q])
        BY <2>1, <2>4, <2>5, <3>2 DEF Quiet
      <4>2. preq[q].at = "playing" => preq[q].cluster # c
        BY <2>1, <2>5, <4>1 DEF Quiet, Calm, Deploying
      <4>3. preq[q].at = "playing" => \A x \in preq[q].todo : x[1] = preq[q].cluster
        BY DEF ProvShaped, Shape
      <4> QED BY <2>1, <2>2, <2>3, <2>4, <4>1, <4>2, <4>3, CalmKept DEF Calm
    <3> QED BY <3>1, <3>2
  <2>6. ASSUME NEW x \in active \ unsure, x[1] \notin excused PROVE x \in UnitsOf(services') /\ x[1] \in There'
    <3>0. x[1] \in There /\ x \in UnitsOf(services)
      BY <2>6 DEF NoUnitLeft
    <3>1. PICK y \in services : x = <<y[1], y[2], y[3]>>
      BY <3>0 DEF UnitsOf
    <3>2. CASE x[1] # c
      BY <2>2, <2>3, <3>0, <3>1, <3>2 DEF UnitsOf
    <3>3. CASE x[1] = c
      <4>1. Calm(preq[r])
        BY <2>6, <3>3 DEF Quiet
      <4>2. y \notin preq[r].todo /\ preq[r].op # "delete"
        BY <2>1, <2>6, <3>1, <3>3, <4>1 DEF Calm, Of, UnitsOf
      <4>3. y \in services' /\ There' = There
        BY <1>12, <3>1, <4>2 DEF CommitRemove, CommitDelete, There
      <4> QED BY <3>0, <3>1, <4>3 DEF UnitsOf
    <3> QED BY <3>2, <3>3
  <2> QED BY <2>1, <2>5, <2>6 DEF Quiet, NoUnitLeft
<1>13. CASE UNCHANGED provVars
  BY <1>13 DEF provVars, Quiet, Calm, NoUnitLeft, UnitsOf, Of, Deploying, There
<1> QED BY <1>1, <1>2, <1>3, <1>4, <1>5, <1>6, <1>7, <1>9, <1>10, <1>11, <1>12, <1>13 DEF ProvNext

-----------------------------------------------------------------------------
(* Brokers and controllers.                                                *)

\* Sets of services of one cluster are finite, and enough stays enough when more come.
LEMMA OfFinite == ASSUME NEW s \in SUBSET Placement, NEW c \in ClusterId PROVE IsFiniteSet(Of(s, c))
<1>1. IsFiniteSet(PlacedRole)
  <2>1. IsFiniteSet({"broker"} \cup {"controller"} \cup {"broker_controller"} \cup {"ksqldb"})
    BY FS_Singleton, FS_Union
  <2>2. ServiceRole = {"broker"} \cup {"controller"} \cup {"broker_controller"} \cup {"ksqldb"}
    BY DEF ServiceRole
  <2> QED BY <2>1, <2>2, FS_Subset, SlotsAssumption
<1> DEFINE kinds == (Machine \X PlacedRole) \X RowId
<1>2. IsFiniteSet(kinds)
  <2>1. IsFiniteSet(Machine \X PlacedRole)
    BY <1>1, FS_Product, SlotsAssumption
  <2> QED BY <2>1, FS_Product, SlotsAssumption
<1> DEFINE all == {c} \X Machine \X PlacedRole \X RowId
           f == [y \in kinds |-> <<c, y[1][1], y[1][2], y[2]>>]
<1>3. f \in Surjection(kinds, all)
  <2>1. f \in [kinds -> all]
    OBVIOUS
  <2>2. ASSUME NEW x \in all PROVE \E y \in kinds : f[y] = x
    <3>1. <<<<x[2], x[3]>>, x[4]>> \in kinds /\ f[<<<<x[2], x[3]>>, x[4]>>] = x
      OBVIOUS
    <3> QED BY <3>1
  <2> QED BY <2>1, <2>2 DEF Surjection
<1>4. IsFiniteSet(all)
  <2> HIDE DEF all, f, kinds
  <2> QED BY <1>2, <1>3, FS_Surjection
<1>5. Of(s, c) \subseteq all
  BY DEF Of, Placement
<1> QED BY <1>4, <1>5, FS_Subset

LEMMA EnoughGrows ==
  ASSUME NEW c \in ClusterId, NEW s \in SUBSET Placement, NEW t \in SUBSET Of(s, c), NEW rf \in Nat, Enough(t, rf)
  PROVE  Enough(Of(s, c), rf)
<1>1. Brokers(t) \subseteq Brokers(Of(s, c)) /\ Controllers(t) \subseteq Controllers(Of(s, c))
  BY DEF Brokers, Controllers
<1>2. IsFiniteSet(Brokers(Of(s, c))) /\ IsFiniteSet(Brokers(t))
  BY <1>1, OfFinite, FS_Subset DEF Brokers
<1>3. Cardinality(Brokers(t)) <= Cardinality(Brokers(Of(s, c)))
  BY <1>1, <1>2, FS_Subset
<1> QED BY <1>1, <1>2, <1>3, FS_CardinalityType DEF Enough

\* Quick deploy places a broker and controller on every host: enough for its factor.
LEMMA QuickEnough ==
  ASSUME NEW c \in ClusterId
  PROVE  QuickFactor \in Nat /\ Enough({c} \X Machine \X {"broker_controller"} \X {SomeId}, QuickFactor)
<1> DEFINE placed == {c} \X Machine \X {"broker_controller"} \X {SomeId}
           f == [h \in Machine |-> <<c, h, "broker_controller", SomeId>>]
<1>1. f \in Bijection(Machine, placed)
  <2>1. f \in [Machine -> placed]
    OBVIOUS
  <2>2. \A h, k \in Machine : f[h] = f[k] => h = k
    OBVIOUS
  <2>3. ASSUME NEW x \in placed PROVE \E h \in Machine : f[h] = x
    <3>1. x[2] \in Machine /\ f[x[2]] = x
      OBVIOUS
    <3> QED BY <3>1
  <2> QED BY <2>1, <2>2, <2>3 DEF Bijection, Injection, Surjection, IsInjective
<1>2. IsFiniteSet(placed) /\ Cardinality(placed) = Cardinality(Machine)
  <2>1. ExistsBijection(Machine, placed)
    BY <1>1 DEF ExistsBijection
  <2> QED BY <2>1, FS_Bijection, SlotsAssumption
<1>3. Cardinality(Machine) \in Nat
  BY FS_CardinalityType, SlotsAssumption
<1>4. Brokers(placed) = placed /\ Controllers(placed) = placed
  BY DEF Brokers, Controllers
<1>5. placed # {}
  <2>1. PICK h \in Machine : TRUE
    BY SlotsAssumption
  <2>2. <<c, h, "broker_controller", SomeId>> \in placed
    OBVIOUS
  <2> QED BY <2>2
<1> HIDE DEF placed
<1> QED BY <1>2, <1>3, <1>4, <1>5 DEF Enough, QuickFactor, placed

\* What removes a service of an undisturbed cluster leaves enough, and is alone.
Removing(r) == preq[r].op = "remove" /\ preq[r].at \in {"cleaning", "clean"}
Backed(p) ==
    p.cluster \in There => Enough(Of(services, p.cluster) \ p.todo, clusters[p.cluster].rf)
AllBacked ==
    \A r \in ProvRequest : Removing(r) /\ preq[r].cluster \notin excused =>
        /\ Backed(preq[r])
        /\ \A q \in ProvRequest \ {r} : Removing(q) => preq[q].cluster # preq[r].cluster
FactorsTyped == \A c \in There : clusters[c].rf \in Nat
EnoughInv == ProvShaped /\ FactorsTyped /\ AllBacked /\ RemovalKeepsEnough

\* Services come, clusters that were there keep their factor: what removes stays backed.
LEMMA BackedGrows ==
  ASSUME ProvShaped, FactorsTyped, ProvShaped', NEW r \in ProvRequest, Removing(r), Backed(preq[r]),
         preq'[r] = preq[r],
         \A x \in services : x[1] = preq[r].cluster => x \in services',
         preq[r].cluster \in There' => preq[r].cluster \in There /\ clusters'[preq[r].cluster] = clusters[preq[r].cluster]
  PROVE  Backed(preq[r])'
<1> DEFINE c == preq[r].cluster
           kept == {x \in services' : x \notin preq[r].todo}
<1> SUFFICES ASSUME c \in There' PROVE Enough(Of(services', c) \ preq[r].todo, clusters[c].rf)
  BY DEF Backed
<1>1. c \in ClusterId /\ clusters[c].rf \in Nat /\ Enough(Of(services, c) \ preq[r].todo, clusters[c].rf)
  BY DEF Backed, FactorsTyped, There
<1>2. Of(services, c) \ preq[r].todo \subseteq Of(kept, c) /\ kept \subseteq Placement
  BY DEF Of, ProvShaped
<1>3. Of(services', c) \ preq[r].todo = Of(kept, c)
  BY DEF Of
<1> HIDE DEF kept
<1> QED BY <1>1, <1>2, <1>3, EnoughGrows

LEMMA EnoughKept == EnoughInv /\ [ProvNext]_provVars => EnoughInv'
<1> SUFFICES ASSUME EnoughInv, [ProvNext]_provVars PROVE FactorsTyped' /\ AllBacked' /\ RemovalKeepsEnough'
  BY ShapedKept DEF EnoughInv
<1> USE DEF EnoughInv
<1>1. ProvShaped'
  BY ShapedKept
\* Rows only come: nobody loses a service, nobody begins to remove one.
<1>2. ASSUME \A r \in ProvRequest : Removing(r)' => Removing(r) /\ preq'[r] = preq[r],
             \A x \in services : x[1] \in There' => x \in services', excused \subseteq excused',
             \A c \in ClusterId : clusters[c].at # "unused" /\ c \in There'
                                    => c \in There /\ clusters'[c] = clusters[c],
             \A c \in There' : clusters[c].at = "unused" =>
                                 clusters'[c].rf \in Nat /\ (c \in excused' \/ Enough(Of(services', c), clusters'[c].rf))
      PROVE  FactorsTyped' /\ AllBacked' /\ RemovalKeepsEnough'
  <2>1. FactorsTyped'
    BY <1>2 DEF FactorsTyped, There
  <2>2. ASSUME NEW r \in ProvRequest, Removing(r)', preq'[r].cluster \notin excused'
        PROVE  /\ Backed(preq[r])'
               /\ \A q \in ProvRequest \ {r} : Removing(q)' => preq'[q].cluster # preq'[r].cluster
    <3>1. Removing(r) /\ preq'[r] = preq[r] /\ preq[r].cluster \notin excused
      BY <1>2, <2>2
    <3>2. preq[r].cluster \in ClusterId /\ clusters[preq[r].cluster].at # "unused"
      BY <3>1 DEF Removing, ProvShaped, Shape
    <3>3. \A q \in ProvRequest \ {r} : Removing(q)' => preq'[q].cluster # preq'[r].cluster
      BY <1>2, <3>1 DEF AllBacked
    <3>4. Backed(preq[r])'
      <4>1. CASE preq[r].cluster \in There'
        BY <1>1, <1>2, <3>1, <3>2, <4>1, BackedGrows DEF AllBacked
      <4>2. CASE preq[r].cluster \notin There'
        BY <3>1, <4>2 DEF Backed
      <4> QED BY <4>1, <4>2
    <3> QED BY <3>3, <3>4
  <2>3. ASSUME NEW c \in There', c \notin excused' PROVE Enough(Of(services', c), clusters'[c].rf)
    <3>1. CASE clusters[c].at = "unused"
      BY <1>2, <2>3, <3>1
    <3>2. CASE clusters[c].at # "unused"
      <4>1. c \in ClusterId /\ c \in There /\ clusters'[c] = clusters[c] /\ clusters[c].rf \in Nat
        BY <1>2, <3>2 DEF There, FactorsTyped
      <4>2. Enough(Of(services, c), clusters[c].rf)
        BY <1>2, <2>3, <4>1 DEF RemovalKeepsEnough
      <4>3. Of(services, c) \subseteq Of(services', c) /\ services' \subseteq Placement
        BY <1>1, <1>2 DEF Of, ProvShaped
      <4> QED BY <4>1, <4>2, <4>3, EnoughGrows
    <3> QED BY <3>1, <3>2
  <2> QED BY <2>1, <2>2, <2>3 DEF AllBacked, RemovalKeepsEnough
<1>3. ASSUME NEW r \in ProvRequest, NEW w, preq' = [preq EXCEPT ![r] = w],
             w.op # "remove" \/ w.at \notin {"cleaning", "clean"}
      PROVE  \A q \in ProvRequest : Removing(q)' => Removing(q) /\ preq'[q] = preq[q]
  BY <1>3 DEF Removing, ProvShaped
<1>4. ASSUME NEW r \in ProvRequest, NEW w, preq' = [preq EXCEPT ![r] = w],
             w.op # "remove" \/ w.at \notin {"cleaning", "clean"},
             UNCHANGED clusters, services \subseteq services', excused \subseteq excused'
      PROVE  FactorsTyped' /\ AllBacked' /\ RemovalKeepsEnough'
  <2>1. \A q \in ProvRequest : Removing(q)' => Removing(q) /\ preq'[q] = preq[q]
    BY <1>3, <1>4
  <2>2. There' = There /\ \A c \in There : clusters[c].at # "unused"
    BY <1>4 DEF There
  <2> QED BY <1>2, <1>4, <2>1, <2>2
<1>5. ASSUME NEW c \in ClusterId, NEW slot \in Slot, NEW rf \in 1 .. 2, NEW hs \in (SUBSET Machine) \ {{}},
             NEW role \in [hs -> PlacedRole], CreateCluster(c, slot, rf, {<<c, h, role[h], SomeId>> : h \in hs})
      PROVE  FactorsTyped' /\ AllBacked' /\ RemovalKeepsEnough'
  <2> DEFINE placed == {<<c, h, role[h], SomeId>> : h \in hs}
  <2>1. /\ UNCHANGED preq /\ services' = services \cup placed /\ excused \subseteq excused'
        /\ c \in excused' \/ Enough(placed, rf)
        /\ clusters[c].at = "unused" /\ clusters'[c].rf = rf
        /\ \A d \in ClusterId \ {c} : clusters'[d] = clusters[d]
    BY <1>5 DEF CreateCluster, ProvShaped
  <2>2. placed \subseteq Of(services', c) /\ services' \subseteq Placement
    BY <1>1, <2>1 DEF Of, ProvShaped
  <2> HIDE DEF placed
  <2>3. c \in excused' \/ Enough(Of(services', c), rf)
    <3>1. rf \in Nat
      OBVIOUS
    <3> QED BY <2>1, <2>2, <3>1, EnoughGrows
  <2>4. \A d \in ClusterId : clusters[d].at # "unused" /\ d \in There' => d \in There /\ clusters'[d] = clusters[d]
    BY <2>1 DEF There
  <2>5. \A d \in There' : clusters[d].at = "unused" => d = c
    BY <2>1 DEF There
  <2>6. \A r \in ProvRequest : Removing(r)' => Removing(r) /\ preq'[r] = preq[r]
    BY <2>1 DEF Removing
  <2> QED BY <1>2, <2>1, <2>3, <2>4, <2>5, <2>6
<1>6. ASSUME NEW r \in ProvRequest, NEW c \in ClusterId, CommitQuick(r, c)
      PROVE  FactorsTyped' /\ AllBacked' /\ RemovalKeepsEnough'
  <2> DEFINE placed == {c} \X Machine \X {"broker_controller"} \X {SomeId}
  <2>1. /\ preq' = [preq EXCEPT ![r] = Begun("playing", "deploy", c, placed)]
        /\ services' = services \cup placed /\ UNCHANGED excused
        /\ clusters[c].at = "unused" /\ clusters'[c].rf = QuickFactor
        /\ \A d \in ClusterId \ {c} : clusters'[d] = clusters[d]
    BY <1>6 DEF CommitQuick, ProvShaped
  <2>2. placed \subseteq Of(services', c) /\ services' \subseteq Placement
    BY <1>1, <2>1 DEF Of, ProvShaped
  <2>3. Enough(placed, QuickFactor) /\ QuickFactor \in Nat
    BY QuickEnough
  <2> HIDE DEF placed
  <2>4. Enough(Of(services', c), QuickFactor)
    BY <2>2, <2>3, EnoughGrows
  <2>5. \A d \in ClusterId : clusters[d].at # "unused" /\ d \in There' => d \in There /\ clusters'[d] = clusters[d]
    BY <2>1 DEF There
  <2>6. \A d \in There' : clusters[d].at = "unused" => d = c
    BY <2>1 DEF There
  <2>7. Begun("playing", "deploy", c, placed).op = "deploy"
    BY DEF Begun, NoRequest
  <2>8. \A q \in ProvRequest : Removing(q)' => Removing(q) /\ preq'[q] = preq[q]
    BY <1>3, <2>1, <2>7
  <2> QED BY <1>2, <2>1, <2>3, <2>4, <2>5, <2>6, <2>8
<1>7. ASSUME NEW r \in ProvRequest, \E c \in ClusterId : BeginDeploy(r, c) \/ BeginDelete(r, c)
      PROVE  FactorsTyped' /\ AllBacked' /\ RemovalKeepsEnough'
  <2>1. PICK at, op, c, todo :
          /\ op # "remove" /\ preq' = [preq EXCEPT ![r] = Begun(at, op, c, todo)]
          /\ UNCHANGED <<clusters, services>> /\ excused \subseteq excused'
    BY <1>7 DEF BeginDeploy, BeginDelete, Admit, Excuses
  <2>2. Begun(at, op, c, todo).op = op
    BY DEF Begun, NoRequest
  <2> QED BY <1>4, <2>1, <2>2
<1>8. ASSUME NEW r \in ProvRequest, NEW x \in Placement, BeginAdd(r, x)
      PROVE  FactorsTyped' /\ AllBacked' /\ RemovalKeepsEnough'
  <2>1. Begun("adding", "add", x[1], {x}).op = "add"
    BY DEF Begun, NoRequest
  <2> QED BY <1>4, <1>8, <2>1 DEF BeginAdd, Admit
<1>9. ASSUME NEW r \in ProvRequest, PickPorts(r) PROVE FactorsTyped' /\ AllBacked' /\ RemovalKeepsEnough'
  <2>1. PICK s, fallback : preq' = [preq EXCEPT ![r] = [NoRequest EXCEPT !.at = "picked", !.seen = services,
                                                          !.slot = s, !.fallback = fallback]]
    BY <1>9 DEF PickPorts, Admit
  <2>2. [NoRequest EXCEPT !.at = "picked", !.seen = services, !.slot = s, !.fallback = fallback].at = "picked"
    BY DEF NoRequest
  <2> QED BY <1>4, <1>9, <2>1, <2>2 DEF PickPorts
<1>10. ASSUME NEW r \in ProvRequest, Play(r) \/ CommitAdd(r) \/ RefuseAdd(r) \/ RefuseRemoval(r)
       PROVE  FactorsTyped' /\ AllBacked' /\ RemovalKeepsEnough'
  <2>1. /\ preq' = [preq EXCEPT ![r] = NoRequest] /\ UNCHANGED <<clusters, excused>>
        /\ services \subseteq services'
    BY <1>10 DEF Play, CommitAdd, RefuseAdd, RefuseRemoval, Ended
  <2> QED BY <1>4, <2>1, NoRequestTyped
\* A removal begins: what remains was counted, and nobody else removes.
<1>11. ASSUME NEW r \in ProvRequest, NEW x \in services, NEW force \in BOOLEAN, BeginRemove(r, x, force)
       PROVE  FactorsTyped' /\ AllBacked' /\ RemovalKeepsEnough'
  <2>1. PICK w : w = [Begun("cleaning", "remove", x[1], {x}) EXCEPT !.force = force]
    OBVIOUS
  <2>2. w.cluster = x[1] /\ w.todo = {x}
    BY <2>1 DEF Begun, NoRequest
  <2>3. /\ preq' = [preq EXCEPT ![r] = w] /\ UNCHANGED <<clusters, services>> /\ preq[r].at = "idle"
        /\ excused \subseteq excused' /\ x[1] \in There
    BY <1>11, <2>1 DEF BeginRemove, Admit, Excuses
  <2>4. /\ preq'[r] = w /\ ~Removing(r) /\ There' = There
        /\ \A q \in ProvRequest \ {r} : preq'[q] = preq[q] /\ (Removing(q)' <=> Removing(q))
    BY <2>3 DEF ProvShaped, Removing, There
  <2>5. ASSUME x[1] \notin excused' PROVE MayRemove(x) /\ \A q \in ProvRequest \ {r} : Removing(q) => preq[q].cluster # x[1]
    BY <1>11, <2>5 DEF BeginRemove, Excuses, BusyOn, Removing
  <2>6. ASSUME x[1] \notin excused' PROVE Enough(Of(services, x[1]) \ {x}, clusters[x[1]].rf)
    <3> DEFINE all == Of(services, x[1])
    <3>1. Enough(all, clusters[x[1]].rf)
      BY <2>3, <2>6 DEF RemovalKeepsEnough
    <3>2. x \notin Brokers(all) => Brokers(all \ {x}) = Brokers(all)
      BY DEF Brokers
    <3>3. x \notin Controllers(all) => Controllers(all \ {x}) = Controllers(all)
      BY DEF Controllers
    <3>4. (x \in Brokers(services) <=> x \in Brokers(all)) /\ (x \in Controllers(services) <=> x \in Controllers(all))
      BY DEF Brokers, Controllers, Of
    <3> QED BY <2>5, <2>6, <3>1, <3>2, <3>3, <3>4 DEF MayRemove, Enough
  <2>7. ASSUME NEW q \in ProvRequest, Removing(q)', preq'[q].cluster \notin excused'
        PROVE  /\ Backed(preq[q])'
               /\ \A p \in ProvRequest \ {q} : Removing(p)' => preq'[p].cluster # preq'[q].cluster
    <3>1. CASE q = r
      BY <2>2, <2>3, <2>4, <2>5, <2>6, <2>7, <3>1 DEF Backed
    <3>2. CASE q # r
      BY <2>2, <2>3, <2>4, <2>5, <2>7, <3>2 DEF Backed, AllBacked
    <3> QED BY <3>1, <3>2
  <2> QED BY <2>3, <2>4, <2>7 DEF AllBacked, FactorsTyped, RemovalKeepsEnough
<1>12. ASSUME NEW r \in ProvRequest, CleanUp(r) PROVE FactorsTyped' /\ AllBacked' /\ RemovalKeepsEnough'
  <2>1. PICK at \in {"clean", "refused"} : preq' = [preq EXCEPT ![r] = [preq[r] EXCEPT !.at = at]]
    BY <1>12 DEF CleanUp, Stopping
  <2>2. preq[r].at = "cleaning" /\ UNCHANGED <<clusters, services, excused>> /\ There' = There
    BY <1>12 DEF CleanUp, Stopping, There
  <2>3. ASSUME NEW q \in ProvRequest, Removing(q)'
        PROVE  /\ Removing(q) /\ preq'[q].cluster = preq[q].cluster /\ preq'[q].todo = preq[q].todo
    BY <2>1, <2>2, <2>3 DEF Removing, ProvShaped, ProvWork
  <2>4. ASSUME NEW q \in ProvRequest, Removing(q)', preq'[q].cluster \notin excused'
        PROVE  /\ Backed(preq[q])'
               /\ \A p \in ProvRequest \ {q} : Removing(p)' => preq'[p].cluster # preq'[q].cluster
    BY <2>2, <2>3, <2>4 DEF AllBacked, Backed
  <2> QED BY <2>2, <2>4 DEF AllBacked, FactorsTyped, RemovalKeepsEnough
\* Rows go: one that was counted, of a cluster nobody else removes from, or a whole cluster.
<1>13. ASSUME NEW r \in ProvRequest, CommitRemove(r) \/ CommitDelete(r)
       PROVE  FactorsTyped' /\ AllBacked' /\ RemovalKeepsEnough'
  <2> DEFINE c == preq[r].cluster
  <2>1. /\ preq[r].at = "clean" /\ UNCHANGED excused /\ preq' = [preq EXCEPT ![r] = NoRequest]
        /\ \A x \in preq[r].todo : x[1] = c
    BY <1>13 DEF CommitRemove, CommitDelete, Ended, ProvShaped, Shape
  <2>2. \A x \in services : x[1] # c => x \in services'
    BY <1>13, <2>1 DEF CommitRemove, CommitDelete, Of
  <2>3. \A d \in There' : d \in There /\ clusters'[d] = clusters[d]
    BY <1>13 DEF CommitRemove, CommitDelete, ProvShaped, There
  <2>4. \A q \in ProvRequest : Removing(q)' => Removing(q) /\ preq'[q] = preq[q] /\ q # r
    BY <2>1, NoRequestTyped DEF Removing, ProvShaped
  <2>5. c \in There' => /\ Removing(r) /\ services' = services \ preq[r].todo
    BY <1>13, <2>1 DEF CommitRemove, CommitDelete, Removing, There, ProvShaped
  <2>6. ASSUME NEW q \in ProvRequest, Removing(q)', preq'[q].cluster \notin excused'
        PROVE  /\ Backed(preq[q])'
               /\ \A p \in ProvRequest \ {q} : Removing(p)' => preq'[p].cluster # preq'[q].cluster
    <3>1. Removing(q) /\ preq'[q] = preq[q] /\ q # r /\ preq[q].cluster \notin excused
      BY <2>1, <2>4, <2>6
    <3>2. \A p \in ProvRequest \ {q} : Removing(p)' => preq'[p].cluster # preq'[q].cluster
      BY <2>4, <3>1 DEF AllBacked
    <3>3. Backed(preq[q])'
      <4>1. CASE preq[q].cluster \notin There'
        BY <3>1, <4>1 DEF Backed
      <4>2. CASE preq[q].cluster \in There'
        <5>1. preq[q].cluster # c
          BY <2>5, <3>1, <4>2 DEF AllBacked
        <5>2. \A x \in services : x[1] = preq[q].cluster => x \in services'
          BY <2>2, <5>1
        <5> QED BY <1>1, <2>3, <3>1, <4>2, <5>2, BackedGrows DEF AllBacked
      <4> QED BY <4>1, <4>2
    <3> QED BY <3>2, <3>3
  <2>7. ASSUME NEW d \in There', d \notin excused PROVE Enough(Of(services', d), clusters'[d].rf)
    <3>1. CASE d = c
      <4>1. Enough(Of(services, c) \ preq[r].todo, clusters[c].rf) /\ clusters'[c] = clusters[c]
        BY <2>3, <2>5, <2>7, <3>1 DEF AllBacked, Backed
      <4>2. Of(services', c) = Of(services, c) \ preq[r].todo
        BY <2>5, <2>7, <3>1 DEF Of
      <4> QED BY <3>1, <4>1, <4>2
    <3>2. CASE d # c
      <4>1. Enough(Of(services, d), clusters[d].rf) /\ clusters'[d] = clusters[d] /\ d \in ClusterId
        BY <2>3, <2>7 DEF RemovalKeepsEnough, There
      <4>2. Of(services, d) \subseteq Of(services', d) /\ services' \subseteq Placement
        BY <1>1, <2>2, <3>2 DEF Of, ProvShaped
      <4>3. clusters[d].rf \in Nat
        BY <2>3, <2>7 DEF FactorsTyped
      <4> QED BY <4>1, <4>2, <4>3, EnoughGrows
    <3> QED BY <3>1, <3>2
  <2>8. FactorsTyped'
    BY <2>3 DEF FactorsTyped
  <2> QED BY <2>1, <2>6, <2>7, <2>8 DEF AllBacked, RemovalKeepsEnough
<1>14. CASE UNCHANGED provVars
  BY <1>14 DEF provVars, FactorsTyped, AllBacked, RemovalKeepsEnough, Removing, Backed, There
<1> QED BY <1>5, <1>6, <1>7, <1>8, <1>9, <1>10, <1>11, <1>12, <1>13, <1>14 DEF ProvNext

\* Types: each row, pair and name comes from a request about clusters that exist.
LEMMA PairsTyped == ASSUME NEW c \in ClusterId, NEW ds \in SUBSET ClusterId PROVE PairsWith(c, ds) \subseteq SUBSET ClusterId
  BY DEF PairsWith

LEMMA FactorTyped == QuickFactor \in 1 .. 3
<1>1. Cardinality(Machine) \in Nat /\ Cardinality(Machine) # 0
  BY FS_CardinalityType, FS_EmptySet, SlotsAssumption
<1> QED BY <1>1 DEF QuickFactor

LEMMA ProvTypeKept == ProvShaped /\ ProvTypeOK /\ [ProvNext]_provVars => ProvTypeOK'
<1> SUFFICES ASSUME ProvShaped, ProvTypeOK, [ProvNext]_provVars PROVE ProvTypeOK'
  OBVIOUS
<1>0. services' \subseteq Placement /\ active' \subseteq UnitName /\ preq' \in [ProvRequest -> ProvWork]
  BY ShapedKept DEF ProvShaped
<1>1. There \subseteq ClusterId
  BY DEF There
<1>2. ASSUME NEW r \in ProvRequest, NEW w, Admit(r, w),
             UNCHANGED <<clusters, crossed, unsure>>, excused' \subseteq ClusterId
      PROVE  ProvTypeOK'
  BY <1>0, <1>2, SlotsAssumption DEF Admit, Counted, ProvTypeOK
<1>3. ASSUME UNCHANGED <<made, excused>>, clusters' \in [ClusterId -> ClusterRow],
             crossed' \subseteq SUBSET ClusterId, unsure' \subseteq unsure \cup active'
      PROVE  ProvTypeOK'
  BY <1>0, <1>3 DEF ProvTypeOK
<1>4. ASSUME NEW c \in ClusterId, NEW slot \in Slot, NEW rf \in 1 .. 2, NEW hs \in (SUBSET Machine) \ {{}},
             NEW role \in [hs -> PlacedRole], CreateCluster(c, slot, rf, {<<c, h, role[h], SomeId>> : h \in hs})
      PROVE  ProvTypeOK'
  <2>1. [at |-> "there", slot |-> slot, rf |-> rf] \in ClusterRow
    BY DEF ClusterRow
  <2>2. clusters' \in [ClusterId -> ClusterRow]
    BY <1>4, <2>1 DEF CreateCluster, ProvTypeOK
  <2>3. crossed' \subseteq SUBSET ClusterId /\ excused' \subseteq ClusterId
    BY <1>1, <1>4, PairsTyped DEF CreateCluster, ProvTypeOK
  <2>4. made' \in 0 .. ProvOps
    BY <1>4, SlotsAssumption DEF CreateCluster, Counted, ProvTypeOK
  <2>5. unsure' = unsure
    BY <1>4 DEF CreateCluster
  <2> QED BY <1>0, <2>2, <2>3, <2>4, <2>5 DEF ProvTypeOK
<1>5. ASSUME NEW r \in ProvRequest, NEW c \in ClusterId, CommitQuick(r, c) PROVE ProvTypeOK'
  <2>1. [at |-> "there", slot |-> preq[r].slot, rf |-> QuickFactor] \in ClusterRow
    BY FactorTyped DEF ClusterRow, ProvTypeOK, ProvWork
  <2>2. clusters' \in [ClusterId -> ClusterRow]
    BY <1>5, <2>1 DEF CommitQuick, ProvTypeOK
  <2>3. PICK ds \in SUBSET ClusterId : crossed' = crossed \cup PairsWith(c, ds)
    BY <1>1, <1>5 DEF CommitQuick
  <2> QED BY <1>3, <1>5, <2>2, <2>3, PairsTyped DEF CommitQuick, ProvTypeOK
<1>6. ASSUME NEW r \in ProvRequest, CommitAdd(r) PROVE ProvTypeOK'
  <2>1. preq[r].cluster \in ClusterId
    BY <1>6 DEF CommitAdd, ProvShaped, Shape
  <2>2. PICK ds \in SUBSET ClusterId : crossed' = crossed \cup PairsWith(preq[r].cluster, ds)
    BY <1>1, <1>6 DEF CommitAdd
  <2> QED BY <1>3, <1>6, <2>1, <2>2, PairsTyped DEF CommitAdd, ProvTypeOK
<1>7. ASSUME NEW r \in ProvRequest, CommitDelete(r) PROVE ProvTypeOK'
  <2>1. [at |-> "gone", slot |-> 0, rf |-> 1] \in ClusterRow
    BY SlotsAssumption DEF ClusterRow, Slot
  <2>2. clusters' \in [ClusterId -> ClusterRow]
    BY <1>7, <2>1 DEF CommitDelete, ProvTypeOK
  <2> QED BY <1>3, <1>7, <2>2 DEF CommitDelete, ProvTypeOK
<1>8. ASSUME NEW r \in ProvRequest, PickPorts(r) PROVE ProvTypeOK'
  BY <1>2, <1>8 DEF PickPorts, ProvTypeOK
<1>9. ASSUME NEW r \in ProvRequest, NEW c \in ClusterId, BeginDeploy(r, c) \/ BeginDelete(r, c) PROVE ProvTypeOK'
  <2>1. excused' \subseteq ClusterId
    BY <1>9 DEF BeginDeploy, BeginDelete, Excuses, ProvTypeOK
  <2> QED BY <1>2, <1>9, <2>1 DEF BeginDeploy, BeginDelete
<1>10. ASSUME NEW r \in ProvRequest, NEW x \in Placement, BeginAdd(r, x) PROVE ProvTypeOK'
  BY <1>2, <1>10 DEF BeginAdd, ProvTypeOK
<1>11. ASSUME NEW r \in ProvRequest, NEW x \in services, NEW force \in BOOLEAN, BeginRemove(r, x, force)
       PROVE  ProvTypeOK'
  <2>1. excused' \subseteq ClusterId
    BY <1>1, <1>11 DEF BeginRemove, Excuses, ProvTypeOK
  <2> QED BY <1>2, <1>11, <2>1 DEF BeginRemove
<1>12. ASSUME NEW r \in ProvRequest,
              Play(r) \/ RefuseAdd(r) \/ CleanUp(r) \/ RefuseRemoval(r) \/ CommitRemove(r)
       PROVE  ProvTypeOK'
  BY <1>3, <1>12 DEF Play, RefuseAdd, CleanUp, Stopping, RefuseRemoval, CommitRemove, ProvTypeOK
<1>13. CASE UNCHANGED provVars
  BY <1>3, <1>13 DEF provVars, ProvTypeOK
<1> QED BY <1>4, <1>5, <1>6, <1>7, <1>8, <1>9, <1>10, <1>11, <1>12, <1>13 DEF ProvNext

-----------------------------------------------------------------------------
(* Theorems.                                                               *)

LEMMA ProvisionStart == ProvInit => PortsInv /\ UnitsInv /\ EnoughInv
<1> SUFFICES ASSUME ProvInit PROVE PortsInv /\ UnitsInv /\ EnoughInv
  OBVIOUS
<1>1. ProvShaped
  BY NoRequestTyped DEF ProvInit, ProvShaped, Shape, NoRequest
<1>2. Apart /\ PortsDistinct
  BY NoRequestTyped DEF ProvInit, Apart, PortsDistinct, There
<1>3. Quiet /\ NoUnitLeft
  BY NoRequestTyped DEF ProvInit, Quiet, Calm, NoUnitLeft
<1>4. FactorsTyped /\ AllBacked /\ RemovalKeepsEnough
  BY NoRequestTyped DEF ProvInit, FactorsTyped, AllBacked, Removing, RemovalKeepsEnough, There
<1> QED BY <1>1, <1>2, <1>3, <1>4 DEF PortsInv, UnitsInv, EnoughInv

\* Rows, units, requests and histories keep their types: no commit names a cluster that
\* its request was not about.
THEOREM ProvisionTyped == ProvSpec => []ProvTypeOK
<1>1. ProvInit => ProvTypeOK
  BY NoRequestTyped, SlotsAssumption DEF ProvInit, ProvTypeOK, ClusterRow, Slot
<1>2. ProvInit => ProvShaped
  BY ProvisionStart DEF PortsInv
<1>3. ProvShaped /\ ProvTypeOK /\ [ProvNext]_provVars => ProvShaped' /\ ProvTypeOK'
  BY ShapedKept, ProvTypeKept
<1> QED BY <1>1, <1>2, <1>3, PTL DEF ProvSpec

\* Whatever requests overlap, quick deploy never takes ports that a cluster it has seen
\* holds on the same host: two clusters share them only if nobody compared them.
THEOREM PortsStayDistinct == ProvSpec => []PortsDistinct
<1>1. PortsInv => PortsDistinct
  BY DEF PortsInv
<1> QED BY <1>1, ProvisionStart, PortsKept, PTL DEF ProvSpec

\* Whatever fails in a clean-up or a playbook, a removed service or a deleted cluster
\* leaves no unit running, but where a removal was forced or overlapped a deploy, or its
\* clean-up took the unit for stopped (cleanup_service, over an agent).
THEOREM UnitsHaveRows == ProvSpec => []NoUnitLeft
<1>1. UnitsInv => NoUnitLeft
  BY DEF UnitsInv
<1> QED BY <1>1, ProvisionStart, UnitsKept, PTL DEF ProvSpec

\* However long services are added and removed, one by one, a cluster keeps a controller
\* and as many brokers as its replication factor.
THEOREM EnoughRemain == ProvSpec => []RemovalKeepsEnough
<1>1. EnoughInv => RemovalKeepsEnough
  BY DEF EnoughInv
<1> QED BY <1>1, ProvisionStart, EnoughKept, PTL DEF ProvSpec

-----------------------------------------------------------------------------
(* The schema registry.                                                    *)

\* A host runs, and has on file, what tasks sent to it have put there, if anything.
SentTo(h) == {srTask[r].cluster : r \in {q \in SrRequest : srTask[q].at # "idle" /\ srTask[q].host = h}}
Placeable(h) == {NoUnit} \cup [of : SentTo(h) \cap SrCluster, port : SrPort]
UnitsFit == \A h \in SrHost : unit[h].file \in Placeable(h) /\ unit[h].runs \in Placeable(h)

\* A row goes by the task that made it, which has got past making it.
Early == {"idle", "check", "find", "create"}
RowsFit ==
    /\ \A row \in srRows : srTask[row.id].at \notin Early /\ srTask[row.id].cluster = row.cluster
    /\ \A row, other \in srRows : row.id = other.id => row = other

\* A task that has its cluster to itself knows the one row there is.
Knows(t) ==
    /\ t.at = "create" => RowsOf(t.cluster) = {}
    /\ t.at \in {"reuse", "render", "copy", "start", "wait"} => \E row \in RowsOf(t.cluster) : row.id = t.row
    /\ t.at \in {"render", "copy", "start", "wait"} =>
         /\ srPort[t.cluster] = t.port
         /\ \A row \in RowsOf(t.cluster) : row.host = t.host /\ row.status = "deploying"
TaskFits(r) ==
    LET t == srTask[r] IN
    /\ t.cluster \in SrCluster /\ t.host \in SrHost /\ t.port \in SrPort
    /\ srTask[t.row].at # "idle" /\ srTask[t.row].cluster = t.cluster
    /\ t.at \in Early => t.row = r
    /\ t.cluster \in lonely =>
         /\ \A q \in SrRequest : UnderWay(q) /\ srTask[q].cluster = t.cluster => q = r
         /\ Knows(t)
TasksFit ==
    \A r \in SrRequest : /\ srTask[r].at = "idle" => srTask[r].row = r
                         /\ UnderWay(r) => TaskFits(r)

OneRow == \A row, other \in srRows : row.cluster = other.cluster /\ row.cluster \in lonely => row = other

\* So a row called running is served whatever its cluster's task is at.
Served(row) ==
    row.status = "running" /\ row.cluster \in lonely /\ row.host \notin Foreign(row.cluster)
      => unit[row.host].runs = [of |-> row.cluster, port |-> srPort[row.cluster]]

SrInv == SrTypeOK /\ UnitsFit /\ RowsFit /\ TasksFit /\ OneRow /\ \A row \in srRows : Served(row)

-----------------------------------------------------------------------------
(* What a step of one task leaves true.                                    *)

\* A task keeps its cluster and host and never becomes idle again.
SrMoved(r, w) ==
    /\ w \in SrTask /\ srTask' = [srTask EXCEPT ![r] = w]
    /\ w.at # "idle" /\ w.cluster \in SrCluster /\ w.host \in SrHost
    /\ srTask[r].at # "idle" => w.cluster = srTask[r].cluster /\ w.host = srTask[r].host

LEMMA MovedTask ==
  ASSUME SrTypeOK, NEW r \in SrRequest, NEW w \in SrTask, SrMoved(r, w)
  PROVE  /\ srTask' \in [SrRequest -> SrTask]
         /\ srTask'[r] = w
         /\ \A q \in SrRequest \ {r} : srTask'[q] = srTask[q]
  BY DEF SrTypeOK, SrMoved

\* So what was sent to a host stays sent to it.
LEMMA SentGrows ==
  ASSUME SrTypeOK, NEW r \in SrRequest, NEW w \in SrTask, SrMoved(r, w), NEW h \in SrHost
  PROVE  /\ Placeable(h) \subseteq Placeable(h)'
         /\ w.host = h => \A p \in SrPort : [of |-> w.cluster, port |-> p] \in Placeable(h)'
<1>1. \A q \in SrRequest : srTask[q].at # "idle" =>
        srTask'[q].at # "idle" /\ srTask'[q].host = srTask[q].host /\ srTask'[q].cluster = srTask[q].cluster
  BY MovedTask DEF SrMoved
<1>2. SentTo(h) \subseteq SentTo(h)'
  BY <1>1 DEF SentTo
<1>3. w.host = h => w.cluster \in SentTo(h)'
  BY MovedTask DEF SentTo, SrMoved
<1> QED BY <1>2, <1>3 DEF Placeable, SrMoved

\* ... and a host that had to do with other clusters has had.
LEMMA ForeignGrows ==
  ASSUME SrTypeOK, NEW r \in SrRequest, NEW w \in SrTask, SrMoved(r, w), NEW c \in SrCluster
  PROVE  /\ Foreign(c) \subseteq Foreign(c)'
         /\ w.cluster # c => w.host \in Foreign(c)'
<1>1. \A q \in SrRequest : srTask[q].at # "idle" =>
        srTask'[q].at # "idle" /\ srTask'[q].host = srTask[q].host /\ srTask'[q].cluster = srTask[q].cluster
  BY MovedTask DEF SrMoved
<1>2. Foreign(c) \subseteq Foreign(c)'
  BY <1>1 DEF Foreign
<1>3. w.cluster # c => w.host \in Foreign(c)'
  BY MovedTask DEF Foreign, SrMoved
<1> QED BY <1>2, <1>3

\* On a host of the cluster's own there is nothing of another's.
LEMMA OwnUnits ==
  ASSUME SrTypeOK, UnitsFit, NEW c \in SrCluster, NEW h \in SrHost, h \notin Foreign(c)
  PROVE  unit[h].runs = NoUnit \/ (unit[h].runs.of = c /\ unit[h].runs.port \in SrPort
                                   /\ unit[h].runs = [of |-> c, port |-> unit[h].runs.port])
<1>1. \A d \in SentTo(h) : d = c
  BY DEF SentTo, Foreign
<1> QED BY <1>1 DEF UnitsFit, Placeable

\* Rows that change keep their number and cluster.
LEMMA RowsChange ==
  ASSUME SrTypeOK, RowsFit, NEW r \in SrRequest, NEW w \in SrTask, SrMoved(r, w),
         w.at \in Early => srTask[r].at \in Early,
         NEW f \in [srRows -> SrRow], srRows' = {f[row] : row \in srRows},
         \A row \in srRows : f[row].id = row.id /\ f[row].cluster = row.cluster
  PROVE  RowsFit' /\ srRows' \subseteq SrRow
<1>1. \A row \in srRows : row.id \in SrRequest
  BY DEF SrTypeOK, SrRow
<1>2. \A q \in SrRequest : srTask[q].at \notin Early =>
        srTask'[q].at \notin Early /\ srTask'[q].cluster = srTask[q].cluster
  BY MovedTask DEF SrMoved, Early
<1>3. ASSUME NEW row \in srRows' PROVE srTask'[row.id].at \notin Early /\ srTask'[row.id].cluster = row.cluster
  BY <1>1, <1>2 DEF RowsFit
<1>4. ASSUME NEW row \in srRows', NEW other \in srRows', row.id = other.id PROVE row = other
  BY <1>4 DEF RowsFit
<1> QED BY <1>3, <1>4 DEF RowsFit, Early

LEMMA RowsStay ==
  ASSUME SrTypeOK, RowsFit, NEW r \in SrRequest, NEW w \in SrTask, SrMoved(r, w),
         w.at \in Early => srTask[r].at \in Early, UNCHANGED srRows
  PROVE  RowsFit'
<1>1. \A row \in srRows : row.id \in SrRequest
  BY DEF SrTypeOK, SrRow
<1>2. \A q \in SrRequest : srTask[q].at \notin Early =>
        srTask'[q].at \notin Early /\ srTask'[q].cluster = srTask[q].cluster
  BY MovedTask DEF SrMoved, Early
<1> QED BY <1>1, <1>2 DEF RowsFit, Early

\* What the tasks of the other clusters rely on stays: what a task does is about its own
\* cluster's row and port, on its host.
Within(r, c) ==
    /\ lonely' \subseteq lonely
    /\ srPort' \in [SrCluster -> SrPort \cup {Nobody}]
    /\ \A d \in SrCluster \ {c} : srPort'[d] = srPort[d]
    /\ \A d \in SrCluster \ {c} : RowsOf(d)' = RowsOf(d)
    /\ srRows' \subseteq SrRow

LEMMA OthersKnow ==
  ASSUME SrTypeOK, TasksFit, NEW r \in SrRequest, NEW w \in SrTask, SrMoved(r, w), Within(r, w.cluster),
         srTask[r].at = "idle" => \A q \in SrRequest : UnderWay(q) /\ srTask[q].cluster = w.cluster => w.cluster \notin lonely',
         srTask[r].at = "idle" \/ UnderWay(r),
         NEW q \in SrRequest \ {r}, UnderWay(q)'
  PROVE  TaskFits(q)'
<1> DEFINE t == srTask[q]
<1>1. srTask'[q] = t /\ UnderWay(q)
  BY MovedTask DEF UnderWay
<1>2. TaskFits(q)
  BY <1>1 DEF TasksFit
<1>3. t.row \in SrRequest
  BY DEF SrTypeOK, SrTask
<1>4. srTask'[t.row].at # "idle" /\ srTask'[t.row].cluster = t.cluster
  BY <1>2, <1>3, MovedTask DEF TaskFits, SrMoved
<1>5. ASSUME t.cluster \in lonely'
      PROVE  /\ \A p \in SrRequest : UnderWay(p)' /\ srTask'[p].cluster = t.cluster => p = q
             /\ Knows(t)'
  <2>1. t.cluster \in lonely /\ t.cluster \in SrCluster
    BY <1>2, <1>5 DEF Within, TaskFits
  <2>2. w.cluster # t.cluster
    BY <1>1, <1>2, <1>5, <2>1 DEF TaskFits, SrMoved
  <2>3. Knows(t)'
    <3>1. PICK c \in SrCluster : c = t.cluster
      BY <2>1
    <3>2. RowsOf(c)' = RowsOf(c) /\ srPort'[c] = srPort[c]
      BY <2>2, <3>1 DEF Within
    <3>3. {row \in srRows' : row.cluster = c} = {row \in srRows : row.cluster = c}
      BY <3>2 DEF RowsOf
    <3> QED BY <1>1, <1>2, <2>1, <3>1, <3>2, <3>3 DEF TaskFits, Knows, RowsOf
  <2>4. ASSUME NEW p \in SrRequest, UnderWay(p)', srTask'[p].cluster = t.cluster PROVE p = q
    <3>1. p # r
      BY <2>2, <2>4, MovedTask
    <3>2. srTask'[p] = srTask[p]
      BY <3>1, MovedTask
    <3> QED BY <1>2, <2>1, <2>4, <3>2 DEF TaskFits, UnderWay
  <2> QED BY <2>3, <2>4
<1> QED BY <1>1, <1>2, <1>4, <1>5 DEF TaskFits

\* A running row of another cluster, on a host of its own, has its unit left alone.
LEMMA OthersServed ==
  ASSUME SrInv, NEW r \in SrRequest, NEW w \in SrTask, SrMoved(r, w), Within(r, w.cluster),
         \A h \in SrHost \ {w.host} : unit'[h] = unit[h],
         NEW row \in srRows', row.cluster # w.cluster
  PROVE  Served(row)'
<1>1. row \in SrRow
  BY DEF Within
<1>2. row.cluster \in SrCluster /\ row.host \in SrHost
  BY <1>1 DEF SrRow
<1>3. row \in srRows /\ srPort'[row.cluster] = srPort[row.cluster]
  <2>1. row \in RowsOf(row.cluster)'
    BY DEF RowsOf
  <2>2. RowsOf(row.cluster)' = RowsOf(row.cluster) /\ srPort'[row.cluster] = srPort[row.cluster]
    BY <1>2 DEF Within
  <2> QED BY <2>1, <2>2 DEF RowsOf
<1>4. Served(row) /\ (row.cluster \in lonely' => row.cluster \in lonely)
  BY <1>3 DEF SrInv, Within
<1>5. Foreign(row.cluster) \subseteq Foreign(row.cluster)' /\ w.host \in Foreign(row.cluster)'
  BY <1>2, ForeignGrows DEF SrInv
<1>6. row.host \notin Foreign(row.cluster)' => unit'[row.host] = unit[row.host]
  BY <1>2, <1>5
<1> QED BY <1>3, <1>4, <1>5, <1>6 DEF Served

\* What a step of a task has to show for the whole invariant.
LEMMA StepKeeps ==
  ASSUME SrInv, NEW r \in SrRequest, NEW w \in SrTask, SrMoved(r, w), Within(r, w.cluster),
         srTask[r].at = "idle" => \A q \in SrRequest : UnderWay(q) /\ srTask[q].cluster = w.cluster => w.cluster \notin lonely',
         srTask[r].at = "idle" \/ UnderWay(r),
         unit' \in [SrHost -> [file : SrUnit, runs : SrUnit]],
         \A h \in SrHost \ {w.host} : unit'[h] = unit[h],
         unit'[w.host].file \in Placeable(w.host)', unit'[w.host].runs \in Placeable(w.host)',
         RowsFit', UnderWay(r)' => TaskFits(r)',
         w.cluster \in lonely' =>
            \A row \in RowsOf(w.cluster)' : Served(row)' /\ \A other \in RowsOf(w.cluster)' : row = other
  PROVE  SrInv'
<1>1. SrTypeOK'
  BY MovedTask DEF SrInv, SrTypeOK, Within
<1>2. UnitsFit'
  <2>1. ASSUME NEW h \in SrHost PROVE unit'[h].file \in Placeable(h)' /\ unit'[h].runs \in Placeable(h)'
    <3>1. CASE h = w.host
      BY <3>1
    <3>2. CASE h # w.host
      <4>1. Placeable(h) \subseteq Placeable(h)'
        BY SentGrows DEF SrInv
      <4> QED BY <3>2, <4>1 DEF SrInv, UnitsFit
    <3> QED BY <3>1, <3>2
  <2> QED BY <2>1 DEF UnitsFit
<1>3. TasksFit'
  <2>1. ASSUME NEW q \in SrRequest, srTask'[q].at = "idle" PROVE srTask'[q].row = q
    BY <2>1, MovedTask DEF SrInv, TasksFit, SrMoved
  <2>2. ASSUME NEW q \in SrRequest, UnderWay(q)' PROVE TaskFits(q)'
    BY <2>2, OthersKnow DEF SrInv
  <2> QED BY <2>1, <2>2 DEF TasksFit
<1>4. OneRow'
  <2>1. ASSUME NEW row \in srRows', NEW other \in srRows', row.cluster = other.cluster, row.cluster \in lonely'
        PROVE  row = other
    <3>1. CASE row.cluster = w.cluster
      BY <2>1, <3>1 DEF RowsOf
    <3>2. CASE row.cluster # w.cluster
      <4>1. row.cluster \in SrCluster
        BY DEF Within, SrRow
      <4>2. RowsOf(row.cluster)' = RowsOf(row.cluster) /\ row.cluster \in lonely
        BY <2>1, <3>2, <4>1 DEF Within
      <4>3. row \in srRows /\ other \in srRows
        BY <2>1, <4>2 DEF RowsOf
      <4> QED BY <2>1, <4>2, <4>3 DEF SrInv, OneRow
    <3> QED BY <3>1, <3>2
  <2> QED BY <2>1 DEF OneRow
<1>5. ASSUME NEW row \in srRows' PROVE Served(row)'
  <2>1. CASE row.cluster # w.cluster
    BY <2>1, OthersServed
  <2>2. CASE row.cluster = w.cluster
    BY <2>2 DEF RowsOf, Served
  <2> QED BY <2>1, <2>2
<1> QED BY <1>1, <1>2, <1>3, <1>4, <1>5 DEF SrInv

-----------------------------------------------------------------------------
(* The actions.                                                            *)

\* A task that has its cluster to itself has the one row there is.
LEMMA HasItsRow ==
  ASSUME SrInv, NEW r \in SrRequest, UnderWay(r), srTask[r].cluster \in lonely,
         srTask[r].at \in {"reuse", "render", "copy", "start", "wait"},
         NEW row \in RowsOf(srTask[r].cluster)
  PROVE  /\ row.id = srTask[r].row /\ row \in RowOf(r)
         /\ \A other \in RowsOf(srTask[r].cluster) : row = other
<1>1. PICK mine \in RowsOf(srTask[r].cluster) : mine.id = srTask[r].row
  BY DEF SrInv, TasksFit, TaskFits, Knows
<1>2. \A other \in RowsOf(srTask[r].cluster) : other = mine
  BY <1>1 DEF SrInv, OneRow, RowsOf
<1> QED BY <1>1, <1>2 DEF RowOf, RowsOf

\* The task's own record while its thread runs.
LEMMA OwnTask ==
  ASSUME SrInv, NEW r \in SrRequest, UnderWay(r)
  PROVE  /\ srTask[r] \in SrTask /\ srTask[r].at # "idle"
         /\ srTask[r].cluster \in SrCluster /\ srTask[r].host \in SrHost /\ srTask[r].port \in SrPort
         /\ srTask[r].row \in SrRequest
         /\ TaskFits(r)
  BY DEF SrInv, SrTypeOK, SrTask, TasksFit, TaskFits, UnderWay

\* A step that only moves the task on, or ends it, without touching a row or a unit.
LEMMA OnlyMoves ==
  ASSUME SrInv, NEW r \in SrRequest, UnderWay(r), NEW w \in SrTask, SrMoved(r, w),
         UNCHANGED <<srRows, srPort, unit>>, lonely' \subseteq lonely,
         w.at \in Early => srTask[r].at \in Early,
         UnderWay(r)' => TaskFits(r)'
  PROVE  SrInv'
<1>1. w.cluster = srTask[r].cluster /\ w.host = srTask[r].host /\ w.cluster \in SrCluster /\ w.host \in SrHost
  BY OwnTask DEF SrMoved
<1>2. Within(r, w.cluster)
  BY DEF Within, RowsOf, SrInv, SrTypeOK
<1>3. RowsFit'
  BY RowsStay DEF SrInv
<1>4. unit'[w.host].file \in Placeable(w.host)' /\ unit'[w.host].runs \in Placeable(w.host)'
  BY <1>1, SentGrows DEF SrInv, UnitsFit
<1>5. ASSUME w.cluster \in lonely', NEW row \in RowsOf(w.cluster)'
      PROVE  Served(row)' /\ \A other \in RowsOf(w.cluster)' : row = other
  <2>1. row \in srRows /\ row.cluster = w.cluster /\ \A other \in RowsOf(w.cluster)' : row = other
    BY <1>5 DEF RowsOf, SrInv, OneRow
  <2>2. Served(row) /\ Foreign(row.cluster) \subseteq Foreign(row.cluster)'
    BY <1>1, <2>1, ForeignGrows DEF SrInv
  <2>3. Served(row)'
    BY <1>5, <2>1, <2>2 DEF Served
  <2> QED BY <2>1, <2>3
<1>6. unit' \in [SrHost -> [file : SrUnit, runs : SrUnit]] /\ \A h \in SrHost \ {w.host} : unit'[h] = unit[h]
  BY DEF SrInv, SrTypeOK
<1> QED BY <1>2, <1>3, <1>4, <1>5, <1>6, StepKeeps DEF UnderWay

LEMMA AskKeeps ==
  ASSUME SrInv, NEW r \in SrRequest, NEW c \in SrCluster, NEW h \in SrHost, NEW p \in SrPort, AskRegistry(r, c, h, p)
  PROVE  SrInv'
<1> DEFINE w == [srTask[r] EXCEPT !.at = "check", !.cluster = c, !.host = h, !.port = p]
<1>1. srTask[r] \in SrTask /\ srTask[r].at = "idle" /\ srTask' = [srTask EXCEPT ![r] = w]
  BY DEF AskRegistry, SrInv, SrTypeOK
<1>2. w \in SrTask /\ w.at = "check" /\ w.cluster = c /\ w.host = h /\ w.port = p /\ w.row = srTask[r].row
  BY <1>1 DEF SrTask
<1> HIDE DEF w
<1>3. SrMoved(r, w)
  BY <1>1, <1>2 DEF SrMoved
<1>4. srTask'[r] = w /\ \A q \in SrRequest \ {r} : srTask'[q] = srTask[q]
  BY <1>2, <1>3, MovedTask DEF SrInv
<1>5. lonely' \subseteq lonely /\ (\A q \in SrRequest : UnderWay(q) /\ srTask[q].cluster = c => c \notin lonely')
  BY DEF AskRegistry
<1>6. UNCHANGED <<srRows, srPort, unit>>
  BY DEF AskRegistry
<1>7. Within(r, c) /\ \A d \in SrCluster : RowsOf(d)' = RowsOf(d)
  BY <1>5, <1>6 DEF Within, RowsOf, SrInv, SrTypeOK
<1>8. RowsFit'
  BY <1>1, <1>2, <1>3, <1>6, RowsStay DEF SrInv, Early
<1>9. unit'[h].file \in Placeable(h)' /\ unit'[h].runs \in Placeable(h)'
  BY <1>2, <1>3, <1>6, SentGrows DEF SrInv, UnitsFit
<1>10. ASSUME c \in lonely', NEW row \in RowsOf(c)'
       PROVE  Served(row)' /\ \A other \in RowsOf(c)' : row = other
  <2>1. row \in srRows /\ row.cluster = c /\ c \in lonely /\ \A other \in RowsOf(c)' : row = other
    BY <1>5, <1>6, <1>10 DEF RowsOf, SrInv, OneRow
  <2>2. Served(row) /\ Foreign(c) \subseteq Foreign(c)'
    BY <1>2, <1>3, <2>1, ForeignGrows DEF SrInv
  <2> QED BY <1>6, <2>1, <2>2 DEF Served
<1>11. TaskFits(r)'
  <2>1. w.row = r
    BY <1>1, <1>2 DEF SrInv, TasksFit
  <2>2. ASSUME c \in lonely', NEW q \in SrRequest, UnderWay(q)', srTask'[q].cluster = c PROVE q = r
    BY <1>4, <1>5, <2>2 DEF UnderWay
  <2> QED BY <1>2, <1>4, <2>1, <2>2 DEF TaskFits, Knows, Early
<1>12. unit' \in [SrHost -> [file : SrUnit, runs : SrUnit]] /\ \A g \in SrHost \ {h} : unit'[g] = unit[g]
  BY <1>6 DEF SrInv, SrTypeOK
<1> QED BY <1>1, <1>2, <1>3, <1>5, <1>7, <1>8, <1>9, <1>10, <1>11, <1>12, StepKeeps

\* A task that goes on with what it was asked for.
LEMMA GoesOn ==
  ASSUME SrInv, NEW r \in SrRequest, UnderWay(r), NEW w \in SrTask, SrMoved(r, w),
         w.port = srTask[r].port, w.row = srTask[r].row, lonely' \subseteq lonely,
         w.at \in Early => srTask[r].at \in Early, w.cluster \in lonely' => Knows(srTask[r])'
  PROVE  TaskFits(r)'
<1>1. srTask'[r] = w /\ \A q \in SrRequest \ {r} : srTask'[q] = srTask[q]
  BY MovedTask DEF SrInv
<1>2. TaskFits(r) /\ srTask[r].row \in SrRequest /\ w.cluster = srTask[r].cluster /\ w.host = srTask[r].host
  BY OwnTask DEF SrMoved
<1>3. srTask'[w.row].at # "idle" /\ srTask'[w.row].cluster = w.cluster
  BY <1>1, <1>2 DEF TaskFits, SrMoved
<1>4. ASSUME w.cluster \in lonely', NEW q \in SrRequest, UnderWay(q)', srTask'[q].cluster = w.cluster PROVE q = r
  BY <1>1, <1>2, <1>4 DEF TaskFits, UnderWay
<1> QED BY <1>1, <1>2, <1>3, <1>4 DEF TaskFits

\* The task only goes on to what it may do next.
LEMMA SrGoesKeeps ==
  ASSUME SrInv, NEW r \in SrRequest, UnderWay(r), NEW at, SrGoes(r, at),
         UNCHANGED <<srRows, srPort, unit>>, lonely' \subseteq lonely,
         at \in {"find", "create", "copy", "dead"},
         at \in Early => srTask[r].at \in Early,
         at = "create" => RowsOf(srTask[r].cluster) = {},
         at = "copy" => srTask[r].at = "render"
  PROVE  SrInv'
<1> DEFINE w == [srTask[r] EXCEPT !.at = at]
<1>1. srTask[r] \in SrTask /\ srTask' = [srTask EXCEPT ![r] = w]
  BY OwnTask DEF SrGoes
<1>2. w \in SrTask /\ w.at = at /\ w.cluster = srTask[r].cluster /\ w.host = srTask[r].host
      /\ w.port = srTask[r].port /\ w.row = srTask[r].row
  BY <1>1 DEF SrTask
<1> HIDE DEF w
<1>3. SrMoved(r, w)
  BY <1>1, <1>2, OwnTask DEF SrMoved
<1>4. srTask'[r] = w
  BY <1>2, <1>3, MovedTask DEF SrInv
<1>5. ASSUME UnderWay(r)', w.cluster \in lonely' PROVE Knows(srTask[r])'
  <2>1. Knows(srTask[r]) /\ at # "dead"
    BY <1>2, <1>4, <1>5, OwnTask DEF TaskFits, UnderWay
  <2> QED BY <1>2, <1>4, <2>1 DEF Knows, RowsOf
<1>6. UnderWay(r)' => TaskFits(r)'
  BY <1>2, <1>3, <1>5, GoesOn
<1> QED BY <1>2, <1>3, <1>6, OnlyMoves

\* ... or ends, with no verdict on a row.
LEMMA RefuseKeeps ==
  ASSUME SrInv, NEW r \in SrRequest, UnderWay(r), NEW of \in SrCluster \cup {Nobody},
         srTask' = [srTask EXCEPT ![r] = [srTask[r] EXCEPT !.at = "over", !.status = "error", !.holder = of]],
         UNCHANGED <<srRows, srPort, unit, lonely>>
  PROVE  SrInv'
<1> DEFINE w == [srTask[r] EXCEPT !.at = "over", !.status = "error", !.holder = of]
<1>1. w \in SrTask /\ w.at = "over" /\ w.cluster = srTask[r].cluster /\ w.host = srTask[r].host
  BY OwnTask DEF SrTask
<1>2. srTask' = [srTask EXCEPT ![r] = w]
  OBVIOUS
<1> HIDE DEF w
<1>3. SrMoved(r, w)
  BY <1>1, <1>2, OwnTask DEF SrMoved
<1>4. ~UnderWay(r)'
  BY <1>1, <1>3, MovedTask DEF SrInv, UnderWay
<1> QED BY <1>1, <1>3, <1>4, OnlyMoves DEF Early

LEMMA CheckKeeps ==
  ASSUME SrInv, NEW r \in SrRequest, CheckPort(r)
  PROVE  SrInv'
<1>1. srTask[r].at = "check" /\ UnderWay(r) /\ UNCHANGED <<srRows, srPort, unit, lonely>>
  BY DEF CheckPort, Stopped, UnderWay
<1>2. CASE SrGoes(r, "find")
  BY <1>1, <1>2, SrGoesKeeps DEF Early
<1>3. ASSUME NEW u \in Conflicts(unit', r),
             srTask' = [srTask EXCEPT ![r] = [srTask[r] EXCEPT !.at = "over", !.status = "error", !.holder = u.of]]
      PROVE  SrInv'
  <2>1. u.of \in SrCluster \cup {Nobody}
    <3>1. u = unit[srTask[r].host].runs /\ srTask[r].host \in SrHost
      BY <1>1, <1>3, OwnTask DEF Conflicts, Listening
    <3> QED BY <3>1 DEF SrInv, SrTypeOK, SrUnit
  <2> QED BY <1>1, <1>3, <2>1, RefuseKeeps
<1> QED BY <1>2, <1>3 DEF CheckPort

LEMMA FindKeeps ==
  ASSUME SrInv, NEW r \in SrRequest, FindRow(r)
  PROVE  SrInv'
<1>1. srTask[r].at = "find" /\ UnderWay(r) /\ UNCHANGED <<srRows, srPort, unit, lonely>>
  BY DEF FindRow, UnderWay
<1>2. CASE RowsOf(srTask[r].cluster) = {} /\ SrGoes(r, "create")
  BY <1>1, <1>2, SrGoesKeeps DEF Early
<1>3. ASSUME NEW row \in RowsOf(srTask[r].cluster),
             srTask' = [srTask EXCEPT ![r] = [srTask[r] EXCEPT !.at = "reuse", !.row = row.id]]
      PROVE  SrInv'
  <2> DEFINE w == [srTask[r] EXCEPT !.at = "reuse", !.row = row.id]
  <2>1. row \in srRows /\ row.id \in SrRequest /\ row.cluster = srTask[r].cluster
    BY DEF SrInv, SrTypeOK, SrRow, RowsOf
  <2>2. w \in SrTask /\ w.at = "reuse" /\ w.cluster = srTask[r].cluster /\ w.host = srTask[r].host
        /\ w.port = srTask[r].port /\ w.row = row.id
    BY <1>1, <2>1, OwnTask DEF SrTask
  <2>3. srTask' = [srTask EXCEPT ![r] = w]
    BY <1>3
  <2> HIDE DEF w
  <2>4. SrMoved(r, w)
    BY <1>1, <2>2, <2>3, OwnTask DEF SrMoved
  <2>5. srTask'[r] = w /\ \A q \in SrRequest \ {r} : srTask'[q] = srTask[q]
    BY <2>2, <2>4, MovedTask DEF SrInv
  <2>6. srTask'[row.id].at # "idle" /\ srTask'[row.id].cluster = w.cluster
    BY <2>1, <2>2, <2>5 DEF SrInv, RowsFit, Early
  <2>7. ASSUME w.cluster \in lonely', NEW q \in SrRequest, UnderWay(q)', srTask'[q].cluster = w.cluster PROVE q = r
    BY <1>1, <2>2, <2>5, <2>7, OwnTask DEF TaskFits, UnderWay
  <2>8. Knows(srTask[r])'
    BY <2>1, <2>2, <2>5, <1>1 DEF Knows, RowsOf
  <2>9. TaskFits(r)'
    BY <1>1, <2>2, <2>5, <2>6, <2>7, <2>8, OwnTask DEF TaskFits, Early
  <2> QED BY <1>1, <2>2, <2>4, <2>9, OnlyMoves DEF Early
<1> QED BY <1>2, <1>3 DEF FindRow

-----------------------------------------------------------------------------
(* The actions that write.                                                 *)

\* The row created is the cluster's one row if its tasks do not overlap.
LEMMA CreateKeeps ==
  ASSUME SrInv, NEW r \in SrRequest, CreateRow(r)
  PROVE  SrInv'
<1>1. srTask[r].at = "create" /\ UnderWay(r) /\ UNCHANGED <<unit, lonely>>
  BY DEF CreateRow, UnderWay
<1>2. PICK w \in SrTask : /\ srTask' = [srTask EXCEPT ![r] = w]
                         /\ w.at = "render" /\ w.cluster = srTask[r].cluster /\ w.host = srTask[r].host
                         /\ w.port = srTask[r].port /\ w.row = srTask[r].row /\ srTask[r].row = r
  <2>1. [srTask[r] EXCEPT !.at = "render"] \in SrTask
    BY <1>1, OwnTask DEF SrTask
  <2> QED BY <1>1, <2>1, OwnTask DEF SrTask, TaskFits, Early, CreateRow, SrGoes
<1>3. SrMoved(r, w)
  BY <1>1, <1>2, OwnTask DEF SrMoved
<1>4. srTask'[r] = w /\ \A q \in SrRequest \ {r} : srTask'[q] = srTask[q]
  BY <1>2, <1>3, MovedTask DEF SrInv
<1>5. PICK new \in SrRow : /\ srRows' = srRows \cup {new} /\ new.cluster = w.cluster /\ new.id = r
                           /\ new.host = w.host /\ new.status = "deploying"
  <2>1. [cluster |-> w.cluster, id |-> r, host |-> w.host, status |-> "deploying"] \in SrRow
    BY <1>1, <1>2, OwnTask DEF SrRow
  <2> QED BY <1>2, <2>1 DEF CreateRow
<1>6. srPort' = [srPort EXCEPT ![w.cluster] = w.port] /\ w.cluster \in SrCluster /\ w.host \in SrHost /\ w.port \in SrPort
  BY <1>1, <1>2, OwnTask DEF CreateRow, RecordPort
<1>7. srPort' \in [SrCluster -> SrPort \cup {Nobody}] /\ srPort'[w.cluster] = w.port
      /\ \A d \in SrCluster \ {w.cluster} : srPort'[d] = srPort[d]
  BY <1>6 DEF SrInv, SrTypeOK
<1>8. Within(r, w.cluster)
  <2>1. \A d \in SrCluster \ {w.cluster} : RowsOf(d)' = RowsOf(d)
    BY <1>5 DEF RowsOf
  <2>2. srRows' \subseteq SrRow
    BY <1>5 DEF SrInv, SrTypeOK
  <2> QED BY <1>1, <1>7, <2>1, <2>2 DEF Within
<1>9. RowsFit'
  <2>1. \A row \in srRows : row.id \in SrRequest \ {r} /\ srTask[row.id].at \notin Early /\ srTask[row.id].cluster = row.cluster
    BY <1>1 DEF SrInv, SrTypeOK, SrRow, RowsFit, Early
  <2>2. \A row \in srRows' : srTask'[row.id].at \notin Early /\ srTask'[row.id].cluster = row.cluster
    BY <1>2, <1>4, <1>5, <2>1 DEF Early
  <2>3. \A row, other \in srRows' : row.id = other.id => row = other
    BY <1>5, <2>1 DEF SrInv, RowsFit
  <2> QED BY <2>2, <2>3 DEF RowsFit, Early
<1>10. w.cluster \in lonely' => RowsOf(w.cluster) = {}
  BY <1>1, <1>2, OwnTask DEF TaskFits, Knows
<1>11. w.cluster \in lonely' => \A row \in srRows' : row.cluster = w.cluster => row = new
  BY <1>5, <1>10 DEF RowsOf
<1>12. TaskFits(r)'
  <2>1. w.cluster \in lonely' => Knows(srTask[r])'
    BY <1>2, <1>4, <1>5, <1>7, <1>11 DEF Knows, RowsOf
  <2> QED BY <1>1, <1>2, <1>3, <2>1, GoesOn DEF Early
<1>13. unit'[w.host].file \in Placeable(w.host)' /\ unit'[w.host].runs \in Placeable(w.host)'
  BY <1>1, <1>2, <1>3, <1>6, SentGrows DEF SrInv, UnitsFit
<1>14. ASSUME w.cluster \in lonely', NEW row \in RowsOf(w.cluster)'
       PROVE  Served(row)' /\ \A other \in RowsOf(w.cluster)' : row = other
  BY <1>5, <1>11, <1>14 DEF RowsOf, Served
<1>15. unit' \in [SrHost -> [file : SrUnit, runs : SrUnit]] /\ \A g \in SrHost \ {w.host} : unit'[g] = unit[g]
  BY <1>1 DEF SrInv, SrTypeOK
<1> QED BY <1>1, <1>2, <1>3, <1>8, <1>9, <1>12, <1>13, <1>14, <1>15, StepKeeps

\* A row that moves: the one row of the cluster, if its tasks do not overlap, is being deployed.
LEMMA ReuseKeeps ==
  ASSUME SrInv, NEW r \in SrRequest, ReuseRow(r)
  PROVE  SrInv'
<1> DEFINE f == [row \in srRows |-> IF row \in RowOf(r) THEN [row EXCEPT !.host = srTask[r].host, !.status = "deploying"] ELSE row]
<1>1. srTask[r].at = "reuse" /\ UnderWay(r) /\ UNCHANGED lonely
  BY DEF ReuseRow, UnderWay
<1>2. PICK w \in SrTask : /\ srTask' = [srTask EXCEPT ![r] = w]
                         /\ w.at = "render" /\ w.cluster = srTask[r].cluster /\ w.host = srTask[r].host
                         /\ w.port = srTask[r].port /\ w.row = srTask[r].row
  <2>1. [srTask[r] EXCEPT !.at = "render"] \in SrTask
    BY <1>1, OwnTask DEF SrTask
  <2> QED BY <1>1, <2>1, OwnTask DEF SrTask, ReuseRow, SrGoes
<1>3. SrMoved(r, w)
  BY <1>1, <1>2, OwnTask DEF SrMoved
<1>4. srTask'[r] = w /\ \A q \in SrRequest \ {r} : srTask'[q] = srTask[q]
  BY <1>2, <1>3, MovedTask DEF SrInv
<1>5. f \in [srRows -> SrRow] /\ \A row \in srRows : /\ f[row].id = row.id /\ f[row].cluster = row.cluster
                                                     /\ row \notin RowOf(r) => f[row] = row
                                                     /\ row \in RowOf(r) => f[row].host = w.host /\ f[row].status = "deploying"
  BY <1>1, <1>2, OwnTask DEF SrInv, SrTypeOK, SrRow
<1>6. srRows' = {f[row] : row \in srRows}
  BY DEF ReuseRow, RowOf
<1> HIDE DEF f
<1>7. RowsFit' /\ srRows' \subseteq SrRow
  BY <1>1, <1>2, <1>3, <1>5, <1>6, RowsChange DEF SrInv, Early
<1>8. srPort' = [srPort EXCEPT ![w.cluster] = w.port] /\ w.cluster \in SrCluster /\ w.host \in SrHost /\ w.port \in SrPort
  BY <1>1, <1>2, OwnTask DEF ReuseRow, RecordPort
<1>9. srPort' \in [SrCluster -> SrPort \cup {Nobody}] /\ srPort'[w.cluster] = w.port
      /\ \A d \in SrCluster \ {w.cluster} : srPort'[d] = srPort[d]
  BY <1>8 DEF SrInv, SrTypeOK
<1>10. \A row \in RowOf(r) : row.cluster = w.cluster
  BY <1>1, <1>2, OwnTask DEF RowOf, TaskFits, SrInv, RowsFit
<1>11. Within(r, w.cluster)
  <2>1. ASSUME NEW d \in SrCluster \ {w.cluster} PROVE RowsOf(d)' = RowsOf(d)
    BY <1>5, <1>6, <1>10 DEF RowsOf, RowOf
  <2> QED BY <1>1, <1>7, <1>9, <2>1 DEF Within
<1>12. ASSUME w.cluster \in lonely'
       PROVE  /\ \A row \in RowsOf(w.cluster)' : /\ row.id = w.row /\ row.host = w.host /\ row.status = "deploying"
                                                 /\ \A other \in RowsOf(w.cluster)' : row = other
              /\ \E row \in RowsOf(w.cluster)' : row.id = w.row
  <2>1. PICK mine \in RowsOf(w.cluster) : mine.id = w.row
    BY <1>1, <1>2, <1>12, OwnTask DEF TaskFits, Knows
  <2>2. mine \in RowOf(r) /\ \A other \in RowsOf(w.cluster) : other = mine
    BY <1>1, <1>2, <1>12, <2>1, HasItsRow
  <2>3. RowsOf(w.cluster)' = {f[mine]}
    BY <1>5, <1>6, <2>1, <2>2 DEF RowsOf
  <2> QED BY <1>5, <2>1, <2>2, <2>3 DEF RowOf
<1>13. TaskFits(r)'
  <2>1. w.cluster \in lonely' => Knows(srTask[r])'
    BY <1>2, <1>4, <1>9, <1>12 DEF Knows
  <2> QED BY <1>1, <1>2, <1>3, <2>1, GoesOn DEF Early
<1>14. /\ unit' \in [SrHost -> [file : SrUnit, runs : SrUnit]] /\ \A g \in SrHost \ {w.host} : unit'[g] = unit[g]
       /\ unit'[w.host].file = unit[w.host].file /\ unit'[w.host].runs \in {NoUnit, unit[w.host].runs}
  <2>1. unit' = [unit EXCEPT ![w.host].runs = NoUnit] \/ unit' = unit
    BY <1>2 DEF ReuseRow
  <2>2. unit \in [SrHost -> [file : SrUnit, runs : SrUnit]] /\ NoUnit \in SrUnit
    BY DEF SrInv, SrTypeOK, SrUnit, NoUnit
  <2> QED BY <1>8, <2>1, <2>2
<1>15. unit'[w.host].file \in Placeable(w.host)' /\ unit'[w.host].runs \in Placeable(w.host)'
  <2>1. NoUnit \in Placeable(w.host)
    BY DEF Placeable
  <2> QED BY <1>3, <1>8, <1>14, <2>1, <1>2, SentGrows DEF SrInv, UnitsFit
<1>16. ASSUME w.cluster \in lonely', NEW row \in RowsOf(w.cluster)'
       PROVE  Served(row)' /\ \A other \in RowsOf(w.cluster)' : row = other
  BY <1>12, <1>16 DEF Served
<1> QED BY <1>1, <1>2, <1>3, <1>7, <1>11, <1>13, <1>14, <1>15, <1>16, StepKeeps

\* A verdict: the rows that go by the task's row are marked, and the task is over.  The row
\* may be called running where the unit is the cluster's own, with the port recorded.
LEMMA SrVerdictKeeps ==
  ASSUME SrInv, NEW r \in SrRequest, UnderWay(r), srTask[r].at \in {"render", "copy", "start", "wait"},
         NEW status \in {"running", "error"}, MarkRow(r, status),
         NEW s \in {"completed", "completed_with_errors", "error"}, SrEnds(r, s),
         UNCHANGED <<srPort, unit, lonely>>,
         status = "running" => unit[srTask[r].host].runs.port = srTask[r].port
  PROVE  SrInv'
<1> DEFINE f == [row \in srRows |-> IF row \in RowOf(r) THEN [row EXCEPT !.status = status] ELSE row]
<1>1. PICK w \in SrTask : /\ srTask' = [srTask EXCEPT ![r] = w]
                         /\ w.at = "over" /\ w.cluster = srTask[r].cluster /\ w.host = srTask[r].host
  <2>1. [srTask[r] EXCEPT !.at = "over", !.status = s] \in SrTask
    BY OwnTask DEF SrTask
  <2> QED BY <2>1, OwnTask DEF SrTask, SrEnds
<1>2. w.cluster \in SrCluster /\ w.host \in SrHost /\ srTask[r].port \in SrPort
  BY <1>1, OwnTask
<1>3. SrMoved(r, w)
  BY <1>1, <1>2 DEF SrMoved
<1>4. srTask'[r] = w
  BY <1>3, MovedTask DEF SrInv
<1>5. f \in [srRows -> SrRow] /\ \A row \in srRows : /\ f[row].id = row.id /\ f[row].cluster = row.cluster
                                                     /\ f[row].host = row.host
                                                     /\ row \notin RowOf(r) => f[row] = row
                                                     /\ row \in RowOf(r) => f[row].status = status
  BY DEF SrInv, SrTypeOK, SrRow
<1>6. srRows' = {f[row] : row \in srRows}
  BY DEF MarkRow, RowOf
<1> HIDE DEF f
<1>7. RowsFit' /\ srRows' \subseteq SrRow
  BY <1>1, <1>3, <1>5, <1>6, RowsChange DEF SrInv, Early
<1>8. \A row \in RowOf(r) : row.cluster = w.cluster
  BY <1>1, OwnTask DEF RowOf, TaskFits, SrInv, RowsFit
<1>9. Within(r, w.cluster)
  <2>1. ASSUME NEW d \in SrCluster \ {w.cluster} PROVE RowsOf(d)' = RowsOf(d)
    BY <1>5, <1>6, <1>8 DEF RowsOf, RowOf
  <2>2. srPort' \in [SrCluster -> SrPort \cup {Nobody}] /\ UNCHANGED <<lonely, srPort>>
    BY DEF SrInv, SrTypeOK
  <2> QED BY <1>7, <2>1, <2>2 DEF Within
<1>10. ASSUME w.cluster \in lonely', NEW row \in RowsOf(w.cluster)'
       PROVE  Served(row)' /\ \A other \in RowsOf(w.cluster)' : row = other
  <2>1. /\ srPort[w.cluster] = srTask[r].port
        /\ \E mine \in RowsOf(w.cluster) : mine.id = srTask[r].row
        /\ \A mine \in RowsOf(w.cluster) : mine.host = w.host
    BY <1>1, <1>10, OwnTask DEF TaskFits, Knows
  <2>2. PICK mine \in RowsOf(w.cluster) : mine.id = srTask[r].row
    BY <2>1
  <2>3. mine \in RowOf(r) /\ \A other \in RowsOf(w.cluster) : other = mine
    BY <1>1, <1>10, <2>2, HasItsRow
  <2>4. RowsOf(w.cluster)' = {f[mine]}
    BY <1>5, <1>6, <2>2, <2>3 DEF RowsOf
  <2>5. row = f[mine] /\ row.status = status /\ row.host = w.host /\ row.cluster = w.cluster
    BY <1>5, <2>1, <2>2, <2>3, <2>4 DEF RowOf, RowsOf
  <2>6. ASSUME status = "running", w.host \notin Foreign(w.cluster)'
        PROVE  unit'[w.host].runs = [of |-> w.cluster, port |-> srPort'[w.cluster]]
    <3>1. w.host \notin Foreign(w.cluster)
      BY <1>2, <1>3, <2>6, ForeignGrows DEF SrInv
    <3>2. unit[w.host].runs.port = srTask[r].port /\ srTask[r].port # Nobody
      BY <1>1, <1>2, <2>6, SrAssumption DEF Nobody
    <3>3. unit[w.host].runs # NoUnit
      BY <3>2 DEF NoUnit
    <3> QED BY <1>2, <2>1, <3>1, <3>2, <3>3, OwnUnits DEF SrInv
  <2> QED BY <2>4, <2>5, <2>6 DEF Served
<1>11. unit'[w.host].file \in Placeable(w.host)' /\ unit'[w.host].runs \in Placeable(w.host)'
  BY <1>2, <1>3, SentGrows DEF SrInv, UnitsFit
<1>12. unit' \in [SrHost -> [file : SrUnit, runs : SrUnit]] /\ \A g \in SrHost \ {w.host} : unit'[g] = unit[g]
  BY DEF SrInv, SrTypeOK
<1>13. ~UnderWay(r)'
  BY <1>1, <1>4 DEF UnderWay
<1> QED BY <1>1, <1>3, <1>7, <1>9, <1>10, <1>11, <1>12, <1>13, StepKeeps

\* The playbook's own steps on the unit: the row of the cluster is being deployed, and what
\* is put on the host is the task's.
LEMMA PlayKeeps ==
  ASSUME SrInv, NEW r \in SrRequest, srTask[r].at \in {"copy", "start"}, NEW at \in {"start", "wait"}, SrGoes(r, at),
         UNCHANGED <<srRows, srPort, lonely>>, NEW u, unit' = [unit EXCEPT ![srTask[r].host] = u],
         u \in [file : SrUnit, runs : SrUnit],
         u.file = unit[srTask[r].host].file \/ u.file = [of |-> srTask[r].cluster, port |-> srTask[r].port],
         u.runs \in {unit[srTask[r].host].file, unit[srTask[r].host].runs}
  PROVE  SrInv'
<1>1. UnderWay(r)
  BY DEF UnderWay
<1>2. PICK w \in SrTask : /\ srTask' = [srTask EXCEPT ![r] = w]
                         /\ w.at = at /\ w.cluster = srTask[r].cluster /\ w.host = srTask[r].host
                         /\ w.port = srTask[r].port /\ w.row = srTask[r].row
  <2>1. [srTask[r] EXCEPT !.at = at] \in SrTask
    BY <1>1, OwnTask DEF SrTask
  <2> QED BY <1>1, <2>1, OwnTask DEF SrTask, SrGoes
<1>3. w.cluster \in SrCluster /\ w.host \in SrHost /\ w.port \in SrPort
  BY <1>1, <1>2, OwnTask
<1>4. SrMoved(r, w) /\ srTask'[r] = w
  BY <1>2, <1>3, MovedTask DEF SrMoved, SrInv
<1>5. RowsFit' /\ Within(r, w.cluster)
  BY <1>2, <1>4, RowsStay DEF SrInv, SrTypeOK, Early, Within, RowsOf
<1>6. TaskFits(r)'
  <2>1. w.cluster \in lonely' => Knows(srTask[r])
    BY <1>1, <1>2, OwnTask DEF TaskFits
  <2>2. w.cluster \in lonely' => Knows(srTask[r])'
    BY <1>2, <1>4, <2>1 DEF Knows, RowsOf
  <2> QED BY <1>1, <1>2, <1>4, <2>2, GoesOn DEF Early
<1>7. /\ unit' \in [SrHost -> [file : SrUnit, runs : SrUnit]] /\ unit'[w.host] = u
      /\ \A g \in SrHost \ {w.host} : unit'[g] = unit[g]
  BY <1>2, <1>3 DEF SrInv, SrTypeOK
<1>8. unit'[w.host].file \in Placeable(w.host)' /\ unit'[w.host].runs \in Placeable(w.host)'
  <2>1. unit[w.host].file \in Placeable(w.host)' /\ unit[w.host].runs \in Placeable(w.host)'
        /\ [of |-> w.cluster, port |-> w.port] \in Placeable(w.host)'
    BY <1>3, <1>4, SentGrows DEF SrInv, UnitsFit
  <2> QED BY <1>2, <1>7, <2>1
<1>9. ASSUME w.cluster \in lonely', NEW row \in RowsOf(w.cluster)'
      PROVE  Served(row)' /\ \A other \in RowsOf(w.cluster)' : row = other
  <2>1. row \in RowsOf(w.cluster) /\ RowsOf(w.cluster)' = RowsOf(w.cluster)
    BY <1>9 DEF RowsOf
  <2>2. row.status = "deploying"
    BY <1>1, <1>2, <1>9, <2>1, OwnTask DEF TaskFits, Knows
  <2> QED BY <1>1, <1>2, <1>9, <2>1, <2>2, HasItsRow DEF Served
<1> QED BY <1>1, <1>2, <1>4, <1>5, <1>6, <1>7, <1>8, <1>9, StepKeeps

LEMMA CopyKeeps ==
  ASSUME SrInv, NEW r \in SrRequest, CopyUnit(r)
  PROVE  SrInv'
<1>1. srTask[r].at = "copy" /\ UnderWay(r) /\ SrGoes(r, "start") /\ UNCHANGED <<srRows, srPort, lonely>>
  BY DEF CopyUnit, UnderWay
<1>2. PICK h \in SrHost : h = srTask[r].host
  BY <1>1, OwnTask
<1>3. PICK u \in [file : SrUnit, runs : SrUnit] : /\ unit' = [unit EXCEPT ![h] = u] /\ u.runs = unit[h].runs
                                                  /\ u.file = [of |-> srTask[r].cluster, port |-> srTask[r].port]
  <2> DEFINE p == [of |-> srTask[r].cluster, port |-> srTask[r].port]
  <2>1. p \in SrUnit /\ unit' = [unit EXCEPT ![h].file = p]
    BY <1>1, <1>2, OwnTask DEF CopyUnit, SrUnit
  <2> HIDE DEF p
  <2>2. unit[h] \in [file : SrUnit, runs : SrUnit]
    BY DEF SrInv, SrTypeOK
  <2>3. [unit[h] EXCEPT !.file = p] \in [file : SrUnit, runs : SrUnit]
    BY <2>1, <2>2
  <2>4. [unit[h] EXCEPT !.file = p].file = p /\ [unit[h] EXCEPT !.file = p].runs = unit[h].runs
    BY <2>2
  <2>5. unit' = [unit EXCEPT ![h] = [unit[h] EXCEPT !.file = p]]
    BY <2>1
  <2> QED BY <2>3, <2>4, <2>5 DEF p
<1> QED BY <1>1, <1>2, <1>3, PlayKeeps

LEMMA StartKeeps ==
  ASSUME SrInv, NEW r \in SrRequest, StartUnit(r)
  PROVE  SrInv'
<1>1. srTask[r].at = "start" /\ UnderWay(r) /\ SrGoes(r, "wait") /\ UNCHANGED <<srRows, srPort, lonely>>
  BY DEF StartUnit, UnderWay
<1>2. PICK h \in SrHost : h = srTask[r].host
  BY <1>1, OwnTask
<1>3. PICK u \in [file : SrUnit, runs : SrUnit] : /\ unit' = [unit EXCEPT ![h] = u] /\ u.file = unit[h].file
                                                  /\ u.runs \in {unit[h].file, unit[h].runs}
  <2> DEFINE p == IF unit[h].runs = NoUnit THEN unit[h].file ELSE unit[h].runs
  <2>1. unit[h] \in [file : SrUnit, runs : SrUnit] /\ unit' = [unit EXCEPT ![h].runs = p]
    BY <1>2 DEF StartUnit, SrInv, SrTypeOK
  <2>2. p \in SrUnit /\ p \in {unit[h].file, unit[h].runs}
    BY <2>1
  <2> HIDE DEF p
  <2>3. [unit[h] EXCEPT !.runs = p] \in [file : SrUnit, runs : SrUnit]
    BY <2>1, <2>2
  <2>4. [unit[h] EXCEPT !.runs = p].runs = p /\ [unit[h] EXCEPT !.runs = p].file = unit[h].file
    BY <2>1
  <2>5. unit' = [unit EXCEPT ![h] = [unit[h] EXCEPT !.runs = p]]
    BY <2>1
  <2> QED BY <2>2, <2>3, <2>4, <2>5
<1> QED BY <1>1, <1>2, <1>3, PlayKeeps

LEMMA SrInvKept == SrInv /\ [SrNext]_srVars => SrInv'
<1> SUFFICES ASSUME SrInv, [SrNext]_srVars PROVE SrInv'
  OBVIOUS
<1>1. ASSUME NEW r \in SrRequest, NEW c \in SrCluster, NEW h \in SrHost, NEW p \in SrPort, AskRegistry(r, c, h, p)
      PROVE  SrInv'
  BY <1>1, AskKeeps
<1>2. ASSUME NEW r \in SrRequest, CheckPort(r) PROVE SrInv'
  BY <1>2, CheckKeeps
<1>3. ASSUME NEW r \in SrRequest, FindRow(r) PROVE SrInv'
  BY <1>3, FindKeeps
<1>4. ASSUME NEW r \in SrRequest, CreateRow(r) PROVE SrInv'
  BY <1>4, CreateKeeps
<1>5. ASSUME NEW r \in SrRequest, ReuseRow(r) PROVE SrInv'
  BY <1>5, ReuseKeeps
<1>6. ASSUME NEW r \in SrRequest, GiveUp(r) PROVE SrInv'
  <2>1. UnderWay(r) /\ srTask[r].at = "render"
    BY <1>6 DEF GiveUp, UnderWay
  <2> QED BY <1>6, <2>1, SrVerdictKeeps DEF GiveUp
<1>7. ASSUME NEW r \in SrRequest, RenderRegistry(r) PROVE SrInv'
  <2>1. UnderWay(r) /\ srTask[r].at = "render"
    BY <1>7 DEF RenderRegistry, UnderWay
  <2> QED BY <1>7, <2>1, SrGoesKeeps DEF RenderRegistry, Early
<1>8. ASSUME NEW r \in SrRequest, CopyUnit(r) PROVE SrInv'
  BY <1>8, CopyKeeps
<1>9. ASSUME NEW r \in SrRequest, StartUnit(r) PROVE SrInv'
  BY <1>9, StartKeeps
<1>10. ASSUME NEW r \in SrRequest, PlaybookSucceeds(r) PROVE SrInv'
  <2>1. UnderWay(r) /\ srTask[r].at = "wait"
    BY <1>10 DEF PlaybookSucceeds, UnderWay
  <2> QED BY <1>10, <2>1, SrVerdictKeeps DEF PlaybookSucceeds
<1>11. ASSUME NEW r \in SrRequest, PlaybookFails(r) PROVE SrInv'
  <2>1. UnderWay(r) /\ srTask[r].at \in {"copy", "start", "wait"}
    BY <1>11 DEF PlaybookFails, UnderWay
  <2> QED BY <1>11, <2>1, SrVerdictKeeps DEF PlaybookFails
<1>12. ASSUME NEW r \in SrRequest, ThreadDies(r) PROVE SrInv'
  BY <1>12, SrGoesKeeps DEF ThreadDies, Early
<1>13. CASE UNCHANGED srVars
  BY <1>13 DEF srVars, SrInv, SrTypeOK, UnitsFit, Placeable, SentTo, RowsFit, TasksFit, TaskFits, Knows, RowsOf,
               UnderWay, OneRow, Served, Foreign, Early
<1> QED BY <1>1, <1>2, <1>3, <1>4, <1>5, <1>6, <1>7, <1>8, <1>9, <1>10, <1>11, <1>12, <1>13 DEF SrNext

LEMMA SrInvFirst == SrInit => SrInv
<1> SUFFICES ASSUME SrInit PROVE SrInv
  OBVIOUS
<1>1. SrTypeOK
  BY DEF SrInit, SrTypeOK, SrTask, SrUnit, NoUnit
<1>2. UnitsFit
  BY DEF SrInit, UnitsFit, Placeable
<1>3. RowsFit /\ OneRow /\ \A row \in srRows : Served(row)
  BY DEF SrInit, RowsFit, OneRow
<1>4. TasksFit
  BY DEF SrInit, TasksFit, UnderWay
<1> QED BY <1>1, <1>2, <1>3, <1>4 DEF SrInv

-----------------------------------------------------------------------------
(* The theorems.                                                           *)

LEMMA SrInvHolds == SrSpec => []SrInv
  BY SrInvFirst, SrInvKept, PTL DEF SrSpec

\* The variables of the registry deploys keep the shapes SrTypeOK gives them.
THEOREM RegistryTyped == SrSpec => []SrTypeOK
<1>1. SrInv => SrTypeOK
  BY DEF SrInv
<1> QED BY <1>1, SrInvHolds, PTL

\* A registry whose row says running runs where the row says, on the port the cluster's
\* config names (deploy_schema_registry), whatever deploys were refused, failed, moved it
\* or died before, while the cluster's tasks do not overlap and the host is its own.
THEOREM RunningIsServed == SrSpec => []RegistryIsServed
<1>1. SrInv => RegistryIsServed
  BY DEF SrInv, RegistryIsServed, Served
<1> QED BY <1>1, SrInvHolds, PTL

=============================================================================
