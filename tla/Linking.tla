------------------------------ MODULE Linking ------------------------------
(***************************************************************************)
(* Cluster links (services/cluster_linking_manager.py, api/                *)
(* cluster_linking.py): a row with the MirrorMaker 2 configuration, and    *)
(* one MirrorMaker unit per host, deployed, started, stopped, polled and   *)
(* removed over SSH by requests that each work on the row they have read.  *)
(* The file of a host is the one its unit reads: the path of both is that  *)
(* of the broker that the host has of one of the clusters.  Not modelled:  *)
(* brokers that come to the host or leave it between a deploy and a start, *)
(* which then writes to another path than the unit reads.                  *)
(***************************************************************************)
EXTENDS Naturals

CONSTANTS
    Link,          \* links
    LinkHost,      \* hosts MirrorMaker runs on
    Setting,       \* configurations of a link (mm2_config of its row)
    NoSetting,     \* none
    LinkRequest,   \* bound: requests under way
    LinkOps        \* bound: requests in all

ASSUME LinkingAssumption ==
    /\ Link # {} /\ LinkHost # {} /\ Setting # {}
    /\ NoSetting \notin Setting /\ LinkOps \in Nat

VARIABLES
    links,         \* the ClusterLink rows
    mm2,           \* on a host: configuration and unit file, the unit's state, what runs
    lreq,          \* where a request is
    calls,         \* requests so far
    strayed,       \* history: links whose row may have lost touch with their unit
    edited         \* history: links changed since they were started from a stop

linkVars == <<links, mm2, lreq, calls, strayed, edited>>

Mirror == [of : Link \cup {"nobody"}, with : Setting \cup {NoSetting}]
NoMirror == [of |-> "nobody", with |-> NoSetting]
LinkState == {"created", "running", "stopped", "error"}
LinkRow == [at : {"unused", "there", "gone"}, state : LinkState, conf : Setting, host : LinkHost]
LinkWork == [at : {"idle", "write", "install", "start", "stop", "poll", "wipe", "drop"},
             op : {"deploy", "start", "stop", "poll", "delete"}, link : Link, state : LinkState,
             conf : Setting, undisturbed : BOOLEAN]

\* is-active: "activating" is a unit that failed and waits for systemd's next try.
MirrorUnit == [file : Mirror, unit : BOOLEAN, is : {"inactive", "active", "activating"}, runs : Mirror]

LinkTypeOK ==
    /\ links \in [Link -> LinkRow]
    /\ mm2 \in [LinkHost -> MirrorUnit]
    /\ lreq \in [LinkRequest -> LinkWork] /\ calls \in 0 .. LinkOps
    /\ strayed \subseteq Link /\ edited \subseteq Link

NoLinkWork == [at |-> "idle", op |-> "poll", link |-> CHOOSE l \in Link : TRUE, state |-> "created",
               conf |-> CHOOSE v \in Setting : TRUE, undisturbed |-> TRUE]

LinkInit ==
    /\ links = [l \in Link |-> [at |-> "unused", state |-> "created", conf |-> CHOOSE v \in Setting : TRUE,
                                host |-> CHOOSE h \in LinkHost : TRUE]]
    /\ mm2 = [h \in LinkHost |-> [file |-> NoMirror, unit |-> FALSE, is |-> "inactive", runs |-> NoMirror]]
    /\ lreq = [r \in LinkRequest |-> NoLinkWork]
    /\ calls = 0 /\ strayed = {} /\ edited = {}

LGoes(r, at) == lreq' = [lreq EXCEPT ![r].at = at]
LEnds(r) == lreq' = [lreq EXCEPT ![r] = NoLinkWork]
HostOf(r) == links[lreq[r].link].host
On(l) == {r \in LinkRequest : lreq[r].at # "idle" /\ lreq[r].link = l}

\* The row is written only where it differs from what the request had loaded.
WriteState(r, state) ==
    links' = IF state = lreq[r].state \/ links[lreq[r].link].at # "there" THEN links
             ELSE [links EXCEPT ![lreq[r].link].state = state]

Counts == calls < LinkOps /\ calls' = calls + 1

-----------------------------------------------------------------------------
\* create_link: the deploy host is chosen for good.
CreateLink(l, v, h) ==
    /\ links[l].at = "unused"
    /\ Counts
    /\ links' = [links EXCEPT ![l] = [at |-> "there", state |-> "created", conf |-> v, host |-> h]]
    /\ UNCHANGED <<mm2, lreq, strayed, edited>>

\* update_link: nothing is sent to the host.  An update that leaves mm2_config as it was,
\* because a cluster has no brokers just now, is none here.
UpdateLink(l, v) ==
    /\ links[l].at = "there" /\ links[l].conf # v
    /\ Counts
    /\ links' = [links EXCEPT ![l].conf = v]
    /\ edited' = edited \cup {l}
    /\ UNCHANGED <<mm2, lreq, strayed>>

FirstStep(op) == CASE op = "deploy" -> "write" [] op = "start" -> "write"
                   [] op = "stop" -> "stop" [] op = "poll" -> "poll" [] op = "delete" -> "wipe"

\* A request loads the row.  Nothing keeps two requests of one link apart.
LoadLink(r, l, op) ==
    /\ lreq[r].at = "idle" /\ links[l].at = "there"
    /\ Counts
    /\ lreq' = [q \in LinkRequest |->
                  IF q = r THEN [at |-> FirstStep(op), op |-> op, link |-> l, state |-> links[l].state,
                                 conf |-> links[l].conf, undisturbed |-> On(l) = {}]
                  ELSE IF q \in On(l) THEN [lreq[q] EXCEPT !.undisturbed = FALSE] ELSE lreq[q]]
    /\ strayed' = IF On(l) = {} THEN strayed ELSE strayed \cup {l}
    /\ UNCHANGED <<links, mm2, edited>>

FileOf(r) == [of |-> lreq[r].link, with |-> lreq[r].conf]

\* Seeded fault: a start trusts the file that is there.
WriteOnDeployOnly(r) ==
    /\ lreq[r].at = "write"
    /\ mm2' = IF lreq[r].op = "start" THEN mm2
              ELSE [mm2 EXCEPT ![HostOf(r)].file = FileOf(r)]
    /\ LGoes(r, IF lreq[r].op = "deploy" THEN "install" ELSE "start")
    /\ UNCHANGED <<calls, links, strayed, edited>>

\* The configuration of the loaded row is installed on the host, on a start as well ...
WriteConfig(r) ==
    /\ lreq[r].at = "write"
    /\ mm2' = [mm2 EXCEPT ![HostOf(r)].file = FileOf(r)]
    /\ LGoes(r, IF lreq[r].op = "deploy" THEN "install" ELSE "start")
    /\ UNCHANGED <<calls, links, strayed, edited>>

\* ... and on a deploy the unit.
InstallMirror(r) ==
    /\ lreq[r].at = "install"
    /\ mm2' = [mm2 EXCEPT ![HostOf(r)].unit = TRUE]
    /\ LGoes(r, "start")
    /\ UNCHANGED <<calls, links, strayed, edited>>

\* What a unit that is started, or started again, makes of the file that is there.
Launched(m) == [m EXCEPT !.is = IF m.file = NoMirror THEN "activating" ELSE "active", !.runs = m.file]

\* systemctl start: no effect on a unit that runs.
Started(r) == [mm2 EXCEPT ![HostOf(r)] = IF @.is = "active" THEN @ ELSE Launched(@)]
Halted(h) == [mm2 EXCEPT ![h] = [@ EXCEPT !.is = "inactive", !.runs = NoMirror]]

\* It is called running whatever is-active says.
StartMirror(r) ==
    LET l == lreq[r].link IN
    /\ lreq[r].at = "start"
    /\ mm2[HostOf(r)].unit
    /\ mm2' = Started(r)
    /\ WriteState(r, "running")
    /\ edited' = IF l \notin strayed /\ lreq[r].conf = links[l].conf /\ lreq[r].state = "stopped"
                 THEN edited \ {l} ELSE edited
    /\ LEnds(r)
    /\ UNCHANGED <<calls, strayed>>

\* A step of a deploy or a start fails, the last one perhaps with the unit started.
StartFails(r) ==
    /\ lreq[r].at \in {"write", "install", "start"}
    /\ \/ UNCHANGED mm2
       \/ lreq[r].at = "start" /\ mm2[HostOf(r)].unit /\ mm2' = Started(r)
    /\ WriteState(r, "error")
    /\ LEnds(r)
    /\ UNCHANGED <<calls, strayed, edited>>

StopMirror(r) ==
    /\ lreq[r].at = "stop"
    /\ mm2[HostOf(r)].unit
    /\ mm2' = Halted(HostOf(r))
    /\ WriteState(r, "stopped")
    /\ LEnds(r)
    /\ UNCHANGED <<calls, strayed, edited>>

\* The row keeps its state when a stop fails, even one that was carried out.
StopFails(r) ==
    /\ lreq[r].at = "stop"
    /\ \/ UNCHANGED <<mm2, strayed>>
       \/ /\ mm2' = Halted(HostOf(r))
          /\ strayed' = strayed \cup {lreq[r].link}
    /\ LEnds(r)
    /\ UNCHANGED <<calls, links, edited>>

\* What a poll has seen settles the row, unless it is left as it is and says otherwise.
PollSettles(r) ==
    strayed' = IF lreq[r].undisturbed /\ (mm2[HostOf(r)].is = "activating" => lreq[r].state = "running")
               THEN strayed \ {lreq[r].link} ELSE strayed

\* Seeded fault: a unit that is down is not told.
PollUpOnly(r) ==
    /\ lreq[r].at = "poll"
    /\ IF mm2[HostOf(r)].is = "active" THEN WriteState(r, "running") ELSE UNCHANGED links
    /\ PollSettles(r)
    /\ LEnds(r)
    /\ UNCHANGED <<calls, mm2, edited>>

\* get_link_status brings the row back in line with what is-active says, if it says that
\* the unit is active, inactive or failed.
PollStatus(r) ==
    LET is == mm2[HostOf(r)].is IN
    /\ lreq[r].at = "poll"
    /\ \/ is = "active" /\ WriteState(r, "running")
       \/ is = "inactive" /\ lreq[r].state = "running" /\ \E s \in {"stopped", "error"} : WriteState(r, s)
       \/ is = "activating" /\ UNCHANGED links
       \/ is = "inactive" /\ lreq[r].state # "running" /\ UNCHANGED links
    /\ PollSettles(r)
    /\ LEnds(r)
    /\ UNCHANGED <<calls, mm2, edited>>

\* Unit and file are removed as far as the host lets them (no exit code is looked at), and
\* then the row, in any case.
WipeMirror(r) ==
    LET h == HostOf(r) IN
    /\ lreq[r].at = "wipe"
    /\ \E on \in {mm2, Halted(h)}, unit \in {mm2[h].unit, FALSE}, file \in {mm2[h].file, NoMirror} :
         mm2' = [on EXCEPT ![h] = [@ EXCEPT !.unit = unit, !.file = file]]
    /\ LGoes(r, "drop")
    /\ UNCHANGED <<calls, links, strayed, edited>>

DropLink(r) ==
    /\ lreq[r].at = "drop"
    /\ links' = [links EXCEPT ![lreq[r].link].at = "gone"]
    /\ LEnds(r)
    /\ UNCHANGED <<calls, mm2, strayed, edited>>

\* The worker dies, or the poll cannot reach the host: nothing is written.
Abandon(r) ==
    /\ lreq[r].at # "idle"
    /\ LEnds(r)
    /\ strayed' = IF lreq[r].at = "poll" THEN strayed ELSE strayed \cup {lreq[r].link}
    /\ UNCHANGED <<calls, links, mm2, edited>>

\* MirrorMaker ends with success, or is stopped by hand: it stays down.
MirrorDies(h) ==
    /\ mm2[h].is # "inactive"
    /\ mm2' = Halted(h)
    /\ strayed' = strayed \cup {l \in Link : links[l].host = h}
    /\ lreq' = [r \in LinkRequest |-> IF HostOf(r) = h THEN [lreq[r] EXCEPT !.undisturbed = lreq[r].at = "idle"]
                                      ELSE lreq[r]]
    /\ UNCHANGED <<calls, links, edited>>

\* It fails, and systemd starts it again (Restart=on-failure), over and over if need be.
MirrorFails(h) ==
    /\ mm2[h].is = "active"
    /\ mm2' = [mm2 EXCEPT ![h] = [@ EXCEPT !.is = "activating", !.runs = NoMirror]]
    /\ UNCHANGED <<calls, links, lreq, strayed, edited>>

MirrorRestarts(h) ==
    /\ mm2[h].is = "activating"
    /\ mm2' = [mm2 EXCEPT ![h] = Launched(@)]
    /\ UNCHANGED <<calls, links, lreq, strayed, edited>>

LinkStep(r) ==
    \/ WriteConfig(r) \/ InstallMirror(r) \/ StartMirror(r) \/ StartFails(r) \/ StopMirror(r) \/ StopFails(r)
    \/ PollStatus(r) \/ WipeMirror(r) \/ DropLink(r) \/ Abandon(r)

LinkNext ==
    \/ \E l \in Link, v \in Setting : UpdateLink(l, v) \/ \E h \in LinkHost : CreateLink(l, v, h)
    \/ \E r \in LinkRequest : LinkStep(r) \/ \E l \in Link, op \in {"deploy", "start", "stop", "poll", "delete"} :
                                               LoadLink(r, l, op)
    \/ \E h \in LinkHost : MirrorDies(h) \/ MirrorFails(h) \/ MirrorRestarts(h)

LinkSpec == LinkInit /\ [][LinkNext]_linkVars

-----------------------------------------------------------------------------
(* Properties.                                                             *)

\* A link that has had its host to itself, whose requests are over and whose row was
\* polled since anything went astray: overlapping requests, a worker or MirrorMaker that died,
\* a stop that was carried out and reported as failed.
Settled(l) ==
    /\ links[l].at = "there" /\ l \notin strayed /\ On(l) = {}
    /\ \A d \in Link \ {l} : links[d].at = "unused" \/ links[d].host # links[l].host

\* A link called running has a MirrorMaker of its own that runs, or that failed and that
\* systemd starts again: never one that is down, nor another link's.  It may fail each time.
RunningLinkKeptUp ==
    \A l \in Link : Settled(l) /\ links[l].state = "running" =>
        LET m == mm2[links[l].host] IN m.is # "inactive" /\ (m.is = "active" => m.runs.of = l)

\* It mirrors with the settings of the row if these were not changed since the link was
\* last started from a stop: that start is what a change has to wait for.
StartAppliesSettings ==
    \A l \in Link : Settled(l) /\ links[l].state = "running" /\ l \notin edited
        => LET m == mm2[links[l].host] IN m.is = "active" => m.runs.with = links[l].conf

=============================================================================
