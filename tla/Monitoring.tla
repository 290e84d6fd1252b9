----------------------------- MODULE Monitoring -----------------------------
(***************************************************************************)
(* The monitoring stack of a cluster (services/monitoring_deployer.py) and *)
(* the alert rules and channels pushed to it (api/alerts.py,               *)
(* services/alert_manager.py).  Every edit commits a row, then reads all   *)
(* rows, then overwrites two files on the monitoring host and asks for a   *)
(* reload; a deploy does the same after a series of steps over SSH.        *)
(***************************************************************************)
EXTENDS Naturals

CONSTANTS
    Monitored,     \* clusters
    MonHost,       \* hosts the stack may be put on
    AlertRule,     \* rules by name, all of them among the seeded defaults
    Channel,       \* notification channels
    MonRequest,    \* bound: requests under way at a time
    MonOps         \* bound: requests made in all

ASSUME MonAssumption == MonOps \in Nat /\ MonHost # {} /\ "none" \notin Monitored

VARIABLES
    rules,         \* rules[c][n]: the row, or "absent"
    channels,      \* channels with an enabled row
    monconf,       \* the MonitoringConfig row of a cluster
    mon,           \* what is on a host: the files and what the daemons run with
    mreq,          \* where a request is
    behind,        \* history: clusters whose last push was lost
    asked,         \* requests made so far
    alone          \* history: clusters whose requests never overlapped or died, on a host of their own

monVars == <<rules, channels, monconf, mon, mreq, behind, asked, alone>>

Row == {"absent", "disabled", "good", "bad"}      \* bad: an expression promtool refuses
Text == SUBSET (AlertRule \X {"good", "bad"})
RulesFile == [of : Monitored \cup {"none"}, text : Text]
PromPort == {"default", "other"}                  \* settings.PROMETHEUS_PORT, or another
MonConf == [row : BOOLEAN, deployed : BOOLEAN, host : MonHost, port : PromPort]
Stack == [up : BOOLEAN, port : PromPort, scrapes : Monitored \cup {"none"},
          file : RulesFile, loaded : RulesFile, receivers : SUBSET Channel]
MonWork == [at : {"idle", "loop", "read", "push", "exporters", "prometheus", "grafana",
                  "alertmanager", "check", "recheck", "dashboards", "save", "seed"},
            op : {"edit", "deploy", "seed"}, todo : SUBSET Monitored, cluster : Monitored \cup {"none"},
            host : MonHost, port : PromPort, failed : BOOLEAN, text : Text, routes : SUBSET Channel]

MonTypeOK ==
    /\ rules \in [Monitored -> [AlertRule -> Row]]
    /\ channels \subseteq Channel
    /\ monconf \in [Monitored -> MonConf]
    /\ mon \in [MonHost -> Stack]
    /\ mreq \in [MonRequest -> MonWork]
    /\ asked \in 0..MonOps /\ behind \subseteq Monitored /\ alone \subseteq Monitored

AnyHost == CHOOSE h \in MonHost : TRUE
NoFile == [of |-> "none", text |-> {}]
NoWork == [at |-> "idle", op |-> "edit", todo |-> {}, cluster |-> "none", host |-> AnyHost,
           port |-> "default", failed |-> FALSE, text |-> {}, routes |-> {}]

MonInit ==
    /\ rules = [c \in Monitored |-> [n \in AlertRule |-> "absent"]]
    /\ channels = {}
    /\ monconf = [c \in Monitored |->
                    [row |-> FALSE, deployed |-> FALSE, host |-> AnyHost, port |-> "default"]]
    /\ mon = [h \in MonHost |-> [up |-> FALSE, port |-> "default", scrapes |-> "none", file |-> NoFile,
                                 loaded |-> NoFile, receivers |-> {}]]
    /\ mreq = [w \in MonRequest |-> NoWork]
    /\ behind = {} /\ asked = 0 /\ alone = Monitored

-----------------------------------------------------------------------------
Goes(w, at) == mreq' = [mreq EXCEPT ![w] = [@ EXCEPT !.at = at]]
Ends(w) == mreq' = [mreq EXCEPT ![w] = NoWork]
Fails(w, at) == mreq' = [mreq EXCEPT ![w] = [@ EXCEPT !.at = at, !.failed = TRUE]]

MayAsk(w) == mreq[w].at = "idle" /\ asked < MonOps /\ asked' = asked + 1

\* The clusters a request is about.
About(w) == IF mreq[w].at = "idle" THEN {} ELSE mreq[w].todo \cup ({mreq[w].cluster} \ {"none"})

\* A request on cs begins: it is not alone if another is under way on the same cluster.
Begins(w, cs) == alone' = alone \ UNION {About(q) \cap cs : q \in MonRequest \ {w}}

Enabled(c) == {n \in AlertRule : rules[c][n] \in {"good", "bad"}}
RenderedRules(c) == {<<n, rules[c][n]>> : n \in Enabled(c)}
RenderedRoutes == channels
Invalid(text) == \E n \in AlertRule : <<n, "bad">> \in text
Starts(file) == ~Invalid(file.text)

-----------------------------------------------------------------------------
(* Edits: create, update and delete of a rule or a channel.                *)

EditRule(w, c, n, row) ==
    /\ MayAsk(w)
    /\ rules[c][n] # row
    /\ rules' = [rules EXCEPT ![c][n] = row]
    /\ mreq' = [mreq EXCEPT ![w] = [NoWork EXCEPT !.at = "loop", !.todo = {c}, !.cluster = c]]
    /\ Begins(w, {c})
    /\ UNCHANGED <<channels, monconf, mon, behind>>

\* Channels are global: every cluster with a deployed stack is rendered again.
EditChannel(w, k) ==
    /\ MayAsk(w)
    /\ channels' = IF k \in channels THEN channels \ {k} ELSE channels \cup {k}
    /\ mreq' = [mreq EXCEPT ![w] = [NoWork EXCEPT !.at = "loop",
                                      !.todo = {c \in Monitored : monconf[c].deployed}]]
    /\ Begins(w, Monitored)
    /\ UNCHANGED <<rules, monconf, mon, behind>>

\* reload_alerting: nothing to do without a deployed stack.
NextReload(w) ==
    /\ mreq[w].at = "loop"
    /\ \/ /\ mreq[w].todo = {} /\ Ends(w)
       \/ \E c \in mreq[w].todo :
            mreq' = [mreq EXCEPT ![w] = [@ EXCEPT
                       !.todo = mreq[w].todo \ {c}, !.cluster = c, !.host = monconf[c].host,
                       !.at = IF monconf[c].deployed THEN "read" ELSE "loop"]]
    /\ UNCHANGED <<rules, channels, monconf, mon, behind, alone, asked>>

\* _render_alerting_files reads the rows ...
ReadRows(w) ==
    /\ mreq[w].at = "read"
    /\ mreq' = [mreq EXCEPT ![w] = [@ EXCEPT !.at = "push", !.routes = RenderedRoutes,
                                              !.text = RenderedRules(mreq[w].cluster)]]
    /\ UNCHANGED <<rules, channels, monconf, mon, behind, alone, asked>>

\* What follows a push: an edit goes on with its next cluster, whatever became of this
\* one; a deploy fails or goes on to the dashboards; a seeding ends.
AfterPush(w, pushed) ==
    CASE mreq[w].op = "edit" -> mreq' = [mreq EXCEPT ![w] =
              [NoWork EXCEPT !.at = "loop", !.todo = mreq[w].todo]]
      [] mreq[w].op = "seed" -> Ends(w)
      [] OTHER -> mreq' = [mreq EXCEPT ![w] = [@ EXCEPT !.at = "recheck", !.failed = ~pushed,
                                                         !.text = {}, !.routes = {}]]

\* ... and overwrites both files.  The reload goes to the default port, is refused by a
\* Prometheus that finds a rule it cannot parse, and is not insisted on.
Push(w) ==
    LET h == mreq[w].host
        c == mreq[w].cluster
        new == [of |-> c, text |-> mreq[w].text]
        hears == mon[h].up /\ mon[h].port = "default" /\ Starts(new)
        written == [mon[h] EXCEPT !.file = new, !.receivers = mreq[w].routes] IN
    /\ mreq[w].at = "push"
    /\ \/ /\ mon' = [mon EXCEPT ![h] = [written EXCEPT !.loaded = IF hears THEN new ELSE @]]
          /\ behind' = IF Starts(new) THEN behind \ {c} ELSE behind \cup {c}
          /\ AfterPush(w, Starts(new))
       \/ /\ mon' = [mon EXCEPT ![h] = written]          \* neither daemon answers, or amtool
          /\ behind' = behind \cup {c}                   \* refuses the channels: no reload
          /\ \E valid \in BOOLEAN : AfterPush(w, valid /\ Starts(new))
       \/ /\ UNCHANGED mon                               \* the host cannot be reached
          /\ behind' = behind \cup {c}
          /\ AfterPush(w, FALSE)
    /\ UNCHANGED <<rules, channels, monconf, alone, asked>>

-----------------------------------------------------------------------------
(* deploy_monitoring_stack.  A step that fails is noted and the next one   *)
(* is tried; before the rules are rendered, and after, the notes are read. *)

\* A host that has served another cluster is not the cluster's own.
Others(h, c) == {d \in Monitored \ {c} : \/ mon[h].scrapes = d
                                         \/ mon[h].file.of = d
                                         \/ monconf[d].row /\ monconf[d].host = h
                                         \/ \E w \in MonRequest : d \in About(w) /\ mreq[w].host = h}
AskMonitoring(w, c, h, p) ==
    /\ MayAsk(w)
    /\ mreq' = [mreq EXCEPT ![w] = [NoWork EXCEPT !.at = "exporters", !.op = "deploy",
                                      !.cluster = c, !.host = h, !.port = p]]
    /\ alone' = alone \ ((UNION {About(q) \cap {c} : q \in MonRequest \ {w}})
                         \cup Others(h, c) \cup (IF Others(h, c) # {} THEN {c} ELSE {}))
    /\ UNCHANGED <<rules, channels, monconf, mon, behind>>

\* The JMX and node exporters on the brokers; an external cluster brings its own.
DeployExporters(w) ==
    /\ mreq[w].at = "exporters"
    /\ Goes(w, "prometheus") \/ Fails(w, "prometheus")
    /\ UNCHANGED <<rules, channels, monconf, mon, behind, alone, asked>>

\* The configuration is written for the one cluster.
Pointed(w) == [mon[mreq[w].host] EXCEPT !.port = mreq[w].port, !.scrapes = mreq[w].cluster]

\* Prometheus is configured and restarted: it does not start on a
\* rules file it cannot parse.  It may run and its targets still not answer.
DeployPrometheus(w) ==
    LET h == mreq[w].host IN
    /\ mreq[w].at = "prometheus"
    /\ \/ /\ Starts(mon[h].file)
          /\ mon' = [mon EXCEPT ![h] = [Pointed(w) EXCEPT !.up = TRUE, !.loaded = mon[h].file]]
          /\ Goes(w, "grafana") \/ Fails(w, "grafana")
       \/ /\ mon' = [mon EXCEPT ![h] = [Pointed(w) EXCEPT !.up = FALSE]]
          /\ Fails(w, "grafana")
       \/ UNCHANGED mon /\ Fails(w, "grafana")
    /\ UNCHANGED <<rules, channels, monconf, behind, alone, asked>>

DeployGrafana(w) ==
    /\ mreq[w].at = "grafana"
    /\ Goes(w, "alertmanager") \/ Fails(w, "alertmanager")
    /\ UNCHANGED <<rules, channels, monconf, mon, behind, alone, asked>>

\* Alertmanager is restarted with the file that is there, a placeholder on a new host.
DeployAlertmanager(w) ==
    /\ mreq[w].at = "alertmanager"
    /\ Goes(w, "check") \/ Fails(w, "check")
    /\ UNCHANGED <<rules, channels, monconf, mon, behind, alone, asked>>

\* Seeded fault: the notes are not read.
FailIgnored(w) ==
    /\ mreq[w].at \in {"check", "recheck"}
    /\ Goes(w, IF mreq[w].at = "check" THEN "read" ELSE "dashboards")
    /\ UNCHANGED <<rules, channels, monconf, mon, behind, alone, asked>>

\* _fail_deploy_if_needed: a failed deploy takes the flag of an earlier one away.
FailIfNeeded(w) ==
    LET c == mreq[w].cluster IN
    /\ mreq[w].at \in {"check", "recheck"}
    /\ \/ /\ mreq[w].failed
          /\ monconf' = [monconf EXCEPT ![c].deployed = FALSE]
          /\ Ends(w)
       \/ /\ ~mreq[w].failed
          /\ Goes(w, IF mreq[w].at = "check" THEN "read" ELSE "dashboards")
          /\ UNCHANGED monconf
    /\ UNCHANGED <<rules, channels, mon, behind, alone, asked>>

\* Dashboards may fail: the deploy is a success all the same.
ProvisionDashboards(w) ==
    /\ mreq[w].at = "dashboards"
    /\ Goes(w, "save")
    /\ UNCHANGED <<rules, channels, monconf, mon, behind, alone, asked>>

SaveConfig(w) ==
    /\ mreq[w].at = "save"
    /\ monconf' = [monconf EXCEPT ![mreq[w].cluster] =
                     [row |-> TRUE, deployed |-> TRUE, host |-> mreq[w].host, port |-> mreq[w].port]]
    /\ Goes(w, "seed")
    /\ UNCHANGED <<rules, channels, mon, behind, alone, asked>>

Missing(c) == {n \in AlertRule : rules[c][n] = "absent"}
SeededRows(c) == [n \in AlertRule |-> IF n \in Missing(c) THEN "good" ELSE rules[c][n]]

\* Seeded fault: the new default rules are not pushed.
SeedOnly(w) ==
    /\ mreq[w].at = "seed"
    /\ rules' = [rules EXCEPT ![mreq[w].cluster] = SeededRows(mreq[w].cluster)]
    /\ Ends(w)
    /\ UNCHANGED <<channels, monconf, mon, behind, alone, asked>>

\* Default rules that have no row get one, and are pushed if there are any; a default
\* rule an operator has disabled stays so, one that was deleted comes back.
SeedRules(w) ==
    LET c == mreq[w].cluster IN
    /\ mreq[w].at = "seed"
    /\ rules' = [rules EXCEPT ![c] = SeededRows(c)]
    /\ IF Missing(c) = {} THEN Ends(w)
       ELSE mreq' = [mreq EXCEPT ![w] = [@ EXCEPT !.at = "read", !.op = "seed"]]
    /\ UNCHANGED <<channels, monconf, mon, behind, alone, asked>>

\* The worker dies: an edit is not pushed, a deploy stays half done.
WorkerDies(w) ==
    /\ mreq[w].at # "idle"
    /\ Ends(w)
    /\ IF mreq[w].op = "deploy" THEN alone' = alone \ About(w) /\ UNCHANGED behind
       ELSE behind' = behind \cup About(w) /\ UNCHANGED alone
    /\ UNCHANGED <<rules, channels, monconf, mon, asked>>

DeployStep(w) ==
    \/ DeployExporters(w) \/ DeployPrometheus(w) \/ DeployGrafana(w) \/ DeployAlertmanager(w)
    \/ FailIfNeeded(w) \/ ProvisionDashboards(w) \/ SaveConfig(w) \/ SeedRules(w)

MonNext ==
    \E w \in MonRequest :
        \/ \E c \in Monitored, n \in AlertRule, row \in Row : EditRule(w, c, n, row)
        \/ \E k \in Channel : EditChannel(w, k)
        \/ \E c \in Monitored, h \in MonHost, p \in PromPort : AskMonitoring(w, c, h, p)
        \/ NextReload(w) \/ ReadRows(w) \/ Push(w) \/ DeployStep(w) \/ WorkerDies(w)

MonSpec == MonInit /\ [][MonNext]_monVars

-----------------------------------------------------------------------------
(* Properties.                                                             *)

AtRest(c) == \A w \in MonRequest : c \notin About(w)
Stacked(c) == c \in alone /\ monconf[c].deployed /\ AtRest(c)

\* With the stack called deployed and nothing under way, Prometheus evaluates exactly
\* the enabled rules and Alertmanager routes to exactly the enabled channels: an edit
\* whose push was lost is made up for by any later push or deploy, and one made while
\* the stack was not deployed by the deploy.  So it is for a cluster that shares its
\* monitoring host with no other, on the default Prometheus port, without requests that overlap.
RulesInForce ==
    \A c \in Monitored : (Stacked(c) /\ c \notin behind /\ monconf[c].port = "default") =>
        LET s == mon[monconf[c].host] IN
        /\ s.loaded.of = c /\ s.loaded.text = RenderedRules(c)
        /\ s.receivers = channels

\* A stack called deployed runs where and as its row says and scrapes the cluster of
\* the row, though a later deploy to the same or another host may have failed half way.
DeployedIsServed ==
    \A c \in Monitored : Stacked(c) =>
        LET s == mon[monconf[c].host] IN
        s.up /\ s.port = monconf[c].port /\ s.scrapes = c

=============================================================================
