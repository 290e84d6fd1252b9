--------------------------- MODULE RollingProofs ---------------------------
(***************************************************************************)
(* Theorems about Rolling for every cluster and any number of restarts and *)
(* upgrades.  The last shows that Rolling implements RollPromise.          *)
(***************************************************************************)
EXTENDS Rolling, TLAPS, FiniteSetTheorems

USE RollingAssumption

Between == {"idle", "queued", "checked", "next", "isr", "flushed"}
Working == {"stopped", "unpacking", "removed", "extracted", "checking"}
Final == {"over", "killed"}

\* What a thread has out follows from where it is: nothing between nodes, the node
\* in hand while it works on it, at most the last one when it is gone.
OutShape(j) ==
    /\ j.at \in Between => j.out = {}
    /\ j.at \in Working => j.out = {j.node}
    /\ \E n \in Node : j.out \subseteq {n}

\* Each node of the plan is still to come, seen or in hand; none is to come when
\* the work is done.
PlanKept(j) ==
    /\ j.at \notin Final => j.plan \subseteq j.todo \cup j.seen \cup j.out
    /\ j.at = "flushed" => j.plan \subseteq j.seen

\* Success is only said at the end, with nothing out.
Verdict(j, s) == s = "completed" => j.at = "over" /\ j.out = {} /\ j.plan \subseteq j.seen

Shaped == \A t \in Task : OutShape(job[t]) /\ PlanKept(job[t]) /\ Verdict(job[t], status[t])
Inv == TypeOK /\ Shaped

LEMMA SomeNodeType == SomeNode \in Node /\ AllRunning \in [Node -> {"running", "stopped", "error"}]
<1>1. Node # {}
  BY DEF Node
<1> QED BY <1>1 DEF SomeNode, AllRunning

LEMMA InitInv == Init => Inv
<1> SUFFICES ASSUME Init PROVE Inv
  OBVIOUS
<1>1. TypeOK
  <2>1. /\ unit \in Unit /\ hosts \subseteq Node /\ install \in [Node -> {"old", "none", "new"}]
        /\ svc \in [Node -> {"running", "stopped", "error"}]
        /\ cluster \in [state : {"running", "upgrading", "error", "stopped"}, version : {"old", "new"}]
        /\ status \in [Task -> {"none", "running", "completed", "error", "failed", "lost"}]
    BY SomeNodeType DEF Init
  <2>2. proc \in [Unit \X Node -> {"down", "starting", "ready"}]
    BY DEF Init
  <2>3. job \in [Task -> Job]
    BY SomeNodeType DEF Init, Job, Stage
  <2> QED BY <2>1, <2>2, <2>3 DEF TypeOK
<1>2. Shaped
  BY SomeNodeType DEF Init, Shaped, OutShape, PlanKept, Verdict, Between, Working, Final
<1> QED BY <1>1, <1>2 DEF Inv

\* One thread moves: the others keep record and verdict.
LEMMA OneMoves ==
  ASSUME Inv, NEW t \in Task, NEW j \in Job, NEW s,
         job' = [job EXCEPT ![t] = j], status' = [status EXCEPT ![t] = s],
         OutShape(j), PlanKept(j), Verdict(j, s)
  PROVE  Shaped'
<1> SUFFICES ASSUME NEW u \in Task
             PROVE (OutShape(job[u]) /\ PlanKept(job[u]) /\ Verdict(job[u], status[u]))'
  BY DEF Shaped
<1>1. CASE u = t
  <2>1. job'[u] = j /\ status'[u] = s
    BY <1>1 DEF Inv, TypeOK
  <2> QED BY <2>1 DEF OutShape, PlanKept, Verdict
<1>2. CASE u # t
  <2>1. job'[u] = job[u] /\ status'[u] = status[u]
    BY <1>2 DEF Inv, TypeOK
  <2> QED BY <2>1 DEF Inv, Shaped, OutShape, PlanKept, Verdict
<1> QED BY <1>1, <1>2

\* The data a step leaves well typed beside its thread.
DataOK ==
    /\ unit \in Unit
    /\ hosts \subseteq Node
    /\ proc \in [Unit \X Node -> {"down", "starting", "ready"}]
    /\ install \in [Node -> {"old", "none", "new"}]
    /\ svc \in [Node -> {"running", "stopped", "error"}]
    /\ cluster \in [state : {"running", "upgrading", "error", "stopped"}, version : {"old", "new"}]
Verdicts == {"none", "running", "completed", "error", "failed", "lost"}

\* A step that changes record and verdict of one thread.
LEMMA Concluding ==
  ASSUME Inv, DataOK', NEW t \in Task, NEW j \in Job, NEW s \in Verdicts,
         job' = [job EXCEPT ![t] = j], status' = [status EXCEPT ![t] = s],
         OutShape(j), PlanKept(j), Verdict(j, s)
  PROVE  Inv'
<1>1. Shaped'
  BY OneMoves
<1>2. TypeOK'
  BY DEF Inv, TypeOK, DataOK, Verdicts
<1> QED BY <1>1, <1>2 DEF Inv

\* A step that only changes its record.  The thread is not done.
LEMMA Moving ==
  ASSUME Inv, DataOK', NEW t \in Task, NEW j \in Job, job[t].at # "over",
         job' = [job EXCEPT ![t] = j], UNCHANGED status, OutShape(j), PlanKept(j)
  PROVE  Inv'
<1>1. status[t] \in Verdicts /\ status' = [status EXCEPT ![t] = status[t]]
  BY DEF Inv, TypeOK, Verdicts
<1>2. status[t] # "completed"
  BY DEF Inv, Shaped, Verdict
<1> QED BY <1>1, <1>2, Concluding DEF Verdict

\* A step that touches no thread.
LEMMA Standing ==
  ASSUME Inv, DataOK', UNCHANGED <<job, status>>
  PROVE  Inv'
BY DEF Inv, TypeOK, DataOK, Shaped, OutShape, PlanKept, Verdict

\* From one stage between nodes to another, or from one step on the node in hand to
\* the next, and nothing else.
LEMMA Going ==
  ASSUME Inv, DataOK', NEW t \in Task, NEW from, NEW to, Go(t, from, to), UNCHANGED status,
         \/ from \in Between /\ to \in Between \ {"flushed"}
         \/ from \in Working /\ to \in Working
         \/ from = "next" /\ to = "flushed" /\ job[t].todo = {}
  PROVE  Inv'
<1> DEFINE j == [job[t] EXCEPT !.at = to]
<1>1. job[t] \in Job /\ OutShape(job[t]) /\ PlanKept(job[t]) /\ job[t].at = from
  BY DEF Inv, TypeOK, Shaped, Go
<1>2. j \in Job
  BY <1>1 DEF Job, Stage, Between, Working
<1>3. OutShape(j) /\ PlanKept(j)
  BY <1>1 DEF OutShape, PlanKept, Between, Working, Final, Job
<1>4. job' = [job EXCEPT ![t] = j]
  BY DEF Go
<1>5. from # "over"
  BY DEF Between, Working
<1> HIDE DEF j
<1> QED BY <1>1, <1>2, <1>3, <1>4, <1>5, Moving

\* A thread that fails or dies.
LEMMA Leaving ==
  ASSUME Inv, DataOK', NEW t \in Task, NEW at \in Final, Gone(t, at),
         NEW s \in Verdicts, status' = [status EXCEPT ![t] = s],
         s = "completed" => at = "over" /\ job[t].out = {}
  PROVE  Inv'
<1> DEFINE j == [job[t] EXCEPT !.at = at, !.node = SomeNode, !.plan = {},
                               !.todo = {}, !.seen = {}, !.read = AllRunning]
<1>1. job[t] \in Job /\ OutShape(job[t])
  BY DEF Inv, TypeOK, Shaped
<1>2. j \in Job
  BY <1>1, SomeNodeType DEF Job, Stage, Final
<1>3. OutShape(j) /\ PlanKept(j) /\ Verdict(j, s)
  BY <1>1 DEF OutShape, PlanKept, Verdict, Between, Working, Final, Job
<1>4. job' = [job EXCEPT ![t] = j]
  BY DEF Gone
<1> HIDE DEF j
<1> QED BY <1>2, <1>3, <1>4, Concluding

\* The steps of thread t preserve the invariant.
LEMMA ThreadStep ==
  ASSUME Inv, NEW t \in Task, Thread(t)
  PROVE  Inv'
<1> USE DEF DataOK
<1>0. /\ TypeOK /\ job[t] \in Job
      /\ OutShape(job[t]) /\ PlanKept(job[t]) /\ Verdict(job[t], status[t])
  BY DEF Inv, TypeOK, Shaped
<1>t. DataOK
  BY <1>0 DEF TypeOK
<1>n. job[t].node \in Node /\ UnitOf(t) \in Unit
  BY <1>0 DEF Job, TypeOK, UnitOf, Unit
<1>1. CASE StartNode(t)
  <2>1. DataOK'
    BY <1>1, <1>t, <1>n DEF StartNode
  <2>2. Go(t, IF t \in Restart THEN "stopped" ELSE "extracted", "checking") /\ UNCHANGED status
    BY <1>1 DEF StartNode
  <2> QED BY <2>1, <2>2, Going DEF Working
<1>2. CASE NodeHealthy(t)
  <2> DEFINE j == [job[t] EXCEPT !.at = IF job[t].node \in Broker THEN "isr" ELSE "next",
                                 !.out = job[t].out \ {job[t].node},
                                 !.seen = job[t].seen \cup {job[t].node}]
  <2>1. DataOK'
    BY <1>2, <1>t, <1>n DEF NodeHealthy
  <2>2. j \in Job
    BY <1>0, <1>n DEF Job, Stage
  <2>3. job[t].at = "checking" /\ job' = [job EXCEPT ![t] = j] /\ UNCHANGED status
    BY <1>2 DEF NodeHealthy
  <2>4. OutShape(j) /\ PlanKept(j)
    BY <1>0, <2>3 DEF OutShape, PlanKept, Between, Working, Final, Job
  <2> HIDE DEF j
  <2> QED BY <2>1, <2>2, <2>3, <2>4, Moving
<1>3. CASE LeaveIsr(t)
  <2>1. DataOK' /\ Go(t, "isr", "next") /\ UNCHANGED status
    BY <1>3, <1>t DEF LeaveIsr
  <2> QED BY <2>1, Going DEF Between
<1>4. CASE Report(t)
  <2> DEFINE j == [job[t] EXCEPT !.at = "over"]
  <2>1. DataOK' /\ job[t].at = "flushed" /\ job' = [job EXCEPT ![t] = j]
        /\ status' = [status EXCEPT ![t] = "completed"]
    BY <1>4, <1>t DEF Report, Go, Close
  <2>2. j \in Job
    BY <1>0 DEF Job, Stage
  <2>3. OutShape(j) /\ PlanKept(j) /\ Verdict(j, "completed")
    BY <1>0, <2>1 DEF OutShape, PlanKept, Verdict, Between, Working, Final, Job
  <2>4. "completed" \in Verdicts
    BY DEF Verdicts
  <2> HIDE DEF j
  <2> QED BY <2>1, <2>2, <2>3, <2>4, Concluding
<1>5. ASSUME NEW n \in Node, StopNode(t, n) PROVE Inv'
  <2> DEFINE j == [job[t] EXCEPT !.at = "stopped", !.node = n,
                                 !.todo = job[t].todo \ {n}, !.out = job[t].out \cup {n}]
  <2>1. DataOK'
    BY <1>5, <1>t, <1>n DEF StopNode
  <2>2. job[t].at = "next" /\ n \in job[t].todo /\ job' = [job EXCEPT ![t] = j] /\ UNCHANGED status
    BY <1>5 DEF StopNode, MayBeNext
  <2>3. j \in Job
    BY <1>0 DEF Job, Stage
  <2>4. OutShape(j) /\ PlanKept(j)
    BY <1>0, <2>2 DEF OutShape, PlanKept, Between, Working, Final, Job
  <2> HIDE DEF j
  <2> QED BY <2>1, <2>2, <2>3, <2>4, Moving
<1>6. CASE LoadServices(t)
  <2>1. DataOK' /\ job[t].at = "queued"
    BY <1>6, <1>t DEF LoadServices
  <2>3. ASSUME NEW s \in {"completed", "error"}, Gone(t, "over"), Close(t, s) PROVE Inv'
    <3>1. job[t].out = {} /\ "over" \in Final /\ s \in Verdicts
      BY <1>0, <2>1 DEF OutShape, Between, Final, Verdicts
    <3> QED BY <2>1, <2>3, <3>1, Leaving DEF Close
  <2>4. ASSUME NEW scope \in {Broker, Controller, Node} \ {{}}, UNCHANGED status,
               job' = [job EXCEPT ![t] = [@ EXCEPT !.at = "next", !.read = svc,
                                      !.plan = scope \cap hosts, !.todo = scope \cap hosts]]
        PROVE  Inv'
    <3> DEFINE j == [job[t] EXCEPT !.at = "next", !.read = svc,
                                   !.plan = scope \cap hosts, !.todo = scope \cap hosts]
    <3>1. j \in Job
      BY <1>0, <1>t DEF Job, Stage
    <3>2. OutShape(j) /\ PlanKept(j)
      BY <1>0, <2>1 DEF OutShape, PlanKept, Between, Working, Final, Job
    <3>3. job' = [job EXCEPT ![t] = j] /\ UNCHANGED status
      BY <2>4
    <3> HIDE DEF j
    <3> QED BY <2>1, <3>1, <3>2, <3>3, Moving
  <2> QED BY <1>6, <2>3, <2>4 DEF LoadServices
<1>f. ASSUME NEW failed PROVE Flushed(t, failed) \in [Node -> {"running", "stopped", "error"}]
  BY <1>0, <1>t DEF Flushed, Job
<1>7. CASE RestartFails(t)
  <2>1. PICK n \in Node : GiveUpAt(t, n)
    BY <1>7, <1>n DEF RestartFails
  <2>2. DataOK' /\ Gone(t, "over") /\ status' = [status EXCEPT ![t] = "error"]
    BY <2>1, <1>f, <1>t DEF GiveUpAt, Close
  <2> QED BY <2>2, Leaving DEF Final, Verdicts
<1>8. CASE StartFails(t)
  <2>1. DataOK' /\ Gone(t, "over") /\ status' = [status EXCEPT ![t] = "error"]
    BY <1>8, <1>t DEF StartFails, Close
  <2> QED BY <2>1, Leaving DEF Final, Verdicts
<1>9. CASE Flush(t)
  <2> DEFINE j == [job[t] EXCEPT !.at = "flushed", !.read = AllRunning]
  <2>1. DataOK'
    BY <1>9, <1>f, <1>t DEF Flush
  <2>2. job[t].at = "next" /\ job[t].todo = {} /\ job' = [job EXCEPT ![t] = j] /\ UNCHANGED status
    BY <1>9 DEF Flush
  <2>3. j \in Job
    BY <1>0, SomeNodeType DEF Job, Stage
  <2>4. OutShape(j) /\ PlanKept(j)
    BY <1>0, <2>2 DEF OutShape, PlanKept, Between, Working, Final, Job
  <2> HIDE DEF j
  <2> QED BY <2>1, <2>2, <2>3, <2>4, Moving
<1>10. CASE PassCheck(t)
  <2>1. DataOK' /\ Go(t, "queued", "checked") /\ UNCHANGED status
    BY <1>10, <1>t DEF PassCheck
  <2> QED BY <2>1, Going DEF Between
<1>11. CASE BeginUpgrade(t)
  <2> DEFINE j == [job[t] EXCEPT !.at = "next", !.plan = Broker, !.todo = Broker]
  <2>1. DataOK'
    BY <1>11, <1>t DEF BeginUpgrade
  <2>2. job[t].at = "checked" /\ job' = [job EXCEPT ![t] = j] /\ UNCHANGED status
    BY <1>11 DEF BeginUpgrade
  <2>3. j \in Job
    BY <1>0 DEF Job, Stage, Node
  <2>4. OutShape(j) /\ PlanKept(j)
    BY <1>0, <2>2 DEF OutShape, PlanKept, Between, Working, Final, Job
  <2> HIDE DEF j
  <2> QED BY <2>1, <2>2, <2>3, <2>4, Moving
<1>12. CASE MarkStopped(t)
  <2>1. DataOK' /\ Go(t, "stopped", "unpacking") /\ UNCHANGED status
    BY <1>12, <1>t, <1>n DEF MarkStopped
  <2> QED BY <2>1, Going DEF Working
<1>13. CASE RemoveOld(t)
  <2>1. DataOK' /\ Go(t, "unpacking", "removed") /\ UNCHANGED status
    BY <1>13, <1>t, <1>n DEF RemoveOld
  <2> QED BY <2>1, Going DEF Working
<1>14. CASE UnpackNew(t)
  <2>1. DataOK' /\ Go(t, "removed", "extracted") /\ UNCHANGED status
    BY <1>14, <1>t, <1>n DEF UnpackNew
  <2> QED BY <2>1, Going DEF Working
<1>15. CASE UpgradeFails(t)
  <2>1. DataOK' /\ Gone(t, "over") /\ status' = [status EXCEPT ![t] = "failed"]
    BY <1>15, <1>t DEF UpgradeFails, Close
  <2> QED BY <2>1, Leaving DEF Final, Verdicts
<1>16. CASE RecordVersion(t)
  <2>1. DataOK' /\ Go(t, "next", "flushed") /\ job[t].todo = {} /\ UNCHANGED status
    BY <1>16, <1>t DEF RecordVersion
  <2> QED BY <2>1, Going
<1> QED BY <1>1, <1>2, <1>3, <1>4, <1>5, <1>6, <1>7, <1>8, <1>9, <1>10, <1>11, <1>12,
           <1>13, <1>14, <1>15, <1>16 DEF Thread

LEMMA InvStep == Inv /\ [Next]_vars => Inv'
<1> SUFFICES ASSUME Inv, [Next]_vars PROVE Inv'
  OBVIOUS
<1>t. DataOK
  BY DEF Inv, TypeOK, DataOK
<1>1. ASSUME NEW t \in Task, StartTask(t) PROVE Inv'
  <2> DEFINE j == [job[t] EXCEPT !.at = "queued"]
  <2>1. DataOK' /\ job[t].at = "idle" /\ job' = [job EXCEPT ![t] = j]
        /\ status' = [status EXCEPT ![t] = "running"]
    BY <1>1, <1>t DEF StartTask, Go, Close, DataOK
  <2>2. job[t] \in Job /\ OutShape(job[t]) /\ PlanKept(job[t])
    BY DEF Inv, TypeOK, Shaped
  <2>3. j \in Job
    BY <2>2 DEF Job, Stage
  <2>4. OutShape(j) /\ PlanKept(j) /\ Verdict(j, "running")
    BY <2>1, <2>2 DEF OutShape, PlanKept, Verdict, Between, Working, Final, Job
  <2>5. "running" \in Verdicts
    BY DEF Verdicts
  <2> HIDE DEF j
  <2> QED BY <2>1, <2>3, <2>4, <2>5, Concluding
<1>2. ASSUME NEW t \in Task, Kill(t) PROVE Inv'
  <2>1. DataOK' /\ Gone(t, "killed") /\ status' = [status EXCEPT ![t] = "lost"]
    BY <1>2, <1>t DEF Kill, Close, DataOK
  <2> QED BY <2>1, Leaving DEF Final, Verdicts
<1>3. ASSUME NEW u \in Unit, NEW n \in Node, DeleteHost(n) \/ Boot(u, n) \/ Die(u, n) PROVE Inv'
  <2>1. DataOK' /\ UNCHANGED <<job, status>>
    BY <1>3, <1>t DEF DeleteHost, Boot, Die, DataOK
  <2> QED BY <2>1, Standing
<1>4. CASE UNCHANGED vars
  <2>1. DataOK' /\ UNCHANGED <<job, status>>
    BY <1>4, <1>t DEF vars, DataOK
  <2> QED BY <2>1, Standing
<1>5. CASE GetCluster
  <2>1. Synced \in {"running", "upgrading", "error", "stopped"}
    BY <1>t, SomeNodeType DEF Synced, DataOK
  <2>2. DataOK' /\ UNCHANGED <<job, status>>
    BY <1>5, <1>t, <2>1 DEF GetCluster, DataOK
  <2> QED BY <2>2, Standing
<1>6. "kafka" \in Unit
  BY DEF Unit
<1> QED BY <1>1, <1>2, <1>3, <1>4, <1>5, <1>6, ThreadStep DEF Next

\* Every reachable state of the two operations is well typed.
THEOREM TypeCorrect == Spec => []TypeOK
<1>1. Inv => TypeOK
  BY DEF Inv
<1> QED BY <1>1, InitInv, InvStep, PTL DEF Spec

\* No operation ever has two nodes out, and one that reports success has brought
\* back and seen every node of its plan: rolling_restart and _do_rolling_upgrade
\* leave their loop at the first node they cannot bring back.
THEOREM OneOut == Spec => []OneNodeOut
<1>1. Inv => OneNodeOut
  <2> SUFFICES ASSUME Inv, NEW t \in Task
               PROVE Cardinality(job[t].out) <= 1 /\
                     (status[t] = "completed" => job[t].out = {} /\ job[t].plan \subseteq job[t].seen)
    BY DEF OneNodeOut
  <2>1. PICK n \in Node : job[t].out \subseteq {n}
    BY DEF Inv, Shaped, OutShape
  <2>2. IsFiniteSet({n}) /\ Cardinality({n}) = 1
    BY FS_Singleton
  <2>3. Cardinality(job[t].out) <= 1
    BY <2>1, <2>2, FS_Subset
  <2> QED BY <2>3 DEF Inv, Shaped, Verdict
<1> QED BY <1>1, InitInv, InvStep, PTL DEF Spec

-----------------------------------------------------------------------------
(* A removed installation is never forgotten.                              *)

AtWork == {"next", "stopped", "unpacking", "removed", "extracted", "checking", "isr", "flushed"}

\* A restart never comes near an installation.
Restarting(j) == j.at \notin {"checked", "unpacking", "removed", "extracted"}

\* A restart's thread moves: installations and version stay, and so does what a
\* restart keeps away from.
LEMMA RestartMoves ==
  ASSUME Inv, NEW t \in Restart, Restarting(job[t]), Thread(t) \/ StartTask(t) \/ Kill(t)
  PROVE  /\ UNCHANGED <<install, cluster>>
         /\ \E j : job' = [job EXCEPT ![t] = j] /\ Restarting(j)
<1>0. t \in Task /\ t \notin Upgrade /\ job[t] \in Job /\ Restarting(job[t])
  BY DEF Inv, TypeOK, Task
<1>1. UNCHANGED <<install, cluster>>
  BY <1>0 DEF Thread, StartTask, Kill, StartNode, NodeHealthy, LeaveIsr, Report, StopNode,
     LoadServices, RestartFails, GiveUpAt, StartFails, Flush, PassCheck, BeginUpgrade,
     MarkStopped, RemoveOld, UnpackNew, UpgradeFails, RecordVersion, Go, Restarting
<1>2. \E j : job' = [job EXCEPT ![t] = j] /\ Restarting(j)
  <2>1. ASSUME NEW from, NEW to, Go(t, from, to),
               to \notin {"checked", "unpacking", "removed", "extracted"}
        PROVE  \E j : job' = [job EXCEPT ![t] = j] /\ Restarting(j)
    <3>1. [job[t] EXCEPT !.at = to].at = to
      BY <1>0 DEF Job
    <3> QED BY <2>1, <3>1 DEF Go, Restarting
  <2>2. ASSUME NEW at, Gone(t, at), at \in Final
        PROVE  \E j : job' = [job EXCEPT ![t] = j] /\ Restarting(j)
    <3> DEFINE j == [job[t] EXCEPT !.at = at, !.node = SomeNode, !.plan = {},
                                   !.todo = {}, !.seen = {}, !.read = AllRunning]
    <3>1. j.at = at
      BY <1>0 DEF Job
    <3>2. job' = [job EXCEPT ![t] = j] /\ Restarting(j)
      BY <2>2, <3>1 DEF Gone, Restarting, Final
    <3> HIDE DEF j
    <3> QED BY <3>2
  <2>3. CASE NodeHealthy(t)
    <3> DEFINE j == [job[t] EXCEPT !.at = IF job[t].node \in Broker THEN "isr" ELSE "next",
                                   !.out = job[t].out \ {job[t].node},
                                   !.seen = job[t].seen \cup {job[t].node}]
    <3>1. job' = [job EXCEPT ![t] = j] /\ j.at \in {"isr", "next"}
      BY <1>0, <2>3 DEF NodeHealthy, Job
    <3> HIDE DEF j
    <3> QED BY <3>1 DEF Restarting
  <2>4. ASSUME NEW n \in Node, StopNode(t, n)
        PROVE  \E j : job' = [job EXCEPT ![t] = j] /\ Restarting(j)
    <3> DEFINE j == [job[t] EXCEPT !.at = "stopped", !.node = n,
                                   !.todo = job[t].todo \ {n}, !.out = job[t].out \cup {n}]
    <3>1. job' = [job EXCEPT ![t] = j] /\ j.at = "stopped"
      BY <1>0, <2>4 DEF StopNode, Job
    <3> HIDE DEF j
    <3> QED BY <3>1 DEF Restarting
  <2>5. CASE LoadServices(t)
    <3>1. CASE Gone(t, "over")
      BY <2>2, <3>1 DEF Final
    <3>2. ASSUME NEW scope,
                 job' = [job EXCEPT ![t] = [@ EXCEPT !.at = "next", !.read = svc,
                                        !.plan = scope \cap hosts, !.todo = scope \cap hosts]]
          PROVE  \E j : job' = [job EXCEPT ![t] = j] /\ Restarting(j)
      <4> DEFINE j == [job[t] EXCEPT !.at = "next", !.read = svc,
                                     !.plan = scope \cap hosts, !.todo = scope \cap hosts]
      <4>1. job' = [job EXCEPT ![t] = j] /\ j.at = "next"
        BY <1>0, <3>2 DEF Job
      <4> HIDE DEF j
      <4> QED BY <4>1 DEF Restarting
    <3> QED BY <2>5, <3>1, <3>2 DEF LoadServices
  <2>6. CASE Flush(t)
    <3> DEFINE j == [job[t] EXCEPT !.at = "flushed", !.read = AllRunning]
    <3>1. job' = [job EXCEPT ![t] = j] /\ j.at = "flushed"
      BY <1>0, <2>6 DEF Flush, Job
    <3> HIDE DEF j
    <3> QED BY <3>1 DEF Restarting
  <2>7. ~ BeginUpgrade(t) /\ ~ RemoveOld(t) /\ ~ UnpackNew(t)
    BY <1>0 DEF BeginUpgrade, RemoveOld, UnpackNew, Go, Restarting
  <2>8. ~ PassCheck(t) /\ ~ MarkStopped(t) /\ ~ UpgradeFails(t) /\ ~ RecordVersion(t)
    BY <1>0 DEF PassCheck, MarkStopped, UpgradeFails, RecordVersion
  <2>9. CASE StartTask(t) \/ StartNode(t) \/ LeaveIsr(t) \/ Report(t)
    BY <2>1, <2>9 DEF StartTask, StartNode, LeaveIsr, Report
  <2>10. CASE Kill(t) \/ RestartFails(t) \/ StartFails(t)
    <3>1. \E at \in Final : Gone(t, at)
      BY <2>10 DEF Kill, RestartFails, GiveUpAt, StartFails, Final
    <3> QED BY <2>2, <3>1
  <2> QED BY <2>3, <2>4, <2>5, <2>6, <2>7, <2>8, <2>9, <2>10 DEF Thread
<1> QED BY <1>1, <1>2

\* A task that has failed or was lost has no thread any more.
Settled(j, s) == s \in {"failed", "lost"} => j.at \in Final

\* A thread with record j and verdict s answers for the installation it removed
\* from b: TakenBy, for a record.
Answers(b, j, s) == b \in j.out /\ (j.at = "removed" \/ s \in {"failed", "lost"})

RemovalInv ==
    /\ \A t \in Task : Settled(job[t], status[t])
    /\ \A t \in Restart : Restarting(job[t])
    /\ RemovalIsReported

LEMMA InitRemoval == Init => RemovalInv
BY DEF Init, RemovalInv, Settled, Restarting, RemovalIsReported, Task, Node

\* What a step of thread t is to the others, and to a task that has settled.
LEMMA ThreadAlone ==
  ASSUME Inv, NEW t \in Task, Thread(t) \/ StartTask(t) \/ Kill(t), Settled(job[t], status[t])
  PROVE  /\ \A u \in Task \ {t} : job'[u] = job[u] /\ status'[u] = status[u]
         /\ job[t].at \notin Final
         /\ Settled(job'[t], status'[t])
<1>0. /\ job \in [Task -> Job] /\ status \in [Task -> Verdicts] /\ job[t] \in Job
  BY DEF Inv, TypeOK, Verdicts
<1>g. ASSUME NEW from, from \notin Final, NEW to, Go(t, from, to),
             UNCHANGED status \/ status' = [status EXCEPT ![t] = "running"]
                              \/ status' = [status EXCEPT ![t] = "completed"]
      PROVE  /\ \A u \in Task \ {t} : job'[u] = job[u] /\ status'[u] = status[u]
             /\ job[t].at \notin Final
             /\ Settled(job'[t], status'[t])
  BY <1>0, <1>g DEF Go, Settled
<1>l. ASSUME NEW at \in Final, Gone(t, at), job[t].at \notin Final,
             NEW s, status' = [status EXCEPT ![t] = s]
      PROVE  /\ \A u \in Task \ {t} : job'[u] = job[u] /\ status'[u] = status[u]
             /\ job[t].at \notin Final
             /\ Settled(job'[t], status'[t])
  BY <1>0, <1>l DEF Gone, Settled, Job
<1>m. ASSUME NEW j, job' = [job EXCEPT ![t] = j], job[t].at \notin Final, UNCHANGED status
      PROVE  /\ \A u \in Task \ {t} : job'[u] = job[u] /\ status'[u] = status[u]
             /\ job[t].at \notin Final
             /\ Settled(job'[t], status'[t])
  BY <1>0, <1>m DEF Settled
<1>1. CASE StartTask(t)
  BY <1>1, <1>g DEF StartTask, Close, Final
<1>2. CASE StartNode(t) \/ LeaveIsr(t) \/ PassCheck(t) \/ MarkStopped(t) \/ RemoveOld(t)
           \/ UnpackNew(t) \/ RecordVersion(t)
  <2>1. UNCHANGED status
    BY <1>2 DEF StartNode, LeaveIsr, PassCheck, MarkStopped, RemoveOld, UnpackNew, RecordVersion
  <2>2. PICK from \in Stage \ Final, to \in Stage : Go(t, from, to)
    BY <1>2 DEF StartNode, LeaveIsr, PassCheck, MarkStopped, RemoveOld, UnpackNew,
                RecordVersion, Stage, Final
  <2> QED BY <1>g, <2>1, <2>2
<1>3. CASE Report(t)
  BY <1>3, <1>g DEF Report, Close, Final
<1>4. CASE Kill(t)
  BY <1>4, <1>l DEF Kill, Close, Final
<1>5. CASE UpgradeFails(t)
  BY <1>5, <1>l DEF UpgradeFails, Close, Final
<1>6. CASE StartFails(t)
  BY <1>6, <1>l DEF StartFails, Close, Final
<1>7. CASE RestartFails(t)
  <2>1. job[t].at \notin Final /\ \E n : GiveUpAt(t, n)
    BY <1>7 DEF RestartFails, Final
  <2> QED BY <1>l, <2>1 DEF GiveUpAt, Close, Final
<1>8. CASE LoadServices(t)
  <2>1. job[t].at \notin Final
    BY <1>8 DEF LoadServices, Final
  <2>2. \/ Gone(t, "over") /\ \E s : Close(t, s)
        \/ UNCHANGED status /\ \E j : job' = [job EXCEPT ![t] = j]
    BY <1>8 DEF LoadServices
  <2> QED BY <1>l, <1>m, <2>1, <2>2 DEF Close, Final
<1>9. CASE NodeHealthy(t) \/ Flush(t) \/ BeginUpgrade(t) \/ \E n \in Node : StopNode(t, n)
  <2>1. job[t].at \notin Final /\ UNCHANGED status
    BY <1>9 DEF NodeHealthy, Flush, BeginUpgrade, StopNode, Final
  <2>2. \E j : job' = [job EXCEPT ![t] = j]
    BY <1>9 DEF NodeHealthy, Flush, BeginUpgrade, StopNode
  <2> QED BY <1>m, <2>1, <2>2
<1> QED BY <1>1, <1>2, <1>3, <1>4, <1>5, <1>6, <1>7, <1>8, <1>9 DEF Thread

\* A thread that has removed an installation puts the new one there, or leaves and
\* says so.
LEMMA RemovedMoves ==
  ASSUME Inv, NEW t \in Upgrade, job[t].at = "removed", NEW b \in job[t].out,
         Thread(t) \/ StartTask(t) \/ Kill(t), install'[b] = "none"
  PROVE  Answers(b, job'[t], status'[t])
<1>0. /\ t \in Task /\ t \notin Restart /\ job \in [Task -> Job] /\ status \in [Task -> Verdicts]
      /\ install \in [Node -> {"old", "none", "new"}] /\ b = job[t].node /\ b \in Node
      /\ job[t] \in Job
  BY DEF Inv, TypeOK, Verdicts, Task, Shaped, OutShape, Working, Job
<1>1. ~ UnpackNew(t)
  BY <1>0 DEF UnpackNew
<1>2. CASE Kill(t)
  <2>1. job'[t].out = job[t].out /\ status'[t] = "lost"
    BY <1>0, <1>2 DEF Kill, Gone, Close, Job
  <2> QED BY <2>1 DEF Answers
<1>3. CASE UpgradeFails(t)
  <2>1. job'[t].out = job[t].out /\ status'[t] = "failed"
    BY <1>0, <1>3 DEF UpgradeFails, Gone, Close, Job
  <2> QED BY <2>1 DEF Answers
<1> QED
  BY <1>0, <1>1, <1>2, <1>3
     DEF Thread, StartTask, Go, StartNode, NodeHealthy, LeaveIsr, Report, StopNode, LoadServices,
         RestartFails, StartFails, Flush, PassCheck, BeginUpgrade, MarkStopped, RemoveOld,
         RecordVersion

LEMMA ThreadRemoval ==
  ASSUME Inv, RemovalInv, NEW t \in Task, Thread(t) \/ StartTask(t) \/ Kill(t)
  PROVE  RemovalInv'
<1>1. /\ \A u \in Task \ {t} : job'[u] = job[u] /\ status'[u] = status[u]
      /\ job[t].at \notin Final
      /\ Settled(job'[t], status'[t])
  BY ThreadAlone DEF RemovalInv
<1>2. \A u \in Task : Settled(job'[u], status'[u])
  BY <1>1 DEF RemovalInv, Settled
<1>3. \A u \in Restart : Restarting(job'[u])
  <2>1. CASE t \in Restart
    <3>1. PICK j : job' = [job EXCEPT ![t] = j] /\ Restarting(j)
      BY <2>1, RestartMoves DEF RemovalInv
    <3>2. job'[t] = j
      BY <3>1 DEF Inv, TypeOK
    <3> QED BY <1>1, <3>1, <3>2 DEF RemovalInv, Task
  <2>2. CASE t \notin Restart
    BY <1>1, <2>2 DEF RemovalInv, Task
  <2> QED BY <2>1, <2>2
<1>4. ASSUME NEW b \in Broker, install'[b] = "none"
      PROVE  \E u \in Upgrade : Answers(b, job'[u], status'[u])
  <2>1. CASE install[b] = "none"
    <3>1. PICK u \in Upgrade : Answers(b, job[u], status[u])
      BY <2>1 DEF RemovalInv, RemovalIsReported, TakenBy, Answers
    <3>2. CASE u # t
      BY <1>1, <3>1, <3>2 DEF Task
    <3>3. CASE u = t
      <4>1. job[t].at = "removed" /\ b \in job[t].out
        BY <1>1, <3>1, <3>3 DEF Answers, RemovalInv, Settled
      <4> QED BY <1>4, <3>3, <4>1, RemovedMoves
    <3> QED BY <3>2, <3>3
  <2>2. CASE install[b] # "none"
    <3>1. RemoveOld(t)
      <4>1. install' # install /\ ~ UnpackNew(t)
        BY <1>4, <2>2 DEF UnpackNew, Inv, TypeOK, Node
      <4>2. ~ StartTask(t) /\ ~ Kill(t)
        BY <4>1 DEF StartTask, Kill
      <4>3. ~ StartNode(t) /\ ~ NodeHealthy(t) /\ ~ LeaveIsr(t) /\ ~ Report(t)
            /\ ~ \E n \in Node : StopNode(t, n)
        BY <4>1 DEF StartNode, NodeHealthy, LeaveIsr, Report, StopNode
      <4>4. ~ LoadServices(t) /\ ~ RestartFails(t) /\ ~ StartFails(t) /\ ~ Flush(t)
        BY <4>1 DEF LoadServices, RestartFails, GiveUpAt, StartFails, Flush
      <4>5. ~ PassCheck(t) /\ ~ BeginUpgrade(t) /\ ~ MarkStopped(t) /\ ~ UpgradeFails(t)
            /\ ~ RecordVersion(t)
        BY <4>1 DEF PassCheck, BeginUpgrade, MarkStopped, UpgradeFails, RecordVersion
      <4> QED BY <4>1, <4>2, <4>3, <4>4, <4>5 DEF Thread
    <3>2. t \in Upgrade
      BY <3>1 DEF RemovalInv, RemoveOld, Go, Restarting, Task
    <3>3. b = job[t].node /\ job[t].out = {job[t].node}
      BY <1>4, <2>2, <3>1
         DEF RemoveOld, Go, Inv, TypeOK, Shaped, OutShape, Working, Node
    <3>4. job'[t].at = "removed" /\ job'[t].out = job[t].out
      BY <3>1 DEF RemoveOld, Go, Inv, TypeOK, Job
    <3> QED BY <3>2, <3>3, <3>4 DEF Answers
  <2> QED BY <2>1, <2>2
<1> QED BY <1>2, <1>3, <1>4 DEF RemovalInv, RemovalIsReported, TakenBy, Answers, Settled, Restarting

LEMMA RemovalStep == Inv /\ RemovalInv /\ [Next]_vars => RemovalInv'
<1> SUFFICES ASSUME Inv, RemovalInv, [Next]_vars PROVE RemovalInv'
  OBVIOUS
<1>1. ASSUME UNCHANGED <<job, status, install>> PROVE RemovalInv'
  BY <1>1 DEF RemovalInv, Settled, Restarting, RemovalIsReported, TakenBy
<1>2. ASSUME NEW t \in Task, StartTask(t) \/ Thread(t) \/ Kill(t) PROVE RemovalInv'
  BY <1>2, ThreadRemoval
<1>3. ASSUME NEW u, NEW n \in Node, DeleteHost(n) \/ Boot(u, n) \/ Die(u, n) PROVE RemovalInv'
  BY <1>1, <1>3 DEF DeleteHost, Boot, Die
<1>4. CASE GetCluster \/ UNCHANGED vars
  BY <1>1, <1>4 DEF GetCluster, vars
<1> QED BY <1>2, <1>3, <1>4 DEF Next

\* A broker whose installation an upgrade removed, and that has no new one yet, is
\* the business of an upgrade at that very step or of one that has failed or was
\* lost: none goes on or reports success over it, with any number of upgrades
\* and restarts in each other's way.
THEOREM RemovalTold == Spec => []RemovalIsReported
<1>1. Init => Inv /\ RemovalInv
  BY InitInv, InitRemoval
<1>2. Inv /\ RemovalInv /\ [Next]_vars => (Inv /\ RemovalInv)'
  BY InvStep, RemovalStep
<1>3. Inv /\ RemovalInv => RemovalIsReported
  BY DEF RemovalInv
<1> QED BY <1>1, <1>2, <1>3, PTL DEF Spec

-----------------------------------------------------------------------------
(* The recorded version.                                                   *)

\* An upgrade at work plans all brokers, and none of those it has seen, nor the
\* one it starts, has the old installation any more.
Upgrading(j, inst) ==
    /\ j.at \in AtWork => j.plan = Broker
    /\ \A n \in j.seen : inst[n] # "old"
    /\ j.at \in {"extracted", "checking"} => inst[j.node] # "old"

Raised == cluster.version = "new" => \A b \in Broker : install[b] # "old"

VersionInv == Raised /\ \A t \in Upgrade : Upgrading(job[t], install)

LEMMA InitVersion == Init => VersionInv
BY DEF Init, VersionInv, Raised, Upgrading, AtWork, Task

\* The old installation never comes back.
LEMMA NoneComesBack ==
  ASSUME Inv, NEW t \in Task, Thread(t) \/ StartTask(t) \/ Kill(t), NEW n \in Node, install[n] # "old"
  PROVE  install'[n] # "old"
<1>1. CASE RemoveOld(t) \/ UnpackNew(t)
  BY <1>1 DEF RemoveOld, UnpackNew, Inv, TypeOK
<1>2. CASE ~ RemoveOld(t) /\ ~ UnpackNew(t)
  <2>1. install' = install
    BY <1>2 DEF Thread, StartTask, Kill, StartNode, NodeHealthy, LeaveIsr, Report, StopNode,
       LoadServices, RestartFails, GiveUpAt, StartFails, Flush, PassCheck, BeginUpgrade,
       MarkStopped, UpgradeFails, RecordVersion
  <2> QED BY <2>1
<1> QED BY <1>1, <1>2

\* The thread of an upgrade moves.
LEMMA UpgradeMoves ==
  ASSUME Inv, VersionInv, NEW t \in Upgrade, Thread(t) \/ StartTask(t) \/ Kill(t)
  PROVE  Upgrading(job'[t], install') /\ Raised'
<1>0. /\ t \in Task /\ t \notin Restart /\ job[t] \in Job /\ job[t].node \in Node /\ job[t].seen \subseteq Node
      /\ job \in [Task -> Job] /\ Upgrading(job[t], install) /\ OutShape(job[t]) /\ PlanKept(job[t])
      /\ install \in [Node -> {"old", "none", "new"}] /\ Broker \subseteq Node /\ Raised
  BY DEF Inv, TypeOK, Task, VersionInv, Shaped, Job, Node
<1>1. \A n \in Node : install[n] # "old" => install'[n] # "old"
  BY <1>0, NoneComesBack
<1>2. cluster'.version = cluster.version => Raised'
  BY <1>0, <1>1 DEF Raised
<1>3. ASSUME NEW from, NEW to, Go(t, from, to), cluster'.version = cluster.version,
             to \in AtWork => from \in AtWork,
             to \in {"extracted", "checking"} => install'[job[t].node] # "old"
      PROVE  Upgrading(job'[t], install') /\ Raised'
  <2>1. /\ job'[t].at = to /\ job'[t].plan = job[t].plan /\ job'[t].seen = job[t].seen
        /\ job'[t].node = job[t].node /\ job[t].at = from
    BY <1>0, <1>3 DEF Go, Job
  <2> QED BY <1>0, <1>1, <1>2, <1>3, <2>1 DEF Upgrading
<1>4. CASE StartTask(t)
  BY <1>3, <1>4 DEF StartTask, AtWork
<1>5. CASE PassCheck(t)
  BY <1>3, <1>5 DEF PassCheck, AtWork
<1>6. CASE LeaveIsr(t)
  BY <1>3, <1>6 DEF LeaveIsr, AtWork
<1>7. CASE StartNode(t)
  <2>1. Go(t, "extracted", "checking") /\ UNCHANGED <<install, cluster>>
    BY <1>0, <1>7 DEF StartNode
  <2>2. install'[job[t].node] # "old"
    BY <1>0, <2>1 DEF Go, Upgrading
  <2> QED BY <1>3, <2>1, <2>2 DEF AtWork
<1>8. CASE MarkStopped(t)
  BY <1>3, <1>8 DEF MarkStopped, AtWork
<1>9. CASE Report(t)
  BY <1>3, <1>9 DEF Report, AtWork
<1>10. CASE Kill(t) \/ UpgradeFails(t)
  <2>1. PICK at \in Final : Gone(t, at) /\ UNCHANGED <<install, cluster>>
    BY <1>10 DEF Kill, UpgradeFails, Final
  <2>2. job'[t].at = at /\ job'[t].seen = {}
    BY <1>0, <2>1 DEF Gone, Job
  <2> QED BY <1>2, <2>1, <2>2 DEF Upgrading, AtWork, Final
<1>11. CASE BeginUpgrade(t)
  <2>1. /\ job'[t].at = "next" /\ job'[t].plan = Broker /\ job'[t].seen = job[t].seen
        /\ UNCHANGED install /\ cluster'.version = cluster.version
    BY <1>0, <1>11 DEF BeginUpgrade, Job, Inv, TypeOK
  <2> QED BY <1>0, <1>2, <2>1 DEF Upgrading
<1>12. ASSUME NEW n \in Node, StopNode(t, n) PROVE Upgrading(job'[t], install') /\ Raised'
  <2>1. /\ job'[t].at = "stopped" /\ job'[t].plan = job[t].plan /\ job'[t].seen = job[t].seen
        /\ job[t].at = "next" /\ UNCHANGED <<install, cluster>>
    BY <1>0, <1>12 DEF StopNode, Job
  <2> QED BY <1>0, <1>2, <2>1 DEF Upgrading, AtWork
<1>13. CASE RemoveOld(t)
  BY <1>3, <1>13 DEF RemoveOld, AtWork
<1>14. CASE UnpackNew(t)
  <2>1. install'[job[t].node] # "old" /\ Go(t, "removed", "extracted") /\ UNCHANGED cluster
    BY <1>0, <1>14 DEF UnpackNew
  <2> QED BY <1>3, <2>1 DEF AtWork
<1>15. CASE NodeHealthy(t)
  <2>1. /\ job[t].at = "checking" /\ job'[t].at \in {"isr", "next"} /\ job'[t].plan = job[t].plan
        /\ job'[t].seen = job[t].seen \cup {job[t].node} /\ UNCHANGED <<install, cluster>>
    BY <1>0, <1>15 DEF NodeHealthy, Job
  <2> QED BY <1>0, <1>2, <2>1 DEF Upgrading, AtWork
<1>16. CASE RecordVersion(t)
  <2>1. /\ job[t].at = "next" /\ job[t].todo = {} /\ UNCHANGED install
        /\ job'[t].at = "flushed" /\ job'[t].plan = job[t].plan /\ job'[t].seen = job[t].seen
    BY <1>0, <1>16 DEF RecordVersion, Go, Job
  <2>2. Broker \subseteq job[t].seen
    BY <1>0, <2>1 DEF Upgrading, PlanKept, OutShape, AtWork, Between, Final
  <2> QED BY <1>0, <2>1, <2>2 DEF Upgrading, Raised, AtWork
<1>17. ~ LoadServices(t) /\ ~ RestartFails(t) /\ ~ StartFails(t) /\ ~ Flush(t)
  BY <1>0 DEF LoadServices, RestartFails, StartFails, Flush
<1> QED BY <1>4, <1>5, <1>6, <1>7, <1>8, <1>9, <1>10, <1>11, <1>12, <1>13, <1>14, <1>15,
           <1>16, <1>17 DEF Thread

LEMMA VersionStep == Inv /\ RemovalInv /\ VersionInv /\ [Next]_vars => VersionInv'
<1> SUFFICES ASSUME Inv, RemovalInv, VersionInv, [Next]_vars PROVE VersionInv'
  OBVIOUS
<1>1. ASSUME UNCHANGED <<job, install>>, cluster'.version = cluster.version PROVE VersionInv'
  BY <1>1 DEF VersionInv, Upgrading, Raised
<1>2. ASSUME NEW t \in Task, StartTask(t) \/ Thread(t) \/ Kill(t) PROVE VersionInv'
  <2>1. \A u \in Task \ {t} : job'[u] = job[u]
    BY <1>2, ThreadAlone DEF RemovalInv
  <2>2. \A n \in Node : install[n] # "old" => install'[n] # "old"
    BY <1>2, NoneComesBack
  <2>3. ASSUME NEW u \in Upgrade, u # t PROVE Upgrading(job[u], install)'
    <3>1. job'[u] = job[u] /\ job[u] \in Job /\ Upgrading(job[u], install)
      BY <2>1, <2>3 DEF Task, VersionInv, Inv, TypeOK
    <3>2. job[u].node \in Node /\ job[u].seen \subseteq Node
      BY <3>1 DEF Job
    <3> QED BY <2>2, <3>1, <3>2 DEF Upgrading
  <2>4. CASE t \in Restart
    <3>1. UNCHANGED <<install, cluster>>
      BY <1>2, <2>4, RestartMoves DEF RemovalInv
    <3>2. t \notin Upgrade
      BY <2>4
    <3> QED BY <2>3, <3>1, <3>2 DEF VersionInv, Raised
  <2>5. CASE t \in Upgrade
    <3>1. Upgrading(job'[t], install') /\ Raised'
      BY <1>2, <2>5, UpgradeMoves
    <3>2. \A u \in Upgrade : Upgrading(job'[u], install')
      BY <2>3, <3>1
    <3> QED BY <3>1, <3>2 DEF VersionInv
  <2> QED BY <2>4, <2>5 DEF Task
<1>3. ASSUME NEW u, NEW n \in Node, DeleteHost(n) \/ Boot(u, n) \/ Die(u, n) PROVE VersionInv'
  BY <1>1, <1>3 DEF DeleteHost, Boot, Die
<1>4. CASE UNCHANGED vars
  BY <1>1, <1>4 DEF vars
<1>5. CASE GetCluster
  <2>1. UNCHANGED <<job, install>> /\ cluster'.version = cluster.version
    BY <1>5 DEF GetCluster, Inv, TypeOK
  <2> QED BY <1>1, <2>1
<1> QED BY <1>2, <1>3, <1>4, <1>5 DEF Next

\* With any number of upgrades, restarts, deaths and crashes beside each other,
\* kafka_version is only raised when the old version is gone from /opt/kafka on the
\* host of every broker, for good; where the new one is not in its place, an
\* upgrade is about to put it there, has failed or was lost.
THEOREM VersionTold == Spec => []VersionIsInstalled
<1>1. Inv /\ RemovalInv /\ VersionInv /\ [Next]_vars => (Inv /\ RemovalInv /\ VersionInv)'
  BY InvStep, RemovalStep, VersionStep
<1>2. Init => Inv /\ RemovalInv /\ VersionInv
  BY InitInv, InitRemoval, InitVersion
<1>3. Inv /\ RemovalInv /\ VersionInv => VersionIsInstalled
  <2> SUFFICES ASSUME Inv, RemovalInv, VersionInv, cluster.version = "new", NEW b \in Broker
               PROVE  install[b] = "new" \/ \E t \in Upgrade : TakenBy(t, b)
    BY DEF VersionIsInstalled
  <2>1. install[b] \in {"none", "new"}
    BY DEF VersionInv, Raised, Inv, TypeOK, Node
  <2> QED BY <2>1 DEF RemovalInv, RemovalIsReported
<1> QED BY <1>1, <1>2, <1>3, PTL DEF Spec

-----------------------------------------------------------------------------
(* What each operation promises.                                           *)

\* What is told of an operation follows its stage; it sets out once, comes to each
\* node of its plan once, and an upgrade sets out for all brokers.
Steers(t, j, s) ==
    /\ j.at = "idle" => s = "none"
    /\ j.at \notin Final \cup {"idle"} => s = "running"
    /\ j.at \in {"idle", "queued", "checked"} => j.plan = {} /\ j.seen = {}
    /\ j.at \notin Final => j.todo \subseteq j.plan \ j.seen
    /\ j.at \in Working => j.node \notin j.todo
    /\ t \in Upgrade /\ j.at \in AtWork => j.plan = Broker
Steered == \A t \in Task : Steers(t, job[t], status[t])
RollInv == Inv /\ Steered

\* What the invariant says of one thread.
LEMMA OfThread ==
  ASSUME RollInv, NEW t \in Task
  PROVE  /\ job[t] \in Job /\ OutShape(job[t]) /\ PlanKept(job[t]) /\ Steers(t, job[t], status[t])
         /\ Planned[t] = job[t].plan /\ Out[t] = job[t].out /\ Back[t] = job[t].seen
BY DEF RollInv, Inv, TypeOK, Shaped, Steered, Planned, Out, Back

\* One thread moves, and what RollPromise sees of the others stays.
LEMMA OneSteers ==
  ASSUME RollInv, NEW t \in Task, NEW j \in Job, NEW s,
         job' = [job EXCEPT ![t] = j], status' = [status EXCEPT ![t] = s], Steers(t, j, s)
  PROVE  /\ Steered'
         /\ Planned' = [Planned EXCEPT ![t] = j.plan]
         /\ Out' = [Out EXCEPT ![t] = j.out]
         /\ Back' = [Back EXCEPT ![t] = j.seen]
<1>1. /\ job'[t] = j /\ status'[t] = s
      /\ \A u \in Task \ {t} : job'[u] = job[u] /\ status'[u] = status[u]
  BY DEF RollInv, Inv, TypeOK
<1>2. Steered'
  <2> SUFFICES ASSUME NEW u \in Task PROVE Steers(u, job'[u], status'[u])
    BY DEF Steered, Steers
  <2>1. CASE u = t
    BY <1>1, <2>1
  <2>2. CASE u # t
    BY <1>1, <2>2 DEF RollInv, Steered
  <2> QED BY <2>1, <2>2
<1>3. Planned' = [Planned EXCEPT ![t] = j.plan]
  <2>1. Planned'[t] = j.plan /\ \A u \in Task \ {t} : Planned'[u] = Planned[u]
    BY <1>1 DEF Planned
  <2>2. Planned = [u \in Task |-> Planned[u]] /\ Planned' = [u \in Task |-> Planned'[u]]
    BY DEF Planned
  <2> QED BY <2>1, <2>2
<1>4. Out' = [Out EXCEPT ![t] = j.out]
  <2>1. Out'[t] = j.out /\ \A u \in Task \ {t} : Out'[u] = Out[u]
    BY <1>1 DEF Out
  <2>2. Out = [u \in Task |-> Out[u]] /\ Out' = [u \in Task |-> Out'[u]]
    BY DEF Out
  <2> QED BY <2>1, <2>2
<1>5. Back' = [Back EXCEPT ![t] = j.seen]
  <2>1. Back'[t] = j.seen /\ \A u \in Task \ {t} : Back'[u] = Back[u]
    BY <1>1 DEF Back
  <2>2. Back = [u \in Task |-> Back[u]] /\ Back' = [u \in Task |-> Back'[u]]
    BY DEF Back
  <2> QED BY <2>1, <2>2
<1> QED BY <1>2, <1>3, <1>4, <1>5

\* A step that changes neither plan nor what is out, and says nothing.
LEMMA Unseen ==
  ASSUME RollInv, NEW t \in Task, NEW j \in Job, job' = [job EXCEPT ![t] = j], UNCHANGED status,
         j.plan = job[t].plan, j.out = job[t].out, j.seen = job[t].seen, j.todo = job[t].todo, j.node = job[t].node,
         job[t].at \notin Final \cup {"idle"}, j.at \notin Final \cup {"idle"},
         j.at \in Working => job[t].at \in Working,
         j.at \in {"queued", "checked"} => job[t].at = "queued",
         j.at \in AtWork => job[t].at \in AtWork
  PROVE  Steered' /\ UNCHANGED <<status, Planned, Out, Back>>
<1>1. Steers(t, job[t], status[t]) /\ Planned[t] = job[t].plan /\ Out[t] = job[t].out /\ Back[t] = job[t].seen
  BY OfThread
<1>2. Steers(t, j, status[t])
  BY <1>1 DEF Steers
<1>3. status' = [status EXCEPT ![t] = status[t]]
  BY DEF RollInv, Inv, TypeOK
<1>4. /\ Steered' /\ Planned' = [Planned EXCEPT ![t] = j.plan]
      /\ Out' = [Out EXCEPT ![t] = j.out] /\ Back' = [Back EXCEPT ![t] = j.seen]
  BY <1>2, <1>3, OneSteers
<1>5. /\ Planned = [u \in Task |-> Planned[u]] /\ Out = [u \in Task |-> Out[u]]
      /\ Back = [u \in Task |-> Back[u]]
  BY DEF Planned, Out, Back
<1>6. /\ j.plan = Planned[t] /\ j.out = Out[t] /\ j.seen = Back[t]
  BY <1>1
<1>7. Planned' = Planned /\ Out' = Out /\ Back' = Back
  BY <1>4, <1>5, <1>6
<1> QED BY <1>4, <1>7

LEMMA UnseenGoing ==
  ASSUME RollInv, NEW t \in Task, NEW from \in Stage, NEW to \in Stage, Go(t, from, to), UNCHANGED status,
         from \notin Final \cup {"idle"}, to \notin Final \cup {"idle"},
         to \in Working => from \in Working,
         to \in {"queued", "checked"} => from = "queued",
         to \in AtWork => from \in AtWork
  PROVE  Steered' /\ UNCHANGED <<status, Planned, Out, Back>>
<1>1. job[t] \in Job
  BY OfThread
<1>2. PICK j : j = [job[t] EXCEPT !.at = to]
  OBVIOUS
<1>3. /\ j \in Job /\ j.at = to /\ j.plan = job[t].plan /\ j.out = job[t].out /\ j.seen = job[t].seen
      /\ j.todo = job[t].todo /\ j.node = job[t].node
  BY <1>1, <1>2 DEF Job
<1>4. job' = [job EXCEPT ![t] = j] /\ job[t].at = from
  BY <1>2 DEF Go
<1> QED BY <1>3, <1>4, Unseen

\* A thread that fails or dies.
LEMMA FailSeen ==
  ASSUME RollInv, NEW t \in Task, NEW at \in Final, Gone(t, at), NEW s \in {"error", "failed", "lost"},
         Close(t, s), job[t].at \notin Final \cup {"idle"}, cluster' = cluster
  PROVE  Steered' /\ Roll!Fail(t)
<1>1. job[t] \in Job /\ status[t] = "running" /\ Out[t] = job[t].out
  BY OfThread DEF Steers
<1>2. PICK j : j = [job[t] EXCEPT !.at = at, !.node = SomeNode, !.plan = {},
                                  !.todo = {}, !.seen = {}, !.read = AllRunning]
  OBVIOUS
<1>3. j \in Job /\ j.at = at /\ j.plan = {} /\ j.out = job[t].out /\ j.seen = {}
  BY <1>1, <1>2, SomeNodeType DEF Job, Stage, Final
<1>4. job' = [job EXCEPT ![t] = j] /\ status' = [status EXCEPT ![t] = s]
  BY <1>2 DEF Gone, Close
<1>5. Steers(t, j, s)
  <2>1. j.at \in Final /\ j.at \notin Working /\ j.at \notin AtWork /\ j.at \notin {"idle", "queued", "checked"}
    BY <1>3 DEF Final, Working, AtWork
  <2> QED BY <2>1 DEF Steers
<1>6. /\ Steered' /\ Planned' = [Planned EXCEPT ![t] = j.plan]
      /\ Out' = [Out EXCEPT ![t] = j.out] /\ Back' = [Back EXCEPT ![t] = j.seen]
  BY <1>3, <1>4, <1>5, OneSteers
<1>7. Planned' = [Planned EXCEPT ![t] = {}] /\ Back' = [Back EXCEPT ![t] = {}] /\ Out' = Out
  <2>1. Out = [u \in Task |-> Out[u]]
    BY DEF Out
  <2> QED BY <1>1, <1>3, <1>6, <2>1
<1> QED BY <1>1, <1>4, <1>6, <1>7 DEF Roll!Fail

LEMMA SetOutSeen ==
  ASSUME RollInv, NEW t \in Task, NEW j \in Job, job' = [job EXCEPT ![t] = j], UNCHANGED status,
         job[t].at \in {"queued", "checked"}, j.at = "next", j.out = job[t].out, j.seen = job[t].seen,
         j.todo = j.plan, t \in Upgrade => j.plan = Broker, cluster'.version = cluster.version
  PROVE  Steered' /\ Roll!SetOut(t)
<1>1. /\ status[t] = "running" /\ job[t].plan = {} /\ job[t].seen = {} /\ j.plan \in SUBSET Node
      /\ Planned[t] = {} /\ Back[t] = {} /\ Out[t] = job[t].out
  BY OfThread DEF Steers, Final, Job
<1>2. Steers(t, j, status[t])
  BY <1>1 DEF Steers, Working, Final
<1>3. status' = [status EXCEPT ![t] = status[t]]
  BY DEF RollInv, Inv, TypeOK
<1>4. /\ Steered' /\ Planned' = [Planned EXCEPT ![t] = j.plan]
      /\ Out' = [Out EXCEPT ![t] = j.out] /\ Back' = [Back EXCEPT ![t] = j.seen]
  BY <1>2, <1>3, OneSteers
<1>5. Out' = Out /\ Back' = Back
  <2>1. Out = [u \in Task |-> Out[u]] /\ Back = [u \in Task |-> Back[u]]
    BY DEF Out, Back
  <2> QED BY <1>1, <1>4, <2>1
<1> QED BY <1>1, <1>4, <1>5 DEF Roll!SetOut

LEMMA TakeOutSeen ==
  ASSUME RollInv, NEW t \in Task, NEW n \in Node, StopNode(t, n)
  PROVE  Steered' /\ Roll!TakeOut(t, n)
<1>1. /\ job[t].at = "next" /\ n \in job[t].todo /\ (n \in Broker => job[t].todo \subseteq Broker)
      /\ UNCHANGED <<status, cluster>>
  BY DEF StopNode, MayBeNext
<1>2. job[t] \in Job /\ job[t].out = {} /\ status[t] = "running"
  BY <1>1, OfThread DEF OutShape, Between, Steers, Final
<1>3. /\ job[t].todo \subseteq job[t].plan \ job[t].seen /\ job[t].plan \subseteq job[t].todo \cup job[t].seen
      /\ t \in Upgrade => job[t].plan = Broker
  BY <1>1, <1>2, OfThread DEF PlanKept, Steers, Final, AtWork
<1>4. Planned[t] = job[t].plan /\ Out[t] = job[t].out /\ Back[t] = job[t].seen
  BY OfThread
<1>5. PICK j : j = [job[t] EXCEPT !.at = "stopped", !.node = n,
                                  !.todo = job[t].todo \ {n}, !.out = job[t].out \cup {n}]
  OBVIOUS
<1>6. /\ j \in Job /\ j.at = "stopped" /\ j.node = n /\ j.todo = job[t].todo \ {n} /\ j.out = {n}
      /\ j.plan = job[t].plan /\ j.seen = job[t].seen
  BY <1>2, <1>5 DEF Job, Stage
<1>7. job' = [job EXCEPT ![t] = j] /\ status' = [status EXCEPT ![t] = status[t]]
  BY <1>1, <1>5 DEF StopNode, RollInv, Inv, TypeOK
<1>8. Steers(t, j, status[t])
  BY <1>2, <1>3, <1>6 DEF Steers, Final
<1>9. /\ Steered' /\ Planned' = [Planned EXCEPT ![t] = j.plan]
      /\ Out' = [Out EXCEPT ![t] = j.out] /\ Back' = [Back EXCEPT ![t] = j.seen]
  BY <1>6, <1>7, <1>8, OneSteers
<1>10. Planned' = Planned /\ Back' = Back
  <2>1. Planned = [u \in Task |-> Planned[u]] /\ Back = [u \in Task |-> Back[u]]
    BY DEF Planned, Back
  <2> QED BY <1>4, <1>6, <1>9, <2>1
<1>11. n \in Planned[t] \ Back[t]
  BY <1>1, <1>3, <1>4
<1>12. n \notin Controller => Planned[t] \cap Controller \subseteq Back[t]
  BY <1>1, <1>3, <1>4 DEF Node
<1>13. Out' = [Out EXCEPT ![t] = {n}] /\ Out[t] = {}
  BY <1>2, <1>4, <1>6, <1>9
<1> QED BY <1>1, <1>2, <1>9, <1>10, <1>11, <1>12, <1>13 DEF Roll!TakeOut

LEMMA BringBackSeen ==
  ASSUME RollInv, NEW t \in Task, NodeHealthy(t)
  PROVE  Steered' /\ \E n \in Node : Roll!BringBack(t, n)
<1>1. job[t].at = "checking" /\ UNCHANGED <<status, cluster>>
  BY DEF NodeHealthy
<1>2. PICK n \in Node : n = job[t].node
  BY OfThread DEF Job
<1>3. job[t] \in Job /\ job[t].out = {n} /\ status[t] = "running" /\ n \notin job[t].todo
  BY <1>1, <1>2, OfThread DEF OutShape, Working, Steers, Final
<1>4. /\ job[t].todo \subseteq job[t].plan \ job[t].seen /\ (t \in Upgrade => job[t].plan = Broker)
      /\ Planned[t] = job[t].plan /\ Out[t] = job[t].out /\ Back[t] = job[t].seen
  BY <1>1, OfThread DEF Steers, Final, AtWork
<1>5. PICK j : j = [job[t] EXCEPT !.at = IF job[t].node \in Broker THEN "isr" ELSE "next",
                                  !.out = job[t].out \ {job[t].node},
                                  !.seen = job[t].seen \cup {job[t].node}]
  OBVIOUS
<1>6. /\ j \in Job /\ j.at \in {"isr", "next"} /\ j.node = n /\ j.todo = job[t].todo /\ j.out = {}
      /\ j.plan = job[t].plan /\ j.seen = job[t].seen \cup {n}
  BY <1>2, <1>3, <1>5 DEF Job, Stage
<1>7. job' = [job EXCEPT ![t] = j] /\ status' = [status EXCEPT ![t] = status[t]]
  BY <1>1, <1>5 DEF NodeHealthy, RollInv, Inv, TypeOK
<1>8. Steers(t, j, status[t])
  BY <1>3, <1>4, <1>6 DEF Steers, Final, Working
<1>9. /\ Steered' /\ Planned' = [Planned EXCEPT ![t] = j.plan]
      /\ Out' = [Out EXCEPT ![t] = j.out] /\ Back' = [Back EXCEPT ![t] = j.seen]
  BY <1>6, <1>7, <1>8, OneSteers
<1>10. Planned' = Planned
  <2>1. Planned = [u \in Task |-> Planned[u]]
    BY DEF Planned
  <2> QED BY <1>4, <1>6, <1>9, <2>1
<1>11. Out' = [Out EXCEPT ![t] = {}] /\ Back' = [Back EXCEPT ![t] = Back[t] \cup {n}] /\ Out[t] = {n}
  BY <1>3, <1>4, <1>6, <1>9
<1>12. Roll!BringBack(t, n)
  BY <1>1, <1>3, <1>10, <1>11 DEF Roll!BringBack
<1> QED BY <1>9, <1>12

\* Success is reported once the work is done, or at once when there was none.
LEMMA SucceedSeen ==
  ASSUME RollInv, NEW t \in Task,
         \/ Report(t)
         \/ job[t].at = "queued" /\ Gone(t, "over") /\ Close(t, "completed") /\ UNCHANGED cluster
  PROVE  Steered' /\ Roll!Succeed(t)
<1>1. /\ job[t].at \in {"queued", "flushed"} /\ status' = [status EXCEPT ![t] = "completed"]
      /\ UNCHANGED cluster
  BY DEF Report, Go, Close
<1>2. /\ job[t] \in Job /\ job[t].out = {} /\ status[t] = "running"
      /\ Planned[t] = job[t].plan /\ Out[t] = job[t].out /\ Back[t] = job[t].seen
  BY <1>1, OfThread DEF OutShape, Between, Steers, Final
<1>3. job[t].plan \subseteq job[t].seen
  BY <1>1, OfThread DEF PlanKept, Steers
<1>4. PICK j \in Job : /\ job' = [job EXCEPT ![t] = j] /\ j.at = "over"
                       /\ j.plan = job[t].plan /\ j.out = job[t].out /\ j.seen = job[t].seen
  <2>1. CASE Report(t)
    <3>1. PICK j : j = [job[t] EXCEPT !.at = "over"]
      OBVIOUS
    <3>2. j \in Job /\ j.at = "over" /\ j.plan = job[t].plan /\ j.out = job[t].out /\ j.seen = job[t].seen
      BY <1>2, <3>1 DEF Job, Stage
    <3>3. job' = [job EXCEPT ![t] = j]
      BY <2>1, <3>1 DEF Report, Go
    <3> QED BY <3>2, <3>3
  <2>2. CASE job[t].at = "queued" /\ Gone(t, "over")
    <3>1. job[t].plan = {} /\ job[t].seen = {}
      BY <2>2, OfThread DEF Steers
    <3>2. PICK j : j = [job[t] EXCEPT !.at = "over", !.node = SomeNode, !.plan = {},
                                      !.todo = {}, !.seen = {}, !.read = AllRunning]
      OBVIOUS
    <3>3. j \in Job /\ j.at = "over" /\ j.plan = {} /\ j.out = job[t].out /\ j.seen = {}
      BY <1>2, <3>2, SomeNodeType DEF Job, Stage
    <3>4. job' = [job EXCEPT ![t] = j]
      BY <2>2, <3>2 DEF Gone
    <3> QED BY <3>1, <3>3, <3>4
  <2> QED BY <2>1, <2>2
<1>5. Steers(t, j, "completed")
  BY <1>4 DEF Steers, Final, Working, AtWork
<1>6. /\ Steered' /\ Planned' = [Planned EXCEPT ![t] = j.plan]
      /\ Out' = [Out EXCEPT ![t] = j.out] /\ Back' = [Back EXCEPT ![t] = j.seen]
  BY <1>1, <1>4, <1>5, OneSteers
<1>7. Planned' = Planned /\ Out' = Out /\ Back' = Back
  <2>1. /\ Planned = [u \in Task |-> Planned[u]] /\ Out = [u \in Task |-> Out[u]]
        /\ Back = [u \in Task |-> Back[u]]
    BY DEF Planned, Out, Back
  <2> QED BY <1>2, <1>4, <1>6, <2>1
<1> QED BY <1>1, <1>2, <1>3, <1>6, <1>7 DEF Roll!Succeed

LEMMA RaiseSeen ==
  ASSUME RollInv, NEW t \in Task, RecordVersion(t)
  PROVE  Steered' /\ Roll!Raise(t)
<1>1. /\ t \in Upgrade /\ Go(t, "next", "flushed") /\ job[t].at = "next" /\ job[t].todo = {}
      /\ UNCHANGED status /\ cluster'.version = "new"
  BY DEF RecordVersion, Go
<1>2. /\ job[t].out = {} /\ status[t] = "running" /\ job[t].plan = Broker /\ job[t].plan \subseteq job[t].seen
      /\ Out[t] = job[t].out /\ Back[t] = job[t].seen
  BY <1>1, OfThread DEF OutShape, Between, PlanKept, Steers, Final, AtWork
<1>3. Steered' /\ UNCHANGED <<status, Planned, Out, Back>>
  BY <1>1, UnseenGoing DEF Stage, Final, Working, AtWork
<1> QED BY <1>1, <1>2, <1>3 DEF Roll!Raise

LEMMA AskSeen ==
  ASSUME RollInv, NEW t \in Task, StartTask(t)
  PROVE  Steered' /\ Roll!Ask(t)
<1>1. /\ job[t].at = "idle" /\ status' = [status EXCEPT ![t] = "running"] /\ UNCHANGED cluster
      /\ job' = [job EXCEPT ![t].at = "queued"]
  BY DEF StartTask, Go, Close
<1>2. /\ job[t] \in Job /\ status[t] = "none" /\ job[t].plan = {} /\ job[t].seen = {} /\ job[t].todo = {}
      /\ Planned[t] = job[t].plan /\ Out[t] = job[t].out /\ Back[t] = job[t].seen
  BY <1>1, OfThread DEF Steers, Final
<1>3. PICK j : j = [job[t] EXCEPT !.at = "queued"]
  OBVIOUS
<1>4. /\ j \in Job /\ j.at = "queued" /\ j.plan = job[t].plan /\ j.out = job[t].out /\ j.seen = job[t].seen
      /\ j.todo = {}
  BY <1>2, <1>3 DEF Job, Stage
<1>5. job' = [job EXCEPT ![t] = j]
  BY <1>1, <1>3
<1>6. Steers(t, j, "running")
  BY <1>2, <1>4 DEF Steers, Final, Working, AtWork
<1>7. /\ Steered' /\ Planned' = [Planned EXCEPT ![t] = j.plan]
      /\ Out' = [Out EXCEPT ![t] = j.out] /\ Back' = [Back EXCEPT ![t] = j.seen]
  BY <1>1, <1>4, <1>5, <1>6, OneSteers
<1>8. Planned' = Planned /\ Out' = Out /\ Back' = Back
  <2>1. /\ Planned = [u \in Task |-> Planned[u]] /\ Out = [u \in Task |-> Out[u]]
        /\ Back = [u \in Task |-> Back[u]]
    BY DEF Planned, Out, Back
  <2> QED BY <1>2, <1>4, <1>7, <2>1
<1> QED BY <1>1, <1>2, <1>7, <1>8 DEF Roll!Ask

\* The steps of thread t, one by one.
LEMMA ThreadSeen ==
  ASSUME RollInv, NEW t \in Task, Thread(t)
  PROVE  Steered' /\ (Roll!PNext \/ UNCHANGED Roll!pvars)
<1>1. CASE StartNode(t)
  <2>1. Go(t, IF t \in Restart THEN "stopped" ELSE "extracted", "checking") /\ UNCHANGED <<status, cluster>>
    BY <1>1 DEF StartNode
  <2>2. Steered' /\ UNCHANGED <<status, Planned, Out, Back>>
    BY <2>1, UnseenGoing DEF Stage, Final, Working, AtWork
  <2> QED BY <2>1, <2>2 DEF Roll!pvars
<1>2. CASE LeaveIsr(t) \/ PassCheck(t) \/ MarkStopped(t) \/ RemoveOld(t) \/ UnpackNew(t)
  <2>1. /\ \/ Go(t, "isr", "next") \/ Go(t, "queued", "checked") \/ Go(t, "stopped", "unpacking")
           \/ Go(t, "unpacking", "removed") \/ Go(t, "removed", "extracted")
        /\ UNCHANGED <<status, cluster>>
    BY <1>2 DEF LeaveIsr, PassCheck, MarkStopped, RemoveOld, UnpackNew
  <2>2. Steered' /\ UNCHANGED <<status, Planned, Out, Back>>
    BY <2>1, UnseenGoing DEF Stage, Final, Working, AtWork
  <2> QED BY <2>1, <2>2 DEF Roll!pvars
<1>3. CASE Flush(t)
  <2>1. job[t].at = "next" /\ UNCHANGED <<status, cluster>> /\ job[t] \in Job
    BY <1>3, OfThread DEF Flush
  <2>2. PICK j : j = [job[t] EXCEPT !.at = "flushed", !.read = AllRunning]
    OBVIOUS
  <2>3. /\ j \in Job /\ j.at = "flushed" /\ j.plan = job[t].plan /\ j.out = job[t].out /\ j.seen = job[t].seen
        /\ j.todo = job[t].todo /\ j.node = job[t].node
    BY <2>1, <2>2, SomeNodeType DEF Job, Stage
  <2>4. job' = [job EXCEPT ![t] = j]
    BY <1>3, <2>2 DEF Flush
  <2>5. /\ job[t].at \notin Final \cup {"idle"} /\ j.at \notin Final \cup {"idle"}
        /\ j.at \notin Working /\ j.at \notin {"queued", "checked"} /\ job[t].at \in AtWork
    BY <2>1, <2>3 DEF Final, Working, AtWork
  <2>6. Steered' /\ UNCHANGED <<status, Planned, Out, Back>>
    BY <2>1, <2>3, <2>4, <2>5, Unseen
  <2> QED BY <2>1, <2>6 DEF Roll!pvars
<1>4. CASE NodeHealthy(t)
  BY <1>4, BringBackSeen DEF Roll!PNext
<1>5. CASE \E n \in Node : StopNode(t, n)
  BY <1>5, TakeOutSeen DEF Roll!PNext
<1>6. CASE Report(t)
  BY <1>6, SucceedSeen DEF Roll!PNext
<1>7. CASE RecordVersion(t)
  BY <1>7, RaiseSeen DEF Roll!PNext
<1>8. CASE RestartFails(t) \/ StartFails(t) \/ UpgradeFails(t)
  <2>1. Gone(t, "over") /\ (Close(t, "error") \/ Close(t, "failed")) /\ cluster' = cluster
    BY <1>8 DEF RestartFails, GiveUpAt, StartFails, UpgradeFails
  <2>2. job[t].at \notin Final \cup {"idle"} /\ "over" \in Final
    BY <1>8 DEF RestartFails, StartFails, UpgradeFails, Final
  <2> QED BY <2>1, <2>2, FailSeen DEF Roll!PNext
<1>9. CASE BeginUpgrade(t)
  <2>1. job[t].at = "checked" /\ UNCHANGED status /\ job[t] \in Job
    BY <1>9, OfThread DEF BeginUpgrade
  <2>2. cluster'.version = cluster.version
    BY <1>9 DEF BeginUpgrade, RollInv, Inv, TypeOK
  <2>3. PICK j : j = [job[t] EXCEPT !.at = "next", !.plan = Broker, !.todo = Broker]
    OBVIOUS
  <2>4. /\ j \in Job /\ j.at = "next" /\ j.out = job[t].out /\ j.seen = job[t].seen
        /\ j.plan = Broker /\ j.todo = Broker
    BY <2>1, <2>3 DEF Job, Stage, Node
  <2>5. job' = [job EXCEPT ![t] = j]
    BY <1>9, <2>3 DEF BeginUpgrade
  <2> QED BY <2>1, <2>2, <2>4, <2>5, SetOutSeen DEF Roll!PNext
<1>10. CASE LoadServices(t)
  <2>1. t \in Restart /\ job[t].at = "queued" /\ UNCHANGED cluster /\ job[t] \in Job
    BY <1>10, OfThread DEF LoadServices
  <2>2. CASE Gone(t, "over") /\ Close(t, "completed")
    BY <2>1, <2>2, SucceedSeen DEF Roll!PNext
  <2>3. CASE Gone(t, "over") /\ Close(t, "error")
    <3>1. job[t].at \notin Final \cup {"idle"} /\ "over" \in Final /\ cluster' = cluster
      BY <2>1 DEF Final
    <3> QED BY <2>3, <3>1, FailSeen DEF Roll!PNext
  <2>4. ASSUME NEW scope \in {Broker, Controller, Node} \ {{}}, UNCHANGED status,
               job' = [job EXCEPT ![t] = [@ EXCEPT !.at = "next", !.read = svc,
                                      !.plan = scope \cap hosts, !.todo = scope \cap hosts]]
        PROVE  Steered' /\ (Roll!PNext \/ UNCHANGED Roll!pvars)
    <3>1. PICK j : j = [job[t] EXCEPT !.at = "next", !.read = svc,
                                      !.plan = scope \cap hosts, !.todo = scope \cap hosts]
      OBVIOUS
    <3>2. svc \in [Node -> {"running", "stopped", "error"}] /\ scope \cap hosts \subseteq Node
      BY DEF RollInv, Inv, TypeOK
    <3>3. /\ j \in Job /\ j.at = "next" /\ j.out = job[t].out /\ j.seen = job[t].seen
          /\ j.todo = j.plan
      BY <2>1, <3>1, <3>2 DEF Job, Stage
    <3>4. job' = [job EXCEPT ![t] = j] /\ UNCHANGED status
      BY <2>4, <3>1
    <3>5. t \notin Upgrade
      BY <2>1
    <3> QED BY <2>1, <3>3, <3>4, <3>5, SetOutSeen DEF Roll!PNext
  <2> QED BY <1>10, <2>2, <2>3, <2>4 DEF LoadServices
<1> QED BY <1>1, <1>2, <1>3, <1>4, <1>5, <1>6, <1>7, <1>8, <1>9, <1>10 DEF Thread

LEMMA RollStep ==
  ASSUME RollInv, [Next]_vars
  PROVE  RollInv' /\ (Roll!PNext \/ UNCHANGED Roll!pvars)
<1>1. Inv'
  BY InvStep DEF RollInv
<1>2. ASSUME NEW t \in Task, StartTask(t) \/ Thread(t) \/ Kill(t)
      PROVE  Steered' /\ (Roll!PNext \/ UNCHANGED Roll!pvars)
  <2>1. CASE StartTask(t)
    BY <2>1, AskSeen DEF Roll!PNext
  <2>2. CASE Thread(t)
    BY <2>2, ThreadSeen
  <2>3. CASE Kill(t)
    <3>1. Gone(t, "killed") /\ Close(t, "lost") /\ cluster' = cluster
          /\ job[t].at \notin Final \cup {"idle"} /\ "killed" \in Final
      BY <2>3 DEF Kill, Final
    <3> QED BY <3>1, FailSeen DEF Roll!PNext
  <2> QED BY <1>2, <2>1, <2>2, <2>3
<1>3. ASSUME UNCHANGED <<job, status>>, cluster'.version = cluster.version
      PROVE  Steered' /\ UNCHANGED Roll!pvars
  <2>1. Steered'
    BY <1>3 DEF RollInv, Steered, Steers
  <2>2. Planned' = Planned /\ Out' = Out /\ Back' = Back
    BY <1>3 DEF Planned, Out, Back
  <2> QED BY <1>3, <2>1, <2>2 DEF Roll!pvars
<1>4. CASE GetCluster
  <2>1. UNCHANGED <<job, status>> /\ cluster'.version = cluster.version
    BY <1>4 DEF GetCluster, RollInv, Inv, TypeOK
  <2> QED BY <1>1, <1>3, <2>1 DEF RollInv
<1>5. CASE \/ \E n \in Node : DeleteHost(n)
           \/ \E u \in Unit, n \in Node : Boot(u, n) \/ Die(u, n)
           \/ UNCHANGED vars
  <2>1. UNCHANGED <<job, status, cluster>>
    BY <1>5 DEF DeleteHost, Boot, Die, vars
  <2> QED BY <1>1, <1>3, <2>1 DEF RollInv
<1> QED BY <1>1, <1>2, <1>4, <1>5 DEF Next, RollInv

\* Whatever other restarts and upgrades, deaths, deleted hosts and stale rows come in
\* between, each operation by itself implements RollPromise: rolling_restart and
\* _do_rolling_upgrade take one node out at a time, each once and controllers
\* first, and tell success, or raise the version, only when all are back.
THEOREM RollingKeepsPromise == Spec => KeepsRollPromise
<1>1. Init => Roll!PInit /\ RollInv
  <2> SUFFICES ASSUME Init PROVE Roll!PInit /\ RollInv
    OBVIOUS
  <2>1. \A t \in Task : /\ job[t].at = "idle" /\ job[t].plan = {} /\ job[t].out = {} /\ job[t].todo = {}
                        /\ job[t].seen = {} /\ status[t] = "none"
    BY DEF Init
  <2>2. Steered
    BY <2>1 DEF Steered, Steers, Final, Working, AtWork
  <2>3. /\ Planned = [t \in Task |-> {}] /\ Out = [t \in Task |-> {}] /\ Back = [t \in Task |-> {}]
    BY <2>1 DEF Planned, Out, Back
  <2>4. status = [t \in Task |-> "none"] /\ cluster.version = "old"
    BY DEF Init
  <2> QED BY <2>2, <2>3, <2>4, InitInv DEF Roll!PInit, RollInv
<1>2. RollInv /\ [Next]_vars => RollInv' /\ [Roll!PNext]_(Roll!pvars)
  BY RollStep
<1> QED BY <1>1, <1>2, PTL DEF Spec, KeepsRollPromise, Roll!PSafety

=============================================================================
