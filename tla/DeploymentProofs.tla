-------------------------- MODULE DeploymentProofs --------------------------
(***************************************************************************)
(* Theorems about Deployment for every set of hosts and of deploys: the    *)
(* types, whose "deploying" a header shows, the verdicts, and that         *)
(* Deployment implements DeployPromise.                                    *)
(***************************************************************************)
EXTENDS Deployment, TLAPS

Requests == [kind : {"none", "status", "start", "stop", "delete", "remove"}, todo : SUBSET Host,
             state : State, read : [Host -> Status], svc : [Host -> Status], ok : BOOLEAN]
Jobs == [at : Stage, list : SUBSET Host, done : SUBSET Host]

\* The stages in which the task of a deploy has no row, is running, or has been
\* closed while the deploy goes on.
Unposted == {"idle", "checked"}
Running == {"queued", "ports", "playing", "failing", "applying", "installing", "succeeding"}
Owners == {"playing", "rejecting", "installing", "agent failed", "killed", "stranded"}

\* The status of a task row follows the stage of its deploy, so that whatever
\* closes a task finds it running, or finds the verdict it would write.
TaskFollows(d) ==
    /\ job[d].at \in Unposted => task[d] = "none"
    /\ job[d].at \in Running => task[d] = "running"
    /\ job[d].at = "rejecting" => task[d] = "error"
TasksFollow == \A d \in Deploy : TaskFollows(d)

Owned == state = "deploying" => \E d \in Deploy : job[d].at \in Owners

DeployInv == TypeOK /\ TasksFollow /\ Owned

-----------------------------------------------------------------------------
(* The operators the actions are made of.                                  *)

\* Bringing the header in line with the services yields a state, and never
\* "deploying" where it was not.
LEMMA SyncedState ==
  ASSUME NEW st \in State, NEW ss \in [Host -> Status]
  PROVE  Synced(st, ss) \in State /\ (Synced(st, ss) = "deploying" => st = "deploying")
BY DEF Synced, State

\* What a request leaves behind is a state, and "deploying" only if that is what
\* it read.
LEMMA WantedState ==
  ASSUME op \in Requests
  PROVE  Wanted \in State /\ (Wanted = "deploying" => op.state = "deploying")
<1>1. op.state \in State /\ op.svc \in [Host -> Status]
  BY DEF Requests
<1>2. Synced(op.state, op.svc) \in State
      /\ (Synced(op.state, op.svc) = "deploying" => op.state = "deploying")
  BY <1>1, SyncedState
<1> QED BY <1>1, <1>2 DEF Wanted, State

LEMMA InitTyped == Init => TypeOK
BY DEF Init, TypeOK, State, Status, Stage, Ended, Idle

\* Deploy d has moved from one stage to another.
Moves(d, from, to) ==
    /\ job[d].at = from
    /\ job' \in [Deploy -> Jobs]
    /\ job'[d].at = to
    /\ \A e \in Deploy \ {d} : job'[e] = job[e]

LEMMA AdvanceMoves ==
  ASSUME TypeOK, NEW d \in Deploy, NEW from, NEW to \in Stage, Advance(d, from, to)
  PROVE  Moves(d, from, to) /\ job'[d].done = {}
<1>1. PICK w \in Jobs : w = [at |-> to, list |-> {}, done |-> {}]
  BY DEF Jobs
<1>2. w.at = to /\ w.done = {} /\ job[d].at = from /\ job' = [job EXCEPT ![d] = w]
  BY <1>1 DEF Advance
<1> QED BY <1>2 DEF Moves, TypeOK, Jobs

LEMMA LoadMoves ==
  ASSUME TypeOK, NEW d \in Deploy, NEW to \in Stage, Load(d, to)
  PROVE  Moves(d, "queued", to) /\ job'[d].done = {} /\ job'[d].list = Served
<1>1. PICK w \in Jobs : w = [at |-> to, list |-> Served, done |-> {}]
  BY DEF Jobs, Served
<1>2. /\ w.at = to /\ w.done = {} /\ w.list = Served
      /\ job[d].at = "queued" /\ job' = [job EXCEPT ![d] = w]
  BY <1>1 DEF Load
<1> QED BY <1>2 DEF Moves, TypeOK, Jobs

LEMMA KeepMoves ==
  ASSUME TypeOK, NEW d \in Deploy, NEW from, NEW to \in Stage, Keep(d, from, to)
  PROVE  Moves(d, from, to) /\ job'[d].done = job[d].done /\ job'[d].list = job[d].list
<1>1. job \in [Deploy -> Jobs] /\ job[d].at = from /\ job' = [job EXCEPT ![d].at = to]
  BY DEF Keep, TypeOK, Jobs
<1>2. job[d].list \in SUBSET Host /\ job[d].done \in SUBSET Host
  BY <1>1 DEF Jobs
<1>3. PICK w \in Jobs : w = [at |-> to, list |-> job[d].list, done |-> job[d].done]
  BY <1>2 DEF Jobs
<1>4. w.at = to /\ w.done = job[d].done /\ w.list = job[d].list
  BY <1>3
<1>5. job'[d] = w
  BY <1>1, <1>3 DEF Jobs
<1>6. \A e \in Deploy \ {d} : job'[e] = job[e]
  BY <1>1
<1>7. job' \in [Deploy -> Jobs]
  <2>1. job' = [e \in Deploy |-> job'[e]]
    BY <1>1
  <2>2. \A e \in Deploy : job'[e] \in Jobs
    BY <1>1, <1>5, <1>6
  <2> QED BY <2>1, <2>2
<1> QED BY <1>1, <1>4, <1>5, <1>6, <1>7 DEF Moves

\* Deploy d brings up one host more.
LEMMA OneMore ==
  ASSUME TypeOK, NEW d \in Deploy, NEW h \in Host, job' = [job EXCEPT ![d].done = @ \cup {h}]
  PROVE  /\ Moves(d, job[d].at, job[d].at)
         /\ job'[d].done = job[d].done \cup {h} /\ job'[d].list = job[d].list
<1>1. job \in [Deploy -> Jobs]
  BY DEF TypeOK, Jobs
<1>2. job[d].at \in Stage /\ job[d].list \in SUBSET Host /\ job[d].done \in SUBSET Host
  BY <1>1 DEF Jobs
<1>3. PICK w \in Jobs : w = [at |-> job[d].at, list |-> job[d].list, done |-> job[d].done \cup {h}]
  BY <1>2 DEF Jobs
<1>4. w.at = job[d].at /\ w.list = job[d].list /\ w.done = job[d].done \cup {h}
  BY <1>3
<1>5. job'[d] = w
  BY <1>1, <1>3 DEF Jobs
<1>6. \A e \in Deploy \ {d} : job'[e] = job[e]
  BY <1>1
<1>7. job' \in [Deploy -> Jobs]
  <2>1. job' = [e \in Deploy |-> job'[e]]
    BY <1>1
  <2>2. \A e \in Deploy : job'[e] \in Jobs
    BY <1>1, <1>5, <1>6
  <2> QED BY <2>1, <2>2
<1> QED BY <1>4, <1>5, <1>6, <1>7 DEF Moves

-----------------------------------------------------------------------------
(* The invariant is inductive.                                             *)

LEMMA DeployStep ==
  DeployInv /\ [Next]_vars =>
    DeployInv' /\ \A d \in Deploy : task[d] \in Final => task'[d] = task[d]
<1> DEFINE Sealed == \A d \in Deploy : task[d] \in Final => task'[d] = task[d]
<1> SUFFICES ASSUME DeployInv, [Next]_vars PROVE DeployInv' /\ Sealed
  OBVIOUS
<1>t. TypeOK /\ TasksFollow /\ Owned
  BY DEF DeployInv
<1>f. "running" \notin Final /\ "none" \notin Final /\ "error" \in Final
      /\ "completed" \in Final /\ "success" \in Final /\ "completed_with_errors" \in Final
  BY DEF Final
\* A step of deploy d from one stage to another.
<1>a. ASSUME NEW d \in Deploy, NEW from, NEW to \in Stage, Moves(d, from, to),
             task' = [task EXCEPT ![d] = task'[d]],
             task'[d] \in Final \cup {"none", "running"},
             task[d] \in Final => task'[d] = task[d],
             to \in Unposted => task'[d] = "none", to \in Running => task'[d] = "running",
             to = "rejecting" => task'[d] = "error",
             state' \in State \cup {"gone"},
             state' = "deploying" => \/ to \in Owners
                                     \/ state = "deploying" /\ from \notin Owners,
             svc' \in [Host -> Status], unit' \in [Host -> {"absent", "up", "down", "failed"}],
             UNCHANGED op
      PROVE  DeployInv' /\ Sealed
  <2>1. /\ job[d].at = from /\ job' \in [Deploy -> Jobs] /\ job'[d].at = to
        /\ \A e \in Deploy \ {d} : job'[e] = job[e]
    BY <1>a DEF Moves
  <2>2. /\ task' \in [Deploy -> Final \cup {"none", "running"}]
        /\ \A e \in Deploy \ {d} : task'[e] = task[e]
    BY <1>a, <1>t DEF TypeOK
  <2>3. TypeOK'
    BY <1>a, <1>t, <2>1, <2>2 DEF TypeOK, Jobs
  <2>4. TasksFollow'
    BY <1>a, <1>t, <2>1, <2>2 DEF TasksFollow, TaskFollows
  <2>5. Owned'
    <3> SUFFICES ASSUME state' = "deploying" PROVE \E e \in Deploy : job'[e].at \in Owners
      BY DEF Owned
    <3>1. CASE to \in Owners
      BY <2>1, <3>1
    <3>2. CASE state = "deploying" /\ from \notin Owners
      <4>1. PICK e \in Deploy : job[e].at \in Owners
        BY <1>t, <3>2 DEF Owned
      <4> QED BY <2>1, <3>2, <4>1
    <3> QED BY <1>a, <3>1, <3>2
  <2> QED BY <1>a, <2>2, <2>3, <2>4, <2>5 DEF DeployInv
\* The same, the task's row left alone.
<1>b. ASSUME NEW d \in Deploy, NEW from, NEW to \in Stage, Moves(d, from, to), UNCHANGED task,
             to \in Unposted => task[d] = "none", to \in Running => task[d] = "running",
             to = "rejecting" => task[d] = "error",
             state' \in State \cup {"gone"},
             state' = "deploying" => \/ to \in Owners
                                     \/ state = "deploying" /\ from \notin Owners,
             svc' \in [Host -> Status], unit' \in [Host -> {"absent", "up", "down", "failed"}],
             UNCHANGED op
      PROVE  DeployInv' /\ Sealed
  <2>1. task' = [task EXCEPT ![d] = task'[d]] /\ task[d] \in Final \cup {"none", "running"}
    BY <1>b, <1>t DEF TypeOK
  <2> QED BY <1>a, <1>b, <2>1
\* A step of deploy d that stays where it is.
<1>c. ASSUME NEW d \in Deploy, Moves(d, job[d].at, job[d].at),
             svc' \in [Host -> Status], unit' \in [Host -> {"absent", "up", "down", "failed"}],
             UNCHANGED <<state, task, op>>
      PROVE  DeployInv' /\ Sealed
  <2>1. TypeOK'
    BY <1>c, <1>t DEF Moves, TypeOK, Jobs
  <2>2. TasksFollow' /\ Owned'
    BY <1>c, <1>t DEF Moves, TasksFollow, TaskFollows, Owned
  <2> QED BY <1>c, <2>1, <2>2 DEF DeployInv
\* A request's step.
<1>r. ASSUME UNCHANGED <<task, job>>, op' \in Requests, state' \in State \cup {"gone"},
             state' = "deploying" => state = "deploying",
             svc' \in [Host -> Status], unit' \in [Host -> {"absent", "up", "down", "failed"}]
      PROVE  DeployInv' /\ Sealed
  BY <1>r, <1>t DEF DeployInv, TypeOK, TasksFollow, TaskFollows, Owned, Requests
<1>s. ASSUME NEW d \in Deploy PROVE TaskFollows(d)
  BY <1>t DEF TasksFollow
<1>o. op \in Requests
  BY <1>t DEF TypeOK, Requests
<1> HIDE DEF Sealed
<1> USE DEF Stage, Ended, Unposted, Running, Owners, State
<1>1. ASSUME NEW d \in Deploy, CheckDeploy(d) PROVE DeployInv' /\ Sealed
  <2>1. Moves(d, "idle", "checked")
    BY <1>1, <1>t, AdvanceMoves DEF CheckDeploy
  <2>2. job[d].at = "idle" /\ task[d] = "none"
    BY <2>1, <1>s DEF Moves, TaskFollows
  <2>3. /\ UNCHANGED task
        /\ UNCHANGED <<state, op>>
    BY <1>1 DEF CheckDeploy
  <2>4. svc' \in [Host -> Status] /\ unit' \in [Host -> {"absent", "up", "down", "failed"}]
        /\ state' \in State \cup {"gone"}
    BY <1>1, <1>t, <2>3 DEF TypeOK, CheckDeploy
  <2> QED BY <1>b, <2>1, <2>2, <2>3, <2>4
<1>2. ASSUME NEW d \in Deploy, PostTask(d) PROVE DeployInv' /\ Sealed
  <2>1. Moves(d, "checked", "queued")
    BY <1>2, <1>t, AdvanceMoves DEF PostTask
  <2>2. job[d].at = "checked" /\ task[d] = "none"
    BY <2>1, <1>s DEF Moves, TaskFollows
  <2>3. /\ task' = [task EXCEPT ![d] = task'[d]] /\ task'[d] = "running"
        /\ UNCHANGED <<state, op>>
    BY <1>2, <1>t DEF PostTask, SetStatus, TypeOK
  <2>4. svc' \in [Host -> Status] /\ unit' \in [Host -> {"absent", "up", "down", "failed"}]
        /\ state' \in State \cup {"gone"}
    BY <1>2, <1>t, <2>3 DEF TypeOK, PostTask
  <2> QED BY <1>a, <1>f, <2>1, <2>2, <2>3, <2>4
<1>3. ASSUME NEW d \in Deploy, StopOwnUnits(d) PROVE DeployInv' /\ Sealed
  <2>1. Moves(d, "queued", "ports")
    BY <1>3, <1>t, LoadMoves DEF StopOwnUnits
  <2>2. job[d].at = "queued" /\ task[d] = "running"
    BY <2>1, <1>s DEF Moves, TaskFollows
  <2>3. /\ UNCHANGED task
        /\ UNCHANGED <<state, op>>
    BY <1>3 DEF StopOwnUnits
  <2>4. svc' \in [Host -> Status] /\ unit' \in [Host -> {"absent", "up", "down", "failed"}]
        /\ state' \in State \cup {"gone"}
    BY <1>3, <1>t, <2>3 DEF TypeOK, StopOwnUnits
  <2> QED BY <1>b, <2>1, <2>2, <2>3, <2>4
<1>4. ASSUME NEW d \in Deploy, Reject(d) PROVE DeployInv' /\ Sealed
  <2>1. PICK from \in {"queued", "ports", "playing"} : Moves(d, from, "rejecting")
    BY <1>4, <1>t, AdvanceMoves DEF Reject
  <2>2. job[d].at = from /\ task[d] = "running"
    BY <2>1, <1>s DEF Moves, TaskFollows
  <2>3. /\ task' = [task EXCEPT ![d] = task'[d]] /\ task'[d] = "error"
        /\ UNCHANGED <<state, op>>
    BY <1>4, <1>t DEF Reject, SetStatus, TypeOK
  <2>4. svc' \in [Host -> Status] /\ unit' \in [Host -> {"absent", "up", "down", "failed"}]
        /\ state' \in State \cup {"gone"}
    BY <1>4, <1>t, <2>3 DEF TypeOK, Reject
  <2> QED BY <1>a, <1>f, <2>1, <2>2, <2>3, <2>4
<1>5. ASSUME NEW d \in Deploy, MarkRejected(d) PROVE DeployInv' /\ Sealed
  <2>1. Moves(d, "rejecting", "over")
    BY <1>5, <1>t, AdvanceMoves DEF MarkRejected
  <2>2. job[d].at = "rejecting" /\ task[d] = "error"
    BY <2>1, <1>s DEF Moves, TaskFollows
  <2>3. /\ UNCHANGED task
        /\ state' = "error" /\ UNCHANGED op
    BY <1>5 DEF MarkRejected, SetState
  <2>4. svc' \in [Host -> Status] /\ unit' \in [Host -> {"absent", "up", "down", "failed"}]
        /\ state' \in State \cup {"gone"}
    BY <1>5, <1>t, <2>3 DEF TypeOK, MarkRejected
  <2> QED BY <1>b, <2>1, <2>2, <2>3, <2>4
<1>6. ASSUME NEW d \in Deploy, MarkDeploying(d) PROVE DeployInv' /\ Sealed
  <2>1. Moves(d, "ports", "playing")
    BY <1>6, <1>t, KeepMoves DEF MarkDeploying
  <2>2. job[d].at = "ports" /\ task[d] = "running"
    BY <2>1, <1>s DEF Moves, TaskFollows
  <2>3. /\ UNCHANGED task
        /\ state' = "deploying" /\ UNCHANGED op
    BY <1>6 DEF MarkDeploying, SetState
  <2>4. svc' \in [Host -> Status] /\ unit' \in [Host -> {"absent", "up", "down", "failed"}]
        /\ state' \in State \cup {"gone"}
    BY <1>6, <1>t, <2>3 DEF TypeOK, MarkDeploying
  <2> QED BY <1>b, <2>1, <2>2, <2>3, <2>4
<1>7. ASSUME NEW d \in Deploy, PlaybookFails(d) PROVE DeployInv' /\ Sealed
  <2>1. Moves(d, "playing", "failing")
    BY <1>7, <1>t, AdvanceMoves DEF PlaybookFails
  <2>2. job[d].at = "playing" /\ task[d] = "running"
    BY <2>1, <1>s DEF Moves, TaskFollows
  <2>3. /\ UNCHANGED task
        /\ state' = "error" /\ UNCHANGED op
    BY <1>7 DEF PlaybookFails, SetState
  <2>4. svc' \in [Host -> Status] /\ unit' \in [Host -> {"absent", "up", "down", "failed"}]
        /\ state' \in State \cup {"gone"}
    BY <1>7, <1>t, <2>3 DEF TypeOK, PlaybookFails
  <2> QED BY <1>b, <2>1, <2>2, <2>3, <2>4
<1>8. ASSUME NEW d \in Deploy, CloseFailed(d) PROVE DeployInv' /\ Sealed
  <2>1. Moves(d, "failing", "over")
    BY <1>8, <1>t, AdvanceMoves DEF CloseFailed
  <2>2. job[d].at = "failing" /\ task[d] = "running"
    BY <2>1, <1>s DEF Moves, TaskFollows
  <2>3. /\ task' = [task EXCEPT ![d] = task'[d]] /\ task'[d] = "completed_with_errors"
        /\ UNCHANGED <<state, op>>
    BY <1>8, <1>t DEF CloseFailed, SetStatus, TypeOK
  <2>4. svc' \in [Host -> Status] /\ unit' \in [Host -> {"absent", "up", "down", "failed"}]
        /\ state' \in State \cup {"gone"}
    BY <1>8, <1>t, <2>3 DEF TypeOK, CloseFailed
  <2> QED BY <1>a, <1>f, <2>1, <2>2, <2>3, <2>4
<1>9. ASSUME NEW d \in Deploy, PlaybookSucceeds(d) PROVE DeployInv' /\ Sealed
  <2>1. Moves(d, "playing", "applying")
    BY <1>9, <1>t, KeepMoves DEF PlaybookSucceeds
  <2>2. job[d].at = "playing" /\ task[d] = "running"
    BY <2>1, <1>s DEF Moves, TaskFollows
  <2>3. /\ UNCHANGED task
        /\ state' = "running" /\ UNCHANGED op
    BY <1>9 DEF PlaybookSucceeds, SetState
  <2>4. svc' \in [Host -> Status] /\ unit' \in [Host -> {"absent", "up", "down", "failed"}]
        /\ state' \in State \cup {"gone"}
    BY <1>9, <1>t, <2>3 DEF TypeOK, PlaybookSucceeds, AllUp, Status
  <2> QED BY <1>b, <2>1, <2>2, <2>3, <2>4
<1>10. ASSUME NEW d \in Deploy, Complete(d) PROVE DeployInv' /\ Sealed
  <2>1. Moves(d, "applying", "over")
    BY <1>10, <1>t, AdvanceMoves DEF Complete
  <2>2. job[d].at = "applying" /\ task[d] = "running"
    BY <2>1, <1>s DEF Moves, TaskFollows
  <2>3. /\ task' = [task EXCEPT ![d] = task'[d]] /\ task'[d] = "completed"
        /\ UNCHANGED <<state, op>>
    BY <1>10, <1>t DEF Complete, SetStatus, TypeOK
  <2>4. svc' \in [Host -> Status] /\ unit' \in [Host -> {"absent", "up", "down", "failed"}]
        /\ state' \in State \cup {"gone"}
    BY <1>10, <1>t, <2>3 DEF TypeOK, Complete
  <2> QED BY <1>a, <1>f, <2>1, <2>2, <2>3, <2>4
<1>11. ASSUME NEW d \in Deploy, AgentRefuses(d) PROVE DeployInv' /\ Sealed
  <2>1. Moves(d, "queued", "over")
    BY <1>11, <1>t, AdvanceMoves DEF AgentRefuses
  <2>2. job[d].at = "queued" /\ task[d] = "running"
    BY <2>1, <1>s DEF Moves, TaskFollows
  <2>3. /\ task' = [task EXCEPT ![d] = task'[d]] /\ task'[d] = "error"
        /\ UNCHANGED <<state, op>>
    BY <1>11, <1>t DEF AgentRefuses, SetStatus, TypeOK
  <2>4. svc' \in [Host -> Status] /\ unit' \in [Host -> {"absent", "up", "down", "failed"}]
        /\ state' \in State \cup {"gone"}
    BY <1>11, <1>t, <2>3 DEF TypeOK, AgentRefuses
  <2> QED BY <1>a, <1>f, <2>1, <2>2, <2>3, <2>4
<1>12. ASSUME NEW d \in Deploy, AgentMarks(d) PROVE DeployInv' /\ Sealed
  <2>1. Moves(d, "queued", "installing")
    BY <1>12, <1>t, LoadMoves DEF AgentMarks
  <2>2. job[d].at = "queued" /\ task[d] = "running"
    BY <2>1, <1>s DEF Moves, TaskFollows
  <2>3. /\ UNCHANGED task
        /\ state' = "deploying" /\ UNCHANGED op
    BY <1>12 DEF AgentMarks, SetState
  <2>4. svc' \in [Host -> Status] /\ unit' \in [Host -> {"absent", "up", "down", "failed"}]
        /\ state' \in State \cup {"gone"}
    BY <1>12, <1>t, <2>3 DEF TypeOK, AgentMarks
  <2> QED BY <1>b, <2>1, <2>2, <2>3, <2>4
<1>13. ASSUME NEW d \in Deploy, AgentFails(d) PROVE DeployInv' /\ Sealed
  <2>1. Moves(d, "installing", "agent failed")
    BY <1>13, <1>t, AdvanceMoves DEF AgentFails
  <2>2. job[d].at = "installing" /\ task[d] = "running"
    BY <2>1, <1>s DEF Moves, TaskFollows
  <2>3. /\ task' = [task EXCEPT ![d] = task'[d]] /\ task'[d] = "error"
        /\ UNCHANGED <<state, op>>
    BY <1>13, <1>t DEF AgentFails, SetStatus, TypeOK
  <2>4. svc' \in [Host -> Status] /\ unit' \in [Host -> {"absent", "up", "down", "failed"}]
        /\ state' \in State \cup {"gone"}
    BY <1>13, <1>t, <2>3 DEF TypeOK, AgentFails
  <2> QED BY <1>a, <1>f, <2>1, <2>2, <2>3, <2>4
<1>14. ASSUME NEW d \in Deploy, AgentSucceeds(d) PROVE DeployInv' /\ Sealed
  <2>1. Moves(d, "installing", "succeeding")
    BY <1>14, <1>t, KeepMoves DEF AgentSucceeds
  <2>2. job[d].at = "installing" /\ task[d] = "running"
    BY <2>1, <1>s DEF Moves, TaskFollows
  <2>3. /\ UNCHANGED task
        /\ state' = "running" /\ UNCHANGED op
    BY <1>14 DEF AgentSucceeds, SetState
  <2>4. svc' \in [Host -> Status] /\ unit' \in [Host -> {"absent", "up", "down", "failed"}]
        /\ state' \in State \cup {"gone"}
    BY <1>14, <1>t, <2>3 DEF TypeOK, AgentSucceeds
  <2> QED BY <1>b, <2>1, <2>2, <2>3, <2>4
<1>15. ASSUME NEW d \in Deploy, AgentCloses(d) PROVE DeployInv' /\ Sealed
  <2>1. Moves(d, "succeeding", "over")
    BY <1>15, <1>t, AdvanceMoves DEF AgentCloses
  <2>2. job[d].at = "succeeding" /\ task[d] = "running"
    BY <2>1, <1>s DEF Moves, TaskFollows
  <2>3. /\ task' = [task EXCEPT ![d] = task'[d]] /\ task'[d] = "success"
        /\ UNCHANGED <<state, op>>
    BY <1>15, <1>t DEF AgentCloses, SetStatus, TypeOK
  <2>4. svc' \in [Host -> Status] /\ unit' \in [Host -> {"absent", "up", "down", "failed"}]
        /\ state' \in State \cup {"gone"}
    BY <1>15, <1>t, <2>3 DEF TypeOK, AgentCloses
  <2> QED BY <1>a, <1>f, <2>1, <2>2, <2>3, <2>4
<1>16. ASSUME NEW d \in Deploy, NEW h \in Host, PlayHost(d, h) PROVE DeployInv' /\ Sealed
  <2>1. /\ job' = [job EXCEPT ![d].done = @ \cup {h}]
        /\ unit' = [unit EXCEPT ![h] = "up"] /\ UNCHANGED <<state, svc, task, op>>
    BY <1>16 DEF PlayHost
  <2>2. Moves(d, job[d].at, job[d].at)
    BY <2>1, <1>t, OneMore
  <2>3. svc' \in [Host -> Status] /\ unit' \in [Host -> {"absent", "up", "down", "failed"}]
    BY <2>1, <1>t DEF TypeOK
  <2> QED BY <1>c, <2>1, <2>2, <2>3
<1>17. ASSUME NEW d \in Deploy, NEW h \in Host, AgentHost(d, h) PROVE DeployInv' /\ Sealed
  <2>1. /\ job' = [job EXCEPT ![d].done = @ \cup {h}] /\ UNCHANGED <<state, task, op>>
        /\ unit' = [unit EXCEPT ![h] = "up"] /\ svc' = [svc EXCEPT ![h] = "running"]
    BY <1>17 DEF AgentHost
  <2>2. Moves(d, job[d].at, job[d].at)
    BY <2>1, <1>t, OneMore
  <2>3. svc' \in [Host -> Status] /\ unit' \in [Host -> {"absent", "up", "down", "failed"}]
    BY <2>1, <1>t DEF TypeOK, Status
  <2> QED BY <1>c, <2>1, <2>2, <2>3
<1>18. ASSUME NEW d \in Deploy, Escape(d) PROVE DeployInv' /\ Sealed
  <2> DEFINE from == job[d].at
  <2>1. PICK to \in {"over", "stranded"} : Advance(d, from, to)
    BY <1>18 DEF Escape
  <2>2. state = "gone" /\ UNCHANGED <<state, svc, op>> /\ task[d] \in {"running", "error"}
    BY <1>18, <1>s DEF Escape, Exists, TaskFollows
  <2>3. (task' = [task EXCEPT ![d] = "error"]) \/ UNCHANGED task
    BY <1>18 DEF Escape, SetStatus
  <2>4. svc' \in [Host -> Status] /\ unit' \in [Host -> {"absent", "up", "down", "failed"}]
    <3>1. svc \in [Host -> Status] /\ unit \in [Host -> {"absent", "up", "down", "failed"}]
      BY <1>t DEF TypeOK
    <3>2. UNCHANGED unit \/ \E h \in Host : unit' = [unit EXCEPT ![h] = "up"]
      BY <1>18, <1>t DEF Escape, TypeOK
    <3> QED BY <2>2, <3>1, <3>2
  <2>5. Moves(d, from, to) /\ to \in Stage /\ to \notin Unposted \cup Running \cup {"rejecting"}
    BY <2>1, <1>t, AdvanceMoves
  <2> HIDE DEF from
  <2>6. CASE UNCHANGED task
    BY <1>b, <2>2, <2>4, <2>5, <2>6
  <2>7. CASE task' = [task EXCEPT ![d] = "error"]
    <3>1. task' = [task EXCEPT ![d] = task'[d]] /\ task'[d] = "error"
      BY <1>t, <2>7 DEF TypeOK
    <3>2. task[d] \in Final => task'[d] = task[d]
      BY <1>f, <2>2, <3>1
    <3> QED BY <1>a, <1>f, <2>2, <2>4, <2>5, <3>1, <3>2
  <2> QED BY <2>3, <2>6, <2>7
<1>18a. ASSUME NEW d \in Deploy, FlushFails(d) PROVE DeployInv' /\ Sealed
  <2> DEFINE from == job[d].at
  <2>1. Advance(d, from, "stranded") /\ UNCHANGED <<state, svc, task, op>>
    BY <1>18a DEF FlushFails
  <2>2. state \in State \cup {"gone"} /\ svc \in [Host -> Status]
    BY <1>t DEF TypeOK
  <2>3. unit' \in [Host -> {"absent", "up", "down", "failed"}]
    <3>1. unit \in [Host -> {"absent", "up", "down", "failed"}]
      BY <1>t DEF TypeOK
    <3>2. UNCHANGED unit \/ \E h \in Host : unit' = [unit EXCEPT ![h] = "up"]
      BY <1>18a, <1>t DEF FlushFails, TypeOK
    <3> QED BY <3>1, <3>2
  <2>4. Moves(d, from, "stranded")
    BY <2>1, <1>t, AdvanceMoves
  <2> HIDE DEF from
  <2> QED BY <1>b, <2>1, <2>2, <2>3, <2>4
<1>19. ASSUME NEW d \in Deploy, Kill(d) PROVE DeployInv' /\ Sealed
  <2> DEFINE from == job[d].at
  <2>1. Advance(d, from, "killed") /\ UNCHANGED <<state, svc, unit, task, op>>
    BY <1>19 DEF Kill, Advance
  <2>3. Moves(d, from, "killed")
    BY <2>1, <1>t, AdvanceMoves
  <2> HIDE DEF from
  <2>2. /\ state \in State \cup {"gone"} /\ svc \in [Host -> Status]
        /\ unit \in [Host -> {"absent", "up", "down", "failed"}]
    BY <1>t DEF TypeOK
  <2> QED BY <1>b, <2>1, <2>2, <2>3
<1>20. ASSUME NEW k \in {"status", "start", "stop", "delete", "remove"}, NEW hs \in SUBSET Host, Begin(k, hs)
       PROVE DeployInv' /\ Sealed
  <2>1. op' \in Requests
    BY <1>20, <1>t DEF Begin, Requests, TypeOK, Exists
  <2> QED BY <1>20, <1>r, <1>t, <2>1 DEF Begin, TypeOK
\* A visit to a host leaves the request well formed.
<1>v. ASSUME NEW h \in Host, NEW st \in Status, NEW well \in BOOLEAN, Visited(h, st, well)
      PROVE  op' \in Requests
  BY <1>v, <1>o DEF Visited, Requests
<1>21. ASSUME NEW h \in Host, ProbeHost(h) PROVE DeployInv' /\ Sealed
  <2>1. Reported(h) \in Status
    BY <1>o DEF Reported, Requests, Status
  <2> QED BY <1>21, <1>r, <1>t, <1>v, <2>1 DEF ProbeHost, TypeOK
<1>22. ASSUME NEW h \in Host, ProbeFails(h) PROVE DeployInv' /\ Sealed
  <2>1. op.svc[h] \in Status
    BY <1>o DEF Requests
  <2> QED BY <1>22, <1>r, <1>t, <1>v, <2>1 DEF ProbeFails, TypeOK
<1>23. ASSUME NEW h \in Host, StartHost(h) PROVE DeployInv' /\ Sealed
  <2>1. op' \in Requests
    BY <1>23, <1>v DEF StartHost, Status
  <2> QED BY <1>23, <1>r, <1>t, <2>1 DEF StartHost, TypeOK
<1>24. ASSUME NEW h \in Host, StopHost(h) PROVE DeployInv' /\ Sealed
  <2>1. op.svc[h] \in Status
    BY <1>o DEF Requests
  <2>2. op' \in Requests
    BY <1>24, <1>v, <2>1 DEF StopHost, Status
  <2> QED BY <1>24, <1>r, <1>t, <2>2 DEF StopHost, TypeOK
<1>25. CASE Commit
  <2>1. Wanted \in State /\ (Wanted = "deploying" => op.state = "deploying")
    BY <1>o, WantedState
  <2>2. state' \in State \cup {"gone"} /\ (state' = "deploying" => state = "deploying")
    BY <1>25, <1>t, <1>o, <2>1 DEF Commit, SetState, Written, TypeOK, Requests
  <2>3. svc' \in [Host -> Status]
    BY <1>25, <1>t, <1>o DEF Commit, Written, TypeOK, Requests
  <2>4. op' \in Requests
    BY <1>25 DEF Commit, Idle, Requests, Status
  <2> QED BY <1>25, <1>r, <1>t, <2>2, <2>3, <2>4 DEF Commit, TypeOK
<1>26. CASE GetCluster
  <2>1. state \in State /\ svc \in [Host -> Status]
    BY <1>26, <1>t DEF GetCluster, TypeOK, Exists
  <2>2. state' \in State \cup {"gone"} /\ (state' = "deploying" => state = "deploying")
    BY <1>26, <2>1, SyncedState DEF GetCluster, SetState
  <2> QED BY <1>26, <1>r, <1>t, <1>o, <2>2 DEF GetCluster, TypeOK
<1>27. ASSUME NEW h \in Host, UnitDies(h) PROVE DeployInv' /\ Sealed
  BY <1>27, <1>r, <1>t, <1>o DEF UnitDies, TypeOK
<1>28. CASE UNCHANGED vars
  BY <1>28, <1>r, <1>t, <1>o DEF vars, TypeOK
<1>29. ASSUME NEW d \in Deploy, Request(d) \/ Ansible(d) \/ Agents(d) PROVE DeployInv' /\ Sealed
  BY <1>29, <1>1, <1>2, <1>3, <1>4, <1>5, <1>6, <1>7, <1>8, <1>9, <1>10, <1>11, <1>12, <1>13, <1>14, <1>15, <1>16, <1>17, <1>18, <1>18a
     DEF Request, Ansible, Agents
<1>30. ASSUME Change \/ Watch PROVE DeployInv' /\ Sealed
  <2>1. Served \in SUBSET Host /\ \A h \in Host : {h} \in SUBSET Host
    BY DEF Served
  <2> QED BY <1>30, <1>20, <1>21, <1>22, <1>25, <1>26, <2>1 DEF Change, Watch, BeginRemove
<1> QED
  BY <1>19, <1>23, <1>24, <1>27, <1>28, <1>29, <1>30 DEF Next, Sealed

LEMMA DeployInvariant == Spec => []DeployInv
<1>1. Init => DeployInv
  BY InitTyped DEF Init, DeployInv, TasksFollow, TaskFollows, Owned, Unposted, Running
<1> QED BY <1>1, DeployStep, PTL DEF Spec

\* Every variable keeps its type: whatever requests write back from rows read
\* long before, state and statuses stay within what the console knows.
THEOREM DeployTypeCorrect == Spec => []TypeOK
BY DeployInvariant, PTL DEF DeployInv

\* A cluster shows "deploying" only while a deploy is at work on it, was killed at
\* it, failed over the agents or lost its session to a failed flush, for any number of overlapping deploys and
\* whatever stale state other requests write back.
THEOREM DeployingHasOwner == Spec => []DeployingIsOwned
<1>1. DeployInv => DeployingIsOwned
  BY DEF DeployInv, Owned, Owners, DeployingIsOwned
<1> QED BY <1>1, DeployInvariant, PTL

\* The verdict on a task is final, of any number of deploys of one cluster.
THEOREM VerdictStays == Spec => VerdictIsFinal
<1>1. DeployInv /\ [Next]_vars => [\A d \in Deploy : task[d] \in Final => task'[d] = task[d]]_vars
  BY DeployStep
<1> QED BY <1>1, DeployInvariant, PTL DEF Spec, VerdictIsFinal

-----------------------------------------------------------------------------
(* What the operator is promised.                                          *)

\* Where a deploy does nothing any more.
Out == Ended \cup {"rejecting", "failing"}

\* A deploy has brought up hosts only between loading its services and its end;
\* it has loaded every service that is still there, and hands the cluster over
\* when it has brought all of them up.
DoneFits == \A d \in Deploy :
    job[d].at \notin {"playing", "installing", "applying", "succeeding"} => job[d].done = {}
ListFits == \A d \in Deploy :
    job[d].at \in {"ports", "playing", "installing"} => Served \subseteq job[d].list
HandsOver == \A d \in Deploy :
    job[d].at \in {"applying", "succeeding"} => Served \subseteq job[d].done
JobsFit == DoneFits /\ ListFits /\ HandsOver

\* A request knows of every removal and takes no host of a removed service in
\* hand; only a removal removes, and no request is left of a cluster that is gone.
ReadFits == op.kind # "none" => \A h \in Host :
    svc[h] = "removed" => op.read[h] = "removed" /\ op.svc[h] = "removed" /\ h \notin op.todo
RemovesOnly == op.kind # "remove" => \A h \in Host :
    op.svc[h] = "removed" => op.read[h] = "removed"
GoneFits == ~Exists => op.kind = "none"
OpFits == ReadFits /\ RemovesOnly /\ GoneFits

PromiseInv == DeployInv /\ JobsFit /\ OpFits

\* A deploy's steps touch no request and remove no service.
LEMMA ServedKept ==
  ASSUME TypeOK, NEW d \in Deploy, Request(d) \/ Ansible(d) \/ Agents(d) \/ Kill(d)
  PROVE  op' = op /\ Served' = Served /\ \A h \in Host : svc'[h] = "removed" <=> svc[h] = "removed"
<1>0. svc \in [Host -> Status]
  BY DEF TypeOK
<1>1. CASE Request(d) \/ Kill(d)
  BY <1>1 DEF Request, CheckDeploy, PostTask, Kill, Served
<1>2. CASE Ansible(d) /\ ~PlaybookSucceeds(d)
  BY <1>2 DEF Ansible, StopOwnUnits, Reject, MarkRejected, MarkDeploying, PlaybookFails, CloseFailed,
              Complete, Escape, FlushFails, PlayHost, Served
<1>3. CASE PlaybookSucceeds(d)
  <2>1. svc' = AllUp(d) /\ job[d].list \subseteq Served /\ op' = op
    BY <1>3 DEF PlaybookSucceeds, Whole
  <2>2. \A h \in Host : svc'[h] = IF h \in job[d].list THEN "running" ELSE svc[h]
    BY <2>1 DEF AllUp
  <2>3. \A h \in Host : h \in job[d].list => svc[h] # "removed"
    BY <2>1 DEF Served
  <2>4. \A h \in Host : svc'[h] = "removed" <=> svc[h] = "removed"
    BY <2>2, <2>3
  <2> QED BY <2>1, <2>4 DEF Served
<1>4. CASE Agents(d) /\ ~ \E h \in Host : AgentHost(d, h)
  BY <1>4 DEF Agents, AgentRefuses, AgentMarks, AgentFails, AgentSucceeds, AgentCloses, Served
<1>5. CASE \E h \in Host : AgentHost(d, h)
  <2>1. PICK h \in Host : svc[h] # "removed" /\ svc' = [svc EXCEPT ![h] = "running"] /\ op' = op
    BY <1>5 DEF AgentHost, Served
  <2>2. \A g \in Host : svc'[g] = "removed" <=> svc[g] = "removed"
    BY <1>0, <2>1
  <2> QED BY <2>1, <2>2 DEF Served
<1> QED BY <1>1, <1>2, <1>3, <1>4, <1>5

\* A deploy that moves keeps the fit of its record, if the stage it reaches asks
\* nothing more.
LEMMA MoveFits ==
  ASSUME JobsFit, NEW d \in Deploy, NEW from, NEW to, Moves(d, from, to), Served' = Served,
         to \notin {"playing", "installing", "applying", "succeeding"} => job'[d].done = {},
         to \in {"ports", "playing", "installing"} => Served \subseteq job'[d].list,
         to \in {"applying", "succeeding"} => Served \subseteq job'[d].done
  PROVE  JobsFit'
<1>1. /\ job'[d].at = to
      /\ \A e \in Deploy \ {d} : job'[e] = job[e]
  BY DEF Moves
<1>2. DoneFits'
  BY <1>1 DEF JobsFit, DoneFits
<1>3. ListFits'
  BY <1>1 DEF JobsFit, ListFits
<1>4. HandsOver'
  BY <1>1 DEF JobsFit, HandsOver
<1> QED BY <1>2, <1>3, <1>4 DEF JobsFit

LEMMA AdvanceFits ==
  ASSUME TypeOK, JobsFit, NEW d \in Deploy, NEW from, Served' = Served,
         NEW to \in Stage \ {"ports", "playing", "installing", "applying", "succeeding"},
         Advance(d, from, to)
  PROVE  JobsFit'
<1>1. Moves(d, from, to) /\ job'[d].done = {}
  BY AdvanceMoves
<1> QED BY <1>1, MoveFits

\* A deploy's record fits after every step of it.
LEMMA DeployFits ==
  ASSUME TypeOK, JobsFit, NEW d \in Deploy, Request(d) \/ Ansible(d) \/ Agents(d) \/ Kill(d)
  PROVE  JobsFit'
<1>s. Served' = Served
  BY ServedKept
<1> USE DEF Stage, Ended
<1>1. CASE Request(d)
  <2>1. PICK from \in {"idle", "checked"}, to \in {"checked", "queued"} : Advance(d, from, to)
    BY <1>1 DEF Request, CheckDeploy, PostTask
  <2> QED BY <1>s, <2>1, AdvanceFits
<1>2. CASE Kill(d)
  <2>1. Advance(d, job[d].at, "killed")
    BY <1>2 DEF Kill
  <2> QED BY <1>s, <2>1, AdvanceFits
<1>3. CASE Reject(d) \/ MarkRejected(d) \/ PlaybookFails(d) \/ CloseFailed(d) \/ Complete(d)
  <2>1. PICK from \in Stage, to \in {"rejecting", "over", "failing"} : Advance(d, from, to)
    BY <1>3 DEF Reject, MarkRejected, PlaybookFails, CloseFailed, Complete
  <2> QED BY <1>s, <2>1, AdvanceFits
<1>4. CASE Escape(d) \/ FlushFails(d)
  <2>1. PICK to \in {"over", "stranded"} : Advance(d, job[d].at, to)
    BY <1>4 DEF Escape, FlushFails
  <2> QED BY <1>s, <2>1, AdvanceFits
<1>5. CASE AgentRefuses(d) \/ AgentFails(d) \/ AgentCloses(d)
  <2>1. PICK from \in Stage, to \in {"over", "agent failed"} : Advance(d, from, to)
    BY <1>5 DEF AgentRefuses, AgentFails, AgentCloses
  <2> QED BY <1>s, <2>1, AdvanceFits
<1>6. CASE StopOwnUnits(d) \/ AgentMarks(d)
  <2>1. PICK to \in {"ports", "installing"} : Load(d, to)
    BY <1>6 DEF StopOwnUnits, AgentMarks
  <2>2. Moves(d, "queued", to) /\ job'[d].done = {} /\ job'[d].list = Served
    BY <2>1, LoadMoves
  <2> QED BY <1>s, <2>1, <2>2, MoveFits
<1>7. CASE MarkDeploying(d)
  <2>1. Moves(d, "ports", "playing") /\ job'[d].list = job[d].list
    BY <1>7, KeepMoves DEF MarkDeploying
  <2>2. Served \subseteq job[d].list
    BY <2>1 DEF Moves, JobsFit, ListFits
  <2> QED BY <1>s, <2>1, <2>2, MoveFits
<1>8. CASE PlaybookSucceeds(d) \/ AgentSucceeds(d)
  <2>1. PICK from \in {"playing", "installing"}, to \in {"applying", "succeeding"} : Keep(d, from, to)
    BY <1>8 DEF PlaybookSucceeds, AgentSucceeds
  <2>2. job[d].done = job[d].list
    BY <1>8 DEF PlaybookSucceeds, AgentSucceeds
  <2>3. Moves(d, from, to) /\ job'[d].done = job[d].done
    BY <2>1, KeepMoves
  <2>4. Served \subseteq job[d].list
    BY <2>3 DEF Moves, JobsFit, ListFits
  <2> QED BY <1>s, <2>2, <2>3, <2>4, MoveFits
<1>9. CASE \E h \in Host : PlayHost(d, h) \/ AgentHost(d, h)
  <2>1. PICK h \in Host : /\ job[d].at \in {"playing", "installing"}
                          /\ job' = [job EXCEPT ![d].done = @ \cup {h}]
    BY <1>9 DEF PlayHost, AgentHost
  <2>2. Moves(d, job[d].at, job[d].at) /\ job'[d].list = job[d].list
    BY <2>1, OneMore
  <2>3. Served \subseteq job[d].list
    BY <2>1 DEF JobsFit, ListFits
  <2> QED BY <1>s, <2>1, <2>2, <2>3, MoveFits
<1> QED BY <1>1, <1>2, <1>3, <1>4, <1>5, <1>6, <1>7, <1>8, <1>9 DEF Request, Ansible, Agents

\* A request that commits removes the services it has taken away, and no other is
\* touched by it or comes back.
LEMMA CommitServed ==
  ASSUME PromiseInv, Commit
  PROVE  Served' \subseteq Served /\ (op.kind # "remove" => Served' = Served)
<1>0. op.kind # "none" /\ TypeOK /\ ReadFits /\ RemovesOnly
  BY DEF Commit, PromiseInv, DeployInv, OpFits
<1>1. \A h \in Host : svc'[h] = IF op.svc[h] = op.read[h] THEN svc[h] ELSE op.svc[h]
  BY DEF Commit, Written
<1>2. \A h \in Host : svc[h] = "removed" => svc'[h] = "removed"
  BY <1>0, <1>1 DEF ReadFits
<1>3. op.kind # "remove" => \A h \in Host : svc'[h] = "removed" => svc[h] = "removed"
  BY <1>0, <1>1 DEF RemovesOnly
<1> QED BY <1>2, <1>3 DEF Served

\* A visit to one of the hosts a request has to see.
LEMMA VisitFits ==
  ASSUME TypeOK, OpFits, NEW h \in Host, NEW st \in Status, NEW well, Visited(h, st, well),
         op.kind # "none", UNCHANGED <<state, svc>>,
         st = "removed" => op.kind = "remove" \/ op.svc[h] = "removed"
  PROVE  OpFits'
<1>1. /\ op.todo \in SUBSET Host /\ op.svc \in [Host -> Status] /\ op.read \in [Host -> Status]
      /\ h \in op.todo
  BY DEF TypeOK, Visited
<1>2. /\ op'.kind = op.kind /\ op'.todo = op.todo \ {h} /\ op'.read = op.read
      /\ op'.svc = [op.svc EXCEPT ![h] = st]
  BY DEF TypeOK, Visited
<1>3. ReadFits'
  BY <1>1, <1>2 DEF OpFits, ReadFits
<1>4. RemovesOnly'
  <2> SUFFICES ASSUME op.kind # "remove", NEW g \in Host, op'.svc[g] = "removed" PROVE op.read[g] = "removed"
    BY <1>2 DEF RemovesOnly
  <2>1. op.svc[g] = "removed"
    BY <1>1, <1>2
  <2> QED BY <2>1 DEF OpFits, RemovesOnly
<1>5. GoneFits'
  BY <1>2 DEF OpFits, GoneFits, Exists
<1> QED BY <1>3, <1>4, <1>5 DEF OpFits

\* What a request is about fits after every step of it and of the watchers.
LEMMA RequestFits ==
  ASSUME PromiseInv, Change \/ Watch \/ UNCHANGED vars
                     \/ \E h \in Host : StartHost(h) \/ StopHost(h) \/ UnitDies(h)
  PROVE  OpFits'
<1>t. TypeOK /\ OpFits /\ op \in Requests
  BY DEF PromiseInv, DeployInv, TypeOK, Requests
<1>1. ASSUME NEW kind \in {"status", "start", "stop", "delete", "remove"}, NEW hosts \in SUBSET Served,
             Begin(kind, hosts)
      PROVE  OpFits'
  <2>1. /\ op'.kind = kind /\ op'.todo = hosts /\ op'.read = svc /\ op'.svc = svc
        /\ Exists /\ UNCHANGED <<state, svc>>
    BY <1>1 DEF Begin
  <2>2. \A h \in Host : svc[h] = "removed" => h \notin hosts
    BY <1>1 DEF Served
  <2> QED BY <2>1, <2>2 DEF OpFits, ReadFits, RemovesOnly, GoneFits, Exists
<1>2. ASSUME NEW h \in Host, ProbeHost(h) \/ ProbeFails(h) \/ StartHost(h) \/ StopHost(h)
      PROVE  OpFits'
  <2>1. op.svc[h] \in Status
    BY <1>t DEF Requests
  <2>2. /\ Reported(h) \in Status /\ (Reported(h) = "removed" => op.svc[h] = "removed")
        /\ {"running", "error", "removed", "stopped"} \subseteq Status
    BY <2>1 DEF Reported, Status
  <2>3. op.kind # "none" /\ UNCHANGED <<state, svc>>
    BY <1>2 DEF ProbeHost, ProbeFails, StartHost, StopHost
  <2>4. \E st \in Status, well \in BOOLEAN :
           Visited(h, st, well) /\ (st = "removed" => op.kind = "remove" \/ op.svc[h] = "removed")
    <3>1. CASE ProbeHost(h)
      BY <2>2, <3>1 DEF ProbeHost
    <3>2. CASE ProbeFails(h)
      BY <2>1, <3>2 DEF ProbeFails
    <3>3. CASE StartHost(h)
      BY <2>2, <3>3 DEF StartHost
    <3>4. CASE StopHost(h)
      <4>1. Visited(h, op.svc[h], FALSE) \/ Visited(h, IF op.kind = "remove" THEN "removed" ELSE "stopped", TRUE)
        BY <3>4 DEF StopHost
      <4> QED BY <2>1, <2>2, <4>1
    <3> QED BY <1>2, <3>1, <3>2, <3>3, <3>4
  <2> QED BY <1>t, <2>3, <2>4, VisitFits
<1>3. CASE Commit
  BY <1>3 DEF Commit, Idle, OpFits, ReadFits, RemovesOnly, GoneFits
<1>4. CASE GetCluster
  <2>1. state \in State /\ svc \in [Host -> Status]
    BY <1>4, <1>t DEF GetCluster, TypeOK, Exists
  <2>2. state' \in State /\ UNCHANGED <<svc, op>>
    BY <1>4, <2>1, SyncedState DEF GetCluster, SetState
  <2> QED BY <1>t, <2>2 DEF OpFits, ReadFits, RemovesOnly, GoneFits, Exists, State
<1>5. CASE UNCHANGED vars \/ \E h \in Host : UnitDies(h)
  <2>1. UNCHANGED <<state, svc, op>>
    BY <1>5 DEF UnitDies, vars
  <2> QED BY <1>t, <2>1 DEF OpFits, ReadFits, RemovesOnly, GoneFits, Exists
<1>6. CASE Change
  <2>1. \E kind \in {"start", "stop", "delete", "remove"}, hosts \in SUBSET Served : Begin(kind, hosts)
    BY <1>6 DEF Change, BeginRemove
  <2> QED BY <1>1, <2>1
<1>7. CASE Begin("status", Served)
  BY <1>1, <1>7
<1> QED BY <1>1, <1>2, <1>3, <1>4, <1>5, <1>6, <1>7 DEF Watch

LEMMA PromiseInvStep ==
  ASSUME PromiseInv, [Next]_vars
  PROVE  PromiseInv'
<1>1. DeployInv' /\ TypeOK /\ JobsFit /\ OpFits
  BY DeployStep DEF PromiseInv, DeployInv
<1>2. ASSUME NEW d \in Deploy, Request(d) \/ Ansible(d) \/ Agents(d) \/ Kill(d)
      PROVE  JobsFit' /\ OpFits'
  <2>1. /\ op' = op /\ JobsFit'
        /\ \A h \in Host : svc'[h] = "removed" <=> svc[h] = "removed"
    BY <1>1, <1>2, ServedKept, DeployFits
  <2>2. state' = "gone" => state = "gone"
    <3>1. CASE Request(d) \/ Kill(d)
      BY <3>1 DEF Request, Kill, CheckDeploy, PostTask
    <3>2. CASE Ansible(d)
      BY <3>2 DEF Ansible, StopOwnUnits, Reject, MarkRejected, MarkDeploying, PlaybookFails, CloseFailed,
                  PlaybookSucceeds, Complete, Escape, FlushFails, PlayHost, SetState
    <3>3. CASE Agents(d)
      BY <3>3 DEF Agents, AgentRefuses, AgentMarks, AgentFails, AgentSucceeds, AgentCloses, AgentHost, SetState
    <3> QED BY <1>2, <3>1, <3>2, <3>3
  <2> QED BY <1>1, <2>1, <2>2 DEF OpFits, ReadFits, RemovesOnly, GoneFits, Exists
<1>3. ASSUME Change \/ Watch \/ UNCHANGED vars
               \/ \E h \in Host : StartHost(h) \/ StopHost(h) \/ UnitDies(h)
      PROVE  JobsFit' /\ OpFits'
  <2>1. job' = job
    BY <1>3 DEF vars, Change, BeginRemove, Watch, Begin, Commit, GetCluster, ProbeHost, ProbeFails,
                StartHost, StopHost, UnitDies
  <2>2. Served' \subseteq Served
    <3>1. CASE Commit
      BY <3>1, CommitServed
    <3>2. CASE ~Commit
      <4>1. svc' = svc
        BY <1>3, <3>2 DEF vars, Change, BeginRemove, Watch, Begin, GetCluster, ProbeHost, ProbeFails,
                          StartHost, StopHost, UnitDies
      <4> QED BY <4>1 DEF Served
    <3> QED BY <3>1, <3>2
  <2>3. JobsFit'
    BY <1>1, <2>1, <2>2 DEF JobsFit, DoneFits, ListFits, HandsOver
  <2>4. OpFits'
    BY <1>3, RequestFits
  <2> QED BY <2>3, <2>4
<1> QED BY <1>1, <1>2, <1>3 DEF PromiseInv, Next

LEMMA PromiseInvariant == Spec => []PromiseInv
<1>1. Init => PromiseInv
  <2> SUFFICES ASSUME Init PROVE PromiseInv
    OBVIOUS
  <2>1. DeployInv
    BY InitTyped DEF Init, DeployInv, TasksFollow, TaskFollows, Owned, Unposted, Running
  <2>2. JobsFit
    BY DEF Init, JobsFit, DoneFits, ListFits, HandsOver
  <2>3. OpFits
    BY DEF Init, OpFits, ReadFits, RemovesOnly, GoneFits, Exists, Idle
  <2> QED BY <2>1, <2>2, <2>3 DEF PromiseInv
<1> QED BY <1>1, PromiseInvStep, PTL DEF Spec

-----------------------------------------------------------------------------
(* A deploy's steps as DeployPromise sees them.                            *)

\* What DeployPromise sees of deploy d, and of all of them after a step of d.
LEMMA SeenMoves ==
  ASSUME TypeOK, NEW d \in Deploy, NEW from, NEW to, Moves(d, from, to)
  PROVE  /\ Brought[d] = job[d].done
         /\ Brought' = [Brought EXCEPT ![d] = job'[d].done]
         /\ job'[d].done = job[d].done => Brought' = Brought
         /\ d \in Quit <=> from \in Out
         /\ to \in Out => Quit' = Quit \cup {d}
         /\ (from \in Out <=> to \in Out) => Quit' = Quit
<1>1. job[d].at = from /\ job'[d].at = to /\ \A e \in Deploy \ {d} : job'[e] = job[e]
  BY DEF Moves
<1>2. /\ Brought = [e \in Deploy |-> job[e].done]
      /\ Brought' = [e \in Deploy |-> job'[e].done]
  BY DEF Brought
<1>3. Brought' = [Brought EXCEPT ![d] = job'[d].done]
  BY <1>1, <1>2
<1>4. job'[d].done = job[d].done => Brought' = Brought
  BY <1>1, <1>2
<1>5. \A e \in Deploy \ {d} : e \in Quit' <=> e \in Quit
  BY <1>1 DEF Quit
<1>6. (d \in Quit' <=> to \in Out) /\ (d \in Quit <=> from \in Out)
  BY <1>1 DEF Quit, Out
<1>7. Quit \subseteq Deploy /\ Quit' \subseteq Deploy
  BY DEF Quit
<1>8. to \in Out => Quit' = Quit \cup {d}
  BY <1>5, <1>6, <1>7
<1>9. (from \in Out <=> to \in Out) => Quit' = Quit
  BY <1>5, <1>6, <1>7
<1> QED BY <1>2, <1>3, <1>4, <1>6, <1>8, <1>9

\* A step that changes the header alone.
LEMMA HeaderStep ==
  ASSUME UNCHANGED <<task, job>>, Served' = Served,
         state' = state \/ (Exists /\ state' \in {"running", "stopped", "error", "gone"})
  PROVE  D!Turn \/ UNCHANGED D!pvars
<1>1. Brought' = Brought /\ Quit' = Quit
  BY DEF Brought, Quit
<1> QED BY <1>1 DEF D!Turn, D!pvars, D!Settled, Exists

\* A deploy that has not quit and has no verdict yet, when its stage says so.
LEMMA UnderWay ==
  ASSUME PromiseInv, NEW d \in Deploy, job[d].at \in Running \ Out
  PROVE  D!Working(d) /\ task[d] = "running" /\ d \notin Quit
<1>1. task[d] = "running"
  BY DEF PromiseInv, DeployInv, TasksFollow, TaskFollows
<1>2. d \notin Quit
  BY DEF Quit, Out
<1> QED BY <1>1, <1>2 DEF D!Working

LEMMA FailShows ==
  ASSUME PromiseInv, NEW d \in Deploy, NEW from \in Running, NEW to \in Out, Advance(d, from, to),
         SetStatus(d, "error") \/ SetStatus(d, "completed_with_errors"), UNCHANGED state, Served' = Served
  PROVE  D!Fail(d)
<1>1. Moves(d, from, to) /\ job'[d].done = {} /\ TypeOK
  <2>1. TypeOK /\ to \in Stage
    BY DEF PromiseInv, DeployInv, Out, Stage
  <2> QED BY <2>1, AdvanceMoves
<1>2. \E v \in D!Bad : task' = [task EXCEPT ![d] = v]
  BY DEF SetStatus, D!Bad
<1>3. Quit' = Quit \cup {d} /\ Brought' = [Brought EXCEPT ![d] = {}]
  BY <1>1, SeenMoves
<1>4. task[d] = "running"
  BY <1>1 DEF Moves, PromiseInv, DeployInv, TasksFollow, TaskFollows
<1> QED BY <1>2, <1>3, <1>4 DEF D!Fail

\* A deploy that stops without a word: its worker died, its session is lost, or
\* the playbook has failed.
LEMMA QuitShows ==
  ASSUME PromiseInv, NEW d \in Deploy, NEW from, NEW to \in Out, Advance(d, from, to), UNCHANGED task,
         from \notin Ended, state' = state \/ (Exists /\ state' = "error"), Served' = Served
  PROVE  D!Quit(d) \/ D!Turn \/ UNCHANGED D!pvars
<1>1. Moves(d, from, to) /\ job'[d].done = {} /\ TypeOK
  <2>1. TypeOK /\ to \in Stage
    BY DEF PromiseInv, DeployInv, Out, Stage
  <2> QED BY <2>1, AdvanceMoves
<1>2. /\ Brought' = [Brought EXCEPT ![d] = {}] /\ Quit' = Quit \cup {d}
      /\ d \in Quit <=> from \in Out
      /\ job[d].done = {} => Brought' = Brought
  BY <1>1, SeenMoves
<1>3. CASE from \notin Out
  BY <1>2, <1>3 DEF D!Quit, Exists
<1>4. CASE from \in Out
  <2>1. job[d].done = {}
    BY <1>1, <1>4 DEF Moves, PromiseInv, JobsFit, DoneFits, Out, Ended
  <2>2. Quit' = Quit /\ Brought' = Brought
    BY <1>2, <1>4, <2>1
  <2> QED BY <2>2 DEF D!pvars, D!Turn, D!Settled, Exists
<1> QED BY <1>3, <1>4

LEMMA TakeShows ==
  ASSUME PromiseInv, NEW d \in Deploy, MarkDeploying(d) \/ AgentMarks(d), Served' = Served
  PROVE  D!Take(d)
<1>t. TypeOK /\ {"playing", "installing"} \subseteq Stage
  BY DEF PromiseInv, DeployInv, Stage, Ended
<1>1. PICK from \in {"ports", "queued"}, to \in {"playing", "installing"} :
        Moves(d, from, to) /\ job'[d].done = job[d].done
  <2>1. CASE MarkDeploying(d)
    BY <1>t, <2>1, KeepMoves DEF MarkDeploying
  <2>2. CASE AgentMarks(d)
    <3>1. Moves(d, "queued", "installing") /\ job'[d].done = {}
      BY <1>t, <2>2, LoadMoves DEF AgentMarks
    <3>2. job[d].done = {}
      BY <3>1 DEF Moves, PromiseInv, JobsFit, DoneFits
    <3> QED BY <3>1, <3>2
  <2> QED BY <2>1, <2>2
<1>2. Exists /\ state' = "deploying" /\ task' = task
  BY DEF MarkDeploying, AgentMarks, SetState
<1>3. from \in Running /\ from \notin Out /\ to \notin Out
  BY DEF Running, Out, Ended
<1>4. D!Working(d)
  BY <1>1, <1>3, UnderWay DEF Moves
<1>5. Brought[d] = job[d].done /\ Brought' = Brought /\ Quit' = Quit
  BY <1>t, <1>1, <1>3, SeenMoves
<1>6. job[d].done = {}
  BY <1>1 DEF Moves, PromiseInv, JobsFit, DoneFits
<1> QED BY <1>2, <1>4, <1>5, <1>6 DEF D!Take, Exists

LEMMA HandOverShows ==
  ASSUME PromiseInv, NEW d \in Deploy, PlaybookSucceeds(d) \/ AgentSucceeds(d), Served' = Served
  PROVE  D!HandOver(d)
<1>t. TypeOK /\ {"applying", "succeeding"} \subseteq Stage
  BY DEF PromiseInv, DeployInv, Stage, Ended
<1>1. PICK from \in {"playing", "installing"}, to \in {"applying", "succeeding"} :
        Moves(d, from, to) /\ job'[d].done = job[d].done
  BY <1>t, KeepMoves DEF PlaybookSucceeds, AgentSucceeds
<1>2. Exists /\ state' = "running" /\ task' = task /\ job[d].done = job[d].list
  BY DEF PlaybookSucceeds, AgentSucceeds, SetState
<1>3. from \in Running /\ from \notin Out /\ to \notin Out
  BY DEF Running, Out, Ended
<1>4. D!Working(d)
  BY <1>1, <1>3, UnderWay DEF Moves
<1>5. Brought[d] = job[d].done /\ Brought' = Brought /\ Quit' = Quit
  BY <1>t, <1>1, <1>3, SeenMoves
<1>6. Served \subseteq job[d].list
  BY <1>1 DEF Moves, PromiseInv, JobsFit, ListFits
<1> QED BY <1>2, <1>4, <1>5, <1>6 DEF D!HandOver, Exists

LEMMA SucceedShows ==
  ASSUME PromiseInv, NEW d \in Deploy, Complete(d) \/ AgentCloses(d), Served' = Served
  PROVE  D!Succeed(d)
<1>t. TypeOK /\ "over" \in Stage
  BY DEF PromiseInv, DeployInv, Stage, Ended
<1>1. PICK from \in {"applying", "succeeding"} : Moves(d, from, "over") /\ job'[d].done = {}
  BY <1>t, AdvanceMoves DEF Complete, AgentCloses
<1>2. state' = state /\ \E v \in D!Good : task' = [task EXCEPT ![d] = v]
  BY DEF Complete, AgentCloses, SetStatus, D!Good
<1>3. from \in Running /\ from \notin Out /\ "over" \in Out
  BY DEF Running, Out, Ended
<1>4. D!Working(d)
  BY <1>1, <1>3, UnderWay DEF Moves
<1>5. Brought[d] = job[d].done /\ Quit' = Quit \cup {d} /\ Brought' = [Brought EXCEPT ![d] = {}]
  BY <1>t, <1>1, <1>3, SeenMoves
<1>6. Served \subseteq job[d].done
  BY <1>1 DEF Moves, PromiseInv, JobsFit, HandsOver
<1> QED BY <1>2, <1>4, <1>5, <1>6 DEF D!Succeed

LEMMA BringShows ==
  ASSUME PromiseInv, NEW d \in Deploy, NEW h \in Host, PlayHost(d, h) \/ AgentHost(d, h), Served' = Served
  PROVE  D!Bring(d, h)
<1>t. TypeOK
  BY DEF PromiseInv, DeployInv
<1>1. /\ job[d].at \in {"playing", "installing"} /\ job' = [job EXCEPT ![d].done = @ \cup {h}]
      /\ UNCHANGED <<state, task>>
  BY DEF PlayHost, AgentHost
<1>2. Moves(d, job[d].at, job[d].at) /\ job'[d].done = job[d].done \cup {h}
  BY <1>t, <1>1, OneMore
<1>3. D!Working(d)
  BY <1>1, UnderWay DEF Running, Out, Ended
<1>4. Brought[d] = job[d].done /\ Brought' = [Brought EXCEPT ![d] = job[d].done \cup {h}] /\ Quit' = Quit
  BY <1>t, <1>2, SeenMoves
<1> QED BY <1>1, <1>3, <1>4 DEF D!Bring

LEMMA PostShows ==
  ASSUME PromiseInv, NEW d \in Deploy, PostTask(d), Served' = Served
  PROVE  D!Post(d)
<1>t. TypeOK /\ "queued" \in Stage
  BY DEF PromiseInv, DeployInv, Stage, Ended
<1>1. Moves(d, "checked", "queued") /\ job'[d].done = {}
  BY <1>t, AdvanceMoves DEF PostTask
<1>2. task' = [task EXCEPT ![d] = "running"] /\ state' = state
  BY DEF PostTask, SetStatus
<1>3. task[d] = "none" /\ job[d].done = {}
  BY <1>1 DEF Moves, Unposted, PromiseInv, DeployInv, TasksFollow, TaskFollows, JobsFit, DoneFits
<1>4. d \notin Quit /\ Quit' = Quit /\ Brought' = Brought
  <2>1. "checked" \notin Out /\ "queued" \notin Out
    BY DEF Out, Ended
  <2> QED BY <1>t, <1>1, <1>3, <2>1, SeenMoves
<1> QED BY <1>2, <1>3, <1>4 DEF D!Post

\* Before the first host.
LEMMA NothingShows ==
  ASSUME PromiseInv, NEW d \in Deploy, CheckDeploy(d) \/ StopOwnUnits(d), Served' = Served
  PROVE  UNCHANGED D!pvars
<1>t. TypeOK /\ {"checked", "ports"} \subseteq Stage
  BY DEF PromiseInv, DeployInv, Stage, Ended
<1>1. PICK from \in {"idle", "queued"}, to \in {"checked", "ports"} : Moves(d, from, to) /\ job'[d].done = {}
  BY <1>t, AdvanceMoves, LoadMoves DEF CheckDeploy, StopOwnUnits
<1>2. UNCHANGED <<state, task>>
  BY DEF CheckDeploy, StopOwnUnits
<1>3. job[d].done = {} /\ from \notin Out /\ to \notin Out
  BY <1>1 DEF Moves, PromiseInv, JobsFit, DoneFits, Out, Ended
<1>4. Quit' = Quit /\ Brought' = Brought
  BY <1>t, <1>1, <1>3, SeenMoves
<1> QED BY <1>2, <1>4 DEF D!pvars

\* The cluster or a service was removed under the deploy.
LEMMA EscapeShows ==
  ASSUME PromiseInv, NEW d \in Deploy, Escape(d) \/ FlushFails(d), Served' = Served
  PROVE  D!Fail(d) \/ D!Quit(d) \/ D!Turn \/ UNCHANGED D!pvars
<1>1. PICK from \in {"queued", "ports", "rejecting", "playing", "installing"}, to \in {"over", "stranded"} :
        Advance(d, from, to)
  BY DEF Escape, FlushFails
<1>2. state' = state /\ (SetStatus(d, "error") \/ UNCHANGED task)
  BY DEF Escape, FlushFails
<1>3. to \in Out /\ from \notin Ended
  BY DEF Out, Ended
<1>4. CASE UNCHANGED task
  BY <1>1, <1>2, <1>3, <1>4, QuitShows
<1>5. CASE SetStatus(d, "error") /\ from \in Running
  BY <1>1, <1>2, <1>3, <1>5, FailShows
<1>6. CASE SetStatus(d, "error") /\ from = "rejecting"
  <2>1. task[d] = "error"
    BY <1>1, <1>6 DEF Advance, PromiseInv, DeployInv, TasksFollow, TaskFollows
  <2>2. task' = task
    BY <1>6, <2>1 DEF SetStatus, PromiseInv, DeployInv, TypeOK
  <2> QED BY <1>1, <1>2, <1>3, <2>2, QuitShows
<1>7. from \in Running \/ from = "rejecting"
  BY DEF Running
<1> QED BY <1>2, <1>4, <1>5, <1>6, <1>7

\* A request writes back what it read, or a state its hosts have told it, or takes
\* services away.
LEMMA CommitShows ==
  ASSUME PromiseInv, Commit
  PROVE  D!Turn \/ D!Leave \/ UNCHANGED D!pvars
<1>1. Exists /\ UNCHANGED <<task, job>> /\ op.kind \in {"status", "start", "stop", "delete", "remove"}
  BY DEF Commit, PromiseInv, OpFits, GoneFits, DeployInv, TypeOK
<1>2. Synced(op.state, op.svc) \in {op.state, "running", "stopped", "error"}
  BY DEF Synced
<1>3. CASE op.kind # "remove"
  <2>1. state' = "gone" \/ state' = Written(state, op.state, Wanted)
    BY DEF Commit, SetState
  <2>2. Wanted \in {op.state, "running", "stopped", "error"}
    BY <1>1, <1>2 DEF Wanted
  <2>3. state' = state \/ state' \in {"running", "stopped", "error", "gone"}
    BY <2>1, <2>2 DEF Written
  <2> QED BY <1>1, <1>3, <2>3, HeaderStep, CommitServed
<1>4. CASE op.kind = "remove"
  <2>1. Wanted = op.state
    BY <1>4 DEF Wanted
  <2>2. state' = state
    BY <1>4, <2>1 DEF Commit, SetState, Written
  <2>3. Served' \in SUBSET Served
    BY CommitServed
  <2>4. Brought' = Brought /\ Quit' = Quit
    BY <1>1 DEF Brought, Quit
  <2> QED BY <1>1, <2>2, <2>3, <2>4 DEF D!Leave
<1> QED BY <1>3, <1>4

\* A deploy's own steps, one by one.
LEMMA DeployShows ==
  ASSUME PromiseInv, NEW d \in Deploy, Request(d) \/ Ansible(d) \/ Agents(d) \/ Kill(d)
  PROVE  D!PNext \/ UNCHANGED D!pvars
<1>s. Served' = Served
  BY ServedKept DEF PromiseInv, DeployInv
<1>1. CASE CheckDeploy(d) \/ StopOwnUnits(d)
  BY <1>s, <1>1, NothingShows
<1>2. CASE PostTask(d)
  BY <1>s, <1>2, PostShows DEF D!PNext
<1>3. CASE Reject(d) \/ AgentRefuses(d) \/ AgentFails(d) \/ CloseFailed(d)
  <2>1. \E from \in Running, to \in Out : Advance(d, from, to)
    BY <1>3 DEF Reject, AgentRefuses, AgentFails, CloseFailed, Running, Out, Ended
  <2>2. (SetStatus(d, "error") \/ SetStatus(d, "completed_with_errors")) /\ UNCHANGED state
    BY <1>3 DEF Reject, AgentRefuses, AgentFails, CloseFailed
  <2> QED BY <1>s, <2>1, <2>2, FailShows DEF D!PNext
<1>4. CASE MarkRejected(d) \/ PlaybookFails(d) \/ Kill(d)
  <2>1. UNCHANGED task /\ (state' = state \/ (Exists /\ state' = "error"))
    BY <1>4 DEF MarkRejected, PlaybookFails, Kill, SetState
  <2>2. PICK from \in Stage \ Ended, to \in Out : Advance(d, from, to)
    <3>1. CASE MarkRejected(d)
      BY <3>1 DEF MarkRejected, Stage, Out, Ended
    <3>2. CASE PlaybookFails(d)
      BY <3>2 DEF PlaybookFails, Stage, Out, Ended
    <3>3. CASE Kill(d)
      <4>1. job[d].at \in Stage \ Ended
        BY <3>3 DEF Kill, Live, PromiseInv, DeployInv, TypeOK
      <4>2. Advance(d, job[d].at, "killed") /\ "killed" \in Out
        BY <3>3 DEF Kill, Advance, Out, Ended
      <4> QED BY <4>1, <4>2
    <3> QED BY <1>4, <3>1, <3>2, <3>3
  <2> QED BY <1>s, <2>1, <2>2, QuitShows DEF D!PNext
<1>5. CASE MarkDeploying(d) \/ AgentMarks(d)
  BY <1>s, <1>5, TakeShows DEF D!PNext
<1>6. CASE PlaybookSucceeds(d) \/ AgentSucceeds(d)
  BY <1>s, <1>6, HandOverShows DEF D!PNext
<1>7. CASE Complete(d) \/ AgentCloses(d)
  BY <1>s, <1>7, SucceedShows DEF D!PNext
<1>8. CASE \E h \in Host : PlayHost(d, h) \/ AgentHost(d, h)
  BY <1>s, <1>8, BringShows DEF D!PNext
<1>9. CASE Escape(d) \/ FlushFails(d)
  BY <1>s, <1>9, EscapeShows DEF D!PNext
<1> QED BY <1>1, <1>2, <1>3, <1>4, <1>5, <1>6, <1>7, <1>8, <1>9 DEF Request, Ansible, Agents

LEMMA StepShown ==
  ASSUME PromiseInv, [Next]_vars
  PROVE  D!PNext \/ UNCHANGED D!pvars
<1>1. ASSUME NEW d \in Deploy, Request(d) \/ Ansible(d) \/ Agents(d) \/ Kill(d)
      PROVE  D!PNext \/ UNCHANGED D!pvars
  BY <1>1, DeployShows
<1>2. CASE Commit
  BY <1>2, CommitShows DEF D!PNext
<1>3. CASE GetCluster
  <2>1. Synced(state, svc) \in {state, "running", "stopped", "error"}
    BY DEF Synced
  <2>2. /\ Exists /\ UNCHANGED <<task, job, svc>>
        /\ state' \in {state, "running", "stopped", "error"}
    BY <1>3, <2>1 DEF GetCluster, SetState
  <2>3. Served' = Served
    BY <2>2 DEF Served
  <2> QED BY <2>2, <2>3, HeaderStep DEF D!PNext
<1>4. CASE UNCHANGED <<state, svc, task, job>>
  <2>1. Served' = Served
    BY <1>4 DEF Served
  <2> QED BY <1>4, <2>1, HeaderStep DEF D!PNext
<1>5. ASSUME \/ UNCHANGED vars \/ \E kind, hosts : Begin(kind, hosts)
             \/ \E h \in Host : ProbeHost(h) \/ ProbeFails(h) \/ StartHost(h) \/ StopHost(h) \/ UnitDies(h)
      PROVE  UNCHANGED <<state, svc, task, job>>
  BY <1>5 DEF vars, Begin, ProbeHost, ProbeFails, StartHost, StopHost, UnitDies
<1> QED BY <1>1, <1>2, <1>3, <1>4, <1>5 DEF Next, Change, BeginRemove, Watch

\* However many deploys, starts, stops, deletes, removals of services and polls of
\* one cluster overlap, and from whatever stale rows they write back, the operator
\* is promised what DeployPromise says: each deploy gets one verdict, a good one
\* only when it has itself brought up every host whose service is still there,
\* and no cluster is handed over sooner.
THEOREM DeploymentKeepsPromise == Spec => KeepsDeployPromise
<1>1. Init => D!PInit
  <2> SUFFICES ASSUME Init PROVE D!PInit
    OBVIOUS
  <2>1. Brought = [d \in Deploy |-> {}]
    BY DEF Brought, Init
  <2>2. Quit = {}
    BY DEF Quit, Init, Ended
  <2>3. Served = Host
    BY DEF Served, Init
  <2> QED BY <2>1, <2>2, <2>3 DEF Init, D!PInit
<1>2. PromiseInv /\ [Next]_vars => [D!PNext]_(D!pvars)
  BY StepShown
<1> QED BY <1>1, <1>2, PromiseInvariant, PTL DEF Spec, KeepsDeployPromise, D!PSafety

=============================================================================
