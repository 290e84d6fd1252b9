------------------------------ MODULE TaskLog ------------------------------
(***************************************************************************)
(* The log of a deploy task and the consoles that follow it: the capped    *)
(* list each deployer keeps in the DeploymentTask row, the sentinel line   *)
(* the initial ACLs travel in, and the WebSocket of api/ws.py, which polls *)
(* the row and remembers how many lines it has sent.                       *)
(*                                                                         *)
(* Lines are named by the order they were logged in, from 1 on; the        *)
(* truncation marker is 0.                                                 *)
(***************************************************************************)
EXTENDS Naturals, Sequences, SequencesExt

CONSTANTS
    MaxLines,     \* _MAX_LOG_LINES
    HeadLines,    \* lines kept from the start of a log that is cut
    MaxLogged,    \* bound: lines a deploy writes
    Viewer        \* consoles following the task

\* 5000 and 200 in the code: the tail a cut keeps is never empty.
ASSUME LogAssumption ==
    /\ MaxLines \in Nat /\ HeadLines \in Nat \ {0} /\ MaxLogged \in Nat
    /\ HeadLines + 1 < MaxLines

VARIABLES
    log,          \* DeploymentTask.logs
    logged,       \* how many lines have been logged
    status,       \* DeploymentTask.status
    stage,        \* where the deploy is
    sentinel,     \* the line that carries the initial ACLs, 0 for none
    view          \* view[v]: the console's socket, its last_index, what it was sent

logVars == <<log, logged, status, stage, sentinel, view>>

Marker == 0
Line == 0 .. MaxLogged
Final == {"completed", "completed_with_errors", "error", "success"}
OverAgents == {"agent", "agent over"}

LogTypeOK ==
    /\ log \in Seq(Line)
    /\ logged \in Line
    /\ status \in Final \cup {"none", "running"}
    /\ stage \in {"new", "posted", "ssh", "up", "closing", "over"} \cup OverAgents
    /\ sentinel \in Line
    /\ view \in [Viewer -> [at : {"off", "on", "over"}, index : Nat, sent : Seq(Line)]]

LogInit ==
    /\ log = <<>>
    /\ logged = 0
    /\ status = "none"
    /\ stage = "new"
    /\ sentinel = 0
    /\ view = [v \in Viewer |-> [at |-> "off", index |-> 0, sent |-> <<>>]]

-----------------------------------------------------------------------------
(* The row.                                                                *)

\* Seeded fault: the tail one line too long.
CappedLong(lines) ==
    IF Len(lines) > MaxLines
    THEN SubSeq(lines, 1, HeadLines) \o <<Marker>>
         \o SubSeq(lines, Len(lines) - (MaxLines - HeadLines - 1), Len(lines))
    ELSE lines

\* The cap: head, marker and tail, the middle dropped.
Capped(lines) ==
    IF Len(lines) > MaxLines
    THEN SubSeq(lines, 1, HeadLines) \o <<Marker>>
         \o SubSeq(lines, Len(lines) - (MaxLines - HeadLines - 1) + 1, Len(lines))
    ELSE lines

\* The agent deployer's own cap: the newest lines, neither head nor marker.
Trimmed(lines) ==
    IF Len(lines) > MaxLines THEN SubSeq(lines, Len(lines) - MaxLines + 1, Len(lines)) ELSE lines

\* The next line joins the log: _append_log of the deployer that writes it.
AppendLog ==
    /\ logged < MaxLogged
    /\ logged' = logged + 1
    /\ LET lines == Append(log, logged + 1) IN
         log' = IF stage = "agent" THEN Trimmed(lines) ELSE Capped(lines)

\* init_task: the row of a fresh task.
InitTask ==
    /\ stage = "new"
    /\ stage' = "posted"
    /\ status' = "running"
    /\ UNCHANGED <<log, logged, sentinel, view>>

\* start_deployment appends the ACLs the wizard asked for as the first line; this
\* one append looks at no cap.
StashAcls ==
    /\ stage = "posted"
    /\ sentinel = 0
    /\ logged = 0 /\ MaxLogged > 0
    /\ logged' = 1
    /\ log' = Append(log, 1)
    /\ sentinel' = 1
    /\ UNCHANGED <<status, stage, view>>

\* deploy_cluster picks its path and says so.
PickPath(path) ==
    /\ stage = "posted"
    /\ stage' = path
    /\ AppendLog
    /\ UNCHANGED <<status, sentinel, view>>

\* Any line of a deploy at work, or of its cleanup.
LogLine ==
    /\ stage \in {"ssh", "up", "agent", "closing"}
    /\ AppendLog
    /\ UNCHANGED <<status, stage, sentinel, view>>

\* The playbook has succeeded: the sentinel line is filtered out of the log, which
\* has one, the line StashAcls logged.
TakeAcls ==
    /\ stage = "ssh"
    /\ stage' = "up"
    /\ log' = IF sentinel = 0 THEN log ELSE RemoveFirst(log, sentinel)
    /\ sentinel' = 0
    /\ UNCHANGED <<logged, status, view>>

\* Seeded fault: the step is written where the status belongs.
SetStatusSwapped(s) ==
    /\ stage = "up" /\ s = "completed" /\ stage' = "closing"
    /\ status' = stage
    /\ UNCHANGED <<log, logged, sentinel, view>>

\* _set_status: after the playbook the verdict comes before the closing lines,
\* on every other path it is the last thing the task is told.
SetStatus(s) ==
    /\ \/ stage = "up" /\ s = "completed" /\ stage' = "closing"
       \/ stage = "ssh" /\ s = "completed_with_errors" /\ stage' = "closing"
       \/ stage = "ssh" /\ s = "error" /\ stage' = "over"
       \/ stage = "agent" /\ s \in {"error", "success"} /\ stage' = "agent over"
    /\ status' = s
    /\ UNCHANGED <<log, logged, sentinel, view>>

\* The deploy returns, its closing lines written.
Return ==
    /\ stage = "closing"
    /\ stage' = "over"
    /\ UNCHANGED <<log, logged, status, sentinel, view>>

-----------------------------------------------------------------------------
(* A console.                                                              *)

\* deployment_logs accepts a viewer with a valid token: nothing sent yet.
Open(v) ==
    /\ view[v].at = "off"
    /\ stage # "new"
    /\ view' = [view EXCEPT ![v].at = "on"]
    /\ UNCHANGED <<log, logged, status, stage, sentinel>>

\* Seeded fault: last_index names the line sent last.
NewsAgain(v) ==
    LET i == view[v].index IN
    IF i < Len(log) THEN SubSeq(log, IF i = 0 THEN 1 ELSE i, Len(log)) ELSE <<>>

\* Seeded fault: only the newest line is sent.
NewestOnly(v) == IF view[v].index < Len(log) THEN <<log[Len(log)]>> ELSE <<>>

\* What a poll finds past last_index.
News(v) == IF view[v].index < Len(log) THEN SubSeq(log, view[v].index + 1, Len(log)) ELSE <<>>

\* The statuses a stream is ended on.
EndsStream == {"completed", "completed_with_errors", "error"}

\* One round of the polling loop: one read of the row gives lines and status.
Poll(v) ==
    /\ view[v].at = "on"
    /\ view' = [view EXCEPT ![v] =
                  [at |-> IF status \in EndsStream THEN "over" ELSE "on",
                   index |-> IF view[v].index < Len(log) THEN Len(log) ELSE view[v].index,
                   sent |-> view[v].sent \o News(v)]]
    /\ UNCHANGED <<log, logged, status, stage, sentinel>>

-----------------------------------------------------------------------------
Deploy == \/ InitTask \/ StashAcls \/ LogLine \/ TakeAcls \/ Return
          \/ \E path \in {"ssh", "agent"} : PickPath(path)
          \/ \E s \in Final : SetStatus(s)

LogNext == Deploy \/ \E v \in Viewer : Open(v) \/ Poll(v)

LogSpec == LogInit /\ [][LogNext]_logVars
LogFairSpec == LogSpec /\ \A v \in Viewer : WF_logVars(Poll(v))

-----------------------------------------------------------------------------
(* Properties.                                                             *)

\* The row stays bounded and ends with the newest line. Of a deploy by SSH a cut
\* costs only the middle: the log is the first lines logged (from the second on when
\* the sentinel has left), then markers (two when it left after a cut), then the last
\* lines without a gap. Of a deploy by agents it is the last lines without a gap.
IsRun(lines) == \A i \in 1 .. Len(lines) - 1 : lines[i + 1] = lines[i] + 1
IsOpening(lines) == IsRun(lines) /\ (lines # <<>> => lines[1] \in {1, 2})
HeadAndTail ==
    /\ Len(log) <= MaxLines
    /\ log # <<>> => log[Len(log)] = logged
    /\ stage \in OverAgents => IsRun(log)
    /\ stage \notin OverAgents =>
         IsOpening(log) \/ \E first, last \in 1 .. Len(log) :
            /\ HeadLines <= first /\ first <= last
            /\ IsOpening(SubSeq(log, 1, first - 1))
            /\ \A i \in first .. last : log[i] = Marker
            /\ IsRun(SubSeq(log, last + 1, Len(log)))

\* No console is shown a line twice or out of order, although the list it indexes
\* is cut and loses its sentinel between two polls.
StreamInOrder ==
    \A v \in Viewer : LET sent == view[v].sent IN
        \A i, j \in 1 .. Len(sent) : i < j /\ sent[j] # Marker => sent[i] < sent[j]

\* Nothing was taken from the log, by a cut or with the sentinel: until it is cut,
\* for a deploy without initial ACLs.
Whole == logged <= MaxLines /\ (log # <<>> => log[1] = 1) /\ sentinel = 0

\* From a log that is whole a console has been sent a prefix: polls neither skip
\* nor repeat a line.
StreamIsPrefix == Whole => \A v \in Viewer : IsPrefix(view[v].sent, log)

\* The task and its consoles as StreamPromise sees them.
Decided == status \in EndsStream
ConsoleAt == [v \in Viewer |-> view[v].at]
ConsoleShown == [v \in Viewer |-> view[v].sent]
Stream == INSTANCE StreamPromise WITH
              Follower <- Viewer, Gap <- Marker, written <- logged, whole <- Whole,
              ended <- Decided, at <- ConsoleAt, shown <- ConsoleShown

\* However the row is cut, filtered and polled, a console keeps what it promises
\* to who follows a deploy: lines in order, none twice, none taken back; all of
\* them while the log is whole; and no end before the verdict.
KeepsStreamPromise == Stream!PSafety

\* What DeploymentTask.status may be by the model's comment, and so what
\* deployment_logs waits for: a stream ends once the deploy has its verdict.
StreamEnds == \A v \in Viewer : (view[v].at = "on" /\ status \in Final) ~> (view[v].at = "over")

\* What a console that was open from the start has seen when it is closed.
StreamComplete ==
    \A v \in Viewer : view[v].at = "over" /\ stage \in {"over", "agent over"} =>
        log = <<>> \/ \E i \in 1 .. Len(view[v].sent) : view[v].sent[i] = log[Len(log)]

=============================================================================
