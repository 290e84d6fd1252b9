------------------------------ MODULE AgentRpc ------------------------------
(***************************************************************************)
(* One operation on a host through its agent: the synchronous caller in    *)
(* FastAPI's threadpool (services/agent_transport.py), the send_cmd        *)
(* coroutine on the event loop (services/agent_registry.py), the receive   *)
(* loop that delivers answers (api/agents.py), the agent that runs the     *)
(* command (src/agent) and the SSH fallback.  Three clocks run: the        *)
(* agent's own deadline, wait_for in the coroutine (+5 s) and              *)
(* future.result in the caller (+10 s); each may be the first to fire.     *)
(*                                                                         *)
(* The sessions are those of one host on one worker; AgentLink models how  *)
(* they come and go in full.                                               *)
(***************************************************************************)
EXTENDS Naturals, FiniteSets

CONSTANTS
    Call,          \* operations callers ask for
    Session,       \* sessions the host's agent opens, one after the other
    NoSession      \* the registry has no session for the host

ASSUME RpcAssumption == NoSession \notin Session

VARIABLES
    caller,        \* caller[c]: the thread in run_op and in its caller
    via,           \* via[c]: the session send_cmd was submitted to
    co,            \* co[c]: where the send_cmd coroutine is
    fut,           \* fut[c]: the entry of c in its session's pending dict
    slot,          \* registry.get(host_id)
    link,          \* link[s]: the session's connection
    wire,          \* frames in flight
    exec,          \* exec[c]: what the agent is doing about c
    runs,          \* runs[c]: how often the agent has run c
    ssh            \* ssh[c]: how often the fallback has run c

vars == <<caller, via, co, fut, slot, link, wire, exec, runs, ssh>>

Raised == {"noagent", "failed", "timeout"}

\* What the agent may answer.  "result" is a result frame with the exit code, a
\* kill at the deadline included; "expired" the error frame (code timeout) of a
\* command that outlived its deadline and could not be killed, or had just ended
\* well; "refused" any other error frame; "unstarted" the result frame (exit code
\* -1, the reason in stderr) of a command that could not be started.
Ran == {"result", "expired"}
NotRun == {"refused", "unstarted"}
Answer == Ran \cup NotRun

Frame == [kind : {"cmd"} \cup Answer, call : Call, sess : Session]

TypeOK ==
    /\ caller \in [Call -> {"idle", "waiting"} \cup Answer \cup Raised]
    /\ via \in [Call -> Session \cup {NoSession}]
    /\ co \in [Call -> {"none", "locking", "sending", "awaiting", "over"}]
    /\ fut \in [Call -> {"absent", "unset"} \cup Answer]
    /\ slot \in Session \cup {NoSession}
    /\ link \in [Session -> {"unused", "open", "dead", "ended"}]
    /\ wire \subseteq Frame
    /\ exec \in [Call -> {"none", "running", "over"}]
    /\ runs \in [Call -> Nat]
    /\ ssh \in [Call -> Nat]

Init ==
    /\ caller = [c \in Call |-> "idle"]
    /\ via = [c \in Call |-> NoSession]
    /\ co = [c \in Call |-> "none"]
    /\ fut = [c \in Call |-> "absent"]
    /\ slot = NoSession
    /\ link = [s \in Session |-> "unused"]
    /\ wire = {}
    /\ exec = [c \in Call |-> "none"]
    /\ runs = [c \in Call |-> 0]
    /\ ssh = [c \in Call |-> 0]

-----------------------------------------------------------------------------
(* The caller's thread.                                                    *)

\* run_op: without a session it raises, else send_cmd is submitted to the loop,
\* where it puts a future into pending before it sends anything.
Invoke(c) ==
    /\ caller[c] = "idle"
    /\ IF slot = NoSession
       THEN /\ caller' = [caller EXCEPT ![c] = "noagent"]
            /\ UNCHANGED <<via, co, fut>>
       ELSE /\ caller' = [caller EXCEPT ![c] = "waiting"]
            /\ via' = [via EXCEPT ![c] = slot]
            /\ co' = [co EXCEPT ![c] = "locking"]
            /\ fut' = [fut EXCEPT ![c] = "unset"]
    /\ UNCHANGED <<slot, link, wire, exec, runs, ssh>>

\* future.result(timeout) gives up; the coroutine is not cancelled.
CallerTimeout(c) ==
    /\ caller[c] = "waiting"
    /\ caller' = [caller EXCEPT ![c] = "timeout"]
    /\ UNCHANGED <<via, co, fut, slot, link, wire, exec, runs, ssh>>

\* Seeded fault: the fallback starts while the agent may still answer.
FallbackEager(c) ==
    /\ caller[c] \in Raised \cup {"waiting"}
    /\ ssh[c] = 0
    /\ ssh' = [ssh EXCEPT ![c] = @ + 1]
    /\ UNCHANGED <<caller, via, co, fut, slot, link, wire, exec, runs>>

\* try_systemctl_* and _run_kafka_cmd: whatever was raised, do it over SSH.
Fallback(c) ==
    /\ caller[c] \in Raised
    /\ ssh[c] = 0
    /\ ssh' = [ssh EXCEPT ![c] = @ + 1]
    /\ UNCHANGED <<caller, via, co, fut, slot, link, wire, exec, runs>>

-----------------------------------------------------------------------------
(* send_cmd on the event loop.                                             *)

\* send_lock serialises the frames of one session.
AcquireLock(c) ==
    /\ co[c] = "locking"
    /\ \A d \in Call : via[d] = via[c] => co[d] # "sending"
    /\ co' = [co EXCEPT ![c] = "sending"]
    /\ UNCHANGED <<caller, via, fut, slot, link, wire, exec, runs, ssh>>

\* The frame is written; into a dead socket's buffer it is written for nothing.
SendFrame(c) ==
    /\ co[c] = "sending"
    /\ link[via[c]] \in {"open", "dead"}
    /\ wire' = IF link[via[c]] = "open"
               THEN wire \cup {[kind |-> "cmd", call |-> c, sess |-> via[c]]} ELSE wire
    /\ co' = [co EXCEPT ![c] = "awaiting"]
    /\ UNCHANGED <<caller, via, fut, slot, link, exec, runs, ssh>>

\* Seeded fault: send_cmd without its finally block.
FinishUnpopped(c, outcome) ==
    /\ co' = [co EXCEPT ![c] = "over"]
    /\ caller' = [caller EXCEPT ![c] = IF @ = "waiting" THEN outcome ELSE @]
    /\ UNCHANGED <<via, fut, slot, link, wire, exec, runs, ssh>>

\* The coroutine ends: finally pops the future, and the thread learns outcome
\* unless it has stopped waiting.
Finish(c, outcome) ==
    /\ co' = [co EXCEPT ![c] = "over"]
    /\ fut' = [fut EXCEPT ![c] = "absent"]
    /\ caller' = [caller EXCEPT ![c] = IF @ = "waiting" THEN outcome ELSE @]
    /\ UNCHANGED <<via, slot, link, wire, exec, runs, ssh>>

\* send_text raises on a connection that is known to be gone.
SendFails(c) == co[c] = "sending" /\ link[via[c]] \in {"dead", "ended"} /\ Finish(c, "failed")

\* Seeded fault: the future is awaited without wait_for.
AwaitForever(c) == co[c] = "awaiting" /\ fut[c] = "overdue" /\ Finish(c, "timeout")

\* wait_for fires first.
AwaitTimeout(c) == co[c] = "awaiting" /\ fut[c] = "unset" /\ Finish(c, "timeout")

\* Seeded fault: the future is read before it is set.
ResumeEarly(c) == co[c] = "awaiting" /\ Finish(c, fut[c])

\* The future is set: send_cmd returns what deliver put there.
Resume(c) == co[c] = "awaiting" /\ fut[c] \in Answer /\ Finish(c, fut[c])

\* Seeded fault: an answer goes to every command pending on its session.
DeliveredToAll(f) ==
    [c \in Call |-> IF via[c] = f.sess /\ fut[c] = "unset" THEN f.kind ELSE fut[c]]

\* What deliver does to the pending futures with frame f of session f.sess: it
\* sets the future the frame refers to, if that session has it and it is not done.
Delivered(f) ==
    IF via[f.call] = f.sess /\ fut[f.call] = "unset"
    THEN [fut EXCEPT ![f.call] = f.kind] ELSE fut

\* _receive_loop takes a result or an error frame, in any order they were sent
\* for different commands.
Receive(f) ==
    /\ f \in wire
    /\ f.kind \in Answer
    /\ link[f.sess] \in {"open", "dead"}
    /\ wire' = wire \ {f}
    /\ fut' = Delivered(f)
    /\ UNCHANGED <<caller, via, co, slot, link, exec, runs, ssh>>

-----------------------------------------------------------------------------
(* The agent: a goroutine per command.                                     *)

\* Nothing runs: handleCmd and Dispatcher.Run refuse the command, or exec.Run
\* cannot start it.
Refuse(f) ==
    /\ f \in wire
    /\ f.kind = "cmd"
    /\ link[f.sess] = "open"
    /\ \E answer \in NotRun : wire' = (wire \ {f}) \cup {[f EXCEPT !.kind = answer]}
    /\ exec' = [exec EXCEPT ![f.call] = "over"]
    /\ UNCHANGED <<caller, via, co, fut, slot, link, runs, ssh>>

\* Seeded fault: the frame stays to be read again.
ExecuteAgain(f) ==
    /\ f \in wire
    /\ f.kind = "cmd"
    /\ link[f.sess] = "open"
    /\ runs[f.call] < 2
    /\ exec' = [exec EXCEPT ![f.call] = "running"]
    /\ runs' = [runs EXCEPT ![f.call] = @ + 1]
    /\ UNCHANGED <<caller, via, co, fut, slot, link, wire, ssh>>

\* Permitted: the command is started on the host.
Execute(f) ==
    /\ f \in wire
    /\ f.kind = "cmd"
    /\ link[f.sess] = "open"
    /\ wire' = wire \ {f}
    /\ exec' = [exec EXCEPT ![f.call] = "running"]
    /\ runs' = [runs EXCEPT ![f.call] = @ + 1]
    /\ UNCHANGED <<caller, via, co, fut, slot, link, ssh>>

\* exec.Run and runResult: the command has ended, at its deadline or before.
Reply(c) ==
    /\ exec[c] = "running"
    /\ link[via[c]] = "open"
    /\ exec' = [exec EXCEPT ![c] = "over"]
    /\ \E answer \in Ran :
         wire' = wire \cup {[kind |-> answer, call |-> c, sess |-> via[c]]}
    /\ UNCHANGED <<caller, via, co, fut, slot, link, runs, ssh>>

-----------------------------------------------------------------------------
(* The session.                                                            *)

\* The agent connects: one connection at a time, as it is one process.
Connect(s) ==
    /\ link[s] = "unused"
    /\ \A r \in Session : link[r] # "open"
    /\ link' = [link EXCEPT ![s] = "open"]
    /\ slot' = s
    /\ UNCHANGED <<caller, via, co, fut, wire, exec, runs, ssh>>

\* The connection breaks: commands not yet read are lost, running ones cancelled
\* with receiveLoop's context (their goroutines have nobody to answer), answers on
\* their way may be lost.
Drop(s) ==
    /\ link[s] = "open"
    /\ link' = [link EXCEPT ![s] = "dead"]
    /\ \E kept \in SUBSET {f \in wire : f.kind # "cmd"} : wire' = kept
    /\ exec' = [c \in Call |-> IF exec[c] = "running" THEN "over" ELSE exec[c]]
    /\ UNCHANGED <<caller, via, co, fut, slot, runs, ssh>>

\* The receive loop of session s ends and empties the host's slot; futures that
\* are pending on the session are left as they are.
EndLoop(s) ==
    /\ link[s] = "dead"
    /\ link' = [link EXCEPT ![s] = "ended"]
    /\ slot' = NoSession
    /\ wire' = {f \in wire : f.sess # s}
    /\ UNCHANGED <<caller, via, co, fut, exec, runs, ssh>>

-----------------------------------------------------------------------------
Send(c) == SendFrame(c) \/ SendFails(c)

Next ==
    \/ \E c \in Call : \/ Invoke(c) \/ CallerTimeout(c) \/ Fallback(c)
                       \/ AcquireLock(c) \/ Send(c) \/ AwaitTimeout(c) \/ Resume(c)
                       \/ Reply(c)
    \/ \E f \in wire : Receive(f) \/ Refuse(f) \/ Execute(f)
    \/ \E s \in Session : Connect(s) \/ Drop(s) \/ EndLoop(s)

\* The clocks run and the loop is fair to its coroutines; the agent, the
\* network and the callers owe nothing.
Fairness == \A c \in Call :
    /\ WF_vars(CallerTimeout(c)) /\ WF_vars(Fallback(c))
    /\ WF_vars(AcquireLock(c)) /\ WF_vars(Send(c))
    /\ WF_vars(AwaitTimeout(c) \/ Resume(c))

Spec == Init /\ [][Next]_vars
FairSpec == Spec /\ Fairness

-----------------------------------------------------------------------------
(* Properties.                                                             *)

\* An answer the agent gave is true of the host: a result or a timeout error says
\* that the command has run, a refusal or a failed start that it has not; and
\* nothing runs the operation behind the caller's back once it has an answer: no
\* late frame, no fallback.
TruthfulAnswer ==
    \A c \in Call : caller[c] \in Answer =>
        /\ runs[c] = IF caller[c] \in Ran THEN 1 ELSE 0
        /\ ssh[c] = 0
        /\ exec[c] = "over"
        /\ \A f \in wire : f.call = c => f.kind # "cmd"

\* However calls time out, sessions are replaced and answers get lost, the agent
\* runs an operation at most once: no frame is sent or read twice.
AgentAtMostOnce == \A c \in Call : runs[c] <= 1

\* A future is pending exactly as long as its coroutine waits for it, so a late
\* answer finds nothing and the pending dict does not grow with timeouts.
PendingMatchesCoroutine ==
    \A c \in Call : fut[c] # "absent" <=> co[c] \in {"locking", "sending", "awaiting"}

\* Every caller gets an answer or is sent to the fallback in the end, and every
\* coroutine ends, even if the session is stuck or gone.
CallsEnd == \A c \in Call : /\ (caller[c] = "waiting") ~> (caller[c] # "waiting")
                            /\ (fut[c] # "absent") ~> (fut[c] = "absent")

\* The calls as RpcPromise sees them.
PromisedAnswer == [c \in Call |-> CASE caller[c] = "idle" -> "none"
                                    [] caller[c] = "waiting" -> "open"
                                    [] caller[c] \in Raised -> "none yet"
                                    [] caller[c] \in Ran -> "ran"
                                    [] OTHER -> "not run"]
P == INSTANCE RpcPromise WITH answer <- PromisedAnswer, agentRuns <- runs, sshRuns <- ssh

\* The transport keeps the promise: final and truthful answers, at most one run
\* per transport, and an end to every call.
KeepsPromise == P!Promise

\* What docs/AGENT_PROTOCOL.md says of a drop: commands in flight are lost, and
\* the SCM marks them as failed.  Once the session's handler has ended none of
\* its calls is still in flight.
DropFailsInFlight ==
    \A s \in Session, c \in Call : link[s] = "ended" /\ via[c] = s => co[c] # "awaiting"

=============================================================================
