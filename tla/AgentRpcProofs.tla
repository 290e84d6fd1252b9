--------------------------- MODULE AgentRpcProofs ---------------------------
(***************************************************************************)
(* Theorems about AgentRpc for every set of calls and sessions: its types, *)
(* what an answer says of the host, and that the transport keeps the       *)
(* safety part of RpcPromise.                                              *)
(***************************************************************************)
EXTENDS AgentRpc, TLAPS

USE RpcAssumption

-----------------------------------------------------------------------------
(* The inductive invariant: what the parties know of a call fits together. *)

Unsent == {"none", "locking", "sending"}

\* A frame travels on the session its call was submitted to, once the coroutine
\* has written it, and tells what the agent has done: a command that it has not
\* been started, an answer how it ended.
FrameTells(f) ==
    /\ f.sess = via[f.call]
    /\ co[f.call] \notin Unsent
    /\ f.kind = "cmd" => exec[f.call] = "none"
    /\ f.kind \in Ran => exec[f.call] = "over" /\ runs[f.call] = 1
    /\ f.kind \in NotRun => exec[f.call] = "over" /\ runs[f.call] = 0
FramesTell == \A f \in wire : FrameTells(f)

\* The agent has run a call at most once, and not before it is told to.
AgentTells(c) ==
    /\ runs[c] \in {0, 1}
    /\ exec[c] = "none" => runs[c] = 0
    /\ exec[c] = "running" => runs[c] = 1
    /\ co[c] \in Unsent => exec[c] = "none"

\* A future is set to what the agent did, and popped with its coroutine.
FutureTells(c) ==
    /\ fut[c] # "absent" <=> co[c] \in {"locking", "sending", "awaiting"}
    /\ fut[c] \in Ran => exec[c] = "over" /\ runs[c] = 1
    /\ fut[c] \in NotRun => exec[c] = "over" /\ runs[c] = 0

\* The caller waits while the coroutine works, and only one without an answer
\* has fallen back.
CallerTells(c) ==
    /\ caller[c] = "waiting" => co[c] \notin {"none", "over"}
    /\ caller[c] \in {"idle", "noagent"} <=> co[c] = "none"
    /\ co[c] # "none" => via[c] \in Session
    /\ ssh[c] \in {0, 1}
    /\ ssh[c] # 0 => caller[c] \in Raised
    /\ caller[c] \in Ran => exec[c] = "over" /\ runs[c] = 1
    /\ caller[c] \in NotRun => exec[c] = "over" /\ runs[c] = 0

CallTells(c) == AgentTells(c) /\ FutureTells(c) /\ CallerTells(c)
CallsTell == \A c \in Call : CallTells(c)

RpcInv == TypeOK /\ FramesTell /\ CallsTell

LEMMA RpcInit == Init => RpcInv
BY DEF Init, RpcInv, TypeOK, FramesTell, CallsTell, CallTells, AgentTells, FutureTells,
       CallerTells, Raised, Answer, Ran, NotRun, Unsent

LEMMA RpcStep == RpcInv /\ [Next]_vars => RpcInv'
<1> SUFFICES ASSUME RpcInv, [Next]_vars PROVE RpcInv'
  OBVIOUS
<1> USE DEF RpcInv, TypeOK, FramesTell, FrameTells, CallsTell, CallTells, AgentTells,
            FutureTells, CallerTells, Raised, Answer, Ran, NotRun, Unsent
<1>1. ASSUME NEW c \in Call, Invoke(c) PROVE RpcInv'
  <2>1. CASE slot = NoSession
    BY <1>1, <2>1 DEF Invoke
  <2>2. CASE slot # NoSession
    <3>1. /\ caller[c] = "idle" /\ slot \in Session
          /\ caller' = [caller EXCEPT ![c] = "waiting"]
          /\ via' = [via EXCEPT ![c] = slot]
          /\ co' = [co EXCEPT ![c] = "locking"]
          /\ fut' = [fut EXCEPT ![c] = "unset"]
          /\ UNCHANGED <<slot, link, wire, exec, runs, ssh>>
      BY <1>1, <2>2 DEF Invoke
    <3>2. TypeOK' /\ CallsTell'
      BY <3>1
    <3>3. FramesTell'
      BY <3>1 DEF Frame
    <3> QED BY <3>2, <3>3
  <2> QED BY <2>1, <2>2
<1>2. ASSUME NEW c \in Call, CallerTimeout(c) PROVE RpcInv'
  BY <1>2 DEF CallerTimeout
<1>3. ASSUME NEW c \in Call, Fallback(c) PROVE RpcInv'
  BY <1>3 DEF Fallback
<1>4. ASSUME NEW c \in Call, AcquireLock(c) PROVE RpcInv'
  BY <1>4 DEF AcquireLock
<1>5. ASSUME NEW c \in Call, SendFrame(c) PROVE RpcInv'
  <2> DEFINE f == [kind |-> "cmd", call |-> c, sess |-> via[c]]
  <2>1. f \in Frame /\ f.kind = "cmd" /\ f.call = c /\ f.sess = via[c]
    BY <1>5 DEF SendFrame, Frame
  <2>2. wire' \subseteq wire \cup {f} /\ co' = [co EXCEPT ![c] = "awaiting"]
        /\ co[c] = "sending" /\ UNCHANGED <<caller, via, fut, slot, link, exec, runs, ssh>>
    BY <1>5 DEF SendFrame
  <2> HIDE DEF f
  <2>3. CallsTell' /\ TypeOK'
    BY <2>1, <2>2
  <2>4. FramesTell'
    BY <2>1, <2>2 DEF Frame
  <2> QED BY <2>3, <2>4
<1>6. ASSUME NEW c \in Call, SendFails(c) PROVE RpcInv'
  BY <1>6 DEF SendFails, Finish
<1>7. ASSUME NEW c \in Call, AwaitTimeout(c) PROVE RpcInv'
  BY <1>7 DEF AwaitTimeout, Finish
<1>8. ASSUME NEW c \in Call, Resume(c) PROVE RpcInv'
  BY <1>8 DEF Resume, Finish
<1>9. ASSUME NEW c \in Call, Reply(c) PROVE RpcInv'
  BY <1>9 DEF Reply, Frame
<1>10. ASSUME NEW f \in wire, Receive(f) PROVE RpcInv'
  BY <1>10 DEF Receive, Delivered, Frame
<1>11. ASSUME NEW f \in wire, Refuse(f) PROVE RpcInv'
  BY <1>11 DEF Refuse, Frame
<1>12. ASSUME NEW f \in wire, Execute(f) PROVE RpcInv'
  BY <1>12 DEF Execute, Frame
<1>13. ASSUME NEW s \in Session, Connect(s) PROVE RpcInv'
  BY <1>13 DEF Connect
<1>14. ASSUME NEW s \in Session, Drop(s) PROVE RpcInv'
  <2>1. wire' \subseteq {f \in wire : f.kind # "cmd"}
    BY <1>14 DEF Drop
  <2>2. FramesTell'
    BY <1>14, <2>1 DEF Drop, Frame
  <2>3. TypeOK' /\ CallsTell'
    BY <1>14, <2>1 DEF Drop
  <2> QED BY <2>2, <2>3
<1>15. ASSUME NEW s \in Session, EndLoop(s) PROVE RpcInv'
  BY <1>15 DEF EndLoop
<1>16. CASE UNCHANGED vars
  BY <1>16 DEF vars
<1>17. ASSUME NEW c \in Call, Send(c) PROVE RpcInv'
  BY <1>5, <1>6, <1>17 DEF Send
<1> QED
  <2> HIDE DEF RpcInv, TypeOK, FramesTell, CallsTell
  <2> QED BY <1>1, <1>2, <1>3, <1>4, <1>7, <1>8, <1>9, <1>10, <1>11, <1>12,
             <1>13, <1>14, <1>15, <1>16, <1>17 DEF Next

LEMMA RpcInvariant == Spec => []RpcInv
BY RpcInit, RpcStep, PTL DEF Spec

\* Every variable of the transport keeps its type.
THEOREM RpcTypeCorrect == Spec => []TypeOK
BY RpcInvariant, PTL DEF RpcInv

\* An answer is true of the host for good: after a result or a timeout error the
\* operation has run exactly once and nothing reruns it, after a refusal or a
\* failed start it has not run and no frame that could start it is left,
\* whichever of the three clocks fired first.
THEOREM AnswersTruthful == Spec => []TruthfulAnswer
<1>1. RpcInv => TruthfulAnswer
  BY DEF RpcInv, TypeOK, FramesTell, FrameTells, CallsTell, CallTells, AgentTells,
         CallerTells, Raised, Answer, Ran, NotRun, TruthfulAnswer
<1> QED BY <1>1, RpcInvariant, PTL

\* Over any number of sessions, drops and late answers the agent runs an
\* operation at most once.
THEOREM RunAtMostOnce == Spec => []AgentAtMostOnce
<1>1. RpcInv => AgentAtMostOnce
  BY DEF RpcInv, CallsTell, CallTells, AgentTells, AgentAtMostOnce
<1> QED BY <1>1, RpcInvariant, PTL

\* The pending dict holds a future exactly as long as its coroutine waits: no
\* timeout, drop or late answer leaves an entry behind.
THEOREM NoFutureLeft == Spec => []PendingMatchesCoroutine
<1>1. RpcInv => PendingMatchesCoroutine
  BY DEF RpcInv, CallsTell, CallTells, FutureTells, PendingMatchesCoroutine
<1> QED BY <1>1, RpcInvariant, PTL

-----------------------------------------------------------------------------
(* The transport implements the promise.  PromisedAnswer maps what a caller *)
(* has to what RpcPromise lets it be told.                                  *)

\* What a caller has been told, one value of caller[c] at a time.
Told(x) == CASE x = "idle" -> "none"
             [] x = "waiting" -> "open"
             [] x \in Raised -> "none yet"
             [] x \in Ran -> "ran"
             [] OTHER -> "not run"

LEMMA ToldValues ==
  /\ Told("idle") = "none" /\ Told("waiting") = "open"
  /\ \A x \in Raised : Told(x) = "none yet"
  /\ \A x \in Ran : Told(x) = "ran"
  /\ \A x \in NotRun : Told(x) = "not run"
BY DEF Told, Raised, Ran, NotRun

LEMMA AnswerTold == PromisedAnswer = [c \in Call |-> Told(caller[c])]
BY DEF PromisedAnswer, Told

\* A step that tells caller c only changes what c has been told.
LEMMA AnswerStep ==
  ASSUME TypeOK, NEW c \in Call, NEW x, caller' = [caller EXCEPT ![c] = x]
  PROVE  PromisedAnswer' = [PromisedAnswer EXCEPT ![c] = Told(x)]
<1>1. PromisedAnswer' = [d \in Call |-> Told(caller'[d])]
  BY DEF PromisedAnswer, Told
<1>2. \A d \in Call : caller'[d] = IF d = c THEN x ELSE caller[d]
  BY DEF TypeOK
<1> QED BY <1>1, <1>2, AnswerTold

LEMMA AnswerKept == UNCHANGED caller => UNCHANGED PromisedAnswer
BY DEF PromisedAnswer

\* A caller that stops waiting for c is told x: Settle of the promise allows it.
LEMMA Settles ==
  ASSUME RpcInv, NEW c \in Call, caller[c] = "waiting", NEW x \in Raised \cup Answer,
         caller' = [caller EXCEPT ![c] = x], UNCHANGED <<runs, ssh>>,
         x \in Ran => runs[c] = 1, x \in NotRun => runs[c] = 0
  PROVE  P!Settle(c)
<1>1. TypeOK
  BY DEF RpcInv
<1>2. PromisedAnswer' = [PromisedAnswer EXCEPT ![c] = Told(x)]
  BY <1>1, AnswerStep
<1>3. PromisedAnswer[c] = "open"
  BY AnswerTold, ToldValues
<1> QED BY <1>2, <1>3, ToldValues DEF P!Settle, Answer

LEMMA PromiseStep == RpcInv /\ RpcInv' /\ [Next]_vars => [P!PNext]_(P!pvars)
<1> SUFFICES ASSUME RpcInv, RpcInv', [Next]_vars PROVE [P!PNext]_(P!pvars)
  OBVIOUS
<1>t. TypeOK /\ CallsTell
  BY DEF RpcInv
<1>k. ASSUME UNCHANGED <<caller, runs, ssh>> PROVE UNCHANGED P!pvars
  BY <1>k, AnswerKept DEF P!pvars
<1>1. ASSUME NEW c \in Call, Invoke(c) PROVE P!Ask(c)
  <2>1. PromisedAnswer[c] = "none"
    BY <1>1, AnswerTold, ToldValues DEF Invoke
  <2>2. PICK x \in {"noagent", "waiting"} : caller' = [caller EXCEPT ![c] = x]
    BY <1>1 DEF Invoke
  <2>3. PromisedAnswer' = [PromisedAnswer EXCEPT ![c] = Told(x)]
    BY <1>t, <2>2, AnswerStep
  <2>4. Told(x) \in {"open", "none yet"}
    BY ToldValues DEF Raised
  <2>5. UNCHANGED <<runs, ssh>>
    BY <1>1 DEF Invoke
  <2> QED BY <2>1, <2>3, <2>4, <2>5 DEF P!Ask
<1>2. ASSUME NEW c \in Call, CallerTimeout(c) PROVE P!Settle(c)
  BY <1>2, Settles DEF CallerTimeout, Raised, Ran, NotRun
<1>3. ASSUME NEW c \in Call, Fallback(c) PROVE P!SshRun(c)
  <2>1. PromisedAnswer[c] = "none yet"
    BY <1>3, AnswerTold, ToldValues DEF Fallback
  <2>2. ssh[c] = 0 /\ ssh' = [ssh EXCEPT ![c] = 1] /\ UNCHANGED <<caller, runs>>
    BY <1>3, <1>t DEF Fallback, TypeOK
  <2> QED BY <2>1, <2>2, AnswerKept DEF P!SshRun
<1>4. ASSUME NEW c \in Call, NEW x \in Raised \cup Answer, Finish(c, x),
             x \in Ran => runs[c] = 1, x \in NotRun => runs[c] = 0
      PROVE  P!Settle(c) \/ UNCHANGED P!pvars
  <2>1. UNCHANGED <<runs, ssh>>
    BY <1>4 DEF Finish
  <2>2. CASE caller[c] = "waiting"
    <3>1. caller' = [caller EXCEPT ![c] = x]
      BY <1>4, <2>2 DEF Finish
    <3> QED BY <1>4, <2>1, <2>2, <3>1, Settles
  <2>3. CASE caller[c] # "waiting"
    <3>1. caller' = caller
      BY <1>4, <1>t, <2>3 DEF Finish, TypeOK
    <3> QED BY <1>k, <2>1, <3>1
  <2> QED BY <2>2, <2>3
<1>5. ASSUME NEW c \in Call, SendFails(c) \/ AwaitTimeout(c)
      PROVE  P!Settle(c) \/ UNCHANGED P!pvars
  BY <1>4, <1>5 DEF SendFails, AwaitTimeout, Raised, Ran, NotRun
<1>6. ASSUME NEW c \in Call, Resume(c) PROVE P!Settle(c) \/ UNCHANGED P!pvars
  <2>1. fut[c] \in Answer /\ Finish(c, fut[c])
    BY <1>6 DEF Resume
  <2>2. /\ fut[c] \in Ran => runs[c] = 1
        /\ fut[c] \in NotRun => runs[c] = 0
    BY <1>t DEF CallsTell, CallTells, FutureTells
  <2> QED BY <1>4, <2>1, <2>2
<1>7. ASSUME NEW f \in wire, Execute(f) PROVE P!AgentRun(f.call)
  <2> DEFINE c == f.call
  <2>1. c \in Call /\ FrameTells(f) /\ CallTells(c)
    BY <1>t DEF RpcInv, FramesTell, CallsTell, TypeOK, Frame
  <2>2. caller[c] \in Raised \cup {"waiting"}
    BY <1>7, <1>t, <2>1
       DEF Execute, FrameTells, CallTells, CallerTells, Raised, Answer, Ran, NotRun, Unsent, TypeOK
  <2>3. PromisedAnswer[c] \in {"open", "none yet"}
    BY <2>1, <2>2, AnswerTold, ToldValues
  <2>4. runs[c] = 0
    BY <1>7, <2>1 DEF Execute, FrameTells, CallTells, AgentTells
  <2>5. runs' = [runs EXCEPT ![c] = 1] /\ UNCHANGED <<caller, ssh>>
    BY <1>7, <2>4 DEF Execute
  <2> QED BY <2>1, <2>3, <2>4, <2>5, AnswerKept DEF P!AgentRun
<1>8. ASSUME NEW f \in wire, f.call \in Call, Execute(f) PROVE P!PNext
  BY <1>7, <1>8 DEF P!PNext
<1>9. \A f \in wire : f.call \in Call
  BY <1>t DEF TypeOK, Frame
<1>10. ASSUME NEW c \in Call, AcquireLock(c) \/ SendFrame(c) \/ Reply(c) PROVE UNCHANGED P!pvars
  BY <1>10, <1>k DEF AcquireLock, SendFrame, Reply
<1>11. ASSUME NEW f \in wire, Receive(f) \/ Refuse(f) PROVE UNCHANGED P!pvars
  BY <1>11, <1>k DEF Receive, Refuse
<1>12. ASSUME NEW s \in Session, Connect(s) \/ Drop(s) \/ EndLoop(s) PROVE UNCHANGED P!pvars
  BY <1>12, <1>k DEF Connect, Drop, EndLoop
<1>13. CASE UNCHANGED vars
  BY <1>13, <1>k DEF vars
<1> QED
  BY <1>1, <1>2, <1>3, <1>5, <1>6, <1>8, <1>9, <1>10, <1>11, <1>12, <1>13
     DEF Next, Send, P!PNext

\* The detailed transport implements the promise it makes its callers: each of
\* its steps asks, runs, settles or falls back as RpcPromise allows, or is
\* invisible to the caller.  That calls are settled in the end is left to TLC.
THEOREM TransportKeepsPromise == Spec => P!PSafety
<1>1. Init => P!PInit
  BY AnswerTold, ToldValues DEF Init, P!PInit
<1> QED BY <1>1, RpcInvariant, PromiseStep, PTL DEF Spec, P!PSafety

=============================================================================
