---------------------------- MODULE RpcPromise ----------------------------
(***************************************************************************)
(* What a caller of agent_transport may rely on when it has an operation   *)
(* run on a host, whichever transport ends up running it.                  *)
(*                                                                         *)
(* An answer from the agent is final and true: "ran" (a result, or the     *)
(* timeout error) says that the agent started the operation, exactly once, *)
(* "not run" (any other error, or a failed start) that it never did.       *)
(* No answer promises little: the SSH fallback runs the operation once,    *)
(* and the agent may have run it, or may yet run it, once as well.         *)
(***************************************************************************)
EXTENDS Naturals

CONSTANT Call       \* operations asked for

VARIABLES
    answer,         \* what the caller has been told
    agentRuns,      \* how often the agent has run the operation
    sshRuns         \* how often the SSH fallback has

pvars == <<answer, agentRuns, sshRuns>>

PInit == /\ answer = [c \in Call |-> "none"]
         /\ agentRuns = [c \in Call |-> 0]
         /\ sshRuns = [c \in Call |-> 0]

\* The call is made; without a session it goes to the fallback at once.
Ask(c) == /\ answer[c] = "none"
          /\ \E a \in {"open", "none yet"} : answer' = [answer EXCEPT ![c] = a]
          /\ UNCHANGED <<agentRuns, sshRuns>>

AgentRun(c) == /\ answer[c] \in {"open", "none yet"}
               /\ agentRuns[c] = 0
               /\ agentRuns' = [agentRuns EXCEPT ![c] = 1]
               /\ UNCHANGED <<answer, sshRuns>>

Settle(c) == /\ answer[c] = "open"
             /\ \/ agentRuns[c] = 1 /\ answer' = [answer EXCEPT ![c] = "ran"]
                \/ agentRuns[c] = 0 /\ answer' = [answer EXCEPT ![c] = "not run"]
                \/ answer' = [answer EXCEPT ![c] = "none yet"]
             /\ UNCHANGED <<agentRuns, sshRuns>>

SshRun(c) == /\ answer[c] = "none yet"
             /\ sshRuns[c] = 0
             /\ sshRuns' = [sshRuns EXCEPT ![c] = 1]
             /\ UNCHANGED <<answer, agentRuns>>

PNext == \E c \in Call : Ask(c) \/ AgentRun(c) \/ Settle(c) \/ SshRun(c)

\* What may never happen, and what has to.
PSafety == PInit /\ [][PNext]_pvars
Promise == /\ PSafety
           /\ \A c \in Call : WF_pvars(Settle(c)) /\ WF_pvars(SshRun(c))

=============================================================================
