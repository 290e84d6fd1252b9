---------------------------- MODULE RollPromise ----------------------------
(***************************************************************************)
(* What the operator may rely on of each rolling operation by itself,      *)
(* whatever runs beside it and whatever fails.                             *)
(*                                                                         *)
(* It takes nodes out one at a time, each once, those that go first before *)
(* the others, and none before the last is back and was seen well.         *)
(* Success means that all it set out for are back.  One that failed or was *)
(* lost takes out no more and leaves at most one node out, and there is    *)
(* one verdict.  A version is raised only by an operation that has had all *)
(* nodes back that must have it.                                           *)
(***************************************************************************)

CONSTANTS
    Node,         \* nodes of the cluster
    First,        \* nodes that go before the others
    Must,         \* nodes that must have a version before it is raised
    Roll          \* operations

VARIABLES
    told,         \* told[r]: what is told of r
    plan,         \* plan[r]: nodes r has set out for, none once it has failed
    out,          \* out[r]: nodes r has taken out
    back,         \* back[r]: nodes of its plan that are back and were seen well
    version       \* the version the cluster is said to have

pvars == <<told, plan, out, back, version>>

PInit ==
    /\ told = [r \in Roll |-> "none"]
    /\ plan = [r \in Roll |-> {}]
    /\ out = [r \in Roll |-> {}]
    /\ back = [r \in Roll |-> {}]
    /\ version = "old"

Ask(r) ==
    /\ told[r] = "none"
    /\ told' = [told EXCEPT ![r] = "running"]
    /\ UNCHANGED <<plan, out, back, version>>

SetOut(r) ==
    /\ told[r] = "running"
    /\ plan[r] = {} /\ back[r] = {}
    /\ \E S \in SUBSET Node : plan' = [plan EXCEPT ![r] = S]
    /\ UNCHANGED <<told, out, back, version>>

TakeOut(r, n) ==
    /\ told[r] = "running"
    /\ out[r] = {}
    /\ n \in plan[r] \ back[r]
    /\ n \notin First => plan[r] \cap First \subseteq back[r]
    /\ out' = [out EXCEPT ![r] = {n}]
    /\ UNCHANGED <<told, plan, back, version>>

BringBack(r, n) ==
    /\ told[r] = "running"
    /\ out[r] = {n}
    /\ out' = [out EXCEPT ![r] = {}]
    /\ back' = [back EXCEPT ![r] = @ \cup {n}]
    /\ UNCHANGED <<told, plan, version>>

Raise(r) ==
    /\ told[r] = "running"
    /\ out[r] = {}
    /\ Must \subseteq back[r]
    /\ version' = "new"
    /\ UNCHANGED <<told, plan, out, back>>

Succeed(r) ==
    /\ told[r] = "running"
    /\ out[r] = {}
    /\ plan[r] \subseteq back[r]
    /\ told' = [told EXCEPT ![r] = "completed"]
    /\ UNCHANGED <<plan, out, back, version>>

Fail(r) ==
    /\ told[r] = "running"
    /\ \E v \in {"error", "failed", "lost"} : told' = [told EXCEPT ![r] = v]
    /\ plan' = [plan EXCEPT ![r] = {}]
    /\ back' = [back EXCEPT ![r] = {}]
    /\ UNCHANGED <<out, version>>

PNext ==
    \E r \in Roll :
        \/ Ask(r) \/ SetOut(r) \/ Raise(r) \/ Succeed(r) \/ Fail(r)
        \/ \E n \in Node : TakeOut(r, n) \/ BringBack(r, n)

PSafety == PInit /\ [][PNext]_pvars

=============================================================================
