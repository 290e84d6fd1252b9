--------------------------- MODULE DeployPromise ---------------------------
(***************************************************************************)
(* What the operator of a managed cluster may rely on, in whatever order   *)
(* requests read and write its rows.                                       *)
(*                                                                         *)
(* A deploy gets at most one verdict.  A good one means that this deploy   *)
(* has itself brought up every host that is still a member; one that has   *)
(* quit, by a failure or by its worker's death, brings up no other and     *)
(* never succeeds.  The header says "deploying" only because a deploy      *)
(* under way has put it there, and a deploy hands the cluster over, as     *)
(* "running", only when every member is up.  A cluster never looks new     *)
(* again, one that is gone stays gone, and so does a host that has left.   *)
(***************************************************************************)

CONSTANTS
    Node,         \* hosts of the cluster
    Attempt       \* deploys of it

VARIABLES
    header,       \* the state the cluster is shown in
    verdict,      \* verdict[a]: what is told of attempt a
    brought,      \* brought[a]: hosts a has brought up; none once it is over
    quit,         \* attempts that do nothing any more
    members       \* hosts that have not left the cluster

pvars == <<header, verdict, brought, quit, members>>

Good == {"completed", "success"}
Bad == {"completed_with_errors", "error"}
Settled == {"running", "stopped", "error"}

PInit ==
    /\ header = "configured"
    /\ verdict = [a \in Attempt |-> "none"]
    /\ brought = [a \in Attempt |-> {}]
    /\ quit = {}
    /\ members = Node

Working(a) == a \notin quit /\ verdict[a] = "running"

Post(a) ==
    /\ a \notin quit /\ verdict[a] = "none"
    /\ verdict' = [verdict EXCEPT ![a] = "running"]
    /\ UNCHANGED <<header, brought, quit, members>>

Take(a) ==
    /\ Working(a) /\ brought[a] = {}
    /\ header # "gone"
    /\ header' = "deploying"
    /\ UNCHANGED <<verdict, brought, quit, members>>

\* Nobody asks whether the cluster is still there.
Bring(a, n) ==
    /\ Working(a)
    /\ brought' = [brought EXCEPT ![a] = @ \cup {n}]
    /\ UNCHANGED <<header, verdict, quit, members>>

\* The cluster is handed over, and then the verdict told.
HandOver(a) ==
    /\ Working(a) /\ members \subseteq brought[a]
    /\ header # "gone"
    /\ header' = "running"
    /\ UNCHANGED <<verdict, brought, quit, members>>

Succeed(a) ==
    /\ Working(a) /\ members \subseteq brought[a]
    /\ \E v \in Good : verdict' = [verdict EXCEPT ![a] = v]
    /\ quit' = quit \cup {a}
    /\ brought' = [brought EXCEPT ![a] = {}]
    /\ UNCHANGED <<header, members>>

\* An attempt may have quit some time before that is told of it.
Fail(a) ==
    /\ verdict[a] = "running"
    /\ \E v \in Bad : verdict' = [verdict EXCEPT ![a] = v]
    /\ quit' = quit \cup {a}
    /\ brought' = [brought EXCEPT ![a] = {}]
    /\ UNCHANGED <<header, members>>

Quit(a) ==
    /\ a \notin quit
    /\ quit' = quit \cup {a}
    /\ brought' = [brought EXCEPT ![a] = {}]
    /\ \/ header' = header
       \/ header # "gone" /\ header' = "error"
    /\ UNCHANGED <<verdict, members>>

\* The header after a start, a stop, a failure or a look at the services.
Turn ==
    /\ header # "gone"
    /\ header' \in Settled \cup {"gone"}
    /\ UNCHANGED <<verdict, brought, quit, members>>

\* Hosts leave; what a deploy has done on the others does not change.
Leave ==
    /\ members' \in SUBSET members
    /\ UNCHANGED <<header, verdict, brought, quit>>

PNext ==
    \/ Turn
    \/ Leave
    \/ \E a \in Attempt :
         \/ Post(a) \/ Take(a) \/ HandOver(a) \/ Succeed(a) \/ Fail(a) \/ Quit(a)
         \/ \E n \in Node : Bring(a, n)

PSafety == PInit /\ [][PNext]_pvars

=============================================================================
