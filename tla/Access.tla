------------------------------- MODULE Access -------------------------------
(***************************************************************************)
(* SCRAM users and ACLs of one cluster (services/kafka_admin.py): each     *)
(* operation is a command or several to Kafka and then one commit of the   *)
(* console's rows with the audit log.  Requests run in threads and take no *)
(* lock.                                                                   *)
(***************************************************************************)
EXTENDS Naturals, Sequences

CONSTANTS
    UserName,        \* names of Kafka users
    NoPassword,      \* the lack of one
    Grant,           \* permissions of the ACLs: principal, resource and operation
    AccessRequest    \* bound: requests

ASSUME AccessAssumption == NoPassword \notin AccessRequest /\ UserName # {}

VARIABLES
    owner,           \* a managed cluster, or one that was only connected
    credentials,     \* Kafka: the password of a user under a mechanism
    rows,            \* kafka_users
    acls,            \* Kafka: the permissions given
    trail,           \* the newest audit entry that names a permission
    access,          \* access[r]: where request r is
    astray           \* history: users and permissions nothing is promised of

accessVars == <<owner, credentials, rows, acls, trail, access, astray>>

\* In the order they are deleted in.
Mechanisms == <<"SCRAM-SHA-256", "SCRAM-SHA-512">>
Mechanism == {Mechanisms[i] : i \in DOMAIN Mechanisms}

\* Passwords are random: each is named by the request that set it, a row by the one
\* that made it.
Password == AccessRequest
KafkaUser == [id : AccessRequest, username : UserName, mechanism : Mechanism, password : Password]

Access == [at : {"idle", "run", "commit", "done"}, op : {"create", "rotate", "delete", "grant", "revoke"},
           username : UserName, mechanism : Mechanism,
           row : AccessRequest,             \* the row rotation found, itself if none
           step : 1 .. Len(Mechanisms),     \* deletion: the mechanism that is due
           asked : SUBSET Grant, left : SUBSET Grant]

AccessTypeOK ==
    /\ owner \in {"managed", "external"}
    /\ credentials \in [UserName -> [Mechanism -> Password \cup {NoPassword}]]
    /\ rows \subseteq KafkaUser
    /\ acls \subseteq Grant
    /\ trail \in [Grant -> {"none", "acl_created", "acl_deleted"}]
    /\ access \in [AccessRequest -> Access]
    /\ astray \subseteq UserName \cup Grant

SomeUser == CHOOSE u \in UserName : TRUE
Nothing(r, at) ==
    [at |-> at, op |-> "create", username |-> SomeUser,
     mechanism |-> Mechanisms[1], row |-> r,
     step |-> 1, asked |-> {}, left |-> {}]
AccessInit ==
    /\ owner \in {"managed", "external"}
    /\ credentials = [u \in UserName |-> [m \in Mechanism |-> NoPassword]]
    /\ rows = {} /\ acls = {}
    /\ trail = [g \in Grant |-> "none"]
    /\ access = [r \in AccessRequest |-> Nothing(r, "idle")]
    /\ astray = {}

OnUser(r) == access[r].op \in {"create", "rotate", "delete"}
Subject(r) == IF OnUser(r) THEN {access[r].username} ELSE access[r].asked
Active(r) == access[r].at \in {"run", "commit"}
Finish(r) == access' = [access EXCEPT ![r] = Nothing(r, "done")]

UsersNamed(u) == {row \in rows : row.username = u}

-----------------------------------------------------------------------------
\* A request begins; what another one is busy with goes astray.
Request(r, next) ==
    /\ access[r].at = "idle"
    /\ access' = [access EXCEPT ![r] = next]
    /\ LET subject == IF next.op \in {"grant", "revoke"} THEN next.asked ELSE {next.username} IN
       astray' = astray \cup {s \in subject : \E q \in AccessRequest : Active(q) /\ s \in Subject(q)}
    /\ UNCHANGED <<owner, credentials, rows, acls, trail>>

CreateUser(r) ==
    \E u \in UserName, m \in Mechanism :
        Request(r, [Nothing(r, "run") EXCEPT !.username = u, !.mechanism = m])

DeleteUser(r) ==
    \E u \in UserName : Request(r, [Nothing(r, "run") EXCEPT !.op = "delete", !.username = u])

DefaultMechanism == IF owner = "managed" THEN "SCRAM-SHA-256" ELSE "SCRAM-SHA-512"

\* Seeded fault: the mechanism on record is not asked for.
FoundByName(r, u) ==
    IF UsersNamed(u) = {} THEN {<<r, DefaultMechanism>>}
    ELSE {<<row.id, DefaultMechanism>> : row \in UsersNamed(u)}

\* The row that is rotated, with its mechanism: first() of a query without an order,
\* or none and a default.
Found(r, u) ==
    IF UsersNamed(u) = {} THEN {<<r, DefaultMechanism>>}
    ELSE {<<row.id, row.mechanism>> : row \in UsersNamed(u)}

RotatePassword(r) ==
    \E u \in UserName : \E found \in Found(r, u) :
        Request(r, [Nothing(r, "run") EXCEPT
                      !.op = "rotate", !.username = u, !.row = found[1], !.mechanism = found[2]])

ChangeAcl(r) ==
    \E op \in {"grant", "revoke"}, gs \in (SUBSET Grant) \ {{}} :
        Request(r, [Nothing(r, "run") EXCEPT !.op = op, !.asked = gs, !.left = gs])

-----------------------------------------------------------------------------
(* Commands to Kafka.                                                      *)

\* The user has a row under the mechanism already, or a rotation found none.
Unforeseen(r) ==
    \/ access[r].op = "create"
       /\ \E row \in UsersNamed(access[r].username) : row.mechanism = access[r].mechanism
    \/ access[r].op = "rotate" /\ access[r].row = r

Entered(r) == credentials' = [credentials EXCEPT ![access[r].username][access[r].mechanism] = r]

SetCredential(r) ==
    /\ access[r].at = "run" /\ access[r].op \in {"create", "rotate"}
    /\ Entered(r)
    /\ access' = [access EXCEPT ![r].at = "commit"]
    /\ astray' = IF Unforeseen(r) THEN astray \cup Subject(r) ELSE astray
    /\ UNCHANGED <<owner, rows, acls, trail>>

\* One mechanism after the other; that the command failed is not looked at.
DropCredential(r) ==
    LET m == Mechanisms[access[r].step] IN
    /\ access[r].at = "run" /\ access[r].op = "delete"
    /\ \/ /\ credentials' = [credentials EXCEPT ![access[r].username][m] = NoPassword]
          /\ UNCHANGED astray
       \/ /\ astray' = astray \cup Subject(r)
          /\ UNCHANGED credentials
    /\ access' = [access EXCEPT ![r] = IF access[r].step < Len(Mechanisms)
                                       THEN [access[r] EXCEPT !.step = @ + 1]
                                       ELSE [access[r] EXCEPT !.at = "commit", !.step = 1]]
    /\ UNCHANGED <<owner, rows, acls, trail>>

\* A managed cluster's command names all operations, an external cluster's client one.
Batch(r) == IF owner = "managed" THEN {access[r].left} ELSE {{g} : g \in access[r].left}

Applied(r, gs) == IF access[r].op = "grant" THEN acls \cup gs ELSE acls \ gs

RunAcl(r) ==
    /\ access[r].at = "run" /\ ~OnUser(r)
    /\ \E gs \in Batch(r) :
         /\ acls' = Applied(r, gs)
         /\ access' = [access EXCEPT ![r] = [access[r] EXCEPT
                         !.left = @ \ gs, !.at = IF access[r].left = gs THEN "commit" ELSE "run"]]
    /\ UNCHANGED <<owner, credentials, rows, trail, astray>>

\* No broker of the cluster, no host to reach one from, no connection: nothing was sent.
RefuseRequest(r) ==
    /\ access[r].at = "run" /\ access[r].left = access[r].asked /\ access[r].step = 1
    /\ Finish(r)
    /\ UNCHANGED <<owner, credentials, rows, acls, trail, astray>>

\* An exception, or a nonzero exit code, of a command that may have been executed all the
\* same: the commands before it stay, and nothing is committed.
CommandFails(r) ==
    /\ access[r].at = "run"
    /\ Finish(r)
    /\ astray' = astray \cup Subject(r)
    /\ \/ UNCHANGED <<credentials, acls>>
       \/ access[r].op \in {"create", "rotate"} /\ Entered(r) /\ UNCHANGED acls
       \/ ~OnUser(r) /\ (\E gs \in Batch(r) : acls' = Applied(r, gs)) /\ UNCHANGED credentials
    /\ UNCHANGED <<owner, rows, trail>>

-----------------------------------------------------------------------------
(* The commit, of the row and of the audit entries.                        *)

CommitUser(r) ==
    /\ access[r].at = "commit" /\ OnUser(r)
    /\ \/ /\ access[r].op = "create"
          /\ rows' = rows \cup {[id |-> r, username |-> access[r].username,
                                 mechanism |-> access[r].mechanism, password |-> r]}
       \/ /\ access[r].op = "delete"
          /\ rows' = rows \ UsersNamed(access[r].username)
       \/ /\ access[r].op = "rotate"
          /\ access[r].row = r \/ \E row \in rows : row.id = access[r].row
          /\ rows' = {IF row.id = access[r].row THEN [row EXCEPT !.password = r] ELSE row : row \in rows}
    /\ Finish(r)
    /\ UNCHANGED <<owner, credentials, acls, trail, astray>>

\* Seeded fault: the entry of one operation stands for all of them.
AuditedOne(r) == {CHOOSE g \in access[r].asked : TRUE}

Audited(r) == access[r].asked

CommitAcl(r) ==
    /\ access[r].at = "commit" /\ ~OnUser(r)
    /\ trail' = [g \in Grant |-> IF g \notin Audited(r) THEN trail[g]
                                 ELSE IF access[r].op = "grant" THEN "acl_created" ELSE "acl_deleted"]
    /\ Finish(r)
    /\ UNCHANGED <<owner, credentials, rows, acls, astray>>

\* The row is gone, the database refuses, or the backend stops.
CommitFails(r) ==
    /\ access[r].at = "commit"
    /\ Finish(r)
    /\ astray' = astray \cup Subject(r)
    /\ UNCHANGED <<owner, credentials, rows, acls, trail>>

AccessStep(r) ==
    \/ CreateUser(r) \/ DeleteUser(r) \/ RotatePassword(r) \/ ChangeAcl(r)
    \/ SetCredential(r) \/ DropCredential(r) \/ RunAcl(r) \/ RefuseRequest(r)
    \/ CommandFails(r) \/ CommitUser(r) \/ CommitAcl(r) \/ CommitFails(r)

AccessNext == \E r \in AccessRequest : AccessStep(r)

AccessSpec == AccessInit /\ [][AccessNext]_accessVars

-----------------------------------------------------------------------------
(* Properties.                                                             *)

Undisturbed(s) == s \notin astray /\ \A r \in AccessRequest : Active(r) => s \notin Subject(r)

\* The rows tell what Kafka lets in: each credential is the password of a row of its
\* mechanism, each row is such a credential, and of a deleted user nothing is left.
\* Not promised once requests for the user overlapped, one of its commands or commits
\* failed, a mechanism of it was created twice, or a user without row was rotated.
RowsTellCredentials ==
    \A u \in UserName : Undisturbed(u) =>
        \A m \in Mechanism :
            {row.password : row \in {w \in UsersNamed(u) : w.mechanism = m}}
              = {credentials[u][m]} \ {NoPassword}

\* The newest audit entry of a permission says whether Kafka gives it, unless requests
\* for it overlapped or one failed with some of its operations done.
TrailTellsAcls ==
    \A g \in Grant : Undisturbed(g) => (g \in acls <=> trail[g] = "acl_created")

=============================================================================
