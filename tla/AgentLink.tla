----------------------------- MODULE AgentLink -----------------------------
(***************************************************************************)
(* How a host agent gets, keeps and loses its session with the SCM.        *)
(*                                                                         *)
(* Server side (src/backend/app): the Agent row of each host, the token    *)
(* endpoints of api/agents.py, the WebSocket handler agent_ws, and the     *)
(* per-worker map services/agent_registry.py keeps from host to session.   *)
(* Agent side (src/agent): the Run loop of internal/ws/client.go with its  *)
(* persisted JWT.  The two meet in connections that may drop at any time,  *)
(* each end noticing when it does.                                         *)
(*                                                                         *)
(* Registration tokens are numbered as they are minted, an agent JWT is    *)
(* named by the token_version it was issued for; 0 stands for "none".      *)
(* The module begins when each host has had its first mint: host_id is not *)
(* unique, and two first mints at once would make two rows.                *)
(***************************************************************************)
EXTENDS Integers

CONSTANTS
    Host,         \* managed hosts, each with at most one agent process
    Worker,       \* uvicorn workers, each with its own registry
    Conn,         \* WebSocket connections that can exist at one time
    NoConn,       \* the absence of a connection
    MaxVersion,   \* bound: token_version of a row
    MaxToken,     \* bound: registration tokens of one host
    DelayCap      \* the reconnect delay's cap, delayCap in Run

ASSUME LinkAssumption ==
    /\ Host # {}
    /\ Worker # {}
    /\ NoConn \notin Conn
    /\ MaxVersion \in Nat /\ MaxToken \in Nat
    /\ DelayCap \in Nat \ {0}

VARIABLES
    row,      \* row[h]: the Agent row (is_active, token_version, pending token)
    past,     \* past[h]: what the row has been, and an admin request may have read
    crossed,  \* history: an admin request of h has written over another's commit
    box,      \* box[h]: the broker host (config file, agent process, JWT file)
    conn,     \* conn[c]: a connection and the agent_ws handler serving it
    byHost    \* byHost[w][h]: AgentRegistry._by_host of worker w

vars == <<row, past, crossed, box, conn, byHost>>

\* What a credential names once its time (REG_TOKEN_TTL_SEC for a registration
\* token, AGENT_JWT_TTL_DAYS for a JWT) has passed.
Expired == -1

\* The Agent row: is_active, token_version and the pending token.
Row == [active : BOOLEAN, version : Nat, token : Nat \cup {Expired}]

\* The columns a request of the token endpoints holds between SELECT and COMMIT.
Reading == [active : BOOLEAN, pending : BOOLEAN, version : Nat]

\* cmd: the token of the install command shown last; conf: the one in
\* config.yaml; run: the one the process read at its start; jwt: agent.jwt.
Box == [cmd : Nat, conf : Nat, run : Nat, jwt : Nat \cup {Expired},
        up : BOOLEAN, phase : {"idle", "registering", "running"},
        link : Conn \cup {NoConn}, delay : 1 .. DelayCap]

\* A handler between its awaits.  "authed" and "committed" lie inside one
\* synchronous stretch of the event loop, so they hold the worker's loop.
Handling == {"connected", "authed", "committed", "acked", "replacing", "receiving"}

Bearer == [kind : {"token", "jwt"}, name : Nat \cup {Expired}]

ConnRec == [st : Handling \cup {"free"}, host : Host, worker : Worker,
            bearer : Bearer, hadToken : BOOLEAN, ack : Nat,
            prev : Conn \cup {NoConn}, sock : {"open", "half", "closed"}]

TypeOK ==
    /\ row \in [Host -> Row]
    /\ past \in [Host -> SUBSET Reading]
    /\ crossed \in [Host -> BOOLEAN]
    /\ box \in [Host -> Box]
    /\ conn \in [Conn -> ConnRec]
    /\ byHost \in [Worker -> [Host -> Conn \cup {NoConn}]]

\* A slot that carries no connection.
Blank == [st |-> "free", host |-> CHOOSE h \in Host : TRUE,
          worker |-> CHOOSE w \in Worker : TRUE,
          bearer |-> [kind |-> "token", name |-> 0], hadToken |-> FALSE,
          ack |-> 0, prev |-> NoConn, sock |-> "closed"]

\* What a request reads of row r.
Seen(r) == [active |-> r.active, pending |-> r.token # 0, version |-> r.version]

Init ==
    /\ row = [h \in Host |-> [active |-> TRUE, version |-> 1, token |-> 1]]
    /\ past = [h \in Host |-> {Seen(row[h])}]
    /\ crossed = [h \in Host |-> FALSE]
    /\ box = [h \in Host |-> [cmd |-> 1, conf |-> 0, run |-> 0, jwt |-> 0, up |-> FALSE,
                              phase |-> "idle", link |-> NoConn, delay |-> 1]]
    /\ conn = [c \in Conn |-> Blank]
    /\ byHost = [w \in Worker |-> [h \in Host |-> NoConn]]

-----------------------------------------------------------------------------
(* The token endpoints: threadpool handlers that read the row, work (bcrypt) *)
(* and commit the columns they have changed.  Any number may be under way,  *)
(* begun at any time, so a commit may rest on anything the row has been.   *)

\* Row r is what host h has from now on.
Commit(h, r) == /\ row' = [row EXCEPT ![h] = r]
                /\ past' = [past EXCEPT ![h] = @ \cup {Seen(r)}]

\* What an UPDATE leaves in a column that holds current: SQLAlchemy writes new
\* only if it differs from what was read.
Written(read, new, current) == IF new = read THEN current ELSE new

\* The row of h is no longer at the version that was read.
Crossed(h, read) == [crossed EXCEPT ![h] = @ \/ row[h].version # read.version]

\* Seeded fault: a mint that forgets to bump the version.
MintKeepsVersion(h, read) ==
    /\ box[h].cmd < MaxToken
    /\ Commit(h, [active |-> TRUE, version |-> read.version, token |-> box[h].cmd + 1])
    /\ box' = [box EXCEPT ![h].cmd = @ + 1]
    /\ crossed' = Crossed(h, read)
    /\ UNCHANGED <<conn, byHost>>

\* The COMMIT of mint_token: a new pending token, the row active, the version
\* read plus one; the install command is shown once.
CommitMint(h, read) ==
    /\ box[h].cmd < MaxToken
    /\ read.version < MaxVersion
    /\ Commit(h, [active |-> Written(read.active, TRUE, row[h].active),
                  version |-> read.version + 1, token |-> box[h].cmd + 1])
    /\ box' = [box EXCEPT ![h].cmd = @ + 1]
    /\ crossed' = Crossed(h, read)
    /\ UNCHANGED <<conn, byHost>>

\* Seeded fault: a revoke that forgets the pending token.
RevokeKeepsToken(h, read) ==
    /\ read.version < MaxVersion
    /\ Commit(h, [row[h] EXCEPT !.active = FALSE, !.version = read.version + 1])
    /\ crossed' = Crossed(h, read)
    /\ UNCHANGED <<box, conn, byHost>>

\* The COMMIT of revoke_agent; live sessions are left alone.
CommitRevoke(h, read) ==
    /\ read.version < MaxVersion
    /\ Commit(h, [active |-> Written(read.active, FALSE, row[h].active),
                  version |-> read.version + 1,
                  token |-> IF read.pending THEN 0 ELSE row[h].token])
    /\ crossed' = Crossed(h, read)
    /\ UNCHANGED <<box, conn, byHost>>

\* The pending token of h runs out; its hash stays in the row.
TokenExpires(h) ==
    /\ row[h].token > 0
    /\ row' = [row EXCEPT ![h].token = Expired]
    /\ UNCHANGED <<past, crossed, box, conn, byHost>>

-----------------------------------------------------------------------------
(* The broker host.                                                        *)

\* Connection r after the agent's end is gone, with what was on its way: the
\* server does not know yet, or it had closed already and nothing is left of it.
Abandoned(r) == IF r.st = "free" THEN Blank
                ELSE [r EXCEPT !.sock = IF @ = "open" THEN "half" ELSE @, !.ack = 0]

\* Seeded fault: connectOnce without the deferred close.
NotReleased(h) == conn

\* The connections after the agent of h has let go of its own.
Released(h) == IF box[h].link = NoConn THEN conn
               ELSE [conn EXCEPT ![box[h].link] = Abandoned(@)]

\* install.sh: rewrites config.yaml, keeps agent.jwt, and starts the service
\* only if it is not running (systemctl enable --now).
Install(h) ==
    /\ box' = [box EXCEPT ![h] = [@ EXCEPT !.conf = box[h].cmd, !.up = TRUE,
                                           !.run = IF box[h].up THEN box[h].run ELSE box[h].cmd]]
    /\ UNCHANGED <<row, past, crossed, conn, byHost>>

\* The process is restarted (systemd, a reboot) and reads config.yaml again.
RestartAgent(h) ==
    /\ box[h].up
    /\ box' = [box EXCEPT ![h] = [@ EXCEPT !.run = box[h].conf, !.phase = "idle",
                                           !.link = NoConn, !.delay = 1]]
    /\ conn' = Released(h)
    /\ UNCHANGED <<row, past, crossed, byHost>>

\* Seeded fault: the configured token wins.
ConfiguredBearer(h) == IF box[h].run # 0 THEN [kind |-> "token", name |-> box[h].run]
                                         ELSE [kind |-> "jwt", name |-> box[h].jwt]

\* bearerToken: the persisted JWT wins over the configured token.
BearerToken(h) == IF box[h].jwt # 0 THEN [kind |-> "jwt", name |-> box[h].jwt]
                                    ELSE [kind |-> "token", name |-> box[h].run]

\* The JWT of h runs out, and with it those issued before.
JwtExpires(h) ==
    /\ box[h].jwt > 0
    /\ box' = [box EXCEPT ![h].jwt = Expired]
    /\ conn' = [c \in Conn |-> IF conn[c].host = h /\ conn[c].bearer.kind = "jwt"
                               THEN [conn[c] EXCEPT !.bearer.name = Expired]
                               ELSE conn[c]]
    /\ UNCHANGED <<row, past, crossed, byHost>>

\* A slot no handler, no agent and no pending close refers to any more.
Unused(c) == /\ conn[c].st = "free"
             /\ \A h \in Host : box[h].link # c
             /\ \A d \in Conn : conn[d].prev # c

\* connectOnce up to the register frame: any worker may accept the upgrade.
Dial(h, c, w) ==
    /\ box[h].up
    /\ box[h].phase = "idle"
    /\ BearerToken(h).name # 0
    /\ Unused(c)
    /\ box' = [box EXCEPT ![h] = [@ EXCEPT !.phase = "registering", !.link = c]]
    /\ conn' = [conn EXCEPT ![c] = [st |-> "connected", host |-> h, worker |-> w,
                                    bearer |-> BearerToken(h), hadToken |-> FALSE,
                                    ack |-> 0, prev |-> NoConn, sock |-> "open"]]
    /\ UNCHANGED <<row, past, crossed, byHost>>

\* register receives the ack and persistJWT writes agent.jwt; a failed write is
\* only logged.
ReceiveAck(h) ==
    /\ box[h].phase = "registering"
    /\ conn[box[h].link].ack # 0
    /\ \E written \in BOOLEAN :
         box' = [box EXCEPT ![h] = [@ EXCEPT !.phase = "running",
                                  !.jwt = IF written THEN conn[box[h].link].ack ELSE box[h].jwt]]
    /\ conn' = [conn EXCEPT ![box[h].link].ack = 0]
    /\ UNCHANGED <<row, past, crossed, byHost>>

\* Seeded fault: the delay without its cap.
DoubledUncapped(d) == 2 * d

\* The delay Run waits before it dials again: doubled up to the cap, whatever
\* ended the session (receiveLoop returns errCleanShutdown only on shutdown).
Doubled(d) == IF 2 * d > DelayCap THEN DelayCap ELSE 2 * d
NextDelay(h) == Doubled(box[h].delay)

\* connectOnce returns on the agent's side of connection box[h].link.
EndSession(h) ==
    /\ box' = [box EXCEPT ![h] = [@ EXCEPT !.phase = "idle", !.link = NoConn,
                                           !.delay = NextDelay(h)]]
    /\ conn' = Released(h)
    /\ UNCHANGED <<row, past, crossed, byHost>>

\* A read error or the 15 s registration timeout, with the server unaware.
DropLink(h) ==
    /\ box[h].link # NoConn
    /\ conn[box[h].link].sock = "open"
    /\ EndSession(h)

\* The agent reads the server's close (or its auth_failed error).  An ack sent
\* before the close is read first.
SeeClose(h) ==
    /\ box[h].link # NoConn
    /\ conn[box[h].link].sock = "closed"
    /\ box[h].phase = "registering" => conn[box[h].link].ack = 0
    /\ EndSession(h)

-----------------------------------------------------------------------------
(* agent_ws: one handler per connection, from accept to its finally block. *)

\* The row the bearer of connection c names accepts it (_authenticate).
Authentic(c) ==
    LET r == row[conn[c].host]  b == conn[c].bearer IN
    /\ r.active
    /\ IF b.kind = "token" THEN r.token = b.name
                            ELSE b.name # Expired /\ r.version = b.name

\* No handler of worker w is between _authenticate and its next await.
LoopFree(w) == \A c \in Conn : conn[c].worker = w => conn[c].st \notin {"authed", "committed"}

\* Connection r once its handler has returned: what the agent has not read yet
\* is still readable unless it is gone as well.
Returned(r) == IF r.sock = "half" THEN Blank
               ELSE [Blank EXCEPT !.host = r.host, !.ack = r.ack]

\* The register frame is read and the bearer checked; a refusal is answered
\* with auth_failed and a close.
Authenticate(c) ==
    /\ conn[c].st = "connected"
    /\ LoopFree(conn[c].worker)
    /\ conn' = [conn EXCEPT ![c] =
                  IF Authentic(c)
                  THEN [@ EXCEPT !.st = "authed", !.bearer = Blank.bearer,
                                 !.hadToken = row[conn[c].host].token # 0]
                  ELSE Returned(@)]
    /\ UNCHANGED <<row, past, crossed, box, byHost>>

\* db.commit: the UPDATE clears the pending token if the row that was read had
\* one, whichever token is pending by now.
CommitRow(c) ==
    /\ conn[c].st = "authed"
    /\ LET h == conn[c].host IN
         Commit(h, [row[h] EXCEPT !.token = IF conn[c].hadToken THEN 0 ELSE @])
    /\ conn' = [conn EXCEPT ![c] = [@ EXCEPT !.st = "committed", !.hadToken = FALSE]]
    /\ UNCHANGED <<crossed, box, byHost>>

\* db.refresh, issue_agent_jwt with the version just read, send register_ack,
\* which reaches nobody if the agent has left.
SendAck(c) ==
    /\ conn[c].st = "committed"
    /\ conn' = [conn EXCEPT ![c] = [@ EXCEPT !.st = "acked",
                    !.ack = IF conn[c].sock = "open" THEN row[conn[c].host].version ELSE 0]]
    /\ UNCHANGED <<row, past, crossed, box, byHost>>

\* AgentRegistry.register: takes the host's slot and hands back its holder.
RegisterSession(c) ==
    /\ conn[c].st = "acked"
    /\ LoopFree(conn[c].worker)
    /\ LET w == conn[c].worker  h == conn[c].host  previous == byHost[w][h] IN
         /\ byHost' = [byHost EXCEPT ![w][h] = c]
         /\ conn' = [conn EXCEPT ![c] = [@ EXCEPT !.prev = previous,
                       !.st = IF previous = NoConn THEN "receiving" ELSE "replacing"]]
    /\ UNCHANGED <<row, past, crossed, box>>

\* Connection r closed by the server; the agent may have left it before.
Closed(r) == [r EXCEPT !.sock = IF @ = "open" THEN "closed" ELSE @]

\* previous.websocket.close(1001); a failure is ignored.
ClosePrevious(c) ==
    /\ conn[c].st = "replacing"
    /\ LoopFree(conn[c].worker)
    /\ conn' = [conn EXCEPT ![c] = [@ EXCEPT !.st = "receiving", !.prev = NoConn],
                            ![conn[c].prev] = Closed(@)]
    /\ UNCHANGED <<row, past, crossed, box, byHost>>

\* Seeded fault: the handler returns without removing its session.
NotRemoved(c) == byHost

\* The map of worker w after AgentRegistry.remove(session of c): agent ids name
\* Agent rows, one per host, so whoever holds the host's slot has the same one.
Removed(c) == LET w == conn[c].worker  h == conn[c].host IN
              [byHost EXCEPT ![w][h] = NoConn]

\* Seeded fault: no ping, so that a peer that has vanished is never noticed.
LeaveClosed(c) ==
    /\ conn[c].st = "receiving"
    /\ conn[c].sock = "closed"
    /\ LoopFree(conn[c].worker)
    /\ byHost' = Removed(c)
    /\ conn' = [conn EXCEPT ![c] = Returned(@)]
    /\ UNCHANGED <<row, past, crossed, box>>

\* The receive loop raises WebSocketDisconnect: remove, and
\* remove_for_session_if_present, which then finds nothing more.
LeaveLoop(c) ==
    /\ conn[c].st = "receiving"
    /\ conn[c].sock # "open"
    /\ LoopFree(conn[c].worker)
    /\ byHost' = Removed(c)
    /\ conn' = [conn EXCEPT ![c] = Returned(@)]
    /\ UNCHANGED <<row, past, crossed, box>>

\* The handler finds its peer gone before it has a session: no frame arrives,
\* or the ack cannot be sent.
Abort(c) ==
    /\ conn[c].st \in {"connected", "acked"}
    /\ conn[c].sock = "half"
    /\ LoopFree(conn[c].worker)
    /\ conn' = [conn EXCEPT ![c] = Blank]
    /\ UNCHANGED <<row, past, crossed, box, byHost>>

\* Worker w dies and is started again: its handlers and its map are gone.
CrashWorker(w) ==
    /\ byHost' = [byHost EXCEPT ![w] = [h \in Host |-> NoConn]]
    /\ conn' = [c \in Conn |-> IF conn[c].worker = w /\ conn[c].st # "free"
                               THEN Returned(conn[c]) ELSE conn[c]]
    /\ UNCHANGED <<row, past, crossed, box>>

-----------------------------------------------------------------------------
Endpoint(h) == \E read \in past[h] : CommitMint(h, read) \/ CommitRevoke(h, read)

Operator(h) == Endpoint(h) \/ TokenExpires(h) \/ JwtExpires(h) \/ Install(h)

Agent(h) == \/ RestartAgent(h) \/ ReceiveAck(h) \/ DropLink(h) \/ SeeClose(h)
            \/ \E c \in Conn, w \in Worker : Dial(h, c, w)

Handler(c) == \/ Authenticate(c) \/ CommitRow(c) \/ SendAck(c)
              \/ RegisterSession(c) \/ ClosePrevious(c) \/ LeaveLoop(c) \/ Abort(c)

Next == \/ \E h \in Host : Operator(h) \/ Agent(h)
        \/ \E c \in Conn : Handler(c)
        \/ \E w \in Worker : CrashWorker(w)

\* asyncio keeps running every handler that can go on, uvicorn's ping ends a
\* dead socket's receive, and the agent's Run loop never stops dialling.
Fairness == /\ \A c \in Conn : SF_vars(Handler(c))
            /\ \A h \in Host : /\ WF_vars(\E c \in Conn, w \in Worker : Dial(h, c, w))
                                /\ WF_vars(ReceiveAck(h)) /\ WF_vars(SeeClose(h))

Spec == Init /\ [][Next]_vars
FairSpec == Spec /\ Fairness

-----------------------------------------------------------------------------
(* Properties.                                                             *)

\* What dispatch picks from the registry is served: the session of a host's
\* slot belongs to that host and worker, and its handler has not returned.
\* (AgentTransport sends commands to whatever registry.get returns.)
ServedSession(w, h) ==
    byHost[w][h] # NoConn =>
        LET r == conn[byHost[w][h]] IN
        /\ r.st \in {"replacing", "receiving"}
        /\ r.host = h
        /\ r.worker = w
RegistryServed == \A w \in Worker, h \in Host : ServedSession(w, h)

\* A slot points to an agent that listens: of all the sessions of one host, over
\* all workers, at most one has a socket that is open at both ends.
OneOpenSession ==
    \A c, d \in Conn :
        /\ conn[c].st # "free" /\ conn[c].sock = "open"
        /\ conn[d].st # "free" /\ conn[d].sock = "open"
        /\ conn[c].host = conn[d].host
        => c = d

\* A token that is pending is the one of the install command shown last, and
\* its row is active, although the handler that clears it wrote the row it read
\* before a mint or a revoke.  Only an admin request that has itself written over
\* another's commit may leave the token on a revoked row.
PendingIsNewest ==
    \A h \in Host : row[h].token > 0 =>
        row[h].token = box[h].cmd /\ (row[h].active \/ crossed[h])

\* Credentials do not run ahead of the row.
CredentialsBehind ==
    /\ \A h \in Host : crossed[h] \/ box[h].jwt <= row[h].version
    /\ \A c \in Conn : crossed[conn[c].host] \/ conn[c].ack <= row[conn[c].host].version

\* What the comment over the bump of token_version says: a mint or a revoke
\* invalidates the old JWT of its host, the persisted one and any that is on
\* its way in an ack (unless admin requests have written over each other).
Outdated(h) ==
    /\ box'[h].jwt < row'[h].version
    /\ \A c \in Conn : conn'[c].host = h => conn'[c].ack < row'[h].version
CommitOutdates ==
    [][\A h \in Host : Endpoint(h) =>
          crossed'[h] \/ Outdated(h)]_vars

\* A session whose socket died leaves the registry: no host stays "connected"
\* through a connection nobody answers on.
DeadSessionLeaves ==
    \A w \in Worker, h \in Host, c \in Conn :
        (byHost[w][h] = c /\ conn[c].sock # "open") ~> (byHost[w][h] # c)

\* The link between an agent and its connection, as both ends see it: an agent
\* holds a connection of its own host the server can still answer on, and a
\* handler's socket is open at both ends only while the agent holds it.
LinkConsistent ==
    /\ \A h \in Host : box[h].link # NoConn =>
            conn[box[h].link].host = h /\ conn[box[h].link].sock # "half"
    /\ \A h \in Host : box[h].phase = "idle" <=> box[h].link = NoConn
    /\ \A c \in Conn : conn[c].st # "free" /\ conn[c].sock = "open"
            => box[conn[c].host].link = c

\* The steps nobody forces on an agent: all but a dropped link, a restarted agent
\* and a crashed worker.
Undisturbed ==
    \/ \E h \in Host : \/ Operator(h) \/ ReceiveAck(h) \/ SeeClose(h)
                       \/ \E c \in Conn, w \in Worker : Dial(h, c, w)
    \/ \E c \in Conn : Handler(c)

\* Reconnects converge: an agent whose JWT stays current (neither outdated nor
\* expired) and that is not disturbed any more is registered for good in the
\* end, whatever old handlers still do.
AgentSettles ==
    (<>[][Undisturbed]_vars) =>
        \A h \in Host :
            <>[](box[h].up /\ row[h].active /\ box[h].jwt = row[h].version /\ box[h].jwt # 0)
            => <>[](box[h].phase = "running")

\* What the comment in AgentRegistry.remove says: a session whose reconnect has
\* replaced it does not take the newer session's slot away.  The slot of a
\* host is only emptied for the session that holds it (or by a crash).
OnlyHolderRemoved ==
    [][\A c \in Conn : LeaveLoop(c) =>
         \A w \in Worker, h \in Host : byHost[w][h] \in {c, NoConn} \/ byHost'[w][h] = byHost[w][h]]_vars

\* What the troubleshooting table of agent/README.md says of auth_failed: a
\* regenerated token, installed and read by the agent, is what it connects with.
RegenerateHelps ==
    \A h \in Host, c \in Conn :
        /\ box[h].link = c
        /\ conn[c].st = "connected"
        /\ row[h].token > 0
        /\ box[h].run = row[h].token
        => Authentic(c)

=============================================================================
