-------------------------- MODULE AgentLinkProofs --------------------------
(***************************************************************************)
(* Theorems about AgentLink for every set of hosts, workers and            *)
(* connections and every bound on the versions.                            *)
(***************************************************************************)
EXTENDS AgentLink, TLAPS

USE LinkAssumption

\* An empty slot is a well-formed connection record.
LEMMA BlankType == Blank \in ConnRec
<1>1. (CHOOSE h \in Host : TRUE) \in Host /\ (CHOOSE w \in Worker : TRUE) \in Worker
  OBVIOUS
<1> QED BY <1>1 DEF Blank, ConnRec, Bearer, Handling

\* What the agent's or the handler's end leaves behind is well formed.
LEMMA RecordTypes ==
  ASSUME NEW r \in ConnRec
  PROVE  Abandoned(r) \in ConnRec /\ Returned(r) \in ConnRec
<1>1. Abandoned(r) \in ConnRec
  BY BlankType DEF Abandoned, ConnRec
<1>2. Returned(r) \in ConnRec
  BY BlankType DEF Returned, ConnRec
<1> QED BY <1>1, <1>2

\* Records stay well formed as the actions change them.
LEMMA ConnUpdates ==
  ASSUME NEW r \in ConnRec
  PROVE  /\ [r EXCEPT !.ack = 0] \in ConnRec
         /\ [r EXCEPT !.st = "committed", !.hadToken = FALSE] \in ConnRec
         /\ [r EXCEPT !.st = "receiving", !.prev = NoConn] \in ConnRec
         /\ Closed(r) \in ConnRec
<1>1. [r EXCEPT !.ack = 0] \in ConnRec
  BY DEF ConnRec
<1>2. [r EXCEPT !.st = "committed", !.hadToken = FALSE] \in ConnRec
  BY DEF ConnRec, Handling
<1>3. [r EXCEPT !.st = "receiving", !.prev = NoConn] \in ConnRec
  BY DEF ConnRec, Handling
<1>4. Closed(r) \in ConnRec
  BY DEF ConnRec, Closed
<1> QED BY <1>1, <1>2, <1>3, <1>4

LEMMA BoxShown ==
  ASSUME NEW b \in Box
  PROVE  LET n == [b EXCEPT !.cmd = b.cmd + 1] IN
         n \in Box /\ n.phase = b.phase /\ n.link = b.link
<1>1. b.cmd + 1 \in Nat
  BY DEF Box
<1> QED BY <1>1 DEF Box

\* Letting go of a link changes no type.
LEMMA ReleasedType ==
  ASSUME TypeOK, NEW h \in Host
  PROVE  Released(h) \in [Conn -> ConnRec]
<1>1. CASE box[h].link = NoConn
  BY <1>1 DEF Released, TypeOK
<1>2. CASE box[h].link # NoConn
  <2>1. box[h].link \in Conn
    BY <1>2 DEF TypeOK, Box
  <2>2. Abandoned(conn[box[h].link]) \in ConnRec
    BY <2>1, RecordTypes DEF TypeOK
  <2> QED BY <1>2, <2>1, <2>2 DEF Released, TypeOK
<1> QED BY <1>1, <1>2

\* The type invariant with what the record fields need to be followed: an agent
\* that is registering or running holds a connection, an idle one none.
PhaseLink == \A h \in Host : box[h].phase = "idle" <=> box[h].link = NoConn
Typed == TypeOK /\ PhaseLink

\* The row side of the state, which a commit changes.
RowsTyped == /\ row \in [Host -> Row]
             /\ past \in [Host -> SUBSET Reading]
             /\ crossed \in [Host -> BOOLEAN]

LEMMA CommitTypes ==
  ASSUME TypeOK, NEW h \in Host, NEW r \in Row, Commit(h, r)
  PROVE  /\ row' \in [Host -> Row]
         /\ past' \in [Host -> SUBSET Reading]
         /\ row'[h] = r
         /\ \A g \in Host \ {h} : row'[g] = row[g]
<1>1. Seen(r) \in Reading
  BY DEF Seen, Row, Reading
<1> QED BY <1>1 DEF Commit, TypeOK

\* What the two commits of the token endpoints make of a row.
MintedRow(h, read) == [active |-> Written(read.active, TRUE, row[h].active),
                       version |-> read.version + 1, token |-> box[h].cmd + 1]
RevokedRow(h, read) == [active |-> Written(read.active, FALSE, row[h].active),
                        version |-> read.version + 1,
                        token |-> IF read.pending THEN 0 ELSE row[h].token]

LEMMA AdminRows ==
  ASSUME TypeOK, NEW h \in Host, NEW read \in past[h]
  PROVE  /\ read \in Reading
         /\ MintedRow(h, read) \in Row
         /\ RevokedRow(h, read) \in Row
         /\ Crossed(h, read) \in [Host -> BOOLEAN]
<1>1. read \in Reading
  BY DEF TypeOK
<1>2. row[h] \in Row /\ box[h] \in Box
  BY DEF TypeOK
<1>f. /\ row[h].active \in BOOLEAN /\ row[h].token \in Nat \cup {Expired}
      /\ read.version + 1 \in Nat /\ box[h].cmd + 1 \in Nat
  BY <1>1, <1>2 DEF Row, Reading, Box
<1>w. \A new \in BOOLEAN : Written(read.active, new, row[h].active) \in BOOLEAN
  BY <1>f DEF Written
<1>3. MintedRow(h, read) \in Row
  BY <1>f, <1>w DEF MintedRow, Row
<1>4. RevokedRow(h, read) \in Row
  <2>1. (IF read.pending THEN 0 ELSE row[h].token) \in Nat \cup {Expired}
    BY <1>f
  <2> QED BY <1>f, <1>w, <2>1 DEF RevokedRow, Row
<1>5. Crossed(h, read) \in [Host -> BOOLEAN]
  BY DEF TypeOK, Crossed
<1> QED BY <1>1, <1>3, <1>4, <1>5

\* What the agent's steps make of its box.
LEMMA BoxInstalled ==
  ASSUME NEW b \in Box
  PROVE  [b EXCEPT !.conf = b.cmd, !.up = TRUE, !.run = IF b.up THEN b.run ELSE b.cmd] \in Box
<1>1. b.cmd \in Nat /\ (IF b.up THEN b.run ELSE b.cmd) \in Nat
  BY DEF Box
<1>2. ASSUME NEW n \in Nat, NEW m \in Nat
      PROVE  [b EXCEPT !.conf = n, !.up = TRUE, !.run = m] \in Box
  BY DEF Box
<1> QED BY ONLY <1>1, <1>2

LEMMA BoxRestarted ==
  ASSUME NEW b \in Box, NEW d \in 1 .. DelayCap
  PROVE  [b EXCEPT !.run = b.conf, !.phase = "idle", !.link = NoConn, !.delay = d] \in Box
<1>1. b.conf \in Nat
  BY DEF Box
<1>2. ASSUME NEW n \in Nat
      PROVE  [b EXCEPT !.run = n, !.phase = "idle", !.link = NoConn, !.delay = d] \in Box
  BY DEF Box
<1> QED BY ONLY <1>1, <1>2

LEMMA BoxIdle ==
  ASSUME NEW b \in Box, NEW d \in 1 .. DelayCap
  PROVE  [b EXCEPT !.phase = "idle", !.link = NoConn, !.delay = d] \in Box
BY DEF Box

LEMMA BoxAcknowledged ==
  ASSUME NEW b \in Box, NEW j \in Nat \cup {Expired}
  PROVE  [b EXCEPT !.phase = "running", !.jwt = j] \in Box
BY DEF Box

LEMMA TypedStep == Typed /\ [Next]_vars => Typed'
<1> SUFFICES ASSUME Typed, [Next]_vars PROVE Typed'
  OBVIOUS
<1> USE DEF Typed, TypeOK, PhaseLink
<1>b. ASSUME NEW h \in Host, NEW b \in Box, box' = [box EXCEPT ![h] = b],
             b.phase = "idle" <=> b.link = NoConn,
             RowsTyped', conn' \in [Conn -> ConnRec], UNCHANGED byHost
      PROVE  Typed'
  BY <1>b DEF RowsTyped
<1>c. ASSUME NEW c \in Conn, NEW r \in ConnRec, conn' = [conn EXCEPT ![c] = r],
             RowsTyped', UNCHANGED box,
             byHost' \in [Worker -> [Host -> Conn \cup {NoConn}]]
      PROVE  Typed'
  BY <1>c DEF RowsTyped
<1>r. ASSUME UNCHANGED <<row, past, crossed>> PROVE RowsTyped'
  BY <1>r DEF RowsTyped
<1>1. ASSUME NEW h \in Host, NEW read \in past[h], CommitMint(h, read) PROVE Typed'
  <2> DEFINE b == [box[h] EXCEPT !.cmd = box[h].cmd + 1]
  <2>1. b \in Box /\ b.phase = box[h].phase /\ b.link = box[h].link
    BY BoxShown
  <2>2. Commit(h, MintedRow(h, read)) /\ crossed' = Crossed(h, read)
    BY <1>1 DEF CommitMint, MintedRow
  <2>3. RowsTyped'
    BY <2>2, AdminRows, CommitTypes DEF RowsTyped
  <2>4. box' = [box EXCEPT ![h] = b] /\ UNCHANGED <<conn, byHost>>
    BY <1>1 DEF CommitMint
  <2> HIDE DEF b
  <2> QED BY <2>1, <2>3, <2>4, <1>b, <1>r
<1>2. ASSUME NEW h \in Host, NEW read \in past[h], CommitRevoke(h, read) PROVE Typed'
  <2>1. Commit(h, RevokedRow(h, read)) /\ crossed' = Crossed(h, read)
    BY <1>2 DEF CommitRevoke, RevokedRow
  <2>2. RowsTyped'
    BY <2>1, AdminRows, CommitTypes DEF RowsTyped
  <2>3. UNCHANGED <<box, conn, byHost>>
    BY <1>2 DEF CommitRevoke
  <2> QED BY <2>2, <2>3 DEF RowsTyped
<1>3. ASSUME NEW h \in Host, TokenExpires(h) PROVE Typed'
  BY <1>3 DEF TokenExpires, Row
<1>x. ASSUME NEW h \in Host, JwtExpires(h) PROVE Typed'
  <2> DEFINE b == [box[h] EXCEPT !.jwt = Expired]
             aged(c) == [conn[c] EXCEPT !.bearer = [conn[c].bearer EXCEPT !.name = Expired]]
  <2>1. b \in Box /\ b.phase = box[h].phase /\ b.link = box[h].link
    BY DEF Box
  <2>2. ASSUME NEW c \in Conn PROVE aged(c) \in ConnRec
    <3>1. conn[c] \in ConnRec /\ conn[c].bearer \in Bearer
      BY DEF ConnRec
    <3>2. [conn[c].bearer EXCEPT !.name = Expired] \in Bearer
      BY <3>1 DEF Bearer
    <3> QED BY <3>1, <3>2 DEF ConnRec
  <2>3. \A c \in Conn : conn'[c] \in {conn[c], aged(c)}
    BY <1>x DEF JwtExpires
  <2>4. conn' = [c \in Conn |-> conn'[c]]
    BY <1>x DEF JwtExpires
  <2>5. box' = [box EXCEPT ![h] = b] /\ UNCHANGED <<row, past, crossed, byHost>>
    BY <1>x DEF JwtExpires
  <2> HIDE DEF b, aged
  <2>6. conn' \in [Conn -> ConnRec]
    BY <2>2, <2>3, <2>4
  <2> QED BY <2>1, <2>5, <2>6, <1>b, <1>r
<1>4. ASSUME NEW h \in Host, Install(h) PROVE Typed'
  <2> DEFINE b == [box[h] EXCEPT !.conf = box[h].cmd, !.up = TRUE,
                                 !.run = IF box[h].up THEN box[h].run ELSE box[h].cmd]
  <2>x. box[h] \in Box
    OBVIOUS
  <2>y. b \in Box
    BY ONLY <2>x, BoxInstalled
  <2>z. b.phase = box[h].phase /\ b.link = box[h].link
    BY ONLY <2>x DEF Box
  <2>1. b \in Box /\ b.phase = box[h].phase /\ b.link = box[h].link
    BY <2>y, <2>z
  <2>2. box' = [box EXCEPT ![h] = b] /\ UNCHANGED <<row, past, crossed, conn, byHost>>
    BY <1>4 DEF Install
  <2> HIDE DEF b
  <2> QED BY <2>1, <2>2, <1>b, <1>r
<1>5. ASSUME NEW h \in Host, RestartAgent(h) PROVE Typed'
  <2> DEFINE b == [box[h] EXCEPT !.run = box[h].conf, !.phase = "idle",
                                 !.link = NoConn, !.delay = 1]
  <2>. 1 \in 1 .. DelayCap
    OBVIOUS
  <2>x. box[h] \in Box
    OBVIOUS
  <2>y. b \in Box
    BY <2>x, BoxRestarted
  <2>z. b.phase = "idle" /\ b.link = NoConn
    BY ONLY <2>x DEF Box
  <2>1. b \in Box /\ b.phase = "idle" /\ b.link = NoConn
    BY <2>y, <2>z
  <2>2. box' = [box EXCEPT ![h] = b] /\ UNCHANGED <<row, past, crossed, byHost>>
        /\ conn' \in [Conn -> ConnRec]
    BY <1>5, ReleasedType DEF RestartAgent
  <2> HIDE DEF b
  <2> QED BY <2>1, <2>2, <1>b, <1>r
<1>6. ASSUME NEW h \in Host, NEW c \in Conn, NEW w \in Worker, Dial(h, c, w) PROVE Typed'
  <2> DEFINE b == [box[h] EXCEPT !.phase = "registering", !.link = c]
             r == [st |-> "connected", host |-> h, worker |-> w,
                   bearer |-> BearerToken(h), hadToken |-> FALSE,
                   ack |-> 0, prev |-> NoConn, sock |-> "open"]
  <2>1. BearerToken(h) \in Bearer
    BY DEF BearerToken, Bearer, Box
  <2>2. r \in ConnRec
    BY <2>1 DEF ConnRec, Handling
  <2>3. b \in Box /\ b.phase = "registering" /\ b.link = c
    BY DEF Box
  <2>4. box' = [box EXCEPT ![h] = b] /\ conn' = [conn EXCEPT ![c] = r]
        /\ UNCHANGED <<row, past, crossed, byHost>>
    BY <1>6 DEF Dial
  <2> HIDE DEF b, r
  <2> QED BY <2>2, <2>3, <2>4, <1>b, <1>r
<1>7. ASSUME NEW h \in Host, ReceiveAck(h) PROVE Typed'
  <2>1. box[h].link \in Conn
    BY <1>7 DEF ReceiveAck, Box
  <2>2. conn[box[h].link].ack \in Nat
    BY <2>1 DEF ConnRec
  <2>3. PICK written \in BOOLEAN :
          box' = [box EXCEPT ![h] = [@ EXCEPT !.phase = "running",
                                     !.jwt = IF written THEN conn[box[h].link].ack ELSE box[h].jwt]]
    BY <1>7 DEF ReceiveAck
  <2> DEFINE b == [box[h] EXCEPT !.phase = "running",
                                 !.jwt = IF written THEN conn[box[h].link].ack ELSE box[h].jwt]
             r == [conn[box[h].link] EXCEPT !.ack = 0]
  <2>x. box[h] \in Box /\ (IF written THEN conn[box[h].link].ack ELSE box[h].jwt) \in Nat \cup {Expired}
    BY <2>2 DEF Box
  <2>y. b \in Box
    BY ONLY <2>x, BoxAcknowledged
  <2>z. b.phase = "running" /\ b.link = box[h].link
    BY ONLY <2>x DEF Box
  <2>4. b \in Box /\ b.phase = "running" /\ b.link = box[h].link
    BY <2>y, <2>z
  <2>5. r \in ConnRec
    BY <2>1, ConnUpdates
  <2>6. box' = [box EXCEPT ![h] = b] /\ conn' = [conn EXCEPT ![box[h].link] = r]
        /\ UNCHANGED <<row, past, crossed, byHost>>
    BY <2>3, <1>7 DEF ReceiveAck
  <2> HIDE DEF b, r
  <2>7. conn' \in [Conn -> ConnRec]
    BY <2>1, <2>5, <2>6
  <2> QED BY <2>1, <2>4, <2>6, <2>7, <1>b, <1>r
<1>8. ASSUME NEW h \in Host, EndSession(h) PROVE Typed'
  <2> DEFINE b == [box[h] EXCEPT !.phase = "idle", !.link = NoConn, !.delay = NextDelay(h)]
  <2>1. NextDelay(h) \in 1 .. DelayCap
    BY DEF NextDelay, Doubled, Box
  <2>x. box[h] \in Box
    OBVIOUS
  <2>y. b \in Box
    BY ONLY <2>1, <2>x, BoxIdle
  <2>z. b.phase = "idle" /\ b.link = NoConn
    BY ONLY <2>x DEF Box
  <2>2. b \in Box /\ b.phase = "idle" /\ b.link = NoConn
    BY <2>y, <2>z
  <2>3. box' = [box EXCEPT ![h] = b] /\ UNCHANGED <<row, past, crossed, byHost>>
        /\ conn' \in [Conn -> ConnRec]
    BY <1>8, ReleasedType DEF EndSession
  <2> HIDE DEF b
  <2> QED BY <2>2, <2>3, <1>b, <1>r
<1>9. ASSUME NEW c \in Conn, Authenticate(c) PROVE Typed'
  <2> DEFINE r == IF Authentic(c)
                  THEN [conn[c] EXCEPT !.st = "authed", !.bearer = Blank.bearer,
                                       !.hadToken = row[conn[c].host].token # 0]
                  ELSE Returned(conn[c])
  <2>1. [conn[c] EXCEPT !.st = "authed", !.bearer = Blank.bearer,
                        !.hadToken = row[conn[c].host].token # 0] \in ConnRec
    <3>1. conn[c] \in ConnRec /\ Blank.bearer \in Bearer
      BY BlankType DEF ConnRec
    <3> QED BY <3>1 DEF ConnRec, Handling
  <2>2. r \in ConnRec
    BY <2>1, RecordTypes
  <2>3. conn' = [conn EXCEPT ![c] = r] /\ UNCHANGED <<row, past, crossed, box, byHost>>
    BY <1>9, Zenon DEF Authenticate
  <2> HIDE DEF r
  <2> QED BY <2>2, <2>3, <1>c, <1>r
<1>10. ASSUME NEW c \in Conn, CommitRow(c) PROVE Typed'
  <2> DEFINE r == [conn[c] EXCEPT !.st = "committed", !.hadToken = FALSE]
             h == conn[c].host
             n == [row[h] EXCEPT !.token = IF conn[c].hadToken THEN 0 ELSE @]
  <2>1. r \in ConnRec
    BY ConnUpdates
  <2>2. h \in Host
    BY DEF ConnRec
  <2>3. n \in Row
    BY <2>2 DEF Row
  <2>4. Commit(h, n) /\ conn' = [conn EXCEPT ![c] = r] /\ UNCHANGED <<crossed, box, byHost>>
    BY <1>10 DEF CommitRow
  <2> HIDE DEF r, h, n
  <2>5. RowsTyped'
    BY <2>2, <2>3, <2>4, CommitTypes DEF RowsTyped
  <2> QED BY <2>1, <2>4, <2>5, <1>c
<1>11. ASSUME NEW c \in Conn, SendAck(c) PROVE Typed'
  <2> DEFINE r == [conn[c] EXCEPT !.st = "acked",
                     !.ack = IF conn[c].sock = "open" THEN row[conn[c].host].version ELSE 0]
  <2>1. r \in ConnRec
    <3>1. conn[c] \in ConnRec /\ row[conn[c].host].version \in Nat
      BY DEF ConnRec, Row
    <3> QED BY <3>1 DEF ConnRec, Handling
  <2>2. conn' = [conn EXCEPT ![c] = r] /\ UNCHANGED <<row, past, crossed, box, byHost>>
    BY <1>11 DEF SendAck
  <2> HIDE DEF r
  <2> QED BY <2>1, <2>2, <1>c, <1>r
<1>12. ASSUME NEW c \in Conn, RegisterSession(c) PROVE Typed'
  <2> DEFINE previous == byHost[conn[c].worker][conn[c].host]
             r == [conn[c] EXCEPT !.prev = previous,
                    !.st = IF previous = NoConn THEN "receiving" ELSE "replacing"]
  <2>1. conn[c].worker \in Worker /\ conn[c].host \in Host
    BY DEF ConnRec
  <2>2. r \in ConnRec
    <3>1. conn[c] \in ConnRec /\ previous \in Conn \cup {NoConn}
      BY <2>1
    <3> QED BY <3>1 DEF ConnRec, Handling
  <2>3. conn' = [conn EXCEPT ![c] = r] /\ UNCHANGED <<row, past, crossed, box>>
    BY <1>12 DEF RegisterSession
  <2>4. byHost' \in [Worker -> [Host -> Conn \cup {NoConn}]]
    BY <1>12, <2>1 DEF RegisterSession
  <2> HIDE DEF r
  <2> QED BY <2>2, <2>3, <2>4, <1>c, <1>r
<1>13. ASSUME NEW c \in Conn, ClosePrevious(c) PROVE Typed'
  <2> DEFINE r == [conn[c] EXCEPT !.st = "receiving", !.prev = NoConn]
  <2>1. r \in ConnRec /\ \A q \in ConnRec : Closed(q) \in ConnRec
    BY ConnUpdates
  <2>2. conn' = [conn EXCEPT ![c] = r, ![conn[c].prev] = Closed(@)]
        /\ UNCHANGED <<row, past, crossed, box, byHost>>
    BY <1>13 DEF ClosePrevious
  <2> HIDE DEF r
  <2> QED BY <2>1, <2>2
<1>14. ASSUME NEW c \in Conn, LeaveLoop(c) PROVE Typed'
  <2>1. byHost' \in [Worker -> [Host -> Conn \cup {NoConn}]]
    BY <1>14 DEF LeaveLoop, Removed, ConnRec
  <2> QED BY <1>14, <1>c, <1>r, <2>1, RecordTypes DEF LeaveLoop
<1>15. ASSUME NEW c \in Conn, Abort(c) PROVE Typed'
  BY <1>15, <1>c, <1>r, BlankType DEF Abort
<1>16. ASSUME NEW w \in Worker, CrashWorker(w) PROVE Typed'
  BY <1>16, RecordTypes DEF CrashWorker
<1>17. CASE UNCHANGED vars
  BY <1>17 DEF vars
<1> QED
  BY <1>1, <1>2, <1>3, <1>x, <1>4, <1>5, <1>6, <1>7, <1>8, <1>9, <1>10, <1>11, <1>12,
     <1>13, <1>14, <1>15, <1>16, <1>17
     DEF Next, Endpoint, Operator, Agent, Handler, DropLink, SeeClose

\* Every variable keeps its type, and an agent's phase agrees with its link.
THEOREM TypeCorrect == Spec => []TypeOK
<1>1. Init => Typed
  BY BlankType DEF Init, Typed, TypeOK, PhaseLink, Row, Box, Seen, Reading
<1> QED BY <1>1, TypedStep, PTL DEF Spec, Typed

-----------------------------------------------------------------------------
(* The registry only holds sessions that are being served.                 *)

Serving == {"replacing", "receiving"}

\* What an agent's end of session leaves of the connections: no record loses
\* its handler, host or worker unless nothing was left of it.
LEMMA ReleasedKeeps ==
  ASSUME TypeOK, NEW h \in Host, NEW c \in Conn, conn[c].st # "free"
  PROVE  /\ Released(h)[c].st = conn[c].st
         /\ Released(h)[c].host = conn[c].host
         /\ Released(h)[c].worker = conn[c].worker
         /\ Released(h)[c].ack \in {conn[c].ack, 0}
BY DEF Released, Abandoned, TypeOK, ConnRec

\* An expiry changes of a connection no more than its bearer.
LEMMA JwtKeeps ==
  ASSUME TypeOK, NEW h \in Host, JwtExpires(h)
  PROVE  /\ UNCHANGED <<row, past, crossed, byHost>>
         /\ \A c \in Conn : /\ conn'[c].st = conn[c].st /\ conn'[c].host = conn[c].host
                            /\ conn'[c].worker = conn[c].worker /\ conn'[c].ack = conn[c].ack
                            /\ conn'[c].sock = conn[c].sock /\ conn'[c].prev = conn[c].prev
<1>1. ASSUME NEW c \in Conn, conn[c] \in ConnRec,
             conn'[c] = conn[c] \/ conn'[c] = [conn[c] EXCEPT !.bearer = [conn[c].bearer EXCEPT !.name = Expired]]
      PROVE  /\ conn'[c].st = conn[c].st /\ conn'[c].host = conn[c].host
             /\ conn'[c].worker = conn[c].worker /\ conn'[c].ack = conn[c].ack
             /\ conn'[c].sock = conn[c].sock /\ conn'[c].prev = conn[c].prev
  BY <1>1 DEF ConnRec
<1> QED BY <1>1 DEF JwtExpires, TypeOK

\* Reading the ack takes it off the agent's connection.
LEMMA AckKeeps ==
  ASSUME TypeOK, NEW h \in Host, ReceiveAck(h), NEW c \in Conn
  PROVE  /\ conn'[c].st = conn[c].st /\ conn'[c].host = conn[c].host
         /\ conn'[c].worker = conn[c].worker /\ conn'[c].ack \in {conn[c].ack, 0}
         /\ conn'[c].sock = conn[c].sock /\ UNCHANGED byHost
<1>1. conn'[c] = conn[c] \/ conn'[c] = [conn[c] EXCEPT !.ack = 0]
  BY DEF ReceiveAck, TypeOK
<1>2. conn[c] \in ConnRec
  BY DEF TypeOK
<1> QED BY <1>1, <1>2 DEF ConnRec, ReceiveAck

LEMMA ServedStep == Typed /\ RegistryServed /\ [Next]_vars => RegistryServed'
<1> SUFFICES ASSUME Typed, RegistryServed, [Next]_vars PROVE RegistryServed'
  OBVIOUS
<1> USE DEF Typed, TypeOK, RegistryServed, ServedSession, Serving
\* Sessions that stay served keep an unchanged map sound.
<1>k. ASSUME UNCHANGED byHost,
             \A c \in Conn : conn[c].st \in Serving =>
                /\ conn'[c].st \in Serving
                /\ conn'[c].host = conn[c].host /\ conn'[c].worker = conn[c].worker
      PROVE  RegistryServed'
  BY <1>k
<1>1. ASSUME UNCHANGED <<conn, byHost>> PROVE RegistryServed'
  BY <1>1
<1>2. ASSUME NEW h \in Host, conn' = Released(h), UNCHANGED byHost PROVE RegistryServed'
  BY <1>2, <1>k, ReleasedKeeps
<1>x. ASSUME NEW h \in Host, JwtExpires(h) PROVE RegistryServed'
  BY <1>x, <1>k, JwtKeeps
<1>a. ASSUME NEW h \in Host, ReceiveAck(h) PROVE RegistryServed'
  <2>1. \A c \in Conn : /\ conn'[c].st = conn[c].st /\ conn'[c].host = conn[c].host
                        /\ conn'[c].worker = conn[c].worker
    BY <1>a, AckKeeps
  <2>2. UNCHANGED byHost
    BY <1>a DEF ReceiveAck
  <2> QED BY <2>1, <2>2, <1>k
<1>3. ASSUME NEW h \in Host, NEW c \in Conn, NEW w \in Worker, Dial(h, c, w)
      PROVE  RegistryServed'
  BY <1>3, <1>k DEF Dial, Unused
<1>4. ASSUME NEW c \in Conn, Authenticate(c) PROVE RegistryServed'
  BY <1>4, <1>k DEF Authenticate
<1>5. ASSUME NEW c \in Conn, CommitRow(c) PROVE RegistryServed'
  BY <1>5, <1>k DEF CommitRow
<1>6. ASSUME NEW c \in Conn, SendAck(c) PROVE RegistryServed'
  BY <1>6, <1>k DEF SendAck
<1>7. ASSUME NEW c \in Conn, RegisterSession(c) PROVE RegistryServed'
  <2> DEFINE w == conn[c].worker  h == conn[c].host
  <2>1. conn[c] \in ConnRec /\ w \in Worker /\ h \in Host
    BY DEF ConnRec
  <2>2. conn'[c].st \in Serving /\ conn'[c].host = h /\ conn'[c].worker = w
    BY <1>7, <2>1 DEF RegisterSession, ConnRec
  <2>3. \A d \in Conn \ {c} : conn'[d] = conn[d]
    BY <1>7 DEF RegisterSession
  <2>4. conn[c].st = "acked"
    BY <1>7 DEF RegisterSession
  <2>5. byHost' = [byHost EXCEPT ![w][h] = c]
    BY <1>7 DEF RegisterSession
  <2>6. ASSUME NEW x \in Worker, NEW g \in Host PROVE ServedSession(x, g)'
    <3>1. CASE x = w /\ g = h
      BY <3>1, <2>1, <2>2, <2>5
    <3>2. CASE ~(x = w /\ g = h)
      <4>1. byHost'[x][g] = byHost[x][g]
        BY <3>2, <2>1, <2>5
      <4>2. byHost[x][g] # c
        BY <2>4, <2>1, <3>2
      <4> QED BY <4>1, <4>2, <2>3
    <3> QED BY <3>1, <3>2
  <2> QED BY <2>6
<1>8. ASSUME NEW c \in Conn, ClosePrevious(c) PROVE RegistryServed'
  <2> DEFINE n == [conn[c] EXCEPT !.st = "receiving", !.prev = NoConn]
  <2>1. ASSUME NEW r \in ConnRec
        PROVE  Closed(r).st = r.st /\ Closed(r).host = r.host /\ Closed(r).worker = r.worker
    BY DEF Closed, ConnRec
  <2>2. /\ n \in ConnRec /\ n.st = "receiving"
        /\ n.host = conn[c].host /\ n.worker = conn[c].worker
    <3>1. conn[c] \in ConnRec
      OBVIOUS
    <3> QED BY <3>1 DEF ConnRec, Handling
  <2>3. ASSUME NEW d \in Conn
        PROVE  \/ conn'[d] \in {conn[d], Closed(conn[d])}
               \/ d = c /\ conn'[d] \in {n, Closed(n)}
    BY <1>8 DEF ClosePrevious
  <2>4. UNCHANGED byHost
    BY <1>8 DEF ClosePrevious
  <2> HIDE DEF n
  <2>5. ASSUME NEW d \in Conn, conn[d].st \in Serving
        PROVE  /\ conn'[d].st \in Serving
               /\ conn'[d].host = conn[d].host /\ conn'[d].worker = conn[d].worker
    <3>1. CASE conn'[d] \in {conn[d], Closed(conn[d])}
      <4>1. conn[d] \in ConnRec
        OBVIOUS
      <4> QED BY <3>1, <4>1, <2>1, <2>5
    <3>2. CASE d = c /\ conn'[d] \in {n, Closed(n)}
      BY <3>2, <2>1, <2>2
    <3> QED BY <3>1, <3>2, <2>3
  <2> QED BY <2>4, <2>5, <1>k
<1>9. ASSUME NEW c \in Conn, LeaveLoop(c) PROVE RegistryServed'
  <2>1. conn[c].worker \in Worker /\ conn[c].host \in Host
    BY DEF ConnRec
  <2>2. ASSUME NEW w \in Worker, NEW h \in Host, byHost'[w][h] # NoConn
        PROVE  byHost'[w][h] = byHost[w][h] /\ byHost[w][h] # c
    BY <1>9, <2>1, <2>2 DEF LeaveLoop, Removed
  <2>3. \A d \in Conn \ {c} : conn'[d] = conn[d]
    BY <1>9 DEF LeaveLoop
  <2> QED BY <2>2, <2>3
<1>10. ASSUME NEW c \in Conn, Abort(c) PROVE RegistryServed'
  BY <1>10, <1>k DEF Abort
<1>11. ASSUME NEW w \in Worker, CrashWorker(w) PROVE RegistryServed'
  <2>1. ASSUME NEW x \in Worker, NEW h \in Host, byHost'[x][h] # NoConn
        PROVE  byHost'[x][h] = byHost[x][h] /\ x # w
    BY <1>11, <2>1 DEF CrashWorker
  <2>2. \A d \in Conn : conn[d].worker # w => conn'[d] = conn[d]
    BY <1>11 DEF CrashWorker
  <2> QED BY <2>1, <2>2
<1> QED
  BY <1>1, <1>2, <1>x, <1>a, <1>3, <1>4, <1>5, <1>6, <1>7, <1>8, <1>9, <1>10, <1>11
     DEF Next, Endpoint, Operator, Agent, Handler, CommitMint, CommitRevoke, TokenExpires,
         Install, RestartAgent, DropLink, SeeClose, EndSession, vars

\* A command is never handed to a session that has ended: whatever the registry
\* of a worker holds is a session of that host and worker whose handler runs.
THEOREM SessionsServed == Spec => []RegistryServed
<1>1. Init => Typed /\ RegistryServed
  BY BlankType DEF Init, Typed, TypeOK, PhaseLink, Row, Box, Seen, Reading,
                   RegistryServed, ServedSession
<1>2. Typed /\ RegistryServed /\ [Next]_vars => (Typed /\ RegistryServed)'
  BY TypedStep, ServedStep
<1> QED BY <1>1, <1>2, PTL DEF Spec

-----------------------------------------------------------------------------
(* The pending token.                                                      *)

\* What the row has been since it was last at its version: while no admin
\* request has written over another's commit, readings of the current version
\* agree with the row but for a pending token cleared since, and no reading is of
\* a later version.
ReadsFit ==
    \A h \in Host : ~crossed[h] =>
        /\ Seen(row[h]) \in past[h]
        /\ \A read \in past[h] :
             /\ read.version <= row[h].version
             /\ read.version = row[h].version =>
                    /\ read.active = row[h].active
                    /\ row[h].token # 0 => read.pending

PendInv == PendingIsNewest /\ ReadsFit

\* A commit based on a reading that fits makes a row all older readings fit.
LEMMA CommitFits ==
  ASSUME Typed, ReadsFit, NEW h \in Host, NEW read \in past[h], NEW r \in Row, Commit(h, r),
         r.version = read.version + 1, crossed' = Crossed(h, read)
  PROVE  ReadsFit'
<1> USE DEF Typed, TypeOK
<1>1. Typed /\ read \in Reading /\ \A g \in Host : past[g] \subseteq Reading
  OBVIOUS
<1>2. /\ row'[h] = r /\ past'[h] = past[h] \cup {Seen(r)}
      /\ \A g \in Host \ {h} : row'[g] = row[g] /\ past'[g] = past[g]
  BY DEF Commit
<1>3. crossed'[h] = (crossed[h] \/ row[h].version # read.version)
      /\ \A g \in Host \ {h} : crossed'[g] = crossed[g]
  BY DEF Crossed
<1>4. ASSUME ~crossed'[h], NEW q \in past'[h]
      PROVE  /\ q.version <= r.version
             /\ q.version = r.version => q = Seen(r)
  <2>1. row[h].version = read.version /\ ~crossed[h]
    BY <1>3, <1>4
  <2>2. CASE q = Seen(r)
    BY <2>2 DEF Seen, Row
  <2>3. CASE q \in past[h]
    <3>1. q.version <= row[h].version /\ q.version \in Nat /\ row[h].version \in Nat
      BY <2>1, <2>3, <1>1 DEF ReadsFit, Reading, Row
    <3>2. r.version = row[h].version + 1
      BY <2>1
    <3> QED BY ONLY <3>1, <3>2
  <2> QED BY <1>2, <1>4, <2>2, <2>3
<1>5. ASSUME NEW g \in Host, ~crossed'[g]
      PROVE  /\ Seen(row'[g]) \in past'[g]
             /\ \A q \in past'[g] :
                   /\ q.version <= row'[g].version
                   /\ q.version = row'[g].version =>
                        /\ q.active = row'[g].active
                        /\ row'[g].token # 0 => q.pending
  <2>1. CASE g = h
    <3>1. Seen(row'[h]) \in past'[h]
      BY <1>2
    <3>2. ASSUME NEW q \in past'[h], q = Seen(r)
          PROVE  q.active = r.active /\ (r.token # 0 => q.pending)
      BY <3>2 DEF Seen
    <3> QED BY <1>2, <1>4, <1>5, <2>1, <3>1, <3>2
  <2>2. CASE g # h
    BY <1>2, <1>3, <1>5, <2>2 DEF ReadsFit
  <2> QED BY <2>1, <2>2
<1> QED BY <1>5 DEF ReadsFit, Seen

LEMMA PendingStep == Typed /\ PendInv /\ [Next]_vars => PendInv'
<1> SUFFICES ASSUME Typed, PendInv, [Next]_vars PROVE PendInv'
  OBVIOUS
<1> USE DEF Typed, TypeOK, PendInv
<1>1. ASSUME UNCHANGED <<row, past, crossed>>, \A h \in Host : box'[h].cmd = box[h].cmd
      PROVE  PendInv'
  BY <1>1 DEF PendingIsNewest, ReadsFit, Seen
<1>2. ASSUME NEW h \in Host, NEW read \in past[h], CommitMint(h, read) PROVE PendInv'
  <2>1. Commit(h, MintedRow(h, read)) /\ crossed' = Crossed(h, read) /\ MintedRow(h, read) \in Row
    BY <1>2, AdminRows DEF CommitMint, MintedRow
  <2>2. ReadsFit'
    BY <2>1, CommitFits DEF MintedRow
  <2>3. row'[h].token = box'[h].cmd /\ \A g \in Host \ {h} : row'[g] = row[g] /\ box'[g] = box[g]
    BY <1>2, <2>1, CommitTypes DEF CommitMint, MintedRow, Box
  <2>4. row'[h].active \/ crossed'[h]
    <3>1. row'[h].active = Written(read.active, TRUE, row[h].active)
      <4>1. row'[h] = MintedRow(h, read)
        BY <2>1, CommitTypes
      <4> QED BY <4>1 DEF MintedRow
    <3>2. CASE crossed[h] \/ row[h].version # read.version
      BY <2>1, <3>2 DEF Crossed
    <3>3. CASE ~crossed[h] /\ row[h].version = read.version
      <4>1. read.active = row[h].active
        BY <3>3 DEF ReadsFit
      <4> QED BY <3>1, <4>1 DEF Written
    <3> QED BY <3>2, <3>3
  <2>5. \A g \in Host \ {h} : crossed'[g] = crossed[g]
    BY <2>1 DEF Crossed
  <2>6. PendingIsNewest'
    BY <2>3, <2>4, <2>5 DEF PendingIsNewest
  <2> QED BY <2>2, <2>6
<1>3. ASSUME NEW h \in Host, NEW read \in past[h], CommitRevoke(h, read) PROVE PendInv'
  <2>1. /\ Commit(h, RevokedRow(h, read)) /\ crossed' = Crossed(h, read)
        /\ RevokedRow(h, read) \in Row /\ UNCHANGED box
    BY <1>3, AdminRows DEF CommitRevoke, RevokedRow
  <2>2. ReadsFit'
    BY <2>1, CommitFits DEF RevokedRow
  <2>3. row'[h].token \in {0, row[h].token} /\ \A g \in Host \ {h} : row'[g] = row[g]
    BY <2>1, CommitTypes DEF RevokedRow
  <2>4. row'[h].token # 0 => crossed'[h]
    <3>1. row'[h].token = IF read.pending THEN 0 ELSE row[h].token
      BY <2>1, CommitTypes DEF RevokedRow
    <3>2. CASE crossed[h] \/ row[h].version # read.version
      BY <2>1, <3>2 DEF Crossed
    <3>3. CASE ~crossed[h] /\ row[h].version = read.version
      BY <3>1, <3>3 DEF ReadsFit
    <3> QED BY <3>2, <3>3
  <2>5. \A g \in Host \ {h} : crossed'[g] = crossed[g]
    BY <2>1 DEF Crossed
  <2>6. row[h].token > 0 => row[h].token = box[h].cmd
    BY DEF PendingIsNewest
  <2>7. PendingIsNewest'
    BY <2>1, <2>3, <2>4, <2>5, <2>6 DEF PendingIsNewest
  <2> QED BY <2>2, <2>7
<1>4. ASSUME NEW h \in Host, TokenExpires(h) PROVE PendInv'
  <2>1. /\ row'[h].token = Expired /\ row'[h].active = row[h].active /\ row'[h].version = row[h].version
        /\ \A g \in Host \ {h} : row'[g] = row[g]
        /\ UNCHANGED <<past, crossed, box>>
    BY <1>4 DEF TokenExpires, Row
  <2>2. row[h].token # 0 /\ Expired # 0 /\ ~(Expired > 0)
    BY <1>4 DEF TokenExpires, Expired
  <2>3. Seen(row'[h]) = Seen(row[h])
    BY <2>1, <2>2 DEF Seen
  <2>4. ReadsFit'
    <3>1. ASSUME NEW g \in Host
          PROVE  /\ Seen(row'[g]) = Seen(row[g]) /\ row'[g].version = row[g].version
                 /\ row'[g].active = row[g].active /\ (row'[g].token # 0 => row[g].token # 0)
      BY <2>1, <2>2, <2>3
    <3> QED BY <2>1, <3>1 DEF ReadsFit, Seen
  <2>5. PendingIsNewest'
    BY <2>1, <2>2 DEF PendingIsNewest
  <2> QED BY <2>4, <2>5
<1>5. ASSUME NEW c \in Conn, CommitRow(c) PROVE PendInv'
  <2> DEFINE h == conn[c].host
             n == [row[h] EXCEPT !.token = IF conn[c].hadToken THEN 0 ELSE @]
  <2>1. h \in Host /\ row[h] \in Row
    BY DEF ConnRec
  <2>2. n \in Row /\ n.token \in {0, row[h].token} /\ n.active = row[h].active
        /\ n.version = row[h].version
    BY <2>1 DEF Row
  <2>3. Commit(h, n) /\ UNCHANGED <<crossed, box>>
    BY <1>5 DEF CommitRow
  <2> HIDE DEF h, n
  <2>4. /\ row'[h] = n /\ past'[h] = past[h] \cup {Seen(n)}
        /\ \A g \in Host \ {h} : row'[g] = row[g] /\ past'[g] = past[g]
    BY <2>1, <2>3 DEF Commit
  <2>5. Seen(n).version = row[h].version /\ Seen(n).active = row[h].active
        /\ (n.token # 0 => Seen(n).pending)
    BY <2>2 DEF Seen
  <2>6. row[h].version \in Nat
    BY <2>1 DEF Row
  <2>7. ASSUME NEW g \in Host, ~crossed[g]
        PROVE  /\ Seen(row'[g]) \in past'[g]
               /\ \A q \in past'[g] :
                    /\ q.version <= row'[g].version
                    /\ q.version = row'[g].version =>
                         /\ q.active = row'[g].active
                         /\ row'[g].token # 0 => q.pending
    <3>1. CASE g = h
      <4>1. ASSUME NEW q \in past'[h]
            PROVE  /\ q.version <= row'[h].version
                   /\ q.version = row'[h].version =>
                        /\ q.active = row'[h].active
                        /\ row'[h].token # 0 => q.pending
        <5>1. CASE q = Seen(n)
          BY <2>2, <2>4, <2>5, <2>6, <5>1
        <5>2. CASE q \in past[h]
          BY <2>2, <2>4, <2>7, <3>1, <5>2 DEF ReadsFit
        <5> QED BY <2>4, <4>1, <5>1, <5>2
      <4> QED BY <2>4, <3>1, <4>1
    <3>2. CASE g # h
      BY <2>4, <2>7, <3>2 DEF ReadsFit
    <3> QED BY <3>1, <3>2
  <2>8. ReadsFit'
    BY <2>3, <2>7 DEF ReadsFit, Seen
  <2>9. PendingIsNewest'
    BY <2>1, <2>2, <2>3, <2>4 DEF PendingIsNewest
  <2> QED BY <2>8, <2>9
<1>6. ASSUME NEW h \in Host,
             Install(h) \/ JwtExpires(h) \/ RestartAgent(h) \/ ReceiveAck(h) \/ EndSession(h)
      PROVE  PendInv'
  <2>1. UNCHANGED <<row, past, crossed>>
    BY <1>6 DEF Install, JwtExpires, RestartAgent, ReceiveAck, EndSession
  <2>2. CASE Install(h)
    BY <2>1, <2>2, <1>1 DEF Install, Box
  <2>3. CASE JwtExpires(h)
    BY <2>1, <2>3, <1>1 DEF JwtExpires, Box
  <2>4. CASE RestartAgent(h)
    BY <2>1, <2>4, <1>1 DEF RestartAgent, Box
  <2>5. CASE ReceiveAck(h)
    BY <2>1, <2>5, <1>1 DEF ReceiveAck, Box
  <2>6. CASE EndSession(h)
    BY <2>1, <2>6, <1>1 DEF EndSession, Box
  <2> QED BY <1>6, <2>2, <2>3, <2>4, <2>5, <2>6
<1>7. ASSUME NEW h \in Host, NEW c \in Conn, NEW w \in Worker, Dial(h, c, w) PROVE PendInv'
  BY <1>7, <1>1 DEF Dial, Box
<1> QED
  BY <1>1, <1>2, <1>3, <1>4, <1>5, <1>6, <1>7
     DEF Next, Endpoint, Operator, Agent, Handler, DropLink, SeeClose, Authenticate, SendAck,
         RegisterSession, ClosePrevious, LeaveLoop, Abort, CrashWorker, vars

LEMMA PendInvariant == Spec => [](Typed /\ PendInv)
<1>1. Init => Typed
  BY BlankType DEF Init, Typed, TypeOK, PhaseLink, Row, Box, Seen, Reading
<1>2. Init => PendInv
  <2> SUFFICES ASSUME Init PROVE PendInv
    OBVIOUS
  <2>1. \A h \in Host : /\ row[h] = [active |-> TRUE, version |-> 1, token |-> 1]
                        /\ past[h] = {Seen(row[h])} /\ box[h].cmd = 1
    BY DEF Init
  <2>2. PendingIsNewest
    BY <2>1 DEF PendingIsNewest
  <2>3. ReadsFit
    <3>1. ASSUME NEW h \in Host, NEW read \in past[h]
          PROVE  /\ read = Seen(row[h])
                 /\ read.version = row[h].version /\ read.active = row[h].active
                 /\ row[h].token # 0 => read.pending
      <4>1. read = Seen(row[h])
        BY <2>1
      <4> QED BY <4>1 DEF Seen
    <3>2. ASSUME NEW h \in Host PROVE Seen(row[h]) \in past[h]
      BY <2>1
    <3>3. ASSUME NEW h \in Host PROVE row[h].version = 1
      BY <2>1
    <3> QED BY <3>1, <3>2, <3>3 DEF ReadsFit
  <2> QED BY <2>2, <2>3 DEF PendInv
<1> QED BY <1>1, <1>2, TypedStep, PendingStep, PTL DEF Spec

\* The only token a host can still register with is the one of the install
\* command shown last, and its row is active, however the handler's late UPDATE
\* falls between mints and revokes; the exception is an admin request that has
\* itself written over another's commit.
THEOREM NewestTokenOnly == Spec => []PendingIsNewest
BY PendInvariant, PTL DEF PendInv

-----------------------------------------------------------------------------
(* One open session per host: a handler's socket is open at both ends only  *)
(* while the agent of its host holds it, and an agent holds one connection. *)

\* What a step leaves of connection c as far as its agent can tell: it keeps its
\* host, does not become open, and is not left half open while an agent holds it.
Follows(c) ==
    \/ conn'[c] = conn[c]
    \/ /\ conn[c].sock = "half" /\ conn'[c] = Blank
    \/ /\ conn'[c].host = conn[c].host
       /\ conn'[c].sock # "half" \/ conn[c].sock = "half"
       /\ conn'[c].st = "free" \/ conn[c].st # "free"
       /\ conn'[c].st # "free" /\ conn'[c].sock = "open" => conn[c].sock = "open"

LEMMA ReturnedFollows ==
  ASSUME TypeOK, NEW c \in Conn, conn'[c] = Returned(conn[c])
  PROVE  Follows(c)
BY DEF TypeOK, ConnRec, Returned, Blank, Follows

LEMMA BlankFields ==
  Blank.st = "free" /\ Blank.sock = "closed" /\ Blank.ack = 0 /\ Blank.host \in Host
<1>1. (CHOOSE h \in Host : TRUE) \in Host
  OBVIOUS
<1> QED BY <1>1 DEF Blank

LEMMA LinkStep == Typed /\ LinkConsistent /\ [Next]_vars => LinkConsistent'
<1> SUFFICES ASSUME Typed, LinkConsistent, [Next]_vars PROVE LinkConsistent'
  OBVIOUS
<1>t. Typed'
  BY TypedStep
<1> USE DEF Typed, TypeOK, PhaseLink
<1>k. ASSUME \A h \in Host : box'[h].link = box[h].link, \A c \in Conn : Follows(c)
      PROVE  LinkConsistent'
  <2>1. ASSUME NEW h \in Host, box'[h].link # NoConn
        PROVE  conn'[box'[h].link].host = h /\ conn'[box'[h].link].sock # "half"
    <3>1. box[h].link \in Conn /\ Follows(box[h].link)
      BY <1>k, <2>1 DEF Box
    <3>2. conn[box[h].link].host = h /\ conn[box[h].link].sock # "half"
      BY <3>1, <1>k, <2>1 DEF LinkConsistent
    <3> QED BY <3>1, <3>2, <1>k DEF Follows
  <2>2. ASSUME NEW c \in Conn, conn'[c].st # "free", conn'[c].sock = "open"
        PROVE  box'[conn'[c].host].link = c
    <3>1. conn[c].st # "free" /\ conn[c].sock = "open" /\ conn'[c].host = conn[c].host
      BY <1>k, <2>2, BlankFields DEF Follows
    <3>2. conn[c].host \in Host
      BY DEF ConnRec
    <3> QED BY <1>k, <3>1, <3>2 DEF LinkConsistent
  <2> QED BY <1>t, <2>1, <2>2 DEF LinkConsistent
<1>u. ASSUME UNCHANGED conn, \A h \in Host : box'[h].link = box[h].link PROVE LinkConsistent'
  BY <1>u, <1>k DEF Follows
<1>1. ASSUME NEW h \in Host, conn' = Released(h), box'[h].link = NoConn,
             \A g \in Host \ {h} : box'[g] = box[g]
      PROVE  LinkConsistent'
  <2>1. CASE box[h].link = NoConn
    BY <1>1, <2>1, <1>u DEF Released
  <2>2. CASE box[h].link # NoConn
    <3> DEFINE c == box[h].link
    <3>1. c \in Conn /\ conn[c].host = h
      BY <2>2 DEF Box, LinkConsistent
    <3>2. conn'[c].st = "free" \/ conn'[c].sock # "open"
      BY <1>1, <2>2, <3>1 DEF Released, Abandoned, Blank, ConnRec
    <3>3. \A d \in Conn \ {c} : conn'[d] = conn[d]
      BY <1>1, <2>2, <3>1 DEF Released
    <3> HIDE DEF c
    <3>4. ASSUME NEW g \in Host, box'[g].link # NoConn
          PROVE  conn'[box'[g].link].host = g /\ conn'[box'[g].link].sock # "half"
      <4>1. g # h /\ box'[g] = box[g] /\ box[g].link \in Conn
        BY <1>1, <3>4 DEF Box
      <4>2. conn[box[g].link].host = g /\ conn[box[g].link].sock # "half"
        BY <3>4, <4>1 DEF LinkConsistent
      <4> QED BY <3>1, <3>3, <4>1, <4>2
    <3>5. ASSUME NEW d \in Conn, conn'[d].st # "free", conn'[d].sock = "open"
          PROVE  box'[conn'[d].host].link = d
      <4>1. d # c /\ conn'[d] = conn[d]
        BY <3>2, <3>3, <3>5
      <4>2. conn[d].host \in Host /\ box[conn[d].host].link = d
        BY <3>5, <4>1 DEF ConnRec, LinkConsistent
      <4> QED BY <1>1, <4>1, <4>2 DEF c
    <3> QED BY <1>t, <3>4, <3>5 DEF LinkConsistent
  <2> QED BY <2>1, <2>2
<1>2. ASSUME NEW h \in Host, NEW read \in past[h], CommitMint(h, read) \/ CommitRevoke(h, read)
      PROVE  LinkConsistent'
  <2>1. CASE CommitMint(h, read)
    BY <2>1, <1>u DEF CommitMint, Box
  <2>2. CASE CommitRevoke(h, read)
    BY <2>2, <1>u DEF CommitRevoke
  <2> QED BY <1>2, <2>1, <2>2
<1>3. ASSUME NEW h \in Host, TokenExpires(h) \/ Install(h) PROVE LinkConsistent'
  <2>1. CASE TokenExpires(h)
    BY <2>1, <1>u DEF TokenExpires
  <2>2. CASE Install(h)
    BY <2>2, <1>u DEF Install, Box
  <2> QED BY <1>3, <2>1, <2>2
<1>x. ASSUME NEW h \in Host, JwtExpires(h) PROVE LinkConsistent'
  <2>1. \A g \in Host : box'[g].link = box[g].link
    BY <1>x DEF JwtExpires, Box
  <2>2. \A c \in Conn : Follows(c)
    BY <1>x, JwtKeeps DEF Follows
  <2> QED BY <1>k, <2>1, <2>2
<1>4. ASSUME NEW h \in Host, RestartAgent(h) PROVE LinkConsistent'
  BY <1>1, <1>4 DEF RestartAgent, Box
<1>5. ASSUME NEW h \in Host, NEW c \in Conn, NEW w \in Worker, Dial(h, c, w)
      PROVE  LinkConsistent'
  <2>1. box[h].link = NoConn /\ conn[c].st = "free" /\ \A g \in Host : box[g].link # c
    BY <1>5 DEF Dial, Unused
  <2>2. box'[h].link = c /\ \A g \in Host \ {h} : box'[g] = box[g]
    BY <1>5 DEF Dial, Box
  <2>3. conn'[c].host = h /\ conn'[c].sock = "open" /\ \A d \in Conn \ {c} : conn'[d] = conn[d]
    BY <1>5 DEF Dial
  <2>4. ASSUME NEW g \in Host, box'[g].link # NoConn
        PROVE  conn'[box'[g].link].host = g /\ conn'[box'[g].link].sock # "half"
    <3>1. CASE g = h
      BY <2>2, <2>3, <3>1
    <3>2. CASE g # h
      <4>1. box'[g] = box[g] /\ box[g].link \in Conn \ {c}
        BY <2>1, <2>2, <2>4, <3>2 DEF Box
      <4> QED BY <2>3, <2>4, <4>1 DEF LinkConsistent
    <3> QED BY <3>1, <3>2
  <2>5. ASSUME NEW d \in Conn, conn'[d].st # "free", conn'[d].sock = "open"
        PROVE  box'[conn'[d].host].link = d
    <3>1. CASE d = c
      BY <2>2, <2>3, <3>1
    <3>2. CASE d # c
      <4>1. conn'[d] = conn[d] /\ conn[d].host \in Host
        BY <2>3, <3>2 DEF ConnRec
      <4>2. box[conn[d].host].link = d
        BY <2>5, <4>1 DEF LinkConsistent
      <4> QED BY <2>1, <2>2, <4>1, <4>2
    <3> QED BY <3>1, <3>2
  <2> QED BY <1>t, <2>4, <2>5 DEF LinkConsistent
<1>6. ASSUME NEW h \in Host, ReceiveAck(h) PROVE LinkConsistent'
  <2>1. \A g \in Host : box'[g].link = box[g].link
    BY <1>6 DEF ReceiveAck, Box
  <2>2. \A c \in Conn : Follows(c)
    BY <1>6, AckKeeps DEF Follows
  <2> QED BY <1>k, <2>1, <2>2
<1>7. ASSUME NEW h \in Host, EndSession(h) PROVE LinkConsistent'
  BY <1>1, <1>7 DEF EndSession, Box
<1>8. ASSUME NEW c \in Conn, Authenticate(c) PROVE LinkConsistent'
  <2>1. UNCHANGED box /\ \A d \in Conn \ {c} : conn'[d] = conn[d]
    BY <1>8 DEF Authenticate
  <2>2. CASE Authentic(c)
    <3>1. Follows(c)
      BY <1>8, <2>2 DEF Authenticate, Follows, ConnRec
    <3> QED BY <1>k, <2>1, <3>1 DEF Follows
  <2>3. CASE ~Authentic(c)
    <3>1. conn'[c] = Returned(conn[c])
      BY <1>8, <2>3 DEF Authenticate
    <3> QED BY <1>k, <2>1, <3>1, ReturnedFollows DEF Follows
  <2> QED BY <2>2, <2>3
<1>9. ASSUME NEW c \in Conn, CommitRow(c) \/ SendAck(c) \/ RegisterSession(c) PROVE LinkConsistent'
  <2>1. UNCHANGED box /\ \A d \in Conn \ {c} : conn'[d] = conn[d]
    BY <1>9 DEF CommitRow, SendAck, RegisterSession
  <2>2. /\ conn'[c].host = conn[c].host /\ conn'[c].sock = conn[c].sock
        /\ conn[c].st # "free"
    <3>1. CASE CommitRow(c)
      BY <3>1 DEF CommitRow, ConnRec
    <3>2. CASE SendAck(c)
      BY <3>2 DEF SendAck, ConnRec
    <3>3. CASE RegisterSession(c)
      BY <3>3 DEF RegisterSession, ConnRec
    <3> QED BY <1>9, <3>1, <3>2, <3>3
  <2> QED BY <1>k, <2>1, <2>2 DEF Follows
<1>10. ASSUME NEW c \in Conn, ClosePrevious(c) PROVE LinkConsistent'
  <2> DEFINE n == [conn[c] EXCEPT !.st = "receiving", !.prev = NoConn]
  <2>1. ASSUME NEW r \in ConnRec
        PROVE  /\ Closed(r).st = r.st /\ Closed(r).host = r.host
               /\ Closed(r).sock \in {r.sock, "closed"}
    BY DEF Closed, ConnRec
  <2>2. /\ n \in ConnRec /\ n.st # "free" /\ conn[c].st # "free"
        /\ n.host = conn[c].host /\ n.sock = conn[c].sock
    <3>1. conn[c] \in ConnRec
      OBVIOUS
    <3> QED BY <1>10, <3>1 DEF ClosePrevious, ConnRec, Handling
  <2>3. ASSUME NEW d \in Conn
        PROVE  \/ conn'[d] \in {conn[d], Closed(conn[d])}
               \/ d = c /\ conn'[d] \in {n, Closed(n)}
    BY <1>10 DEF ClosePrevious
  <2>4. UNCHANGED box
    BY <1>10 DEF ClosePrevious
  <2> HIDE DEF n
  <2>5. ASSUME NEW d \in Conn PROVE Follows(d)
    <3>1. CASE conn'[d] \in {conn[d], Closed(conn[d])}
      <4>1. conn[d] \in ConnRec
        OBVIOUS
      <4> QED BY <3>1, <4>1, <2>1 DEF Follows
    <3>2. CASE d = c /\ conn'[d] \in {n, Closed(n)}
      BY <3>2, <2>1, <2>2 DEF Follows
    <3> QED BY <3>1, <3>2, <2>3
  <2> QED BY <1>k, <2>4, <2>5
<1>11. ASSUME NEW c \in Conn, LeaveLoop(c) PROVE LinkConsistent'
  <2>1. UNCHANGED box /\ conn'[c] = Returned(conn[c]) /\ \A d \in Conn \ {c} : conn'[d] = conn[d]
    BY <1>11 DEF LeaveLoop
  <2> QED BY <1>k, <2>1, ReturnedFollows DEF Follows
<1>12. ASSUME NEW c \in Conn, Abort(c) PROVE LinkConsistent'
  BY <1>12, <1>k DEF Abort, Follows
<1>13. ASSUME NEW w \in Worker, CrashWorker(w) PROVE LinkConsistent'
  <2>1. \A c \in Conn : conn'[c] = conn[c] \/ conn'[c] = Returned(conn[c])
    BY <1>13 DEF CrashWorker
  <2>2. UNCHANGED box
    BY <1>13 DEF CrashWorker
  <2> QED BY <1>k, <2>1, <2>2, ReturnedFollows DEF Follows
<1>14. CASE UNCHANGED vars
  BY <1>14, <1>u DEF vars
<1> QED
  BY <1>2, <1>3, <1>x, <1>4, <1>5, <1>6, <1>7, <1>8, <1>9, <1>10, <1>11, <1>12, <1>13, <1>14
     DEF Next, Endpoint, Operator, Agent, Handler, DropLink, SeeClose

LEMMA LinkInvariant == Spec => [](Typed /\ LinkConsistent)
<1>1. Init => Typed
  BY BlankType DEF Init, Typed, TypeOK, PhaseLink, Row, Box, Seen, Reading
<1>2. Init => LinkConsistent
  BY BlankFields DEF Init, LinkConsistent
<1> QED BY <1>1, <1>2, TypedStep, LinkStep, PTL DEF Spec

\* Of all sessions of a host, over all workers, one at most is open at both ends:
\* whatever handlers of earlier connections linger, commands that reach an agent
\* reach it through the connection it holds.
THEOREM OneSessionOpen == Spec => []OneOpenSession
<1>1. LinkConsistent => OneOpenSession
  BY DEF LinkConsistent, OneOpenSession
<1> QED BY <1>1, LinkInvariant, PTL

-----------------------------------------------------------------------------
(* Credentials stay behind the row.  A JWT gets to the agent's host through  *)
(* the ack of its own connection, so the link invariant is needed, and a     *)
(* commit outdates them only if it bumps the version that is in the row,     *)
(* which is what ReadsFit is about.                                          *)

JwtBehind(h) == crossed[h] \/ box[h].jwt <= row[h].version
AckBehind(c) == crossed[conn[c].host] \/ conn[c].ack <= row[conn[c].host].version

LEMMA BehindParts ==
  /\ CredentialsBehind <=> (\A h \in Host : JwtBehind(h)) /\ (\A c \in Conn : AckBehind(c))
  /\ CredentialsBehind' <=> (\A h \in Host : JwtBehind(h)') /\ (\A c \in Conn : AckBehind(c)')
BY DEF CredentialsBehind, JwtBehind, AckBehind

\* What a step leaves of connection c: its host and ack, or nothing.
AckKept(c) == \/ conn'[c].host = conn[c].host /\ conn'[c].ack \in {conn[c].ack, 0}
              \/ conn'[c].host \in Host /\ conn'[c].ack = 0

\* A version that does not fall where no commit was crossed.
VersionGrows(h) == /\ row'[h].version \in Nat
                   /\ crossed'[h] \/ (~crossed[h] /\ row[h].version <= row'[h].version)

LEMMA EndpointGrows ==
  ASSUME Typed, NEW h \in Host, Endpoint(h)
  PROVE  /\ \A g \in Host : VersionGrows(g)
         /\ crossed'[h] \/ row[h].version < row'[h].version
         /\ \A g \in Host : box'[g].jwt = box[g].jwt
         /\ UNCHANGED conn
<1> USE DEF Typed, TypeOK
<1>1. PICK read \in past[h] : CommitMint(h, read) \/ CommitRevoke(h, read)
  BY DEF Endpoint
<1>2. PICK r \in Row : Commit(h, r) /\ r.version = read.version + 1
  <2>1. CASE CommitMint(h, read)
    <3>1. Commit(h, MintedRow(h, read)) /\ MintedRow(h, read).version = read.version + 1
      BY <2>1 DEF CommitMint, MintedRow
    <3>2. MintedRow(h, read) \in Row
      BY <1>1, AdminRows
    <3> QED BY <3>1, <3>2
  <2>2. CASE CommitRevoke(h, read)
    <3>1. Commit(h, RevokedRow(h, read)) /\ RevokedRow(h, read).version = read.version + 1
      BY <2>2 DEF CommitRevoke, RevokedRow
    <3>2. RevokedRow(h, read) \in Row
      BY <1>1, AdminRows
    <3> QED BY <3>1, <3>2
  <2> QED BY <1>1, <2>1, <2>2
<1>3. crossed' = Crossed(h, read) /\ UNCHANGED conn /\ \A g \in Host : box'[g].jwt = box[g].jwt
  BY <1>1 DEF CommitMint, CommitRevoke, Box
<1>4. row'[h] = r /\ \A g \in Host \ {h} : row'[g] = row[g]
  BY <1>2, CommitTypes
<1>5. crossed'[h] = (crossed[h] \/ row[h].version # read.version)
      /\ \A g \in Host \ {h} : crossed'[g] = crossed[g]
  BY <1>3 DEF Crossed
<1>6. \A g \in Host : row[g].version \in Nat
  BY DEF Row
<1>7. crossed'[h] \/ (~crossed[h] /\ row'[h].version = row[h].version + 1)
  BY <1>2, <1>4, <1>5
<1>8. \A g \in Host : VersionGrows(g)
  BY <1>2, <1>4, <1>5, <1>6, <1>7 DEF VersionGrows, Row
<1> QED BY <1>3, <1>6, <1>7, <1>8

LEMMA BehindStep == Typed /\ LinkConsistent /\ CredentialsBehind /\ [Next]_vars => CredentialsBehind'
<1> SUFFICES ASSUME Typed, LinkConsistent, CredentialsBehind, [Next]_vars PROVE CredentialsBehind'
  OBVIOUS
<1> USE DEF Typed, TypeOK
<1>p. (\A h \in Host : JwtBehind(h)) /\ (\A c \in Conn : AckBehind(c))
  BY BehindParts
<1>n. ASSUME NEW h \in Host
      PROVE  row[h].version \in Nat /\ box[h].jwt \in Nat \cup {Expired}
  BY DEF Row, Box
<1>m. ASSUME NEW c \in Conn PROVE conn[c].ack \in Nat /\ conn[c].host \in Host
  BY DEF ConnRec
<1>e. Expired \in Int /\ \A v \in Nat : Expired <= v
  BY DEF Expired
<1>v. ASSUME \A h \in Host : VersionGrows(h),
             \A h \in Host : box'[h].jwt \in {box[h].jwt, Expired} \/ JwtBehind(h)',
             \A c \in Conn : AckKept(c)
      PROVE  CredentialsBehind'
  <2> HIDE DEF Typed, TypeOK
  <2>1. ASSUME NEW c \in Conn PROVE AckBehind(c)'
    <3>1. AckBehind(c) /\ AckKept(c) /\ conn[c].ack \in Nat /\ conn[c].host \in Host
      BY <1>p, <1>v, <1>m
    <3>2. conn'[c].host \in Host
      BY <3>1 DEF AckKept
    <3>3. VersionGrows(conn'[c].host) /\ row[conn[c].host].version \in Nat
      BY <1>v, <3>1, <3>2, <1>n
    <3>4. CASE conn'[c].ack = 0
      BY <3>3, <3>4 DEF AckBehind, VersionGrows
    <3>5. CASE conn'[c].host = conn[c].host /\ conn'[c].ack = conn[c].ack
      BY <3>1, <3>3, <3>5 DEF AckBehind, VersionGrows
    <3> QED BY <3>1, <3>4, <3>5 DEF AckKept
  <2>2. ASSUME NEW h \in Host PROVE JwtBehind(h)'
    <3>1. JwtBehind(h) /\ VersionGrows(h) /\ row[h].version \in Nat
      BY <1>p, <1>v, <1>n
    <3>2. CASE box'[h].jwt = Expired
      BY <3>1, <3>2, <1>e DEF JwtBehind, VersionGrows
    <3>3. CASE box'[h].jwt = box[h].jwt
      <4>1. box[h].jwt \in Int
        BY <1>n, <1>e
      <4> QED BY <3>1, <3>3, <4>1 DEF JwtBehind, VersionGrows
    <3> QED BY <3>2, <3>3, <1>v
  <2> QED BY <2>1, <2>2, BehindParts
<1>w. ASSUME UNCHANGED crossed, \A h \in Host : row'[h].version = row[h].version,
             \A h \in Host : box'[h].jwt \in {box[h].jwt, Expired} \/ JwtBehind(h)',
             \A c \in Conn : AckKept(c)
      PROVE  CredentialsBehind'
  <2>1. ASSUME NEW h \in Host PROVE VersionGrows(h)
    <3>1. crossed[h] \in BOOLEAN /\ row[h].version \in Nat
      BY <1>n
    <3> QED BY <3>1, <1>w DEF VersionGrows
  <2> QED BY <1>v, <1>w, <2>1
<1>x. ASSUME UNCHANGED <<row, crossed>>, \A h \in Host : box'[h].jwt \in {box[h].jwt, Expired},
             \A c \in Conn : AckKept(c)
      PROVE  CredentialsBehind'
  BY <1>w, <1>x
<1>1. ASSUME NEW h \in Host, Endpoint(h) PROVE CredentialsBehind'
  <2>1. \A g \in Host : VersionGrows(g) /\ box'[g].jwt = box[g].jwt
    BY <1>1, EndpointGrows
  <2>2. \A c \in Conn : AckKept(c)
    BY <1>1, EndpointGrows DEF AckKept
  <2> QED BY <2>1, <2>2, <1>v
<1>2. ASSUME NEW h \in Host, TokenExpires(h) PROVE CredentialsBehind'
  <2>1. \A g \in Host : row'[g].version = row[g].version
    BY <1>2 DEF TokenExpires, Row
  <2> QED BY <1>2, <1>w, <2>1 DEF TokenExpires, AckKept
<1>3. ASSUME NEW h \in Host, JwtExpires(h) PROVE CredentialsBehind'
  <2>1. \A g \in Host : box'[g].jwt \in {box[g].jwt, Expired}
    BY <1>3 DEF JwtExpires, Box
  <2>2. UNCHANGED <<row, crossed>> /\ \A c \in Conn : AckKept(c)
    BY <1>3, JwtKeeps DEF AckKept
  <2> QED BY <1>x, <2>1, <2>2
<1>4. ASSUME NEW h \in Host, Install(h) PROVE CredentialsBehind'
  <2>1. \A g \in Host : box'[g].jwt = box[g].jwt
    BY <1>4 DEF Install, Box
  <2> QED BY <1>4, <1>x, <2>1 DEF Install, AckKept
<1>5. ASSUME NEW h \in Host, UNCHANGED <<row, crossed>>, conn' = Released(h),
             \A g \in Host : box'[g].jwt = box[g].jwt
      PROVE  CredentialsBehind'
  <2>1. ASSUME NEW c \in Conn PROVE AckKept(c)
    <3>1. conn'[c] = conn[c] \/ conn'[c] = Abandoned(conn[c])
      BY <1>5 DEF Released, Box
    <3>2. Abandoned(conn[c]) = Blank \/ (/\ Abandoned(conn[c]).host = conn[c].host
                                         /\ Abandoned(conn[c]).ack = 0)
      BY DEF Abandoned, ConnRec
    <3> QED BY <3>1, <3>2, BlankFields DEF AckKept
  <2> QED BY <1>x, <1>5, <2>1
<1>6. ASSUME NEW h \in Host, RestartAgent(h) PROVE CredentialsBehind'
  <2>1. \A g \in Host : box'[g].jwt = box[g].jwt
    BY <1>6 DEF RestartAgent, Box
  <2> QED BY <1>5, <1>6, <2>1 DEF RestartAgent
<1>7. ASSUME NEW h \in Host, EndSession(h) PROVE CredentialsBehind'
  <2>1. \A g \in Host : box'[g].jwt = box[g].jwt
    BY <1>7 DEF EndSession, Box
  <2> QED BY <1>5, <1>7, <2>1 DEF EndSession
<1>8. ASSUME NEW h \in Host, NEW c \in Conn, NEW w \in Worker, Dial(h, c, w) PROVE CredentialsBehind'
  <2>1. \A g \in Host : box'[g].jwt = box[g].jwt
    BY <1>8 DEF Dial, Box
  <2>2. conn'[c].host = h /\ conn'[c].ack = 0 /\ \A d \in Conn \ {c} : conn'[d] = conn[d]
    BY <1>8 DEF Dial
  <2> QED BY <1>8, <1>x, <2>1, <2>2 DEF Dial, AckKept
<1>9. ASSUME NEW h \in Host, ReceiveAck(h) PROVE CredentialsBehind'
  <2> DEFINE c == box[h].link
  <2>1. c \in Conn /\ conn[c].host = h
    BY <1>9 DEF ReceiveAck, PhaseLink, LinkConsistent, Box
  <2>2. crossed[h] \/ conn[c].ack <= row[h].version
    BY <1>p, <2>1 DEF AckBehind
  <2>3. PICK written \in BOOLEAN :
          box' = [box EXCEPT ![h] = [@ EXCEPT !.phase = "running",
                                     !.jwt = IF written THEN conn[c].ack ELSE box[h].jwt]]
    BY <1>9 DEF ReceiveAck
  <2>4. /\ box'[h].jwt \in {box[h].jwt, conn[c].ack}
        /\ \A g \in Host \ {h} : box'[g] = box[g]
    BY <2>3 DEF Box
  <2>5. UNCHANGED <<row, crossed>>
    BY <1>9 DEF ReceiveAck
  <2>6. \A d \in Conn : AckKept(d)
    BY <1>9, AckKeeps DEF AckKept
  <2> HIDE DEF c
  <2>7. JwtBehind(h)'
    BY <1>p, <2>2, <2>4, <2>5 DEF JwtBehind
  <2> QED BY <1>w, <2>4, <2>5, <2>6, <2>7
<1>10. ASSUME NEW r \in ConnRec
       PROVE  /\ Returned(r).host = r.host \/ (Returned(r).host \in Host /\ Returned(r).ack = 0)
              /\ Returned(r).ack \in {r.ack, 0}
  <2>1. [Blank EXCEPT !.host = r.host, !.ack = r.ack].host = r.host
        /\ [Blank EXCEPT !.host = r.host, !.ack = r.ack].ack = r.ack
    BY DEF Blank
  <2> QED BY <2>1, BlankFields DEF Returned
<1>11. ASSUME NEW c \in Conn, Authenticate(c) PROVE CredentialsBehind'
  <2>1. UNCHANGED <<row, past, crossed, box>> /\ \A d \in Conn \ {c} : conn'[d] = conn[d]
    BY <1>11 DEF Authenticate
  <2>2. AckKept(c)
    <3>1. CASE Authentic(c)
      BY <1>11, <3>1 DEF Authenticate, AckKept, ConnRec
    <3>2. CASE ~Authentic(c)
      BY <1>11, <1>10, <3>2 DEF Authenticate, AckKept
    <3> QED BY <3>1, <3>2
  <2> QED BY <1>x, <2>1, <2>2 DEF AckKept
<1>12. ASSUME NEW c \in Conn, CommitRow(c) PROVE CredentialsBehind'
  <2>1. \A g \in Host : row'[g].version = row[g].version
    BY <1>12 DEF CommitRow, Commit, Row
  <2>2. UNCHANGED <<crossed, box>> /\ \A d \in Conn : AckKept(d)
    BY <1>12 DEF CommitRow, AckKept, ConnRec
  <2> QED BY <1>w, <2>1, <2>2
<1>13. ASSUME NEW c \in Conn, SendAck(c) PROVE CredentialsBehind'
  <2>1. conn'[c].ack \in {0, row[conn[c].host].version} /\ conn'[c].host = conn[c].host
        /\ \A d \in Conn \ {c} : conn'[d] = conn[d]
    BY <1>13 DEF SendAck, ConnRec
  <2>2. UNCHANGED <<row, past, crossed, box>>
    BY <1>13 DEF SendAck
  <2>3. ASSUME NEW d \in Conn PROVE AckBehind(d)'
    <3>1. CASE d = c
      <4>1. row[conn[c].host].version \in Nat
        BY <1>m, <1>n
      <4> QED BY <2>1, <2>2, <3>1, <4>1 DEF AckBehind
    <3>2. CASE d # c
      BY <1>p, <2>1, <2>2, <3>2 DEF AckBehind
    <3> QED BY <3>1, <3>2
  <2>4. \A h \in Host : JwtBehind(h)'
    BY <1>p, <2>2 DEF JwtBehind
  <2> QED BY <2>3, <2>4, BehindParts
<1>14. ASSUME NEW c \in Conn, RegisterSession(c) PROVE CredentialsBehind'
  BY <1>14, <1>x DEF RegisterSession, AckKept, ConnRec
<1>15. ASSUME NEW c \in Conn, ClosePrevious(c) PROVE CredentialsBehind'
  <2> DEFINE n == [conn[c] EXCEPT !.st = "receiving", !.prev = NoConn]
  <2>1. ASSUME NEW r \in ConnRec PROVE Closed(r).host = r.host /\ Closed(r).ack = r.ack
    BY DEF Closed, ConnRec
  <2>2. n \in ConnRec /\ n.host = conn[c].host /\ n.ack = conn[c].ack
    <3>1. conn[c] \in ConnRec
      OBVIOUS
    <3> QED BY <3>1 DEF ConnRec, Handling
  <2>3. ASSUME NEW d \in Conn
        PROVE  \/ conn'[d] \in {conn[d], Closed(conn[d])}
               \/ d = c /\ conn'[d] \in {n, Closed(n)}
    BY <1>15 DEF ClosePrevious
  <2>4. UNCHANGED <<row, past, crossed, box>>
    BY <1>15 DEF ClosePrevious
  <2> HIDE DEF n
  <2>5. ASSUME NEW d \in Conn PROVE AckKept(d)
    <3>1. CASE conn'[d] \in {conn[d], Closed(conn[d])}
      <4>1. conn[d] \in ConnRec
        OBVIOUS
      <4> QED BY <3>1, <4>1, <2>1 DEF AckKept
    <3>2. CASE d = c /\ conn'[d] \in {n, Closed(n)}
      BY <3>2, <2>1, <2>2 DEF AckKept
    <3> QED BY <3>1, <3>2, <2>3
  <2> QED BY <1>x, <2>4, <2>5
<1>16. ASSUME NEW c \in Conn, LeaveLoop(c) PROVE CredentialsBehind'
  <2>1. /\ UNCHANGED <<row, past, crossed, box>> /\ conn'[c] = Returned(conn[c])
        /\ \A d \in Conn \ {c} : conn'[d] = conn[d]
    BY <1>16 DEF LeaveLoop
  <2>2. AckKept(c)
    BY <1>10, <2>1 DEF AckKept
  <2> QED BY <1>x, <2>1, <2>2 DEF AckKept
<1>17. ASSUME NEW c \in Conn, Abort(c) PROVE CredentialsBehind'
  BY <1>17, <1>x, BlankFields DEF Abort, AckKept
<1>18. ASSUME NEW w \in Worker, CrashWorker(w) PROVE CredentialsBehind'
  <2>1. \A c \in Conn : conn'[c] = conn[c] \/ conn'[c] = Returned(conn[c])
    BY <1>18 DEF CrashWorker
  <2>2. UNCHANGED <<row, past, crossed, box>>
    BY <1>18 DEF CrashWorker
  <2> QED BY <1>x, <1>10, <2>1, <2>2 DEF AckKept
<1>19. CASE UNCHANGED vars
  BY <1>19, <1>x DEF vars, AckKept
<1> QED
  BY <1>1, <1>2, <1>3, <1>4, <1>6, <1>7, <1>8, <1>9, <1>11, <1>12, <1>13, <1>14, <1>15,
     <1>16, <1>17, <1>18, <1>19
     DEF Next, Operator, Agent, Handler, DropLink, SeeClose

\* Every mint and every revoke outdates the JWTs of its host there are, on disk
\* and on their way, unless an admin request has written over another's commit.
THEOREM CommitsOutdate == Spec => CommitOutdates
<1>1. Init => CredentialsBehind
  BY BlankFields DEF Init, CredentialsBehind
<1>2. ASSUME Typed, CredentialsBehind, NEW h \in Host, Endpoint(h)
      PROVE  crossed'[h] \/ Outdated(h)
  <2>1. /\ VersionGrows(h)
        /\ crossed'[h] \/ row[h].version < row'[h].version
        /\ box'[h].jwt = box[h].jwt /\ UNCHANGED conn
    BY <1>2, EndpointGrows
  <2>2. row[h].version \in Nat /\ box[h].jwt \in Nat \cup {Expired} /\ Expired \in Int
    BY <1>2 DEF Typed, TypeOK, Row, Box, Expired
  <2>3. CASE ~crossed'[h]
    <3>1. ~crossed[h] /\ row[h].version < row'[h].version /\ row'[h].version \in Nat
      BY <2>1, <2>3 DEF VersionGrows
    <3>2. box[h].jwt <= row[h].version
          /\ \A c \in Conn : conn[c].host = h => conn[c].ack <= row[h].version
      BY <1>2, <3>1 DEF CredentialsBehind
    <3>3. \A c \in Conn : conn[c].ack \in Nat
      BY <1>2 DEF Typed, TypeOK, ConnRec
    <3> QED BY <2>1, <2>2, <3>1, <3>2, <3>3 DEF Outdated
  <2> QED BY <2>3
<1>3. Typed /\ CredentialsBehind /\ [Next]_vars =>
        [\A h \in Host : Endpoint(h) => crossed'[h] \/ Outdated(h)]_vars
  BY <1>2
<1> QED BY <1>1, <1>3, BehindStep, LinkInvariant, PTL DEF Spec, CommitOutdates

=============================================================================
