-------------------------- MODULE OperationsProofs ---------------------------
(***************************************************************************)
(* What the console's smaller operations promise: edits of a broker's file *)
(* with their audit log (BrokerConfig), the alerting stack (Monitoring) and*)
(* the capped log of a deploy with its consoles (TaskLog), each for any    *)
(* values of its constants and any number of requests.                     *)
(*                                                                         *)
(* AuditReplays is not inductive: what a commit records was read before    *)
(* the write.  While a broker is clean at most one request is at work on   *)
(* it (Kept): until it writes, what it read is the file, then the file is  *)
(* what it read with one line changed, and the log still leaves what it    *)
(* read.  That the log itself goes on from entry to entry is Chained, and  *)
(* both are about the newest entry of a set, which LastOne provides.       *)
(*                                                                         *)
(* MarksOwnEntry is not inductive: the mark goes to the newest entry of the*)
(* key.  RollbackFits says that a rollback has written nothing before its  *)
(* commit and then exactly one entry, and that this is the newest of its   *)
(* key unless another edit of the key came between.                        *)
(*                                                                         *)
(* RulesInForce and DeployedIsServed are not inductive: a stack is up and  *)
(* has its rules long before the deploy records it.  Progress says how far *)
(* each request has got and what therefore holds on its host already, and  *)
(* OwnHosts that no row, file, stack or request of another cluster reaches *)
(* the hosts of a cluster that is alone.                                   *)
(*                                                                         *)
(* HeadAndTail, StreamInOrder and StreamIsPrefix are not inductive: what a *)
(* cut, the sentinel's removal or a poll makes of a log depends on where   *)
(* its lines lie.  Shaped gives every line of it by its place, StageFits   *)
(* says that the sentinel is never the only line when it is taken, InOrder *)
(* that what is still to be sent is newer than all that was sent, and      *)
(* InStep that a console's index counts what it was sent.                  *)
(*                                                                         *)
(* That TaskLog implements StreamPromise needs no more than that of the    *)
(* log, and of the deploy that its verdict comes once (StreamInv).         *)
(***************************************************************************)
EXTENDS BrokerConfig, Monitoring, TaskLog, Integers, WellFoundedInduction, SequenceTheorems, TLAPS

\* A request at work on a broker, between its first look at the file and its commit.
Busy(r) == edit[r].at \in {"read", "fallback", "written"}
Works(r, b) == Busy(r) /\ edit[r].broker = b

\* What the log says of a broker follows from entry to entry.
Chained(b) ==
    \A k \in ConfigKey : \A i \in EntriesOf(b, k) :
        audit[i].old = LeftBy({j \in EntriesOf(b, k) : j < i}, k)

\* The file of a broker is what the log leaves, but for the one edit not yet committed,
\* which has read that file and written it back with a line changed.
Kept(b) ==
    /\ \A c \in Content : <<b, c>> \notin late
    /\ \A r, q \in EditRequest : Works(r, b) /\ Works(q, b) => r = q
    /\ \A r \in EditRequest : Works(r, b) =>
         /\ edit[r].at # "fallback"
         /\ edit[r].at = "read" => edit[r].seen = properties[b]
         /\ edit[r].at = "written" =>
              /\ properties[b] = NewContent(r)
              /\ \A k \in ConfigKey : edit[r].seen[k] = LeftBy(EntriesOf(b, k), k)
    /\ (\A r \in EditRequest : Works(r, b) => edit[r].at # "written")
         => \A k \in ConfigKey : properties[b][k] = LeftBy(EntriesOf(b, k), k)

Replayed == \A b \in clean : Chained(b) /\ Kept(b)

\* A rollback goes to one broker and writes one entry, at its commit.
EntriesMade(r) == {i \in DOMAIN audit : audit[i].by = r}
RollbackFits(r) ==
    /\ edit[r].at = "idle" => EntriesMade(r) = {}
    /\ edit[r].kind = "rollback" =>
         /\ Busy(r) => edit[r].todo = {} /\ EntriesMade(r) = {}
         /\ edit[r].at = "loop" => EntriesMade(r) = {} /\ \E b \in Broker : edit[r].todo = {b}
    /\ edit[r].at = "mark" =>
         /\ edit[r].kind = "rollback"
         /\ \E i \in EntriesMade(r) :
              /\ EntriesMade(r) = {i} /\ audit[i].key = edit[r].key
              /\ edit[r].key \in apart =>
                   \A j \in DOMAIN audit : audit[j].key = edit[r].key => j <= i
RollbacksFit == \A r \in EditRequest : RollbackFits(r)

ConfigInv == ConfigTypeOK /\ Replayed /\ RollbacksFit /\ MarksOwnEntry

-----------------------------------------------------------------------------
(* The log and the records.                                                *)

\* A set of positions that is not empty has a last one.
LEMMA LastOne ==
  ASSUME NEW n \in Nat, NEW s, s \subseteq 1 .. n, s # {}
  PROVE  \E m \in s : \A j \in s : j <= m
<1> DEFINE t == {i \in Nat : \E m \in s : i = n - m}
<1>1. t \subseteq Nat
  OBVIOUS
<1>2. t # {}
  <2>1. PICK m \in s : m \in 1 .. n
    OBVIOUS
  <2>2. n - m \in t
    BY <2>1
  <2> QED BY <2>2
<1> HIDE DEF t
<1>3. PICK x \in t : \A y \in t : ~(<<y, x>> \in OpToRel(<, Nat))
  BY <1>1, <1>2, NatLessThanWellFounded, WFMin
<1>4. \A y \in t : ~(y < x)
  BY <1>1, <1>3 DEF OpToRel
<1>5. PICK m \in s : m \in 1 .. n /\ x = n - m
  BY DEF t
<1>6. ASSUME NEW j \in s PROVE j <= m
  <2>1. j \in 1 .. n /\ n - j \in t
    BY DEF t
  <2> QED BY <1>4, <1>5, <2>1
<1> QED BY <1>6

LEMMA LogDomain ==
  ASSUME ConfigTypeOK
  PROVE  /\ Len(audit) \in Nat /\ DOMAIN audit = 1 .. Len(audit)
         /\ \A i \in DOMAIN audit : audit[i] \in Entry
  BY DEF ConfigTypeOK

LEMMA NewestOf ==
  ASSUME ConfigTypeOK, NEW s, s \subseteq DOMAIN audit, s # {}
  PROVE  /\ (CHOOSE i \in s : \A j \in s : j <= i) \in s
         /\ \A j \in s : j <= (CHOOSE i \in s : \A m \in s : m <= i)
<1>1. \E i \in s : \A j \in s : j <= i
  BY LogDomain, LastOne
<1> QED BY <1>1

\* A log that is longer, or marked, but the same for a broker.
LogSame(b) ==
    \A k \in ConfigKey :
        /\ EntriesOf(b, k)' = EntriesOf(b, k)
        /\ \A i \in EntriesOf(b, k) : audit'[i].old = audit[i].old /\ audit'[i].new = audit[i].new

LEMMA SameLeft ==
  ASSUME ConfigTypeOK, NEW b \in Broker, NEW k \in ConfigKey, LogSame(b), NEW s, s \subseteq EntriesOf(b, k)
  PROVE  LeftBy(s, k)' = LeftBy(s, k)
<1>1. CASE s = {}
  BY <1>1 DEF LeftBy, Rendered
<1>2. CASE s # {}
  <2> DEFINE m == CHOOSE i \in s : \A j \in s : j <= i
  <2>1. s \subseteq DOMAIN audit
    BY DEF EntriesOf
  <2>2. m \in s
    BY <1>2, <2>1, NewestOf
  <2> HIDE DEF m
  <2>3. audit'[m].new = audit[m].new
    BY <2>2 DEF LogSame
  <2> QED BY <1>2, <2>3 DEF LeftBy, m
<1> QED BY <1>1, <1>2

LEMMA ChainKept ==
  ASSUME ConfigTypeOK, NEW b \in Broker, LogSame(b), Chained(b)
  PROVE  Chained(b)'
<1> SUFFICES ASSUME NEW k \in ConfigKey, NEW i \in EntriesOf(b, k)'
             PROVE  audit'[i].old = LeftBy({j \in EntriesOf(b, k) : j < i}, k)'
  BY DEF Chained
<1>1. i \in EntriesOf(b, k) /\ audit'[i].old = audit[i].old /\ EntriesOf(b, k)' = EntriesOf(b, k)
  BY DEF LogSame
<1>2. PICK s : s = {j \in EntriesOf(b, k) : j < i}
  OBVIOUS
<1>3. {j \in EntriesOf(b, k) : j < i}' = s
  BY <1>1, <1>2
<1>4. LeftBy(s, k)' = LeftBy(s, k)
  BY <1>2, SameLeft
<1>5. audit[i].old = LeftBy(s, k)
  BY <1>1, <1>2 DEF Chained
<1> QED BY <1>1, <1>3, <1>4, <1>5 DEF LeftBy

LEMMA EntriesLeft ==
  ASSUME ConfigTypeOK, NEW b \in Broker, NEW k \in ConfigKey, LogSame(b)
  PROVE  LeftBy(EntriesOf(b, k), k)' = LeftBy(EntriesOf(b, k), k)
<1>1. PICK s : s = EntriesOf(b, k)
  OBVIOUS
<1>2. LeftBy(s, k)' = LeftBy(s, k) /\ EntriesOf(b, k)' = s
  BY <1>1, SameLeft DEF LogSame
<1> QED BY <1>1, <1>2 DEF LeftBy

\* A request's blank record, and what of it stays when it is done with a broker.
LEMMA BlankTyped ==
  ASSUME NEW at, NEW kind, at \in {"idle", "loop", "done", "failed"}, kind \in {"update", "bulk", "rollback"}
  PROVE  /\ Blank(at, kind) \in Edit
         /\ Blank(at, kind).at = at /\ Blank(at, kind).kind = kind
<1>1. Rendered \in Content
  BY ConfigAssumption DEF Rendered, Content
<1>2. SomeBroker \in Broker /\ (CHOOSE k \in ConfigKey : TRUE) \in ConfigKey
  BY ConfigAssumption DEF SomeBroker
<1> QED BY <1>1, <1>2, ConfigAssumption DEF Blank, Edit

LEMMA LeftShape ==
  ASSUME ConfigTypeOK, NEW r \in EditRequest, NEW at, at \in {"loop", "mark", "done", "failed"}, Left(r, at)
  PROVE  \E e \in Edit : /\ edit' = [edit EXCEPT ![r] = e] /\ e.at = at /\ e.kind = edit[r].kind
                         /\ at \in {"loop", "mark"} => e.key = edit[r].key /\ e.todo = edit[r].todo
<1>1. edit[r] \in Edit /\ edit[r].kind \in {"update", "bulk", "rollback"}
  BY DEF ConfigTypeOK, Edit
<1>2. CASE at \in {"done", "failed"}
  <2>1. edit' = [edit EXCEPT ![r] = Blank(at, edit[r].kind)]
    BY <1>2 DEF Left
  <2>2. Blank(at, edit[r].kind) \in Edit /\ Blank(at, edit[r].kind).at = at /\ Blank(at, edit[r].kind).kind = edit[r].kind
    BY <1>1, <1>2, BlankTyped
  <2> QED BY <1>2, <2>1, <2>2
<1>3. CASE at \in {"loop", "mark"}
  <2> DEFINE e == [edit[r] EXCEPT !.at = at, !.broker = SomeBroker, !.seen = Rendered, !.via = "ssh"]
  <2>1. Rendered \in Content /\ SomeBroker \in Broker
    BY ConfigAssumption DEF Rendered, Content, SomeBroker
  <2>2. e \in Edit /\ e.at = at /\ e.kind = edit[r].kind /\ e.key = edit[r].key /\ e.todo = edit[r].todo
    BY <1>1, <1>3, <2>1 DEF Edit
  <2>3. edit' = [edit EXCEPT ![r] = e]
    BY <1>3 DEF Left
  <2> QED BY <2>2, <2>3
<1> QED BY <1>2, <1>3

-----------------------------------------------------------------------------
(* The file follows the log.                                               *)

\* Nothing happens to a broker but that requests leave it.
LEMMA FileKept ==
  ASSUME ConfigTypeOK, NEW b \in Broker, LogSame(b), Kept(b),
         properties'[b] = properties[b], \A c \in Content : <<b, c>> \notin late',
         \A q \in EditRequest : Works(q, b)' => edit'[q] = edit[q],
         \A q \in EditRequest : Works(q, b) /\ edit[q].at = "written" => edit'[q] = edit[q]
  PROVE  Kept(b)'
<1>1. \A q \in EditRequest : Works(q, b)' => Works(q, b) /\ edit'[q] = edit[q]
  BY DEF Works, Busy
<1>2. \A k \in ConfigKey : LeftBy(EntriesOf(b, k), k)' = LeftBy(EntriesOf(b, k), k)
  BY EntriesLeft
<1>3. \A r, q \in EditRequest : Works(r, b)' /\ Works(q, b)' => r = q
  BY <1>1 DEF Kept
<1>4. ASSUME NEW r \in EditRequest, Works(r, b)'
      PROVE  /\ edit'[r].at # "fallback"
             /\ edit'[r].at = "read" => edit'[r].seen = properties'[b]
             /\ edit'[r].at = "written" =>
                  /\ properties'[b] = NewContent(r)'
                  /\ \A k \in ConfigKey : edit'[r].seen[k] = LeftBy(EntriesOf(b, k), k)'
  BY <1>1, <1>2, <1>4 DEF Kept, NewContent
<1>5. ASSUME \A r \in EditRequest : Works(r, b)' => edit'[r].at # "written", NEW k \in ConfigKey
      PROVE  properties'[b][k] = LeftBy(EntriesOf(b, k), k)'
  <2>1. ASSUME NEW r \in EditRequest, Works(r, b), edit[r].at = "written" PROVE FALSE
    <3>1. edit'[r] = edit[r]
      BY <2>1
    <3> QED BY <1>5, <2>1, <3>1 DEF Works, Busy
  <2> QED BY <1>2, <2>1 DEF Kept
<1> QED BY <1>3, <1>4, <1>5 DEF Kept

LEMMA LogUntouched ==
  ASSUME UNCHANGED audit, NEW b
  PROVE  LogSame(b)
  BY DEF LogSame, EntriesOf

\* A request that goes on without having to do with the broker, or with its file.
LEMMA Aside ==
  ASSUME ConfigInv, NEW r \in EditRequest, NEW e \in Edit, edit' = [edit EXCEPT ![r] = e],
         NEW b \in clean, LogSame(b), properties'[b] = properties[b], \A c \in Content : <<b, c>> \notin late',
         e.broker = b => e.at \notin {"read", "fallback", "written"},
         edit[r].broker = b => edit[r].at # "written"
  PROVE  Chained(b)' /\ Kept(b)'
<1>1. b \in Broker /\ edit'[r] = e /\ \A q \in EditRequest \ {r} : edit'[q] = edit[q]
  BY DEF ConfigInv, ConfigTypeOK
<1>2. Chained(b) /\ Kept(b)
  BY DEF ConfigInv, Replayed
<1>3. \A q \in EditRequest : Works(q, b)' => edit'[q] = edit[q]
  BY <1>1 DEF Works, Busy
<1>4. \A q \in EditRequest : Works(q, b) /\ edit[q].at = "written" => edit'[q] = edit[q]
  BY <1>1 DEF Works
<1> QED BY <1>1, <1>2, <1>3, <1>4, ChainKept, FileKept DEF ConfigInv

\* Who is at work on a broker whose edits do not overlap is the only one, and its agent
\* owes no write.
LEMMA Alone ==
  ASSUME ConfigInv, NEW r \in EditRequest, Busy(r), edit[r].broker \in clean
  PROVE  /\ edit[r].at # "fallback"
         /\ edit[r].at = "read" => edit[r].seen = properties[edit[r].broker]
         /\ \A q \in EditRequest \ {r} : ~Works(q, edit[r].broker)
  BY DEF ConfigInv, Replayed, Kept, Works

\* Reading: the file that is read is what the log leaves, unless somebody is at work on it.
LEMMA ReadsReplay ==
  ASSUME ConfigInv, NEW r \in EditRequest, ~Busy(r), NEW e \in Edit, NEW b \in Broker, Reads(r, e, b)
  PROVE  /\ Replayed'
         /\ \E f \in Edit : edit' = [edit EXCEPT ![r] = f] /\ f.at = "read" /\ f.kind = e.kind /\ f.todo = e.todo \ {b}
<1>1. PICK via \in {"agent", "ssh"} :
         edit' = [edit EXCEPT ![r] = [e EXCEPT !.at = "read", !.broker = b, !.via = via,
                                               !.todo = @ \ {b}, !.seen = properties[b]]]
  BY DEF Reads
<1>2. properties[b] \in Content
  BY DEF ConfigInv, ConfigTypeOK
<1>3. PICK f \in Edit : edit' = [edit EXCEPT ![r] = f] /\ f.at = "read" /\ f.broker = b /\ f.seen = properties[b]
                        /\ f.kind = e.kind /\ f.todo = e.todo \ {b}
  <2> DEFINE f == [e EXCEPT !.at = "read", !.broker = b, !.via = via, !.todo = @ \ {b}, !.seen = properties[b]]
  <2>1. f \in Edit /\ f.at = "read" /\ f.broker = b /\ f.seen = properties[b]
        /\ f.kind = e.kind /\ f.todo = e.todo \ {b}
    BY <1>2 DEF Edit
  <2> QED BY <1>1, <2>1
<1>4. edit'[r] = f /\ edit' \in [EditRequest -> Edit] /\ \A q \in EditRequest \ {r} : edit'[q] = edit[q]
  BY <1>3 DEF ConfigInv, ConfigTypeOK
<1>5. clean' \subseteq clean /\ UNCHANGED <<properties, late, audit>>
  BY DEF Reads, Overlap
<1>6. ASSUME NEW d \in clean' PROVE Chained(d)' /\ Kept(d)'
  <2>1. d \in clean /\ d \in Broker /\ LogSame(d) /\ Chained(d) /\ Kept(d)
    BY <1>5, LogUntouched DEF ConfigInv, ConfigTypeOK, Replayed
  <2>2. CASE d # b
    <3>1. edit[r].broker = d => edit[r].at # "written"
      BY DEF Busy
    <3>2. \A c \in Content : <<d, c>> \notin late'
      BY <1>5, <2>1 DEF Kept
    <3> QED BY <1>3, <1>5, <2>1, <2>2, <3>1, <3>2, Aside
  <2>3. CASE d = b
    <3>1. \A q \in EditRequest \ {r} : ~Works(q, b) /\ ~Works(q, b)'
      BY <1>4, <2>3 DEF Reads, Overlap, Disturbed, Works, Busy
    <3>2. Chained(d)'
      BY <2>1, ChainKept DEF ConfigInv
    <3>3. \A k \in ConfigKey : properties[b][k] = LeftBy(EntriesOf(b, k), k)
      BY <2>1, <2>3, <3>1 DEF Kept, Works
    <3>4. \A k \in ConfigKey : properties'[b][k] = LeftBy(EntriesOf(b, k), k)'
      BY <1>5, <2>1, <2>3, <3>3, EntriesLeft DEF ConfigInv
    <3>5. \A c \in Content : <<d, c>> \notin late'
      BY <1>5, <2>1 DEF Kept
    <3>6. \A p, q \in EditRequest : Works(p, b)' /\ Works(q, b)' => p = q
      BY <3>1
    <3>7. \A q \in EditRequest : Works(q, b)' => edit'[q].at = "read" /\ edit'[q].seen = properties'[b]
      BY <1>3, <1>4, <1>5, <3>1
    <3> QED BY <2>3, <3>2, <3>4, <3>5, <3>6, <3>7 DEF Kept
  <2> QED BY <2>2, <2>3
<1> QED BY <1>3, <1>6 DEF Replayed

\* The steps of a request that is under way.
LEMMA AskRollbackReplays ==
  ASSUME ConfigInv, NEW r \in EditRequest, AskRollback(r)
  PROVE  /\ Replayed'
         /\ \E i \in DOMAIN audit, e \in Edit :
              /\ edit' = [edit EXCEPT ![r] = e]
              /\ e.at = "loop" /\ e.kind = "rollback" /\ e.todo = {audit[i].broker} /\ audit[i].broker \in Broker
<1>1. PICK i \in DOMAIN audit :
         /\ audit[i].old # Absent
         /\ edit' = [edit EXCEPT ![r] = Asked("rollback", audit[i].key, audit[i].old, {audit[i].broker})]
  BY DEF AskRollback
<1>2. audit[i].key \in ConfigKey /\ audit[i].old \in ConfigValue /\ audit[i].broker \in Broker
  BY <1>1, LogDomain DEF ConfigInv, Entry
<1>3. PICK e \in Edit : /\ edit' = [edit EXCEPT ![r] = e]
                        /\ e.at = "loop" /\ e.kind = "rollback" /\ e.todo = {audit[i].broker}
  <2> DEFINE e == Asked("rollback", audit[i].key, audit[i].old, {audit[i].broker})
  <2>1. Blank("loop", "rollback") \in Edit /\ Blank("loop", "rollback").at = "loop"
        /\ Blank("loop", "rollback").kind = "rollback"
    BY BlankTyped
  <2>2. e \in Edit /\ e.at = "loop" /\ e.kind = "rollback" /\ e.todo = {audit[i].broker}
    BY <1>2, <2>1 DEF Asked, Edit
  <2> QED BY <1>1, <2>2
<1>4. UNCHANGED <<properties, late, audit, clean>> /\ edit[r].at = "idle"
  BY DEF AskRollback
<1>5. ASSUME NEW b \in clean' PROVE Chained(b)' /\ Kept(b)'
  <2>1. b \in clean /\ LogSame(b) /\ \A c \in Content : <<b, c>> \notin late'
    BY <1>4, LogUntouched DEF ConfigInv, Replayed, Kept
  <2> QED BY <1>3, <1>4, <2>1, Aside
<1> QED BY <1>2, <1>3, <1>5 DEF Replayed

LEMMA ReadAgainReplays ==
  ASSUME ConfigInv, NEW r \in EditRequest, ReadAgain(r)
  PROVE  /\ Replayed'
         /\ \E e \in Edit : /\ edit' = [edit EXCEPT ![r] = e] /\ e.at = "read" /\ e.kind = edit[r].kind
                            /\ e.key = edit[r].key /\ e.todo = edit[r].todo
<1>1. edit[r].at = "fallback" /\ edit[r] \in Edit /\ edit[r].broker \in Broker
      /\ properties[edit[r].broker] \in Content /\ UNCHANGED <<properties, late, audit, clean>>
  BY DEF ReadAgain, ConfigInv, ConfigTypeOK, Edit
<1>2. PICK e \in Edit : /\ edit' = [edit EXCEPT ![r] = e] /\ e.at = "read" /\ e.broker = edit[r].broker
                        /\ e.kind = edit[r].kind /\ e.key = edit[r].key /\ e.todo = edit[r].todo
  <2> DEFINE e == [edit[r] EXCEPT !.at = "read", !.via = "ssh", !.seen = properties[edit[r].broker]]
  <2>1. /\ e \in Edit /\ e.at = "read" /\ e.broker = edit[r].broker
        /\ e.kind = edit[r].kind /\ e.key = edit[r].key /\ e.todo = edit[r].todo
    BY <1>1 DEF Edit
  <2>2. edit' = [edit EXCEPT ![r] = e]
    BY DEF ReadAgain
  <2> QED BY <2>1, <2>2
<1>3. edit[r].broker \notin clean
  BY <1>1, Alone DEF Busy
<1>4. ASSUME NEW b \in clean' PROVE Chained(b)' /\ Kept(b)'
  <2>1. b \in clean /\ LogSame(b) /\ \A c \in Content : <<b, c>> \notin late'
    BY <1>1, LogUntouched DEF ConfigInv, Replayed, Kept
  <2> QED BY <1>1, <1>2, <1>3, <2>1, Aside
<1> QED BY <1>2, <1>4 DEF Replayed

LEMMA NewContentTyped ==
  ASSUME ConfigTypeOK, NEW r \in EditRequest
  PROVE  NewContent(r) \in Content
  BY DEF ConfigTypeOK, Edit, Content, NewContent

LEMMA WriteReplays ==
  ASSUME ConfigInv, NEW r \in EditRequest, WriteFile(r)
  PROVE  /\ Replayed'
         /\ \E e \in Edit : /\ edit' = [edit EXCEPT ![r] = e] /\ e.at = "written" /\ e.kind = edit[r].kind
                            /\ e.key = edit[r].key /\ e.todo = edit[r].todo
<1>1. /\ edit[r].at = "read" /\ edit[r] \in Edit /\ edit[r].broker \in Broker /\ edit[r].key \in ConfigKey
      /\ UNCHANGED <<late, audit, clean>>
      /\ properties' = [properties EXCEPT ![edit[r].broker] = NewContent(r)]
  BY DEF WriteFile, Installed, ConfigInv, ConfigTypeOK, Edit
<1>2. PICK e \in Edit : /\ edit' = [edit EXCEPT ![r] = e] /\ e.at = "written" /\ e.broker = edit[r].broker
                        /\ e.kind = edit[r].kind /\ e.key = edit[r].key /\ e.todo = edit[r].todo
                        /\ e.seen = edit[r].seen /\ e.value = edit[r].value
  <2> DEFINE e == [edit[r] EXCEPT !.at = "written"]
  <2>1. /\ e \in Edit /\ e.at = "written" /\ e.broker = edit[r].broker
        /\ e.kind = edit[r].kind /\ e.key = edit[r].key /\ e.todo = edit[r].todo
        /\ e.seen = edit[r].seen /\ e.value = edit[r].value
    BY <1>1 DEF Edit
  <2>2. edit' = [edit EXCEPT ![r] = e]
    BY DEF WriteFile, Moved
  <2> QED BY <2>1, <2>2
<1>3. edit'[r] = e /\ \A q \in EditRequest \ {r} : edit'[q] = edit[q]
  BY <1>2 DEF ConfigInv, ConfigTypeOK
<1>4. ASSUME NEW b \in clean' PROVE Chained(b)' /\ Kept(b)'
  <2>1. b \in clean /\ b \in Broker /\ LogSame(b) /\ \A c \in Content : <<b, c>> \notin late'
    BY <1>1, LogUntouched DEF ConfigInv, ConfigTypeOK, Replayed, Kept
  <2>2. CASE b # edit[r].broker
    <3>1. properties'[b] = properties[b]
      BY <1>1, <2>1, <2>2 DEF ConfigInv, ConfigTypeOK
    <3> QED BY <1>2, <2>1, <2>2, <3>1, Aside
  <2>3. CASE b = edit[r].broker
    <3>1. Kept(b) /\ Chained(b) /\ edit[r].seen = properties[b] /\ \A q \in EditRequest \ {r} : ~Works(q, b)
      BY <1>1, <2>1, <2>3, Alone DEF ConfigInv, Replayed, Busy
    <3>2. \A q \in EditRequest \ {r} : ~Works(q, b)'
      BY <1>3, <3>1 DEF Works, Busy
    <3>3. \A k \in ConfigKey : edit[r].seen[k] = LeftBy(EntriesOf(b, k), k)
      BY <1>1, <2>3, <3>1 DEF Kept, Works
    <3>4. \A k \in ConfigKey : edit'[r].seen[k] = LeftBy(EntriesOf(b, k), k)'
      BY <1>2, <1>3, <2>1, <3>3, EntriesLeft DEF ConfigInv
    <3>5. properties'[b] = NewContent(r)
      BY <1>1, <2>3 DEF ConfigInv, ConfigTypeOK
    <3>6. NewContent(r)' = NewContent(r)
      BY <1>2, <1>3 DEF NewContent
    <3>7. Chained(b)'
      BY <2>1, <3>1, ChainKept DEF ConfigInv
    <3>8. Works(r, b)' /\ edit'[r].at = "written"
      BY <1>2, <1>3, <2>3 DEF Works, Busy
    <3>9. Kept(b)'
      BY <2>1, <3>2, <3>4, <3>5, <3>6, <3>8 DEF Kept
    <3> QED BY <3>7, <3>9
  <2> QED BY <2>2, <2>3
<1> QED BY <1>2, <1>4 DEF Replayed

LEMMA GiveUpReplays ==
  ASSUME ConfigInv, NEW r \in EditRequest, GiveUpOnAgent(r)
  PROVE  /\ Replayed'
         /\ \E e \in Edit : /\ edit' = [edit EXCEPT ![r] = e] /\ e.at = "fallback" /\ e.kind = edit[r].kind
                            /\ e.key = edit[r].key /\ e.todo = edit[r].todo
<1>1. /\ edit[r].at = "read" /\ edit[r] \in Edit /\ edit[r].broker \in Broker
      /\ UNCHANGED <<properties, audit>> /\ clean' = clean \ {edit[r].broker}
      /\ late' = late \cup {<<edit[r].broker, NewContent(r)>>}
  BY DEF GiveUpOnAgent, ConfigInv, ConfigTypeOK, Edit
<1>2. PICK e \in Edit : /\ edit' = [edit EXCEPT ![r] = e] /\ e.at = "fallback" /\ e.broker = edit[r].broker
                        /\ e.kind = edit[r].kind /\ e.key = edit[r].key /\ e.todo = edit[r].todo
  <2> DEFINE e == [edit[r] EXCEPT !.at = "fallback", !.via = "ssh", !.seen = Rendered]
  <2>1. Rendered \in Content
    BY ConfigAssumption DEF Rendered, Content
  <2>2. /\ e \in Edit /\ e.at = "fallback" /\ e.broker = edit[r].broker
        /\ e.kind = edit[r].kind /\ e.key = edit[r].key /\ e.todo = edit[r].todo
    BY <1>1, <2>1 DEF Edit
  <2>3. edit' = [edit EXCEPT ![r] = e]
    BY DEF GiveUpOnAgent
  <2> QED BY <2>2, <2>3
<1>3. ASSUME NEW b \in clean' PROVE Chained(b)' /\ Kept(b)'
  <2>1. b \in clean /\ b # edit[r].broker /\ LogSame(b)
    BY <1>1, LogUntouched
  <2>2. \A c \in Content : <<b, c>> \notin late'
    BY <1>1, <2>1 DEF ConfigInv, Replayed, Kept
  <2> QED BY <1>1, <1>2, <2>1, <2>2, Aside
<1> QED BY <1>2, <1>3 DEF Replayed

LEMMA LateReplays ==
  ASSUME ConfigInv, LateWrite
  PROVE  Replayed' /\ properties' \in [Broker -> Content] /\ late' \subseteq late
<1>1. PICK w \in late : /\ properties' \in {properties, [properties EXCEPT ![w[1]] = w[2]]}
                        /\ late' = late \ {w} /\ UNCHANGED <<audit, edit, clean>>
  BY DEF LateWrite
<1>2. w = <<w[1], w[2]>> /\ w[1] \in Broker /\ w[2] \in Content
  BY DEF ConfigInv, ConfigTypeOK
<1>3. ASSUME NEW b \in clean' PROVE Chained(b)' /\ Kept(b)'
  <2>1. b \in clean /\ b \in Broker /\ LogSame(b) /\ Kept(b) /\ Chained(b)
    BY <1>1, LogUntouched DEF ConfigInv, ConfigTypeOK, Replayed
  <2>2. b # w[1] /\ \A c \in Content : <<b, c>> \notin late'
    BY <1>1, <1>2, <2>1 DEF Kept
  <2>3. properties'[b] = properties[b]
    BY <1>1, <1>2, <2>1, <2>2 DEF ConfigInv, ConfigTypeOK
  <2>4. \A q \in EditRequest : edit'[q] = edit[q]
    BY <1>1
  <2> QED BY <2>1, <2>2, <2>3, <2>4, ChainKept, FileKept DEF ConfigInv
<1>4. properties' \in [Broker -> Content]
  BY <1>1, <1>2 DEF ConfigInv, ConfigTypeOK
<1> QED BY <1>1, <1>3, <1>4 DEF Replayed

\* Being done with a broker.  What follows is where the request is then.
LEMMA NextPlace ==
  ASSUME NEW r \in EditRequest
  PROVE  AfterBroker(r) \in {"loop", "mark", "done"}
  BY DEF AfterBroker

LEMMA FailBrokerReplays ==
  ASSUME ConfigInv, NEW r \in EditRequest, FailBroker(r)
  PROVE  Replayed' /\ properties' \in [Broker -> Content]
<1>1. /\ edit[r].at \in {"read", "fallback"} /\ edit[r].broker \in Broker
      /\ UNCHANGED <<late, audit>> /\ clean' \subseteq clean
      /\ \/ UNCHANGED properties
         \/ properties' = [properties EXCEPT ![edit[r].broker] = NewContent(r)] /\ edit[r].broker \notin clean'
  BY DEF FailBroker, Installed, ConfigInv, ConfigTypeOK, Edit
<1>2. properties' \in [Broker -> Content]
  BY <1>1, NewContentTyped DEF ConfigInv, ConfigTypeOK
<1>3. PICK e \in Edit : edit' = [edit EXCEPT ![r] = e] /\ e.at \in {"loop", "mark", "done", "failed"}
  BY NextPlace, LeftShape DEF FailBroker, ConfigInv
<1>4. ASSUME NEW b \in clean' PROVE Chained(b)' /\ Kept(b)'
  <2>1. b \in clean /\ b \in Broker /\ LogSame(b) /\ \A c \in Content : <<b, c>> \notin late'
    BY <1>1, LogUntouched DEF ConfigInv, ConfigTypeOK, Replayed, Kept
  <2>2. properties'[b] = properties[b]
    BY <1>1, <2>1 DEF ConfigInv, ConfigTypeOK
  <2> QED BY <1>1, <1>3, <2>1, <2>2, Aside
<1> QED BY <1>2, <1>4 DEF Replayed

LEMMA FailRequestReplays ==
  ASSUME ConfigInv, NEW r \in EditRequest, FailRequest(r)
  PROVE  Replayed'
<1>1. /\ UNCHANGED <<properties, late, audit>> /\ clean' \subseteq clean
      /\ edit[r].at = "written" => edit[r].broker \notin clean'
  BY DEF FailRequest, ConfigInv, ConfigTypeOK
<1>2. PICK e \in Edit : edit' = [edit EXCEPT ![r] = e] /\ e.at = "failed"
  BY LeftShape DEF FailRequest, ConfigInv
<1>3. ASSUME NEW b \in clean' PROVE Chained(b)' /\ Kept(b)'
  <2>1. b \in clean /\ LogSame(b) /\ \A c \in Content : <<b, c>> \notin late'
    BY <1>1, LogUntouched DEF ConfigInv, Replayed, Kept
  <2> QED BY <1>1, <1>2, <2>1, Aside
<1> QED BY <1>3 DEF Replayed

\* The mark changes nothing the log says of values.
LEMMA MarkedLog ==
  ASSUME ConfigTypeOK, NEW i \in DOMAIN audit, audit' = [audit EXCEPT ![i].type = "rollback"]
  PROVE  /\ audit' \in Seq(Entry) /\ DOMAIN audit' = DOMAIN audit
         /\ audit'[i].type = "rollback"
         /\ \A j \in DOMAIN audit : /\ audit'[j].broker = audit[j].broker /\ audit'[j].key = audit[j].key
                                    /\ audit'[j].old = audit[j].old /\ audit'[j].new = audit[j].new
                                    /\ audit'[j].by = audit[j].by
                                    /\ j # i => audit'[j] = audit[j]
         /\ \A b : LogSame(b)
<1> DEFINE m == [audit[i] EXCEPT !.type = "rollback"]
<1>1. audit[i] \in Entry /\ audit \in Seq(Entry) /\ i \in 1 .. Len(audit)
  BY LogDomain DEF ConfigTypeOK
<1>2. /\ m \in Entry /\ m.type = "rollback" /\ m.broker = audit[i].broker /\ m.key = audit[i].key
      /\ m.old = audit[i].old /\ m.new = audit[i].new /\ m.by = audit[i].by
  BY <1>1 DEF Entry
<1>3. audit' = [audit EXCEPT ![i] = m]
  OBVIOUS
<1> HIDE DEF m
<1>4. audit' \in Seq(Entry) /\ DOMAIN audit' = DOMAIN audit /\ audit'[i] = m
      /\ \A j \in DOMAIN audit : j # i => audit'[j] = audit[j]
  BY <1>1, <1>2, <1>3, ExceptSeq
<1>5. \A j \in DOMAIN audit : /\ audit'[j].broker = audit[j].broker /\ audit'[j].key = audit[j].key
                              /\ audit'[j].old = audit[j].old /\ audit'[j].new = audit[j].new
                              /\ audit'[j].by = audit[j].by
  BY <1>2, <1>4
<1>6. ASSUME NEW b, NEW k \in ConfigKey
      PROVE  /\ EntriesOf(b, k)' = EntriesOf(b, k)
             /\ \A j \in EntriesOf(b, k) : audit'[j].old = audit[j].old /\ audit'[j].new = audit[j].new
  BY <1>4, <1>5 DEF EntriesOf
<1> QED BY <1>2, <1>4, <1>5, <1>6 DEF LogSame

\* The entry to be marked is there: the rollback itself has written one of the key.
LEMMA MarkedEntry ==
  ASSUME ConfigInv, NEW r \in EditRequest, edit[r].at = "mark"
  PROVE  /\ Latest(edit[r].key) \in DOMAIN audit
         /\ audit[Latest(edit[r].key)].key = edit[r].key
         /\ \A j \in DOMAIN audit : audit[j].key = edit[r].key => j <= Latest(edit[r].key)
<1>1. PICK k \in ConfigKey : k = edit[r].key
  BY DEF ConfigInv, ConfigTypeOK, Edit
<1> DEFINE s == {j \in DOMAIN audit : audit[j].key = k}
<1>2. s # {} /\ s \subseteq 1 .. Len(audit) /\ Len(audit) \in Nat
  BY <1>1, LogDomain DEF ConfigInv, RollbacksFit, RollbackFits, EntriesMade
<1>3. PICK m \in s : \A j \in s : j <= m
  BY <1>2, LastOne
<1>4. \E i \in DOMAIN audit : audit[i].key = k /\ \A j \in DOMAIN audit : audit[j].key = k => j <= i
  BY <1>3
<1> QED BY <1>1, <1>4 DEF Latest

LEMMA MarkReplays ==
  ASSUME ConfigInv, NEW r \in EditRequest, MarkRollback(r)
  PROVE  Replayed' /\ audit' \in Seq(Entry)
<1>1. /\ UNCHANGED <<properties, late, clean>> /\ edit[r].at = "mark"
      /\ audit' = [audit EXCEPT ![Latest(edit[r].key)].type = "rollback"]
  BY DEF MarkRollback
<1>2. PICK i \in DOMAIN audit : i = Latest(edit[r].key)
  BY <1>1, MarkedEntry
<1>3. audit' \in Seq(Entry) /\ \A b : LogSame(b)
  BY <1>1, <1>2, MarkedLog DEF ConfigInv
<1>4. PICK e \in Edit : edit' = [edit EXCEPT ![r] = e] /\ e.at = "done"
  BY LeftShape DEF MarkRollback, ConfigInv
<1>5. ASSUME NEW b \in clean' PROVE Chained(b)' /\ Kept(b)'
  <2>1. b \in clean /\ LogSame(b) /\ \A c \in Content : <<b, c>> \notin late'
    BY <1>1, <1>3 DEF ConfigInv, Replayed, Kept
  <2> QED BY <1>1, <1>4, <2>1, Aside
<1> QED BY <1>3, <1>5 DEF Replayed

\* The entry a commit appends, and where.
LEMMA Appended ==
  ASSUME ConfigTypeOK, NEW r \in EditRequest, audit' = Append(audit, Recorded(r))
  PROVE  /\ Recorded(r) \in Entry /\ audit' \in Seq(Entry)
         /\ Len(audit) + 1 \in Nat /\ Len(audit) + 1 \notin DOMAIN audit
         /\ DOMAIN audit' = DOMAIN audit \cup {Len(audit) + 1}
         /\ audit'[Len(audit) + 1] = Recorded(r)
         /\ \A j \in DOMAIN audit : audit'[j] = audit[j] /\ j < Len(audit) + 1
<1>1. Recorded(r) \in Entry
  BY DEF ConfigTypeOK, Edit, Content, Recorded, Entry
<1>2. audit \in Seq(Entry) /\ Len(audit) \in Nat /\ DOMAIN audit = 1 .. Len(audit)
  BY LogDomain DEF ConfigTypeOK
<1> QED BY <1>1, <1>2

LEMMA CommitReplays ==
  ASSUME ConfigInv, NEW r \in EditRequest, CommitAudit(r)
  PROVE  Replayed'
<1> DEFINE n == Len(audit) + 1
<1>1. /\ UNCHANGED <<properties, late, clean>> /\ edit[r].at = "written"
      /\ audit' = Append(audit, Recorded(r))
  BY DEF CommitAudit
<1>2. PICK e \in Edit : edit' = [edit EXCEPT ![r] = e] /\ e.at \in {"loop", "mark", "done"}
  BY NextPlace, LeftShape DEF CommitAudit, ConfigInv
<1>3. edit'[r] = e /\ (\A q \in EditRequest \ {r} : edit'[q] = edit[q]) /\ edit[r].key \in ConfigKey
  BY <1>2 DEF ConfigInv, ConfigTypeOK, Edit
<1>4. /\ n \in Nat /\ n \notin DOMAIN audit /\ DOMAIN audit' = DOMAIN audit \cup {n}
      /\ audit'[n] = Recorded(r) /\ \A j \in DOMAIN audit : audit'[j] = audit[j] /\ j < n
  BY <1>1, Appended DEF ConfigInv
<1>5. PICK m \in Nat : m = n
  BY <1>4
<1> HIDE DEF n
<1>6. ASSUME NEW b \in Broker, NEW k \in ConfigKey, (b # edit[r].broker \/ k # edit[r].key)
      PROVE  EntriesOf(b, k)' = EntriesOf(b, k)
  BY <1>4, <1>6 DEF EntriesOf, Recorded
<1>7. ASSUME NEW b \in Broker, NEW k \in ConfigKey, NEW i \in EntriesOf(b, k) PROVE audit'[i] = audit[i]
  BY <1>4 DEF EntriesOf
<1>8. ASSUME NEW b \in clean' PROVE Chained(b)' /\ Kept(b)'
  <2>1. b \in clean /\ b \in Broker /\ Kept(b) /\ Chained(b) /\ \A c \in Content : <<b, c>> \notin late'
    BY <1>1 DEF ConfigInv, ConfigTypeOK, Replayed, Kept
  <2>2. CASE b # edit[r].broker
    <3>1. LogSame(b)
      BY <1>6, <1>7, <2>1, <2>2 DEF LogSame
    <3> QED BY <1>1, <1>2, <2>1, <2>2, <3>1, Aside
  <2>3. CASE b = edit[r].broker
    <3> PICK key \in ConfigKey : key = edit[r].key
      BY <1>3
    <3>1. Works(r, b) /\ \A q \in EditRequest : ~Works(q, b)'
      BY <1>1, <1>2, <1>3, <2>1, <2>3 DEF Works, Busy, Kept
    <3>2. properties'[b] = NewContent(r) /\ \A k \in ConfigKey : edit[r].seen[k] = LeftBy(EntriesOf(b, k), k)
      BY <1>1, <2>1, <3>1 DEF Kept
    <3>3. EntriesOf(b, key)' = EntriesOf(b, key) \cup {m}
      BY <1>4, <1>5, <2>3 DEF EntriesOf, Recorded
    <3>4. \A j \in EntriesOf(b, key) : j \in Nat /\ j < m
      BY <1>4, <1>5, LogDomain DEF EntriesOf, ConfigInv
    <3>5. ASSUME NEW k \in ConfigKey, NEW s, s \subseteq EntriesOf(b, k) PROVE LeftBy(s, k)' = LeftBy(s, k)
      <4>1. CASE s = {}
        BY <4>1 DEF LeftBy, Rendered
      <4>2. CASE s # {}
        <5> DEFINE top == CHOOSE i \in s : \A j \in s : j <= i
        <5>1. s \subseteq DOMAIN audit
          BY <3>5 DEF EntriesOf
        <5>2. top \in s
          BY <4>2, <5>1, NewestOf DEF ConfigInv
        <5> HIDE DEF top
        <5>3. audit'[top] = audit[top]
          BY <1>4, <5>1, <5>2
        <5> QED BY <4>2, <5>3 DEF LeftBy, top
      <4> QED BY <4>1, <4>2
    <3>6. LeftBy(EntriesOf(b, key), key)' = edit[r].value
      <4> DEFINE s == EntriesOf(b, key) \cup {m}
      <4>1. (CHOOSE i \in s : \A j \in s : j <= i) = m
        BY <3>4
      <4>2. LeftBy(EntriesOf(b, key), key)' = audit'[m].new
        BY <3>3, <4>1 DEF LeftBy
      <4> QED BY <1>4, <1>5, <4>2 DEF Recorded
    <3>7. ASSUME NEW k \in ConfigKey PROVE properties'[b][k] = LeftBy(EntriesOf(b, k), k)'
      <4>1. CASE k = key
        <5>1. NewContent(r)[k] = edit[r].value
          BY <4>1 DEF NewContent, ConfigInv, ConfigTypeOK, Edit, Content
        <5> QED BY <3>2, <3>6, <4>1, <5>1
      <4>2. CASE k # key
        <5>1. NewContent(r)[k] = edit[r].seen[k]
          BY <4>2 DEF NewContent, ConfigInv, ConfigTypeOK, Edit, Content
        <5>2. PICK s : s = EntriesOf(b, k)
          OBVIOUS
        <5>3. LeftBy(s, k)' = LeftBy(s, k) /\ EntriesOf(b, k)' = s
          BY <1>6, <2>1, <2>3, <3>5, <4>2, <5>2
        <5> QED BY <3>2, <5>1, <5>2, <5>3 DEF LeftBy
      <4> QED BY <4>1, <4>2
    <3>8. Kept(b)'
      BY <2>1, <3>1, <3>7 DEF Kept
    <3>9. ASSUME NEW k \in ConfigKey, NEW i \in EntriesOf(b, k)'
          PROVE  audit'[i].old = LeftBy({j \in EntriesOf(b, k) : j < i}, k)'
      <4>1. CASE i \in EntriesOf(b, k)
        <5>1. PICK s : s = {j \in EntriesOf(b, k) : j < i}
          OBVIOUS
        <5>2. i < m /\ i \in Nat
          BY <1>4, <1>5, <4>1, LogDomain DEF EntriesOf, ConfigInv
        <5>3. {j \in EntriesOf(b, k) : j < i}' = s
          <6>1. CASE k = key
            BY <3>3, <5>1, <5>2, <6>1
          <6>2. CASE k # key
            BY <1>6, <2>1, <2>3, <5>1, <6>2
          <6> QED BY <6>1, <6>2
        <5>4. LeftBy(s, k)' = LeftBy(s, k)
          BY <3>5, <5>1
        <5>5. audit[i].old = LeftBy(s, k) /\ audit'[i] = audit[i]
          BY <1>7, <2>1, <4>1, <5>1 DEF Chained
        <5> QED BY <5>3, <5>4, <5>5 DEF LeftBy
      <4>2. CASE i \notin EntriesOf(b, k)
        <5>1. k = key /\ i = m
          BY <1>6, <2>1, <2>3, <3>3, <4>2
        <5>2. PICK s : s = EntriesOf(b, k)
          OBVIOUS
        <5>3. {j \in EntriesOf(b, k) : j < i}' = s
          BY <3>3, <3>4, <5>1, <5>2
        <5>4. LeftBy(s, k)' = LeftBy(s, k)
          BY <3>5, <5>2
        <5>5. audit'[i].old = edit[r].seen[k]
          BY <1>4, <1>5, <5>1 DEF Recorded
        <5> QED BY <3>2, <5>2, <5>3, <5>4, <5>5 DEF LeftBy
      <4> QED BY <4>1, <4>2
    <3>10. Chained(b)'
      BY <3>9 DEF Chained
    <3> QED BY <3>8, <3>10
  <2> QED BY <2>2, <2>3
<1> QED BY <1>8 DEF Replayed

-----------------------------------------------------------------------------
(* The marks.                                                              *)

\* A request that moves without writing to the log.
LEMMA MarksStay ==
  ASSUME ConfigInv, NEW r \in EditRequest, NEW e \in Edit, edit' = [edit EXCEPT ![r] = e],
         UNCHANGED <<audit, apart>>, edit[r].at # "done", e.at # "idle", e.at # "mark",
         e.kind = "rollback" =>
           /\ e.at # "done"
           /\ e.at \in {"loop", "read", "fallback", "written"} => EntriesMade(r) = {}
           /\ e.at \in {"read", "fallback", "written"} => e.todo = {}
           /\ e.at = "loop" => \E b \in Broker : e.todo = {b}
  PROVE  RollbacksFit' /\ MarksOwnEntry' /\ edit' \in [EditRequest -> Edit]
<1>1. edit'[r] = e /\ (\A q \in EditRequest \ {r} : edit'[q] = edit[q]) /\ edit' \in [EditRequest -> Edit]
  BY DEF ConfigInv, ConfigTypeOK
<1>2. \A q \in EditRequest : EntriesMade(q)' = EntriesMade(q)
  BY DEF EntriesMade
<1>3. ASSUME NEW q \in EditRequest PROVE RollbackFits(q)'
  <2>1. CASE q = r
    BY <1>1, <1>2, <2>1 DEF RollbackFits, Busy
  <2>2. CASE q # r
    BY <1>1, <1>2, <2>2 DEF RollbackFits, Busy, ConfigInv, RollbacksFit
  <2> QED BY <2>1, <2>2
<1>4. ASSUME NEW i \in DOMAIN audit, audit[i].key \in apart
      PROVE  audit[i].type = "rollback" <=> edit'[audit[i].by].kind = "rollback" /\ edit'[audit[i].by].at = "done"
  <2>1. audit[i].by \in EditRequest
    BY LogDomain DEF ConfigInv, Entry
  <2>2. audit[i].type = "rollback" <=> edit[audit[i].by].kind = "rollback" /\ edit[audit[i].by].at = "done"
    BY <1>4 DEF ConfigInv, MarksOwnEntry
  <2>3. CASE audit[i].by = r
    BY <1>1, <2>2, <2>3
  <2>4. CASE audit[i].by # r
    BY <1>1, <2>1, <2>2, <2>4
  <2> QED BY <2>3, <2>4
<1> QED BY <1>1, <1>3, <1>4 DEF RollbacksFit, MarksOwnEntry

LEMMA AskEditKeeps ==
  ASSUME ConfigInv, NEW r \in EditRequest, AskEdit(r)
  PROVE  ConfigInv'
<1>1. edit[r].at = "idle" /\ ~Busy(r)
  BY DEF AskEdit, Busy
<1>2. PICK b \in Broker, e \in Edit : Reads(r, e, b) /\ e.kind \in {"update", "bulk"}
  <2>1. PICK b \in Broker, k \in ConfigKey, v \in ConfigValue :
          Reads(r, Asked("update", k, v, {b}), b) \/ Reads(r, Asked("bulk", k, v, Broker), b)
    BY DEF AskEdit
  <2>2. ASSUME NEW kind \in {"update", "bulk"}, NEW todo \in SUBSET Broker
        PROVE  Asked(kind, k, v, todo) \in Edit /\ Asked(kind, k, v, todo).kind = kind
    <3>1. Blank("loop", kind) \in Edit /\ Blank("loop", kind).kind = kind
      BY BlankTyped
    <3> QED BY <2>1, <3>1 DEF Asked, Edit
  <2> QED BY <2>1, <2>2
<1>3. PICK f \in Edit : edit' = [edit EXCEPT ![r] = f] /\ f.at = "read" /\ f.kind = e.kind
  BY <1>1, <1>2, ReadsReplay
<1>4. Replayed'
  BY <1>1, <1>2, ReadsReplay
<1>5. UNCHANGED <<properties, late, audit, apart>> /\ clean' \subseteq clean
  BY <1>2 DEF Reads, Overlap
<1>6. RollbacksFit' /\ MarksOwnEntry' /\ edit' \in [EditRequest -> Edit]
  BY <1>1, <1>2, <1>3, <1>5, MarksStay
<1> QED BY <1>4, <1>5, <1>6 DEF ConfigInv, ConfigTypeOK

LEMMA AskRollbackKeeps ==
  ASSUME ConfigInv, NEW r \in EditRequest, AskRollback(r)
  PROVE  ConfigInv'
<1>1. edit[r].at = "idle" /\ UNCHANGED <<properties, late, audit, clean, apart>> /\ EntriesMade(r) = {}
  BY DEF AskRollback, ConfigInv, RollbacksFit, RollbackFits
<1>2. PICK i \in DOMAIN audit, e \in Edit :
        /\ edit' = [edit EXCEPT ![r] = e]
        /\ e.at = "loop" /\ e.kind = "rollback" /\ e.todo = {audit[i].broker} /\ audit[i].broker \in Broker
  BY AskRollbackReplays
<1>3. RollbacksFit' /\ MarksOwnEntry' /\ edit' \in [EditRequest -> Edit]
  BY <1>1, <1>2, MarksStay
<1> QED BY <1>1, <1>3, AskRollbackReplays DEF ConfigInv, ConfigTypeOK

LEMMA ReadFileKeeps ==
  ASSUME ConfigInv, NEW r \in EditRequest, NEW b \in Broker, ReadFile(r, b)
  PROVE  ConfigInv'
<1>1. edit[r].at = "loop" /\ edit[r] \in Edit /\ ~Busy(r) /\ Reads(r, edit[r], b)
  BY DEF ReadFile, Busy, ConfigInv, ConfigTypeOK
<1>2. PICK f \in Edit : edit' = [edit EXCEPT ![r] = f] /\ f.at = "read" /\ f.kind = edit[r].kind
                        /\ f.todo = edit[r].todo \ {b}
  BY <1>1, ReadsReplay
<1>3. Replayed'
  BY <1>1, ReadsReplay
<1>4. UNCHANGED <<properties, late, audit, apart>> /\ clean' \subseteq clean /\ b \in edit[r].todo
  BY <1>1 DEF Reads, Overlap
<1>5. edit[r].kind = "rollback" => EntriesMade(r) = {} /\ f.todo = {}
  BY <1>1, <1>2, <1>4 DEF ConfigInv, RollbacksFit, RollbackFits
<1>6. RollbacksFit' /\ MarksOwnEntry' /\ edit' \in [EditRequest -> Edit]
  BY <1>1, <1>2, <1>4, <1>5, MarksStay
<1> QED BY <1>3, <1>4, <1>6 DEF ConfigInv, ConfigTypeOK

\* From one look at a file to the next, and to the write.
LEMMA BusyKeeps ==
  ASSUME ConfigInv, NEW r \in EditRequest, Busy(r), NEW e \in Edit, edit' = [edit EXCEPT ![r] = e],
         e.at \in {"read", "fallback", "written"}, e.kind = edit[r].kind, e.todo = edit[r].todo,
         UNCHANGED <<audit, apart>>
  PROVE  RollbacksFit' /\ MarksOwnEntry' /\ edit' \in [EditRequest -> Edit]
<1>1. edit[r].at # "done" /\ (edit[r].kind = "rollback" => EntriesMade(r) = {} /\ edit[r].todo = {})
  BY DEF Busy, ConfigInv, RollbacksFit, RollbackFits
<1> QED BY <1>1, MarksStay

LEMMA ReadAgainKeeps ==
  ASSUME ConfigInv, NEW r \in EditRequest, ReadAgain(r)
  PROVE  ConfigInv'
<1>1. Busy(r) /\ UNCHANGED <<properties, late, audit, clean, apart>>
  BY DEF ReadAgain, Busy
<1>2. RollbacksFit' /\ MarksOwnEntry' /\ edit' \in [EditRequest -> Edit]
  BY <1>1, ReadAgainReplays, BusyKeeps
<1> QED BY <1>1, <1>2, ReadAgainReplays DEF ConfigInv, ConfigTypeOK

LEMMA WriteFileKeeps ==
  ASSUME ConfigInv, NEW r \in EditRequest, WriteFile(r)
  PROVE  ConfigInv'
<1>1. Busy(r) /\ UNCHANGED <<late, audit, clean, apart>>
  BY DEF WriteFile, Busy
<1>2. RollbacksFit' /\ MarksOwnEntry' /\ edit' \in [EditRequest -> Edit]
  BY <1>1, WriteReplays, BusyKeeps
<1>3. properties' \in [Broker -> Content]
  BY NewContentTyped DEF WriteFile, Installed, ConfigInv, ConfigTypeOK
<1> QED BY <1>1, <1>2, <1>3, WriteReplays DEF ConfigInv, ConfigTypeOK

LEMMA GiveUpKeeps ==
  ASSUME ConfigInv, NEW r \in EditRequest, GiveUpOnAgent(r)
  PROVE  ConfigInv'
<1>1. Busy(r) /\ UNCHANGED <<properties, audit, apart>> /\ clean' \subseteq clean
      /\ late' = late \cup {<<edit[r].broker, NewContent(r)>>}
  BY DEF GiveUpOnAgent, Busy
<1>2. RollbacksFit' /\ MarksOwnEntry' /\ edit' \in [EditRequest -> Edit]
  BY <1>1, GiveUpReplays, BusyKeeps
<1>3. late' \subseteq Broker \X Content
  BY <1>1, NewContentTyped DEF ConfigInv, ConfigTypeOK, Edit
<1> QED BY <1>1, <1>2, <1>3, GiveUpReplays DEF ConfigInv, ConfigTypeOK

LEMMA FailBrokerKeeps ==
  ASSUME ConfigInv, NEW r \in EditRequest, FailBroker(r)
  PROVE  ConfigInv'
<1>1. edit[r].at \in {"read", "fallback"} /\ UNCHANGED <<late, audit, apart>> /\ clean' \subseteq clean
  BY DEF FailBroker
<1>2. PICK e \in Edit : /\ edit' = [edit EXCEPT ![r] = e] /\ e.kind = edit[r].kind
                        /\ e.at = IF edit[r].kind = "bulk" THEN AfterBroker(r) ELSE "failed"
  BY NextPlace, LeftShape DEF FailBroker, ConfigInv
<1>3. e.at \in {"loop", "done", "failed"} /\ (e.kind = "rollback" => e.at = "failed")
  BY <1>2 DEF AfterBroker
<1>4. RollbacksFit' /\ MarksOwnEntry' /\ edit' \in [EditRequest -> Edit]
  BY <1>1, <1>2, <1>3, MarksStay
<1> QED BY <1>1, <1>4, FailBrokerReplays DEF ConfigInv, ConfigTypeOK

LEMMA FailRequestKeeps ==
  ASSUME ConfigInv, NEW r \in EditRequest, FailRequest(r)
  PROVE  ConfigInv'
<1>1. edit[r].at # "done" /\ UNCHANGED <<properties, late, audit, apart>> /\ clean' \subseteq clean
  BY DEF FailRequest
<1>2. PICK e \in Edit : edit' = [edit EXCEPT ![r] = e] /\ e.at = "failed"
  BY LeftShape DEF FailRequest, ConfigInv
<1>3. RollbacksFit' /\ MarksOwnEntry' /\ edit' \in [EditRequest -> Edit]
  BY <1>1, <1>2, MarksStay
<1> QED BY <1>1, <1>3, FailRequestReplays DEF ConfigInv, ConfigTypeOK

LEMMA LateKeeps ==
  ASSUME ConfigInv, LateWrite
  PROVE  ConfigInv'
<1>1. UNCHANGED <<audit, edit, clean, apart>>
  BY DEF LateWrite
<1>2. RollbacksFit' /\ MarksOwnEntry'
  BY <1>1 DEF ConfigInv, RollbacksFit, RollbackFits, Busy, EntriesMade, MarksOwnEntry
<1> QED BY <1>1, <1>2, LateReplays DEF ConfigInv, ConfigTypeOK

\* The mark goes to the rollback's own entry, or to one of a key that is not told apart.
LEMMA MarkKeeps ==
  ASSUME ConfigInv, NEW r \in EditRequest, MarkRollback(r)
  PROVE  ConfigInv'
<1>1. /\ UNCHANGED <<properties, late, clean, apart>> /\ edit[r].at = "mark" /\ edit[r].kind = "rollback"
      /\ audit' = [audit EXCEPT ![Latest(edit[r].key)].type = "rollback"]
  BY DEF MarkRollback, ConfigInv, RollbacksFit, RollbackFits
<1>2. PICK i \in DOMAIN audit : /\ i = Latest(edit[r].key) /\ audit[i].key = edit[r].key
                                /\ \A j \in DOMAIN audit : audit[j].key = edit[r].key => j <= i
  BY <1>1, MarkedEntry
<1>3. /\ DOMAIN audit' = DOMAIN audit
      /\ audit'[i].type = "rollback"
      /\ \A j \in DOMAIN audit : /\ audit'[j].key = audit[j].key /\ audit'[j].by = audit[j].by
                                 /\ j # i => audit'[j] = audit[j]
  BY <1>1, <1>2, MarkedLog DEF ConfigInv
<1>4. PICK e \in Edit : edit' = [edit EXCEPT ![r] = e] /\ e.at = "done" /\ e.kind = "rollback"
  BY <1>1, LeftShape DEF MarkRollback, ConfigInv
<1>5. edit'[r] = e /\ (\A q \in EditRequest \ {r} : edit'[q] = edit[q]) /\ edit' \in [EditRequest -> Edit]
  BY <1>4 DEF ConfigInv, ConfigTypeOK
<1>6. \A q \in EditRequest : EntriesMade(q)' = EntriesMade(q)
  BY <1>3 DEF EntriesMade
<1>7. PICK own \in EntriesMade(r) : /\ EntriesMade(r) = {own} /\ audit[own].key = edit[r].key
                                    /\ edit[r].key \in apart => own = i
  <2>1. PICK own \in EntriesMade(r) :
          /\ EntriesMade(r) = {own} /\ audit[own].key = edit[r].key
          /\ edit[r].key \in apart => \A j \in DOMAIN audit : audit[j].key = edit[r].key => j <= own
    BY <1>1 DEF ConfigInv, RollbacksFit, RollbackFits
  <2>2. own \in DOMAIN audit /\ own \in Nat /\ i \in Nat
    BY LogDomain DEF EntriesMade, ConfigInv
  <2> QED BY <1>2, <2>1, <2>2
<1>8. ASSUME NEW q \in EditRequest PROVE RollbackFits(q)'
  <2>1. CASE q = r
    BY <1>4, <1>5, <2>1 DEF RollbackFits, Busy
  <2>2. CASE q # r
    <3>1. RollbackFits(q) /\ edit'[q] = edit[q] /\ EntriesMade(q)' = EntriesMade(q) /\ apart' = apart
      BY <1>1, <1>5, <1>6, <2>2 DEF ConfigInv, RollbacksFit
    <3>2. \A j \in EntriesMade(q) : audit'[j].key = audit[j].key
      BY <1>3 DEF EntriesMade
    <3> QED BY <1>3, <3>1, <3>2 DEF RollbackFits, Busy
  <2> QED BY <2>1, <2>2
<1>9. ASSUME NEW j \in DOMAIN audit, audit[j].key \in apart
      PROVE  audit'[j].type = "rollback" <=> edit'[audit[j].by].kind = "rollback" /\ edit'[audit[j].by].at = "done"
  <2>1. audit[j].by \in EditRequest
    BY LogDomain DEF ConfigInv, Entry
  <2>2. audit[j].type = "rollback" <=> edit[audit[j].by].kind = "rollback" /\ edit[audit[j].by].at = "done"
    BY <1>9 DEF ConfigInv, MarksOwnEntry
  <2>3. CASE audit[j].by = r
    <3>1. j = own
      BY <1>7, <2>3 DEF EntriesMade
    <3>2. j = i
      BY <1>7, <1>9, <3>1
    <3> QED BY <1>3, <1>4, <1>5, <2>3, <3>2
  <2>4. CASE audit[j].by # r
    <3>1. j # i
      BY <1>2, <1>7, <1>9, <2>4 DEF EntriesMade
    <3> QED BY <1>3, <1>5, <2>1, <2>2, <2>4, <3>1
  <2> QED BY <2>3, <2>4
<1>10. MarksOwnEntry'
  BY <1>1, <1>3, <1>9 DEF MarksOwnEntry
<1> QED BY <1>1, <1>5, <1>8, <1>10, MarkReplays DEF ConfigInv, ConfigTypeOK, RollbacksFit

\* A commit appends the one entry of a rollback, the newest of its key.
LEMMA CommitKeeps ==
  ASSUME ConfigInv, NEW r \in EditRequest, CommitAudit(r)
  PROVE  ConfigInv'
<1> DEFINE n == Len(audit) + 1
<1>1. /\ UNCHANGED <<properties, late, clean>> /\ edit[r].at = "written" /\ Busy(r)
      /\ audit' = Append(audit, Recorded(r)) /\ apart' \subseteq apart
      /\ \A q \in EditRequest \ {r} : edit[q].at = "mark" /\ edit[q].key = edit[r].key => edit[r].key \notin apart'
  BY DEF CommitAudit, Busy
<1>2. PICK e \in Edit : /\ edit' = [edit EXCEPT ![r] = e] /\ e.kind = edit[r].kind /\ e.at = AfterBroker(r)
                        /\ e.at = "mark" => e.key = edit[r].key
  BY NextPlace, LeftShape DEF CommitAudit, ConfigInv
<1>3. edit'[r] = e /\ (\A q \in EditRequest \ {r} : edit'[q] = edit[q]) /\ edit' \in [EditRequest -> Edit]
  BY <1>2 DEF ConfigInv, ConfigTypeOK
<1>4. /\ n \in Nat /\ n \notin DOMAIN audit /\ DOMAIN audit' = DOMAIN audit \cup {n}
      /\ audit'[n].by = r /\ audit'[n].key = edit[r].key /\ audit'[n].type = "update"
      /\ (\A j \in DOMAIN audit : audit'[j] = audit[j] /\ j < n) /\ audit' \in Seq(Entry)
  BY <1>1, Appended DEF ConfigInv, Recorded
<1>5. PICK m \in Nat : m = n
  BY <1>4
<1> HIDE DEF n
<1>6. /\ edit[r].kind = "rollback" => EntriesMade(r) = {} /\ e.at = "mark"
      /\ e.at = "mark" => edit[r].kind = "rollback"
      /\ e.at # "idle"
  BY <1>1, <1>2 DEF ConfigInv, RollbacksFit, RollbackFits, AfterBroker
<1>7. EntriesMade(r)' = EntriesMade(r) \cup {m} /\ \A q \in EditRequest \ {r} : EntriesMade(q)' = EntriesMade(q)
  BY <1>4, <1>5 DEF EntriesMade
<1>8. ASSUME NEW q \in EditRequest PROVE RollbackFits(q)'
  <2>1. CASE q = r
    <3>1. CASE e.at = "mark"
      <4>1. EntriesMade(r)' = {m} /\ audit'[m].key = edit'[r].key /\ \A j \in DOMAIN audit' : j <= m
        BY <1>2, <1>3, <1>4, <1>5, <1>6, <1>7, <3>1, LogDomain DEF ConfigInv
      <4> QED BY <1>2, <1>3, <1>6, <2>1, <3>1, <4>1 DEF RollbackFits, Busy
    <3>2. CASE e.at # "mark"
      <4>1. edit[r].kind # "rollback"
        BY <1>6, <3>2
      <4> QED BY <1>2, <1>3, <1>6, <2>1, <3>2, <4>1 DEF RollbackFits
    <3> QED BY <3>1, <3>2
  <2>2. CASE q # r
    <3>1. RollbackFits(q) /\ edit'[q] = edit[q] /\ EntriesMade(q)' = EntriesMade(q)
      BY <1>3, <1>7, <2>2 DEF ConfigInv, RollbacksFit
    <3>2. \A j \in EntriesMade(q) : audit'[j] = audit[j]
      BY <1>4 DEF EntriesMade
    <3>3. ASSUME edit[q].at = "mark", edit[q].key \in apart',
                 NEW i \in EntriesMade(q), edit[q].key \in apart => \A j \in DOMAIN audit : audit[j].key = edit[q].key => j <= i
          PROVE  \A j \in DOMAIN audit' : audit'[j].key = edit[q].key => j <= i
      <4>1. edit[q].key # edit[r].key
        BY <1>1, <2>2, <3>3
      <4> QED BY <1>1, <1>4, <3>3, <4>1
    <3> QED BY <3>1, <3>2, <3>3 DEF RollbackFits, Busy
  <2> QED BY <2>1, <2>2
<1>9. ASSUME NEW j \in DOMAIN audit', audit'[j].key \in apart'
      PROVE  audit'[j].type = "rollback" <=> edit'[audit'[j].by].kind = "rollback" /\ edit'[audit'[j].by].at = "done"
  <2>1. CASE j \notin DOMAIN audit
    <3>1. audit'[j].by = r /\ audit'[j].type = "update"
      BY <1>4, <2>1
    <3> QED BY <1>2, <1>3, <1>6, <3>1
  <2>2. CASE j \in DOMAIN audit
    <3>1. audit'[j] = audit[j] /\ audit[j].by \in EditRequest
      BY <1>4, <2>2, LogDomain DEF ConfigInv, Entry
    <3>2. audit[j].type = "rollback" <=> edit[audit[j].by].kind = "rollback" /\ edit[audit[j].by].at = "done"
      BY <1>1, <1>9, <2>2, <3>1 DEF ConfigInv, MarksOwnEntry
    <3>3. CASE audit[j].by = r
      <4>1. edit[r].kind # "rollback"
        BY <1>6, <2>2, <3>3 DEF EntriesMade
      <4> QED BY <1>2, <1>3, <3>1, <3>2, <3>3, <4>1
    <3>4. CASE audit[j].by # r
      BY <1>3, <3>1, <3>2, <3>4
    <3> QED BY <3>3, <3>4
  <2> QED BY <2>1, <2>2
<1>10. MarksOwnEntry'
  BY <1>9 DEF MarksOwnEntry
<1> QED BY <1>1, <1>3, <1>4, <1>8, <1>10, CommitReplays DEF ConfigInv, ConfigTypeOK, RollbacksFit

-----------------------------------------------------------------------------
(* The theorems.                                                           *)

LEMMA ConfigKept == ConfigInv /\ [ConfigNext]_configVars => ConfigInv'
<1> SUFFICES ASSUME ConfigInv, [ConfigNext]_configVars PROVE ConfigInv'
  OBVIOUS
<1>1. ASSUME NEW r \in EditRequest, AskEdit(r) PROVE ConfigInv'
  BY <1>1, AskEditKeeps
<1>2. ASSUME NEW r \in EditRequest, AskRollback(r) PROVE ConfigInv'
  BY <1>2, AskRollbackKeeps
<1>3. ASSUME NEW r \in EditRequest, NEW b \in Broker, ReadFile(r, b) PROVE ConfigInv'
  BY <1>3, ReadFileKeeps
<1>4. ASSUME NEW r \in EditRequest, ReadAgain(r) PROVE ConfigInv'
  BY <1>4, ReadAgainKeeps
<1>5. ASSUME NEW r \in EditRequest, WriteFile(r) PROVE ConfigInv'
  BY <1>5, WriteFileKeeps
<1>6. ASSUME NEW r \in EditRequest, GiveUpOnAgent(r) PROVE ConfigInv'
  BY <1>6, GiveUpKeeps
<1>7. ASSUME NEW r \in EditRequest, CommitAudit(r) PROVE ConfigInv'
  BY <1>7, CommitKeeps
<1>8. ASSUME NEW r \in EditRequest, FailBroker(r) PROVE ConfigInv'
  BY <1>8, FailBrokerKeeps
<1>9. ASSUME NEW r \in EditRequest, FailRequest(r) PROVE ConfigInv'
  BY <1>9, FailRequestKeeps
<1>10. ASSUME NEW r \in EditRequest, MarkRollback(r) PROVE ConfigInv'
  BY <1>10, MarkKeeps
<1>11. CASE LateWrite
  BY <1>11, LateKeeps
<1>12. CASE UNCHANGED configVars
  <2>1. ConfigTypeOK' /\ RollbacksFit' /\ MarksOwnEntry'
    BY <1>12 DEF configVars, ConfigInv, ConfigTypeOK, RollbacksFit, RollbackFits, Busy, EntriesMade, MarksOwnEntry
  <2>2. ASSUME NEW b \in clean' PROVE Chained(b)' /\ Kept(b)'
    <3>1. b \in Broker /\ Chained(b) /\ Kept(b) /\ LogSame(b) /\ \A c \in Content : <<b, c>> \notin late'
      BY <1>12, LogUntouched DEF configVars, ConfigInv, ConfigTypeOK, Replayed, Kept
    <3>2. properties'[b] = properties[b] /\ \A q \in EditRequest : edit'[q] = edit[q]
      BY <1>12 DEF configVars
    <3> QED BY <3>1, <3>2, ChainKept, FileKept DEF ConfigInv
  <2> QED BY <2>1, <2>2 DEF ConfigInv, Replayed
<1> QED BY <1>1, <1>2, <1>3, <1>4, <1>5, <1>6, <1>7, <1>8, <1>9, <1>10, <1>11, <1>12 DEF ConfigNext, EditStep

LEMMA ConfigStart == ConfigInit => ConfigInv
<1> SUFFICES ASSUME ConfigInit PROVE ConfigInv
  OBVIOUS
<1>1. Blank("idle", "update") \in Edit /\ Blank("idle", "update").at = "idle" /\ Blank("idle", "update").kind = "update"
  BY BlankTyped
<1>2. Rendered \in Content
  BY ConfigAssumption DEF Rendered, Content
<1>3. ConfigTypeOK
  BY <1>1, <1>2 DEF ConfigInit, ConfigTypeOK
<1>4. \A r \in EditRequest : ~Busy(r) /\ edit[r].at = "idle" /\ edit[r].kind = "update"
  BY <1>1 DEF ConfigInit, Busy
<1>5. DOMAIN audit = {}
  BY DEF ConfigInit
<1>6. Replayed
  BY <1>4, <1>5 DEF ConfigInit, Replayed, Chained, Kept, Works, EntriesOf, LeftBy
<1>7. RollbacksFit /\ MarksOwnEntry
  BY <1>4, <1>5 DEF RollbacksFit, RollbackFits, EntriesMade, Busy, MarksOwnEntry
<1> QED BY <1>3, <1>6, <1>7 DEF ConfigInv

LEMMA ConfigInvHolds == ConfigSpec => []ConfigInv
  BY ConfigStart, ConfigKept, PTL DEF ConfigSpec

\* Files, log and requests keep their types, for any brokers, keys, values and requests.
THEOREM ConfigTyped == ConfigSpec => []ConfigTypeOK
<1>1. ConfigInv => ConfigTypeOK
  BY DEF ConfigInv
<1> QED BY <1>1, ConfigInvHolds, PTL

\* The audit log of a broker replays to its server.properties, entry by entry, through
\* single and bulk edits, rollbacks, fallbacks from agent to SSH and failures, so long as
\* no two edits of that broker overlapped and none was lost between file and log.
THEOREM LogReplays == ConfigSpec => []AuditReplays
<1>1. ASSUME ConfigInv PROVE AuditReplays
  <2> SUFFICES ASSUME NEW b \in clean, NEW k \in ConfigKey
               PROVE  /\ \A i \in EntriesOf(b, k) : audit[i].old = LeftBy({j \in EntriesOf(b, k) : j < i}, k)
                      /\ (\A r \in EditRequest : edit[r].broker = b => edit[r].at # "written")
                           => properties[b][k] = LeftBy(EntriesOf(b, k), k)
    BY DEF AuditReplays
  <2>1. Chained(b) /\ Kept(b)
    BY <1>1 DEF ConfigInv, Replayed
  <2> QED BY <2>1 DEF Chained, Kept, Works
<1> QED BY <1>1, ConfigInvHolds, PTL

\* The entry the log calls a rollback is the one the rollback wrote: so it is for every key
\* no other edit of which was committed between a rollback's entry and its mark.
THEOREM MarksItsOwn == ConfigSpec => []MarksOwnEntry
<1>1. ConfigInv => MarksOwnEntry
  BY DEF ConfigInv
<1> QED BY <1>1, ConfigInvHolds, PTL

-----------------------------------------------------------------------------
(* The alerting stack.                                                     *)

\* A request beyond its loop is at work on one cluster and one host.
AtWork(e) == e.at \notin {"idle", "loop"}
WorkFits(e) ==
    /\ e.at = "idle" => e = NoWork
    /\ e.op = "edit" => e.at \in {"idle", "loop", "read", "push"}
    /\ e.op = "seed" => e.at \in {"read", "push"}
    /\ e.op = "deploy" => AtWork(e)
    /\ e.op # "edit" => e.todo = {}
    /\ AtWork(e) => e.cluster \in Monitored
StacksFit ==
    \A c \in Monitored : monconf[c].deployed => monconf[c].row

\* What ties a cluster to a host.
Tied(h, c) ==
    \/ monconf[c].row /\ monconf[c].host = h
    \/ mon[h].scrapes = c \/ mon[h].file.of = c
    \/ \E w \in MonRequest : AtWork(mreq[w]) /\ mreq[w].cluster = c /\ mreq[w].host = h

\* A cluster that is alone has one request at most, and no other cluster on its hosts.
Sole(c) == \A w, q \in MonRequest : c \in About(w) /\ c \in About(q) => w = q
OwnHosts(c) == \A d \in Monitored, h \in MonHost : Tied(h, c) /\ Tied(h, d) => d = c

\* The stack on h is that of c, and evaluates its rows unless a push was lost.
ServedOn(h, c, p) == mon[h].up /\ mon[h].port = p /\ mon[h].scrapes = c
ForceOn(h, c, p) ==
    \/ c \in behind \/ p # "default"
    \/ /\ mon[h].loaded.of = c /\ mon[h].loaded.text = RenderedRules(c)
       /\ mon[h].receivers = channels

\* How far a deploy without a failed step has come, and what is being pushed.
Unfailed(e) == e.op = "deploy" /\ ~e.failed
Progress(e) ==
    /\ e.op = "deploy" /\ e.at \in {"read", "push", "dashboards", "save"} => ~e.failed
    /\ Unfailed(e) /\ e.at \in {"grafana", "alertmanager", "check", "recheck", "read", "push", "dashboards", "save"}
         => ServedOn(e.host, e.cluster, e.port)
    /\ Unfailed(e) /\ e.at \in {"recheck", "dashboards", "save"} => ForceOn(e.host, e.cluster, e.port)
    /\ e.at = "seed" => /\ monconf[e.cluster].deployed /\ monconf[e.cluster].host = e.host
                        /\ ForceOn(e.host, e.cluster, monconf[e.cluster].port)
    /\ e.op # "deploy" /\ e.at \in {"read", "push"}
         => monconf[e.cluster].deployed /\ monconf[e.cluster].host = e.host
    /\ e.at = "push" => e.text = RenderedRules(e.cluster) /\ e.routes = channels
    /\ e.at = "loop" /\ e.cluster \notin e.todo => ~monconf[e.cluster].deployed
Progressing(c) == \A w \in MonRequest : mreq[w].cluster = c => Progress(mreq[w])

\* A stack called deployed is served, but for a new deploy, and in force, but for a push.
Redeploys(e, c) == e.op = "deploy" /\ e.cluster = c /\ e.at # "seed"
MonSettled(c) ==
    monconf[c].deployed =>
        /\ (\A w \in MonRequest : ~Redeploys(mreq[w], c)) => ServedOn(monconf[c].host, c, monconf[c].port)
        /\ AtRest(c) => ForceOn(monconf[c].host, c, monconf[c].port)

MonInv ==
    /\ MonTypeOK /\ StacksFit /\ \A w \in MonRequest : WorkFits(mreq[w])
    /\ \A c \in alone : Sole(c) /\ OwnHosts(c) /\ Progressing(c) /\ MonSettled(c)

-----------------------------------------------------------------------------
(* Frames: a step of one request, and what it leaves of the other clusters. *)

Moves(w, e) == e \in MonWork /\ mreq' = [mreq EXCEPT ![w] = e]
AboutOf(e) == IF e.at = "idle" THEN {} ELSE e.todo \cup ({e.cluster} \ {"none"})

LEMMA NoWorkTyped ==
  /\ NoWork \in MonWork /\ NoWork.at = "idle" /\ NoWork.op = "edit" /\ NoWork.todo = {}
  /\ NoWork.cluster = "none" /\ NoWork.failed = FALSE /\ NoWork.text = {} /\ NoWork.routes = {}
  BY MonAssumption DEF NoWork, MonWork, AnyHost, PromPort, Text

LEMMA MovesOne ==
  ASSUME MonInv, NEW w \in MonRequest, NEW e, Moves(w, e)
  PROVE  /\ mreq' \in [MonRequest -> MonWork] /\ mreq'[w] = e /\ e \in MonWork
         /\ About(w)' = AboutOf(e)
         /\ \A q \in MonRequest \ {w} : mreq'[q] = mreq[q] /\ About(q)' = About(q)
         /\ WorkFits(e) => \A q \in MonRequest : WorkFits(mreq[q])'
  BY DEF MonInv, MonTypeOK, Moves, About, AboutOf, WorkFits, AtWork, NoWork, AnyHost

LEMMA NotNone == \A c \in Monitored : c # "none"
  BY MonAssumption

LEMMA SoleKept ==
  ASSUME MonInv, NEW w \in MonRequest, NEW e, Moves(w, e), NEW c \in alone,
         c \in AboutOf(e) => c \in About(w) \/ \A q \in MonRequest \ {w} : c \notin About(q)
  PROVE  Sole(c)'
<1>1. Sole(c)
  BY DEF MonInv
<1>2. About(w)' = AboutOf(e) /\ \A q \in MonRequest \ {w} : About(q)' = About(q)
  BY MovesOne
<1> QED BY <1>1, <1>2 DEF Sole

\* No new ties.
LEMMA OwnKept ==
  ASSUME MonInv, NEW w \in MonRequest, NEW e, Moves(w, e), NEW c \in alone,
         AtWork(e) => Tied(e.host, e.cluster),
         \A d \in Monitored : monconf'[d].row => Tied(monconf'[d].host, d),
         \A d \in Monitored, h \in MonHost : mon'[h].scrapes = d \/ mon'[h].file.of = d => Tied(h, d)
  PROVE  OwnHosts(c)'
<1>1. OwnHosts(c) /\ c \in Monitored
  BY DEF MonInv, MonTypeOK
<1>2. mreq'[w] = e /\ \A q \in MonRequest \ {w} : mreq'[q] = mreq[q]
  BY MovesOne
<1>3. ASSUME NEW h \in MonHost, NEW d \in Monitored, Tied(h, d)' PROVE Tied(h, d)
  <2>1. CASE \E q \in MonRequest : AtWork(mreq'[q]) /\ mreq'[q].cluster = d /\ mreq'[q].host = h
    <3>1. PICK q \in MonRequest : AtWork(mreq'[q]) /\ mreq'[q].cluster = d /\ mreq'[q].host = h
      BY <2>1
    <3> QED BY <1>2, <3>1 DEF Tied
  <2>2. CASE ~\E q \in MonRequest : AtWork(mreq'[q]) /\ mreq'[q].cluster = d /\ mreq'[q].host = h
    BY <1>3, <2>2 DEF Tied, AtWork
  <2> QED BY <2>1, <2>2
<1> QED BY <1>1, <1>3 DEF OwnHosts

\* The step is about another cluster, and leaves the hosts of this one alone.
LEMMA Elsewhere ==
  ASSUME MonInv, NEW w \in MonRequest, NEW e, Moves(w, e), NEW c \in alone,
         c # mreq[w].cluster, c # e.cluster,
         monconf'[c] = monconf[c], rules'[c] = rules[c], c \in behind => c \in behind',
         \A h \in MonHost : Tied(h, c) => mon'[h] = mon[h],
         channels' = channels \/ \A q \in MonRequest \ {w} : c \notin About(q),
         AtRest(c)' => c \in behind' \/ ~monconf[c].deployed \/ (AtRest(c) /\ channels' = channels)
  PROVE  Progressing(c)' /\ MonSettled(c)'
<1>1. /\ c \in Monitored /\ c # "none" /\ Progressing(c) /\ MonSettled(c)
      /\ monconf[c].deployed => monconf[c].row
      /\ monconf[c].host \in MonHost /\ RenderedRules(c)' = RenderedRules(c)
  BY NotNone DEF MonInv, MonTypeOK, StacksFit, MonConf, RenderedRules, Enabled
<1>2. mreq'[w] = e /\ \A q \in MonRequest \ {w} : mreq'[q] = mreq[q]
  BY MovesOne
<1>3. ASSUME NEW q \in MonRequest, mreq'[q].cluster = c PROVE Progress(mreq[q])'
  <2>1. q # w /\ mreq'[q] = mreq[q] /\ Progress(mreq[q]) /\ mreq[q].host \in MonHost
    BY <1>1, <1>2, <1>3 DEF Progressing, MonInv, MonTypeOK, MonWork
  <2>2. mreq[q].at # "idle"
    BY <1>1, <1>3, <2>1, NoWorkTyped DEF MonInv, WorkFits
  <2>3. channels' = channels
    BY <1>1, <1>3, <2>1, <2>2 DEF About
  <2>4. CASE mreq[q].at = "loop"
    BY <1>3, <2>1, <2>4 DEF Progress, Unfailed
  <2>5. CASE mreq[q].at # "loop"
    <3>1. mon'[mreq[q].host] = mon[mreq[q].host]
      BY <1>3, <2>1, <2>2, <2>5 DEF Tied, AtWork
    <3> QED BY <1>1, <1>3, <2>1, <2>3, <3>1 DEF Progress, Unfailed, ServedOn, ForceOn
  <2> QED BY <2>4, <2>5
<1>4. MonSettled(c)'
  <2> SUFFICES ASSUME monconf[c].deployed PROVE MonSettled(c)'
    BY DEF MonSettled
  <2>1. mon'[monconf[c].host] = mon[monconf[c].host]
    BY <1>1 DEF Tied
  <2>2. (\A q \in MonRequest : ~Redeploys(mreq[q], c))' => (\A q \in MonRequest : ~Redeploys(mreq[q], c))
    BY <1>2 DEF Redeploys
  <2>3. ServedOn(monconf[c].host, c, monconf[c].port)' <=> ServedOn(monconf[c].host, c, monconf[c].port)
    BY <2>1 DEF ServedOn
  <2>4. ASSUME AtRest(c)' PROVE ForceOn(monconf[c].host, c, monconf[c].port)'
    BY <1>1, <2>1, <2>4 DEF ForceOn, MonSettled
  <2> QED BY <1>1, <2>2, <2>3, <2>4 DEF MonSettled
<1> QED BY <1>3, <1>4 DEF Progressing

\* Of a cluster that is alone, its one request tells.
LEMMA OneAtWork ==
  ASSUME MonInv, NEW w \in MonRequest, NEW e, Moves(w, e), NEW c \in alone,
         \A q \in MonRequest \ {w} : c \notin About(q)
  PROVE  /\ AtRest(c)' <=> c \notin AboutOf(e)
         /\ (\A q \in MonRequest : ~Redeploys(mreq[q], c))' <=> ~Redeploys(e, c)
         /\ (\A q \in MonRequest : ~Redeploys(mreq[q], c)) <=> ~Redeploys(mreq[w], c)
         /\ Progressing(c)' <=> (e.cluster = c => Progress(e)')
<1>1. c \in Monitored /\ c # "none"
  BY NotNone DEF MonInv, MonTypeOK
<1>2. mreq'[w] = e /\ About(w)' = AboutOf(e)
      /\ \A q \in MonRequest \ {w} : mreq'[q] = mreq[q] /\ About(q)' = About(q)
  BY MovesOne
<1>3. ASSUME NEW q \in MonRequest \ {w} PROVE mreq[q].cluster # c
  <2>1. CASE mreq[q].at = "idle"
    BY <1>1, <2>1, NoWorkTyped DEF MonInv, WorkFits
  <2>2. CASE mreq[q].at # "idle"
    BY <1>1, <2>2 DEF About
  <2> QED BY <2>1, <2>2
<1>4. AtRest(c)' <=> c \notin AboutOf(e)
  BY <1>2 DEF AtRest
<1>5. (\A q \in MonRequest : ~Redeploys(mreq[q], c))' <=> ~Redeploys(e, c)
  BY <1>2, <1>3 DEF Redeploys
<1>6. (\A q \in MonRequest : ~Redeploys(mreq[q], c)) <=> ~Redeploys(mreq[w], c)
  BY <1>3 DEF Redeploys
<1>7. Progressing(c)' <=> (e.cluster = c => Progress(e)')
  <2>1. \A q \in MonRequest \ {w} : mreq'[q].cluster # c
    BY <1>2, <1>3
  <2> QED BY <1>2, <2>1 DEF Progressing
<1> QED BY <1>4, <1>5, <1>6, <1>7

LEMMA AloneAtWork ==
  ASSUME MonInv, NEW w \in MonRequest, NEW c \in alone, c \in About(w)
  PROVE  \A q \in MonRequest \ {w} : c \notin About(q)
  BY DEF MonInv, Sole

-----------------------------------------------------------------------------
(* The steps of a request that change nothing but itself.                  *)

\* From stage to stage: what the request knows is all there is to show.
LEMMA StageKept ==
  ASSUME MonInv, NEW w \in MonRequest, NEW e, Moves(w, e), AtWork(mreq[w]), AtWork(e), WorkFits(e),
         UNCHANGED <<rules, channels, monconf, mon, behind, alone, asked>>,
         e.cluster = mreq[w].cluster, e.host = mreq[w].host, e.todo = mreq[w].todo, e.op = mreq[w].op,
         mreq[w].at # "seed", e.at # "seed",
         mreq[w].cluster \in alone => Progress(e)
  PROVE  MonInv'
<1>1. mreq' \in [MonRequest -> MonWork] /\ \A q \in MonRequest : WorkFits(mreq[q])'
  BY MovesOne
<1>2. MonTypeOK' /\ StacksFit'
  BY <1>1 DEF MonInv, MonTypeOK, StacksFit
<1>3. AboutOf(e) = About(w)
  BY DEF AboutOf, About, AtWork
<1>4. e.cluster \in Monitored /\ Tied(e.host, e.cluster)
  BY DEF MonInv, WorkFits, Tied
<1>5. ASSUME NEW c \in alone PROVE Sole(c)' /\ OwnHosts(c)' /\ Progressing(c)' /\ MonSettled(c)'
  <2>1. Sole(c)'
    BY <1>3, SoleKept
  <2>2. OwnHosts(c)'
    BY <1>4, OwnKept DEF Tied
  <2>3. CASE c = e.cluster
    <3>1. c \in About(w) /\ c \in AboutOf(e)
      BY <1>3, <1>4, <2>3, NotNone DEF AboutOf, AtWork
    <3>2. \A q \in MonRequest \ {w} : c \notin About(q)
      BY <3>1, AloneAtWork
    <3>3. Progress(e)'
      BY <2>3 DEF Progress, Unfailed, ServedOn, ForceOn, RenderedRules, Enabled
    <3>4. ~AtRest(c)' /\ (Redeploys(e, c) <=> Redeploys(mreq[w], c)) /\ Progressing(c)'
      BY <3>1, <3>2, <3>3, OneAtWork DEF Redeploys
    <3>5. MonSettled(c)'
      <4>1. (\A q \in MonRequest : ~Redeploys(mreq[q], c))' <=> (\A q \in MonRequest : ~Redeploys(mreq[q], c))
        BY <3>2, <3>4, OneAtWork
      <4>2. MonSettled(c)
        BY DEF MonInv
      <4> QED BY <3>4, <4>1, <4>2 DEF MonSettled, ServedOn
    <3> QED BY <2>1, <2>2, <3>4, <3>5
  <2>4. CASE c # e.cluster
    <3>1. AtRest(c)' <=> AtRest(c)
      BY <1>3, MovesOne DEF AtRest
    <3> QED BY <2>1, <2>2, <2>4, <3>1, Elsewhere
  <2> QED BY <2>3, <2>4
<1> QED BY <1>1, <1>2, <1>5 DEF MonInv

LEMMA ReadRowsKeeps ==
  ASSUME MonInv, NEW w \in MonRequest, ReadRows(w)
  PROVE  MonInv'
<1> DEFINE e == [mreq[w] EXCEPT !.at = "push", !.routes = RenderedRoutes, !.text = RenderedRules(mreq[w].cluster)]
<1>1. mreq[w] \in MonWork /\ WorkFits(mreq[w]) /\ mreq[w].at = "read" /\ mreq[w].cluster \in Monitored
  BY DEF MonInv, MonTypeOK, ReadRows, WorkFits, AtWork
<1>2. RenderedRules(mreq[w].cluster) \in Text /\ RenderedRoutes \in SUBSET Channel
  BY <1>1 DEF MonInv, MonTypeOK, RenderedRules, Enabled, Text, RenderedRoutes
<1>3. /\ e \in MonWork /\ e.at = "push" /\ e.routes = channels /\ e.text = RenderedRules(mreq[w].cluster)
      /\ e.op = mreq[w].op /\ e.todo = mreq[w].todo /\ e.cluster = mreq[w].cluster /\ e.host = mreq[w].host
      /\ e.port = mreq[w].port /\ e.failed = mreq[w].failed
  BY <1>1, <1>2 DEF MonWork, RenderedRoutes
<1>4. mreq' = [mreq EXCEPT ![w] = e] /\ UNCHANGED <<rules, channels, monconf, mon, behind, alone, asked>>
  BY DEF ReadRows
<1> HIDE DEF e
<1>5. WorkFits(e) /\ AtWork(e) /\ AtWork(mreq[w])
  BY <1>1, <1>3 DEF WorkFits, AtWork
<1>6. mreq[w].cluster \in alone => Progress(mreq[w])
  BY DEF MonInv, Progressing
<1>7. mreq[w].cluster \in alone => Progress(e)
  BY <1>1, <1>3, <1>6 DEF Progress, Unfailed, ServedOn
<1> QED BY <1>1, <1>3, <1>4, <1>5, <1>7, StageKept DEF Moves

Stages == {"exporters", "prometheus", "grafana", "alertmanager", "check", "read", "push", "recheck",
           "dashboards", "save", "seed"}
SameWork(e, d) ==
    e.op = d.op /\ e.todo = d.todo /\ e.cluster = d.cluster /\ e.host = d.host /\ e.port = d.port

LEMMA GoesShape ==
  ASSUME MonInv, NEW w \in MonRequest, NEW at \in Stages, Goes(w, at)
  PROVE  \E e \in MonWork : /\ mreq' = [mreq EXCEPT ![w] = e] /\ e.at = at /\ SameWork(e, mreq[w])
                            /\ e.failed = mreq[w].failed
<1> DEFINE e == [mreq[w] EXCEPT !.at = at]
<1>1. mreq[w] \in MonWork
  BY DEF MonInv, MonTypeOK
<1>2. e \in MonWork /\ e.at = at /\ SameWork(e, mreq[w]) /\ e.failed = mreq[w].failed
  BY <1>1 DEF MonWork, Stages, SameWork
<1> QED BY <1>2 DEF Goes

LEMMA FailsShape ==
  ASSUME MonInv, NEW w \in MonRequest, NEW at \in Stages, Fails(w, at)
  PROVE  \E e \in MonWork : /\ mreq' = [mreq EXCEPT ![w] = e] /\ e.at = at /\ SameWork(e, mreq[w])
                            /\ e.failed
<1> DEFINE e == [mreq[w] EXCEPT !.at = at, !.failed = TRUE]
<1>1. mreq[w] \in MonWork
  BY DEF MonInv, MonTypeOK
<1>2. e \in MonWork /\ e.at = at /\ SameWork(e, mreq[w]) /\ e.failed = TRUE
  BY <1>1 DEF MonWork, Stages, SameWork
<1> QED BY <1>2 DEF Fails

\* The stages of a deploy but those that change a host or a row.
LEMMA StagesKeep ==
  ASSUME MonInv, NEW w \in MonRequest, NEW e \in MonWork,
         mreq' = [mreq EXCEPT ![w] = e], SameWork(e, mreq[w]),
         UNCHANGED <<rules, channels, monconf, mon, behind, alone, asked>>,
         \/ mreq[w].at = "exporters" /\ e.at = "prometheus"
         \/ mreq[w].at = "grafana" /\ e.at = "alertmanager"
         \/ mreq[w].at = "alertmanager" /\ e.at = "check"
         \/ mreq[w].at = "check" /\ e.at = "read" /\ ~e.failed
         \/ mreq[w].at = "recheck" /\ e.at = "dashboards" /\ ~e.failed
         \/ mreq[w].at = "dashboards" /\ e.at = "save" /\ e.failed = mreq[w].failed,
         mreq[w].failed => e.failed
  PROVE  MonInv'
<1>1. WorkFits(mreq[w]) /\ mreq[w].op = "deploy" /\ AtWork(mreq[w])
  <2>1. mreq[w] \in MonWork /\ WorkFits(mreq[w])
    BY DEF MonInv, MonTypeOK
  <2> QED BY <2>1 DEF MonWork, WorkFits, AtWork
<1>2. WorkFits(e) /\ AtWork(e)
  BY <1>1 DEF WorkFits, AtWork, SameWork
<1>3. mreq[w].cluster \in alone => Progress(mreq[w])
  BY DEF MonInv, Progressing
<1>4. mreq[w].cluster \in alone => Progress(e)
  <2>1. mreq[w].at = "dashboards" /\ mreq[w].cluster \in alone => ~mreq[w].failed
    BY <1>1, <1>3 DEF Progress
  <2>2. e.failed \in BOOLEAN /\ mreq[w].failed \in BOOLEAN
    BY DEF MonInv, MonTypeOK, MonWork
  <2> QED BY <1>1, <1>3, <2>1, <2>2 DEF Progress, Unfailed, ServedOn, ForceOn, SameWork
<1> QED BY <1>1, <1>2, <1>4, StageKept DEF Moves, SameWork

LEMMA DeployStagesKeep ==
  ASSUME MonInv, NEW w \in MonRequest,
         \/ DeployExporters(w) \/ DeployGrafana(w) \/ DeployAlertmanager(w) \/ ProvisionDashboards(w)
  PROVE  MonInv'
<1>1. UNCHANGED <<rules, channels, monconf, mon, behind, alone, asked>>
  BY DEF DeployExporters, DeployGrafana, DeployAlertmanager, ProvisionDashboards
<1>2. ASSUME NEW at \in Stages, Goes(w, at) \/ Fails(w, at),
             \/ mreq[w].at = "exporters" /\ at = "prometheus"
             \/ mreq[w].at = "grafana" /\ at = "alertmanager"
             \/ mreq[w].at = "alertmanager" /\ at = "check"
      PROVE  MonInv'
  <2>1. PICK e \in MonWork : /\ mreq' = [mreq EXCEPT ![w] = e] /\ e.at = at /\ SameWork(e, mreq[w])
                             /\ mreq[w].failed => e.failed
    <3>1. CASE Goes(w, at)
      BY <3>1, GoesShape
    <3>2. CASE Fails(w, at)
      BY <3>2, FailsShape
    <3> QED BY <1>2, <3>1, <3>2
  <2> QED BY <1>1, <1>2, <2>1, StagesKeep
<1>3. CASE DeployExporters(w)
  BY <1>2, <1>3 DEF DeployExporters, Stages
<1>4. CASE DeployGrafana(w)
  BY <1>2, <1>4 DEF DeployGrafana, Stages
<1>5. CASE DeployAlertmanager(w)
  BY <1>2, <1>5 DEF DeployAlertmanager, Stages
<1>6. CASE ProvisionDashboards(w)
  <2>1. Goes(w, "save") /\ mreq[w].at = "dashboards"
    BY <1>6 DEF ProvisionDashboards
  <2>2. PICK e \in MonWork : /\ mreq' = [mreq EXCEPT ![w] = e] /\ e.at = "save" /\ SameWork(e, mreq[w])
                             /\ e.failed = mreq[w].failed
    BY <2>1, GoesShape DEF Stages
  <2> QED BY <1>1, <2>1, <2>2, StagesKeep
<1> QED BY <1>3, <1>4, <1>5, <1>6

-----------------------------------------------------------------------------
(* Edits.                                                                  *)

LEMMA EditRuleKeeps ==
  ASSUME MonInv, NEW w \in MonRequest, NEW d \in Monitored, NEW n \in AlertRule, NEW row \in Row, EditRule(w, d, n, row)
  PROVE  MonInv'
<1> DEFINE e == [NoWork EXCEPT !.at = "loop", !.todo = {d}, !.cluster = d]
<1>1. e \in MonWork /\ e.at = "loop" /\ e.todo = {d} /\ e.cluster = d /\ e.op = "edit"
  BY NoWorkTyped DEF MonWork
<1>2. /\ Moves(w, e) /\ UNCHANGED <<channels, monconf, mon, behind>> /\ mreq[w].at = "idle"
      /\ rules' = [rules EXCEPT ![d][n] = row] /\ asked < MonOps /\ asked' = asked + 1
      /\ alone' = alone \ UNION {About(q) \cap {d} : q \in MonRequest \ {w}}
  BY <1>1 DEF EditRule, Moves, MayAsk, Begins
<1> HIDE DEF e
<1>3. AboutOf(e) = {d} /\ WorkFits(e) /\ ~AtWork(e)
  BY <1>1, NotNone DEF AboutOf, WorkFits, AtWork
<1>4. rules' \in [Monitored -> [AlertRule -> Row]] /\ \A c \in Monitored \ {d} : rules'[c] = rules[c]
  BY <1>2 DEF MonInv, MonTypeOK
<1>5. MonTypeOK' /\ StacksFit' /\ \A q \in MonRequest : WorkFits(mreq[q])'
  <2>1. asked' \in 0..MonOps
    BY <1>2, MonAssumption DEF MonInv, MonTypeOK
  <2> QED BY <1>2, <1>3, <1>4, <2>1, MovesOne DEF MonInv, MonTypeOK, StacksFit
<1>6. mreq[w].cluster = "none" /\ mreq[w].op = "edit" /\ About(w) = {}
  BY <1>2, NoWorkTyped DEF MonInv, WorkFits, About
<1>7. ASSUME NEW c \in alone' PROVE Sole(c)' /\ OwnHosts(c)' /\ Progressing(c)' /\ MonSettled(c)'
  <2>1. c \in alone /\ c \in Monitored /\ c # "none" /\ (c = d => \A q \in MonRequest \ {w} : c \notin About(q))
    BY <1>2, NotNone DEF MonInv, MonTypeOK
  <2>2. Sole(c)'
    BY <1>2, <1>3, <2>1, SoleKept
  <2>3. OwnHosts(c)'
    BY <1>2, <1>3, <2>1, OwnKept DEF Tied
  <2>4. CASE c = d
    <3>1. ~AtRest(c)' /\ Progressing(c)' /\ (\A q \in MonRequest : ~Redeploys(mreq[q], c))
      BY <1>1, <1>2, <1>3, <1>6, <2>1, <2>4, OneAtWork DEF Progress, Unfailed, Redeploys
    <3>2. MonSettled(c)
      BY <2>1 DEF MonInv
    <3> QED BY <1>2, <2>2, <2>3, <3>1, <3>2 DEF MonSettled, ServedOn
  <2>5. CASE c # d
    <3>1. AtRest(c)' <=> AtRest(c)
      BY <1>2, <1>3, <1>6, <2>5, MovesOne DEF AtRest
    <3> QED BY <1>1, <1>2, <1>4, <1>6, <2>1, <2>2, <2>3, <2>5, <3>1, Elsewhere
  <2> QED BY <2>4, <2>5
<1> QED BY <1>5, <1>7 DEF MonInv

LEMMA EditChannelKeeps ==
  ASSUME MonInv, NEW w \in MonRequest, NEW k \in Channel, EditChannel(w, k)
  PROVE  MonInv'
<1> DEFINE e == [NoWork EXCEPT !.at = "loop", !.todo = {c \in Monitored : monconf[c].deployed}]
<1>1. /\ e \in MonWork /\ e.at = "loop" /\ e.todo = {c \in Monitored : monconf[c].deployed}
      /\ e.cluster = "none" /\ e.op = "edit"
  BY NoWorkTyped DEF MonWork
<1>2. /\ Moves(w, e) /\ UNCHANGED <<rules, monconf, mon, behind>> /\ mreq[w].at = "idle"
      /\ channels' \in SUBSET Channel /\ asked < MonOps /\ asked' = asked + 1
      /\ alone' = alone \ UNION {About(q) \cap Monitored : q \in MonRequest \ {w}}
  BY <1>1 DEF EditChannel, Moves, MayAsk, Begins, MonInv, MonTypeOK
<1> HIDE DEF e
<1>3. AboutOf(e) = e.todo /\ WorkFits(e) /\ ~AtWork(e)
  BY <1>1 DEF AboutOf, WorkFits, AtWork
<1>4. MonTypeOK' /\ StacksFit' /\ \A q \in MonRequest : WorkFits(mreq[q])'
  <2>1. asked' \in 0..MonOps
    BY <1>2, MonAssumption DEF MonInv, MonTypeOK
  <2> QED BY <1>2, <1>3, <2>1, MovesOne DEF MonInv, MonTypeOK, StacksFit
<1>5. mreq[w].cluster = "none" /\ About(w) = {}
  BY <1>2, NoWorkTyped DEF MonInv, WorkFits, About
<1>6. ASSUME NEW c \in alone' PROVE Sole(c)' /\ OwnHosts(c)' /\ Progressing(c)' /\ MonSettled(c)'
  <2>1. c \in alone /\ c \in Monitored /\ c # "none" /\ \A q \in MonRequest \ {w} : c \notin About(q)
    BY <1>2, NotNone DEF MonInv, MonTypeOK
  <2>2. Sole(c)'
    BY <1>2, <2>1, SoleKept
  <2>3. OwnHosts(c)'
    BY <1>2, <1>3, <2>1, OwnKept DEF Tied
  <2>4. AtRest(c)' => ~monconf[c].deployed
    BY <1>1, <1>2, <1>3, <2>1, MovesOne DEF AtRest
  <2> QED BY <1>1, <1>2, <1>5, <2>1, <2>2, <2>3, <2>4, Elsewhere
<1> QED BY <1>4, <1>6 DEF MonInv

\* The loop is done with a cluster it did not find deployed, and goes on to another or ends.
LEMMA NextReloadKeeps ==
  ASSUME MonInv, NEW w \in MonRequest, NextReload(w)
  PROVE  MonInv'
<1>1. /\ mreq[w].at = "loop" /\ UNCHANGED <<rules, channels, monconf, mon, behind, alone, asked>>
      /\ mreq[w] \in MonWork /\ mreq[w].op = "edit"
  BY DEF NextReload, MonInv, MonTypeOK, WorkFits, AtWork, MonWork
<1>2. PICK e \in MonWork :
        /\ mreq' = [mreq EXCEPT ![w] = e]
        /\ \/ e = NoWork /\ mreq[w].todo = {}
           \/ /\ e.cluster \in mreq[w].todo /\ e.todo = mreq[w].todo \ {e.cluster} /\ e.op = "edit"
              /\ e.host = monconf[e.cluster].host
              /\ e.at = IF monconf[e.cluster].deployed THEN "read" ELSE "loop"
  <2>1. CASE mreq[w].todo = {} /\ Ends(w)
    BY <2>1, NoWorkTyped DEF Ends
  <2>2. ASSUME NEW d \in mreq[w].todo,
               mreq' = [mreq EXCEPT ![w] = [@ EXCEPT
                          !.todo = mreq[w].todo \ {d}, !.cluster = d, !.host = monconf[d].host,
                          !.at = IF monconf[d].deployed THEN "read" ELSE "loop"]]
        PROVE  \E e \in MonWork :
                  /\ mreq' = [mreq EXCEPT ![w] = e]
                  /\ e.cluster \in mreq[w].todo /\ e.todo = mreq[w].todo \ {e.cluster} /\ e.op = "edit"
                  /\ e.host = monconf[e.cluster].host
                  /\ e.at = IF monconf[e.cluster].deployed THEN "read" ELSE "loop"
    <3> DEFINE e == [mreq[w] EXCEPT !.todo = mreq[w].todo \ {d}, !.cluster = d, !.host = monconf[d].host,
                                    !.at = IF monconf[d].deployed THEN "read" ELSE "loop"]
    <3>1. d \in Monitored /\ monconf[d].host \in MonHost
      BY <1>1 DEF MonWork, MonInv, MonTypeOK, MonConf
    <3>2. /\ e \in MonWork /\ e.cluster = d /\ e.todo = mreq[w].todo \ {d} /\ e.op = mreq[w].op
          /\ e.host = monconf[d].host /\ e.at = IF monconf[d].deployed THEN "read" ELSE "loop"
      BY <1>1, <3>1 DEF MonWork
    <3> QED BY <1>1, <2>2, <3>2
  <2> QED BY <2>1, <2>2 DEF NextReload
<1>3. WorkFits(e) /\ (AtWork(e) => Tied(e.host, e.cluster))
  <2>1. mreq[w].todo \subseteq Monitored
    BY <1>1 DEF MonWork
  <2> QED BY <1>2, <2>1, NoWorkTyped DEF WorkFits, AtWork, Tied, MonInv, StacksFit
<1>4. MonTypeOK' /\ StacksFit' /\ \A q \in MonRequest : WorkFits(mreq[q])'
  BY <1>1, <1>2, <1>3, MovesOne DEF MonInv, MonTypeOK, StacksFit, Moves
<1>5. AboutOf(e) \subseteq About(w) /\ (mreq[w].todo \ {"none"} \subseteq AboutOf(e))
  BY <1>1, <1>2, NoWorkTyped DEF AboutOf, About
<1>6. ASSUME NEW c \in alone' PROVE Sole(c)' /\ OwnHosts(c)' /\ Progressing(c)' /\ MonSettled(c)'
  <2>1. c \in alone /\ c \in Monitored /\ c # "none" /\ Moves(w, e)
    BY <1>1, <1>2, NotNone DEF MonInv, MonTypeOK, Moves
  <2>2. Sole(c)'
    BY <1>5, <2>1, SoleKept
  <2>3. OwnHosts(c)'
    BY <1>1, <1>3, <2>1, OwnKept DEF Tied
  <2>4. CASE c = mreq[w].cluster \/ c = e.cluster
    <3>1. c \in About(w)
      BY <1>1, <1>2, <2>1, <2>4, NoWorkTyped DEF About
    <3>2. \A q \in MonRequest \ {w} : c \notin About(q)
      BY <2>1, <3>1, AloneAtWork
    <3>3. e.op = "edit"
      BY <1>2, NoWorkTyped
    <3>4. e.cluster = c => Progress(e)'
      BY <1>1, <1>2, <2>1, NoWorkTyped DEF Progress, Unfailed
    <3>5. AtRest(c)' => ~monconf[c].deployed
      <4>1. ASSUME c \notin AboutOf(e) PROVE ~monconf[c].deployed
        <5>1. c # e.cluster /\ c \notin mreq[w].todo /\ c = mreq[w].cluster
          BY <1>2, <1>5, <2>1, <2>4, <4>1, NoWorkTyped DEF AboutOf
        <5>2. Progress(mreq[w])
          BY <2>1, <5>1 DEF MonInv, Progressing
        <5> QED BY <1>1, <5>1, <5>2 DEF Progress
      <4> QED BY <2>1, <3>2, <4>1, OneAtWork
    <3>6. (\A q \in MonRequest : ~Redeploys(mreq[q], c)) /\ Progressing(c)'
      BY <1>1, <2>1, <3>2, <3>3, <3>4, OneAtWork DEF Redeploys
    <3>7. MonSettled(c)
      BY <2>1 DEF MonInv
    <3> QED BY <1>1, <2>2, <2>3, <3>5, <3>6, <3>7 DEF MonSettled, ServedOn
  <2>5. CASE c # mreq[w].cluster /\ c # e.cluster
    <3>1. c \in AboutOf(e) <=> c \in About(w)
      BY <1>1, <1>5, <2>1, <2>5 DEF About
    <3>2. AtRest(c)' <=> AtRest(c)
      BY <2>1, <3>1, MovesOne DEF AtRest
    <3> QED BY <1>1, <2>1, <2>2, <2>3, <2>5, <3>2, Elsewhere
  <2> QED BY <2>4, <2>5
<1> QED BY <1>4, <1>6 DEF MonInv

-----------------------------------------------------------------------------
(* The steps that change a host or a row.                                  *)

\* The cluster a request works on, if it is alone.
LEMMA OwnWork ==
  ASSUME MonInv, NEW w \in MonRequest, AtWork(mreq[w])
  PROVE  /\ mreq[w] \in MonWork /\ WorkFits(mreq[w]) /\ mreq[w].cluster \in Monitored /\ mreq[w].cluster # "none"
         /\ mreq[w].host \in MonHost /\ Tied(mreq[w].host, mreq[w].cluster) /\ mreq[w].cluster \in About(w)
         /\ mreq[w].cluster \in alone =>
              /\ Progress(mreq[w]) /\ MonSettled(mreq[w].cluster)
              /\ \A q \in MonRequest \ {w} : mreq[w].cluster \notin About(q)
<1>1. mreq[w] \in MonWork /\ WorkFits(mreq[w])
  BY DEF MonInv, MonTypeOK
<1>2. mreq[w].cluster \in Monitored /\ mreq[w].cluster # "none" /\ mreq[w].host \in MonHost
  BY <1>1, NotNone DEF WorkFits, MonWork
<1>3. Tied(mreq[w].host, mreq[w].cluster) /\ mreq[w].cluster \in About(w)
  BY <1>2 DEF Tied, About, AtWork
<1> QED BY <1>1, <1>2, <1>3, AloneAtWork DEF MonInv, Progressing

LEMMA SettledAfter ==
  ASSUME MonInv, NEW w \in MonRequest, NEW e, Moves(w, e), NEW c \in alone,
         \A q \in MonRequest \ {w} : c \notin About(q),
         monconf'[c].deployed =>
           /\ ~Redeploys(e, c) => ServedOn(monconf[c].host, c, monconf[c].port)'
           /\ c \notin AboutOf(e) => ForceOn(monconf[c].host, c, monconf[c].port)'
  PROVE  MonSettled(c)'
<1>1. (AtRest(c)' <=> c \notin AboutOf(e)) /\ ((\A q \in MonRequest : ~Redeploys(mreq[q], c))' <=> ~Redeploys(e, c))
  BY OneAtWork
<1> QED BY <1>1 DEF MonSettled

LEMMA WorkKeeps ==
  ASSUME MonInv, NEW w \in MonRequest, NEW e, Moves(w, e), AtWork(mreq[w]), WorkFits(e),
         NEW c0, c0 = mreq[w].cluster, NEW h0, h0 = mreq[w].host,
         AtWork(e) => e.cluster = c0 /\ e.host = h0,
         e.cluster \in {c0, "none"},
         AboutOf(e) \subseteq About(w),
         channels' = channels, alone' \subseteq alone, asked' = asked,
         rules' \in [Monitored -> [AlertRule -> Row]], monconf' \in [Monitored -> MonConf],
         mon' \in [MonHost -> Stack], behind' \subseteq Monitored, StacksFit',
         \A d \in Monitored \ {c0} : /\ monconf'[d] = monconf[d] /\ rules'[d] = rules[d]
                                     /\ d \in behind => d \in behind',
         monconf'[c0].row => Tied(monconf'[c0].host, c0),
         \A h \in MonHost \ {h0} : mon'[h] = mon[h],
         mon'[h0].scrapes \in {mon[h0].scrapes, c0}, mon'[h0].file.of \in {mon[h0].file.of, c0},
         \A d \in alone' \ {c0} : d \in About(w) => d \in AboutOf(e) \/ d \in behind',
         c0 \in alone' => (e.cluster = c0 => Progress(e)') /\ MonSettled(c0)'
  PROVE  MonInv'
<1>1. MonTypeOK' /\ \A q \in MonRequest : WorkFits(mreq[q])'
  BY MovesOne DEF MonInv, MonTypeOK
<1>2. c0 \in Monitored /\ c0 # "none" /\ Tied(h0, c0) /\ h0 \in MonHost
  BY OwnWork
<1>3. \A d \in Monitored : monconf'[d].row => Tied(monconf'[d].host, d)
  BY <1>2 DEF Tied
<1>4. \A d \in Monitored, h \in MonHost : mon'[h].scrapes = d \/ mon'[h].file.of = d => Tied(h, d)
  <2> SUFFICES ASSUME NEW d \in Monitored, NEW h \in MonHost, mon'[h].scrapes = d \/ mon'[h].file.of = d
               PROVE  Tied(h, d)
    OBVIOUS
  <2>1. CASE h = h0
    BY <1>2, <2>1 DEF Tied
  <2>2. CASE h # h0
    BY <2>2 DEF Tied
  <2> QED BY <2>1, <2>2
<1>5. ASSUME NEW c \in alone' PROVE Sole(c)' /\ OwnHosts(c)' /\ Progressing(c)' /\ MonSettled(c)'
  <2>1. c \in alone /\ c \in Monitored /\ c # "none"
    BY NotNone DEF MonInv, MonTypeOK
  <2>2. Sole(c)'
    BY <2>1, SoleKept
  <2>3. OwnHosts(c)'
    BY <1>2, <1>3, <1>4, <2>1, OwnKept
  <2>4. CASE c = c0
    <3>1. \A q \in MonRequest \ {w} : c \notin About(q)
      BY <2>1, <2>4, OwnWork
    <3>2. Progressing(c)'
      BY <2>1, <2>4, <3>1, OneAtWork
    <3> QED BY <2>2, <2>3, <2>4, <3>2
  <2>5. CASE c # c0
    <3>1. \A h \in MonHost : Tied(h, c) => mon'[h] = mon[h]
      BY <1>2, <2>1, <2>5 DEF MonInv, OwnHosts
    <3>2. AtRest(c)' => c \in behind' \/ AtRest(c)
      <4>1. About(w)' = AboutOf(e) /\ \A q \in MonRequest \ {w} : About(q)' = About(q)
        BY MovesOne
      <4> QED BY <2>5, <4>1 DEF AtRest
    <3> QED BY <2>1, <2>2, <2>3, <2>5, <3>1, <3>2, Elsewhere
  <2> QED BY <2>4, <2>5
<1> QED BY <1>1, <1>5 DEF MonInv

LEMMA PushShape ==
  ASSUME MonInv, NEW w \in MonRequest, Push(w)
  PROVE  /\ behind' \in {behind, behind \cup {mreq[w].cluster}, behind \ {mreq[w].cluster}}
         /\ \E s \in Stack :
              /\ mon' = [mon EXCEPT ![mreq[w].host] = s]
              /\ s.up = mon[mreq[w].host].up /\ s.port = mon[mreq[w].host].port
              /\ s.scrapes = mon[mreq[w].host].scrapes
              /\ s.file.of \in {mon[mreq[w].host].file.of, mreq[w].cluster}
              /\ \/ mreq[w].cluster \in behind'
                 \/ ~(s.up /\ s.port = "default")
                 \/ s.loaded.of = mreq[w].cluster /\ s.loaded.text = mreq[w].text /\ s.receivers = mreq[w].routes
         /\ \E pushed \in BOOLEAN : AfterPush(w, pushed)
<1> DEFINE h == mreq[w].host
           c == mreq[w].cluster
           new == [of |-> c, text |-> mreq[w].text]
           hears == mon[h].up /\ mon[h].port = "default" /\ Starts(new)
           written == [mon[h] EXCEPT !.file = new, !.receivers = mreq[w].routes]
           heard == [written EXCEPT !.loaded = IF hears THEN new ELSE @]
<1>1. mreq[w].at = "push" /\ AtWork(mreq[w])
  BY DEF Push, AtWork
<1>2. mreq[w] \in MonWork /\ c \in Monitored /\ h \in MonHost /\ mon[h] \in Stack
  BY <1>1, OwnWork DEF MonInv, MonTypeOK
<1>3. new \in RulesFile /\ new.of = c /\ new.text = mreq[w].text
  BY <1>2 DEF RulesFile, MonWork
<1>4. Starts(new) \in BOOLEAN
  BY DEF Starts
<1>5. /\ written \in Stack /\ written.up = mon[h].up /\ written.port = mon[h].port /\ written.scrapes = mon[h].scrapes
      /\ written.file = new /\ written.receivers = mreq[w].routes /\ written.loaded = mon[h].loaded
  <2>1. mreq[w].routes \in SUBSET Channel
    BY <1>2 DEF MonWork
  <2> HIDE DEF new, c, h
  <2> QED BY <1>2, <1>3, <2>1 DEF Stack
<1>6. /\ heard \in Stack /\ heard.up = mon[h].up /\ heard.port = mon[h].port /\ heard.scrapes = mon[h].scrapes
      /\ heard.file = new /\ heard.receivers = mreq[w].routes /\ heard.loaded = IF hears THEN new ELSE written.loaded
  <2> HIDE DEF new, c, h, hears, written
  <2> QED BY <1>3, <1>5 DEF Stack
<1>7. CASE /\ mon' = [mon EXCEPT ![h] = heard]
           /\ behind' = IF Starts(new) THEN behind \ {c} ELSE behind \cup {c}
           /\ AfterPush(w, Starts(new))
  <2>1. c \in behind' \/ Starts(new)
    BY <1>7
  <2> HIDE DEF heard, written
  <2> QED BY <1>3, <1>4, <1>6, <1>7, <2>1
<1>8. CASE /\ mon' = [mon EXCEPT ![h] = written] /\ behind' = behind \cup {c}
           /\ \E valid \in BOOLEAN : AfterPush(w, valid /\ Starts(new))
  <2>1. \E pushed \in BOOLEAN : AfterPush(w, pushed)
    <3>1. PICK valid \in BOOLEAN : AfterPush(w, valid /\ Starts(new))
      BY <1>8
    <3>2. (valid /\ Starts(new)) \in BOOLEAN
      OBVIOUS
    <3> HIDE DEF new
    <3> QED BY ONLY <3>1, <3>2
  <2> HIDE DEF heard, written
  <2> QED BY <1>3, <1>5, <1>8, <2>1
<1>9. CASE UNCHANGED mon /\ behind' = behind \cup {c} /\ AfterPush(w, FALSE)
  <2>1. mon' = [mon EXCEPT ![h] = mon[h]]
    BY <1>9 DEF MonInv, MonTypeOK
  <2> HIDE DEF heard, written
  <2> QED BY <1>2, <1>9, <2>1
<1>10. \/ /\ mon' = [mon EXCEPT ![h] = heard]
          /\ behind' = IF Starts(new) THEN behind \ {c} ELSE behind \cup {c}
          /\ AfterPush(w, Starts(new))
       \/ /\ mon' = [mon EXCEPT ![h] = written] /\ behind' = behind \cup {c}
          /\ \E valid \in BOOLEAN : AfterPush(w, valid /\ Starts(new))
       \/ UNCHANGED mon /\ behind' = behind \cup {c} /\ AfterPush(w, FALSE)
  BY DEF Push
<1> HIDE DEF h, c, new, hears, written, heard
<1> QED BY <1>7, <1>8, <1>9, <1>10

LEMMA AfterPushShape ==
  ASSUME MonInv, NEW w \in MonRequest, AtWork(mreq[w]), NEW pushed \in BOOLEAN, AfterPush(w, pushed)
  PROVE  \E e \in MonWork :
           /\ mreq' = [mreq EXCEPT ![w] = e]
           /\ mreq[w].op = "edit" => e.at = "loop" /\ e.todo = mreq[w].todo /\ e.cluster = "none" /\ e.op = "edit"
           /\ mreq[w].op = "seed" => e = NoWork
           /\ mreq[w].op = "deploy" => e.at = "recheck" /\ SameWork(e, mreq[w])
<1>1. mreq[w] \in MonWork /\ mreq[w].op \in {"edit", "seed", "deploy"}
  BY OwnWork DEF MonWork
<1>2. CASE mreq[w].op = "edit"
  <2> DEFINE e == [NoWork EXCEPT !.at = "loop", !.todo = mreq[w].todo]
  <2>1. e \in MonWork /\ e.at = "loop" /\ e.todo = mreq[w].todo /\ e.cluster = "none" /\ e.op = "edit"
    BY <1>1, NoWorkTyped DEF MonWork
  <2>2. mreq' = [mreq EXCEPT ![w] = e]
    BY <1>2 DEF AfterPush
  <2> HIDE DEF e
  <2> QED BY <1>2, <2>1, <2>2
<1>3. CASE mreq[w].op = "seed"
  BY <1>3, NoWorkTyped DEF AfterPush, Ends
<1>4. CASE mreq[w].op = "deploy"
  <2> DEFINE e == [mreq[w] EXCEPT !.at = "recheck", !.failed = ~pushed, !.text = {}, !.routes = {}]
  <2>1. e \in MonWork /\ e.at = "recheck" /\ SameWork(e, mreq[w])
    BY <1>1 DEF MonWork, SameWork, Text
  <2>2. mreq' = [mreq EXCEPT ![w] = e]
    BY <1>4 DEF AfterPush
  <2> HIDE DEF e
  <2> QED BY <1>4, <2>1, <2>2
<1> QED BY <1>1, <1>2, <1>3, <1>4

LEMMA PushKeeps ==
  ASSUME MonInv, NEW w \in MonRequest, Push(w)
  PROVE  MonInv'
<1>1. /\ UNCHANGED <<rules, channels, monconf, alone, asked>> /\ mreq[w].at = "push" /\ AtWork(mreq[w])
  BY DEF Push, AtWork
<1>2. PICK c : c = mreq[w].cluster
  OBVIOUS
<1>3. PICK h : h = mreq[w].host
  OBVIOUS
<1>4. /\ mreq[w] \in MonWork /\ WorkFits(mreq[w]) /\ c \in Monitored /\ c # "none" /\ h \in MonHost /\ Tied(h, c)
      /\ c \in alone => Progress(mreq[w]) /\ MonSettled(c) /\ \A q \in MonRequest \ {w} : c \notin About(q)
      /\ c \in About(w)
  BY <1>1, <1>2, <1>3, OwnWork
<1>5. PICK s \in Stack : /\ mon' = [mon EXCEPT ![h] = s]
                         /\ s.up = mon[h].up /\ s.port = mon[h].port /\ s.scrapes = mon[h].scrapes
                         /\ s.file.of \in {mon[h].file.of, c}
                         /\ \/ c \in behind'
                            \/ ~(s.up /\ s.port = "default")
                            \/ s.loaded.of = c /\ s.loaded.text = mreq[w].text /\ s.receivers = mreq[w].routes
  BY <1>2, <1>3, PushShape
<1>6. behind' \in {behind, behind \cup {c}, behind \ {c}}
  BY <1>2, PushShape
<1>7. PICK e \in MonWork :
        /\ mreq' = [mreq EXCEPT ![w] = e]
        /\ mreq[w].op = "edit" => e.at = "loop" /\ e.todo = mreq[w].todo /\ e.cluster = "none" /\ e.op = "edit"
        /\ mreq[w].op = "seed" => e = NoWork
        /\ mreq[w].op = "deploy" => e.at = "recheck" /\ SameWork(e, mreq[w])
  BY <1>1, PushShape, AfterPushShape
<1>8. /\ Moves(w, e) /\ WorkFits(e) /\ (AtWork(e) => e.cluster = c /\ e.host = h) /\ e.cluster \in {c, "none"}
      /\ AboutOf(e) \subseteq About(w) /\ mreq[w].todo \ {"none"} \subseteq AboutOf(e) \cup {c}
      /\ mreq[w].op = "deploy" => c \in AboutOf(e)
  BY <1>1, <1>2, <1>3, <1>4, <1>7, NoWorkTyped DEF MonWork, Moves, WorkFits, AtWork, AboutOf, About, SameWork
<1>9. /\ mon' \in [MonHost -> Stack] /\ mon'[h] = s /\ \A g \in MonHost \ {h} : mon'[g] = mon[g]
  BY <1>4, <1>5 DEF MonInv, MonTypeOK
<1>10. \A d \in Monitored \ {c} : d \in About(w) => d \in AboutOf(e)
  BY <1>1, <1>2, <1>8, NotNone DEF About
<1>11. ASSUME c \in alone PROVE (e.cluster = c => Progress(e)') /\ MonSettled(c)'
  <2>1. /\ mreq[w].text = RenderedRules(c) /\ mreq[w].routes = channels
        /\ RenderedRules(c)' = RenderedRules(c)
    BY <1>1, <1>2, <1>4, <1>11 DEF Progress, RenderedRules, Enabled
  <2>2. ASSUME NEW p, ServedOn(h, c, p) PROVE ServedOn(h, c, p)' /\ ForceOn(h, c, p)'
    BY <1>1, <1>3, <1>5, <1>9, <2>1, <2>2 DEF ServedOn, ForceOn
  <2>3. CASE mreq[w].op = "deploy"
    <3>1. ServedOn(h, c, mreq[w].port) /\ e.port = mreq[w].port /\ e.cluster = c /\ e.host = h /\ e.op = "deploy"
      BY <1>1, <1>2, <1>3, <1>4, <1>7, <1>11, <2>3 DEF Progress, Unfailed, SameWork
    <3>2. ServedOn(h, c, e.port)' /\ ForceOn(h, c, e.port)'
      BY <2>2, <3>1
    <3>3. Progress(e)'
      BY <1>7, <2>3, <3>1, <3>2 DEF Progress, Unfailed, ServedOn, ForceOn
    <3>4. MonSettled(c)'
      <4>1. Redeploys(e, c) /\ c \in AboutOf(e)
        BY <1>7, <1>8, <2>3, <3>1 DEF Redeploys
      <4> QED BY <1>4, <1>8, <1>11, <4>1, SettledAfter
    <3> QED BY <3>3, <3>4
  <2>4. CASE mreq[w].op # "deploy"
    <3>1. monconf[c].deployed /\ monconf[c].host = h
      BY <1>1, <1>2, <1>3, <1>4, <1>11, <2>4 DEF Progress
    <3>2. \A q \in MonRequest : ~Redeploys(mreq[q], c)
      BY <1>4, <1>8, <1>11, <2>4, OneAtWork DEF Redeploys
    <3>3. PICK p : p = monconf[c].port
      OBVIOUS
    <3>4. ServedOn(h, c, p)
      BY <1>4, <1>11, <3>1, <3>2, <3>3 DEF MonSettled
    <3>5. ServedOn(h, c, p)' /\ ForceOn(h, c, p)'
      BY <2>2, <3>4
    <3>6. MonSettled(c)'
      BY <1>1, <1>4, <1>8, <1>11, <3>1, <3>3, <3>5, SettledAfter
    <3>7. e.cluster # c
      BY <1>4, <1>7, <2>4, NoWorkTyped DEF MonWork
    <3> QED BY <3>6, <3>7
  <2> QED BY <2>3, <2>4
<1>12. StacksFit' /\ behind' \subseteq Monitored /\ rules' \in [Monitored -> [AlertRule -> Row]]
       /\ monconf' \in [Monitored -> MonConf] /\ (monconf'[c].row => Tied(monconf'[c].host, c))
  BY <1>1, <1>4, <1>6 DEF MonInv, MonTypeOK, StacksFit, Tied
<1>13. \A d \in Monitored \ {c} : monconf'[d] = monconf[d] /\ rules'[d] = rules[d] /\ (d \in behind => d \in behind')
  BY <1>1, <1>6
<1>14. mon'[h].scrapes \in {mon[h].scrapes, c} /\ mon'[h].file.of \in {mon[h].file.of, c}
  BY <1>5, <1>9
<1>15. alone \subseteq Monitored
  BY DEF MonInv, MonTypeOK
<1> QED BY <1>1, <1>2, <1>3, <1>8, <1>9, <1>10, <1>11, <1>12, <1>13, <1>14, <1>15, WorkKeeps

LEMMA PrometheusKeeps ==
  ASSUME MonInv, NEW w \in MonRequest, DeployPrometheus(w)
  PROVE  MonInv'
<1>1. /\ UNCHANGED <<rules, channels, monconf, behind, alone, asked>> /\ mreq[w].at = "prometheus" /\ AtWork(mreq[w])
  BY DEF DeployPrometheus, AtWork
<1>2. PICK c : c = mreq[w].cluster
  OBVIOUS
<1>3. PICK h : h = mreq[w].host
  OBVIOUS
<1>4. /\ mreq[w] \in MonWork /\ WorkFits(mreq[w]) /\ c \in Monitored /\ c # "none" /\ h \in MonHost /\ mon[h] \in Stack
      /\ c \in alone => Progress(mreq[w]) /\ MonSettled(c) /\ \A q \in MonRequest \ {w} : c \notin About(q)
      /\ c \in About(w) /\ mreq[w].op = "deploy" /\ mreq[w].todo = {}
  BY <1>1, <1>2, <1>3, OwnWork DEF WorkFits, MonInv, MonTypeOK, MonWork
<1>5. PICK e \in MonWork : /\ mreq' = [mreq EXCEPT ![w] = e] /\ e.at = "grafana" /\ SameWork(e, mreq[w])
                           /\ Goes(w, "grafana") \/ e.failed
  <2>1. Goes(w, "grafana") \/ Fails(w, "grafana")
    BY DEF DeployPrometheus
  <2>2. "grafana" \in Stages
    BY DEF Stages
  <2>3. CASE Goes(w, "grafana")
    BY <2>2, <2>3, GoesShape
  <2>4. CASE Fails(w, "grafana")
    BY <2>2, <2>4, FailsShape
  <2> QED BY <2>1, <2>3, <2>4
<1>6. PICK s \in Stack :
        /\ mon' = [mon EXCEPT ![h] = s] /\ s.scrapes \in {mon[h].scrapes, c} /\ s.file = mon[h].file
        /\ e.failed \/ (s.up /\ s.port = mreq[w].port /\ s.scrapes = c)
  <2> DEFINE pointed == [mon[h] EXCEPT !.port = mreq[w].port, !.scrapes = c]
             up == [pointed EXCEPT !.up = TRUE, !.loaded = mon[h].file]
             down == [pointed EXCEPT !.up = FALSE]
  <2>1. /\ pointed \in Stack /\ pointed.port = mreq[w].port /\ pointed.scrapes = c /\ pointed.file = mon[h].file
    BY <1>4 DEF Stack, MonWork
  <2>2. Pointed(w) = pointed
    BY <1>2, <1>3 DEF Pointed
  <2>3. mon[h].file \in RulesFile
    BY <1>4 DEF Stack
  <2> HIDE DEF pointed
  <2>4. up \in Stack /\ up.up = TRUE /\ up.port = mreq[w].port /\ up.scrapes = c /\ up.file = mon[h].file
    BY <2>1, <2>3 DEF Stack
  <2>5. down \in Stack /\ down.port = mreq[w].port /\ down.scrapes = c /\ down.file = mon[h].file
    BY <2>1 DEF Stack
  <2>6. Fails(w, "grafana") => e.failed
    <3>1. ASSUME Fails(w, "grafana") PROVE e.failed
      <4>1. PICK x \in MonWork : mreq' = [mreq EXCEPT ![w] = x] /\ x.failed
        BY <3>1, FailsShape DEF Stages
      <4> QED BY <1>5, <4>1 DEF MonInv, MonTypeOK
    <3> QED BY <3>1
  <2>7. \/ mon' = [mon EXCEPT ![h] = up]
        \/ mon' = [mon EXCEPT ![h] = down] /\ Fails(w, "grafana")
        \/ UNCHANGED mon /\ Fails(w, "grafana")
    BY <1>3, <2>2 DEF DeployPrometheus
  <2>8. UNCHANGED mon => mon' = [mon EXCEPT ![h] = mon[h]]
    BY DEF MonInv, MonTypeOK
  <2> HIDE DEF up, down
  <2> QED BY <1>4, <2>4, <2>5, <2>6, <2>7, <2>8
<1>7. /\ Moves(w, e) /\ WorkFits(e) /\ e.cluster = c /\ e.host = h /\ e.op = "deploy" /\ e.port = mreq[w].port
      /\ AboutOf(e) = About(w)
  BY <1>1, <1>2, <1>3, <1>4, <1>5 DEF Moves, WorkFits, AtWork, AboutOf, About, SameWork
<1>8. mon' \in [MonHost -> Stack] /\ mon'[h] = s /\ \A g \in MonHost \ {h} : mon'[g] = mon[g]
  BY <1>4, <1>6 DEF MonInv, MonTypeOK
<1>9. ASSUME c \in alone PROVE Progress(e)' /\ MonSettled(c)'
  <2>1. e.failed \in BOOLEAN
    BY DEF MonWork
  <2>2. Progress(e)'
    BY <1>5, <1>6, <1>7, <1>8, <2>1 DEF Progress, Unfailed, ServedOn
  <2>3. Redeploys(e, c) /\ c \in AboutOf(e)
    BY <1>4, <1>5, <1>7 DEF Redeploys
  <2> QED BY <1>4, <1>7, <1>9, <2>2, <2>3, SettledAfter
<1>10. StacksFit' /\ behind' \subseteq Monitored /\ rules' \in [Monitored -> [AlertRule -> Row]]
       /\ monconf' \in [Monitored -> MonConf] /\ (monconf'[c].row => Tied(monconf'[c].host, c))
  BY <1>1, <1>4 DEF MonInv, MonTypeOK, StacksFit, Tied
<1>11. mon'[h].scrapes \in {mon[h].scrapes, c} /\ mon'[h].file.of \in {mon[h].file.of, c}
  BY <1>6, <1>8
<1> QED BY <1>1, <1>2, <1>3, <1>7, <1>8, <1>9, <1>10, <1>11, WorkKeeps

\* A deploy that failed takes the flag away.
LEMMA FailIfNeededKeeps ==
  ASSUME MonInv, NEW w \in MonRequest, FailIfNeeded(w)
  PROVE  MonInv'
<1>1. /\ UNCHANGED <<rules, channels, mon, behind, alone, asked>> /\ mreq[w].at \in {"check", "recheck"}
      /\ AtWork(mreq[w])
  BY DEF FailIfNeeded, AtWork
<1>2. PICK c : c = mreq[w].cluster
  OBVIOUS
<1>3. /\ mreq[w] \in MonWork /\ WorkFits(mreq[w]) /\ c \in Monitored /\ c # "none" /\ mreq[w].host \in MonHost
      /\ c \in alone => \A q \in MonRequest \ {w} : c \notin About(q)
      /\ c \in About(w) /\ mreq[w].op = "deploy" /\ mreq[w].todo = {}
  BY <1>1, <1>2, OwnWork DEF WorkFits, MonWork
<1>4. CASE mreq[w].failed /\ monconf' = [monconf EXCEPT ![c].deployed = FALSE] /\ Ends(w)
  <2>1. Moves(w, NoWork) /\ WorkFits(NoWork) /\ ~AtWork(NoWork) /\ AboutOf(NoWork) = {} /\ NoWork.cluster = "none"
    BY <1>4, NoWorkTyped DEF Ends, Moves, WorkFits, AtWork, AboutOf
  <2>2. /\ monconf' \in [Monitored -> MonConf] /\ monconf'[c].deployed = FALSE
        /\ monconf'[c].row = monconf[c].row /\ monconf'[c].host = monconf[c].host
        /\ \A d \in Monitored \ {c} : monconf'[d] = monconf[d]
    BY <1>3, <1>4 DEF MonInv, MonTypeOK, MonConf
  <2>3. StacksFit' /\ (monconf'[c].row => Tied(monconf'[c].host, c))
    BY <1>3, <2>2 DEF MonInv, StacksFit, Tied
  <2>4. About(w) \subseteq {c}
    BY <1>2, <1>3 DEF About
  <2>5. c \in alone => MonSettled(c)'
    BY <1>3, <2>2 DEF MonSettled
  <2> QED BY <1>1, <1>2, <1>3, <2>1, <2>2, <2>3, <2>4, <2>5, WorkKeeps DEF MonInv, MonTypeOK
<1>5. ASSUME NEW at \in {"read", "dashboards"}, ~mreq[w].failed, Goes(w, at), UNCHANGED monconf,
             \/ mreq[w].at = "check" /\ at = "read"
             \/ mreq[w].at = "recheck" /\ at = "dashboards"
      PROVE  MonInv'
  <2>1. at \in Stages
    BY DEF Stages
  <2>2. PICK e \in MonWork : /\ mreq' = [mreq EXCEPT ![w] = e] /\ e.at = at /\ SameWork(e, mreq[w])
                             /\ e.failed = mreq[w].failed
    BY <1>5, <2>1, GoesShape
  <2> QED BY <1>1, <1>5, <2>2, StagesKeep
<1>6. CASE ~mreq[w].failed /\ UNCHANGED monconf /\ Goes(w, IF mreq[w].at = "check" THEN "read" ELSE "dashboards")
  <2>1. CASE mreq[w].at = "check"
    BY <1>5, <1>6, <2>1
  <2>2. CASE mreq[w].at = "recheck"
    BY <1>5, <1>6, <2>2
  <2> QED BY <1>1, <2>1, <2>2
<1> QED BY <1>2, <1>4, <1>6 DEF FailIfNeeded

LEMMA SaveConfigKeeps ==
  ASSUME MonInv, NEW w \in MonRequest, SaveConfig(w)
  PROVE  MonInv'
<1>1. /\ UNCHANGED <<rules, channels, mon, behind, alone, asked>> /\ mreq[w].at = "save" /\ AtWork(mreq[w])
      /\ Goes(w, "seed")
  BY DEF SaveConfig, AtWork
<1>2. PICK c : c = mreq[w].cluster
  OBVIOUS
<1>3. PICK h : h = mreq[w].host
  OBVIOUS
<1>4. PICK p : p = mreq[w].port
  OBVIOUS
<1>5. /\ mreq[w] \in MonWork /\ WorkFits(mreq[w]) /\ c \in Monitored /\ c # "none" /\ h \in MonHost /\ Tied(h, c)
      /\ c \in alone => Progress(mreq[w]) /\ \A q \in MonRequest \ {w} : c \notin About(q)
      /\ c \in About(w) /\ mreq[w].op = "deploy" /\ mreq[w].todo = {} /\ p \in PromPort
  BY <1>1, <1>2, <1>3, <1>4, OwnWork DEF WorkFits, MonWork
<1>6. PICK e \in MonWork : /\ mreq' = [mreq EXCEPT ![w] = e] /\ e.at = "seed" /\ SameWork(e, mreq[w])
                           /\ e.failed = mreq[w].failed
  BY <1>1, GoesShape DEF Stages
<1>7. PICK m : m = [row |-> TRUE, deployed |-> TRUE, host |-> h, port |-> p]
  OBVIOUS
<1>8. /\ m \in MonConf /\ monconf' = [monconf EXCEPT ![c] = m]
      /\ m.row = TRUE /\ m.deployed = TRUE /\ m.host = h /\ m.port = p
  BY <1>2, <1>3, <1>4, <1>5, <1>7 DEF SaveConfig, MonConf
<1>9. monconf' \in [Monitored -> MonConf] /\ monconf'[c] = m /\ \A d \in Monitored \ {c} : monconf'[d] = monconf[d]
  BY <1>5, <1>8 DEF MonInv, MonTypeOK
<1>10. StacksFit' /\ (monconf'[c].row => Tied(monconf'[c].host, c))
  BY <1>5, <1>8, <1>9 DEF MonInv, StacksFit
<1>11. /\ Moves(w, e) /\ WorkFits(e) /\ e.cluster = c /\ e.host = h /\ e.op = "deploy" /\ e.port = p
       /\ AboutOf(e) = About(w)
  BY <1>1, <1>2, <1>3, <1>4, <1>5, <1>6 DEF Moves, WorkFits, AtWork, AboutOf, About, SameWork
<1>12. ASSUME c \in alone PROVE Progress(e)' /\ MonSettled(c)'
  <2>1. ServedOn(h, c, p) /\ ForceOn(h, c, p)
    BY <1>1, <1>2, <1>3, <1>4, <1>5, <1>12 DEF Progress, Unfailed
  <2>2. ServedOn(h, c, p)' /\ ForceOn(h, c, p)'
    BY <1>1, <2>1 DEF ServedOn, ForceOn, RenderedRules, Enabled
  <2>3. Progress(e)'
    BY <1>6, <1>8, <1>9, <1>11, <2>2 DEF Progress, Unfailed, ServedOn, ForceOn
  <2>4. MonSettled(c)'
    BY <1>5, <1>8, <1>9, <1>11, <1>12, <2>2, SettledAfter DEF ServedOn, ForceOn
  <2> QED BY <2>3, <2>4
<1> QED BY <1>1, <1>2, <1>3, <1>9, <1>10, <1>11, <1>12, WorkKeeps DEF MonInv, MonTypeOK

LEMMA SeedRulesKeeps ==
  ASSUME MonInv, NEW w \in MonRequest, SeedRules(w)
  PROVE  MonInv'
<1>1. /\ UNCHANGED <<channels, monconf, mon, behind, alone, asked>> /\ mreq[w].at = "seed" /\ AtWork(mreq[w])
  BY DEF SeedRules, AtWork
<1>2. PICK c : c = mreq[w].cluster
  OBVIOUS
<1>3. PICK h : h = mreq[w].host
  OBVIOUS
<1>4. /\ mreq[w] \in MonWork /\ WorkFits(mreq[w]) /\ c \in Monitored /\ c # "none" /\ h \in MonHost /\ Tied(h, c)
      /\ c \in alone => Progress(mreq[w]) /\ MonSettled(c) /\ \A q \in MonRequest \ {w} : c \notin About(q)
      /\ c \in About(w) /\ mreq[w].op = "deploy" /\ mreq[w].todo = {}
  BY <1>1, <1>2, <1>3, OwnWork DEF WorkFits, MonWork
<1>5. /\ rules' = [rules EXCEPT ![c] = SeededRows(c)] /\ SeededRows(c) \in [AlertRule -> Row]
      /\ Missing(c) = {} => SeededRows(c) = rules[c]
  BY <1>2, <1>4 DEF SeedRules, SeededRows, Missing, MonInv, MonTypeOK, Row
<1>6. rules' \in [Monitored -> [AlertRule -> Row]] /\ \A d \in Monitored \ {c} : rules'[d] = rules[d]
  BY <1>5 DEF MonInv, MonTypeOK
<1>7. About(w) = {c} /\ StacksFit' /\ (monconf'[c].row => Tied(monconf'[c].host, c))
  BY <1>1, <1>2, <1>4 DEF About, MonInv, StacksFit, Tied
<1>8. ASSUME c \in alone
      PROVE  /\ monconf[c].deployed /\ monconf[c].host = h /\ ForceOn(h, c, monconf[c].port)
             /\ ServedOn(h, c, monconf[c].port)
  <2>1. monconf[c].deployed /\ monconf[c].host = h /\ ForceOn(h, c, monconf[c].port)
    BY <1>1, <1>2, <1>3, <1>4, <1>8 DEF Progress
  <2>2. \A q \in MonRequest : ~Redeploys(mreq[q], c)
    <3>1. \A q \in MonRequest \ {w} : mreq[q].cluster # c
      BY <1>4, <1>8, NoWorkTyped DEF About, MonInv, WorkFits
    <3> QED BY <1>1, <3>1 DEF Redeploys
  <2> QED BY <1>4, <1>8, <2>1, <2>2 DEF MonSettled
<1>9. CASE Missing(c) = {}
  <2>1. Moves(w, NoWork) /\ WorkFits(NoWork) /\ ~AtWork(NoWork) /\ AboutOf(NoWork) = {} /\ NoWork.cluster = "none"
    BY <1>2, <1>9, NoWorkTyped DEF SeedRules, Ends, Moves, WorkFits, AtWork, AboutOf
  <2>2. rules'[c] = rules[c]
    BY <1>4, <1>5, <1>9 DEF MonInv, MonTypeOK
  <2>3. c \in alone => MonSettled(c)'
    BY <1>1, <1>4, <1>8, <2>1, <2>2, SettledAfter DEF ServedOn, ForceOn, RenderedRules, Enabled
  <2> QED BY <1>1, <1>2, <1>3, <1>4, <1>6, <1>7, <2>1, <2>3, WorkKeeps DEF MonInv, MonTypeOK
<1>10. CASE Missing(c) # {}
  <2> DEFINE d == [mreq[w] EXCEPT !.at = "read", !.op = "seed"]
  <2>1. PICK e : e = d
    OBVIOUS
  <2>2. e \in MonWork /\ e.at = "read" /\ e.op = "seed" /\ e.cluster = c /\ e.host = h /\ e.todo = {}
    BY <1>2, <1>3, <1>4, <2>1 DEF MonWork
  <2>3. Moves(w, e)
    BY <1>2, <1>10, <2>1, <2>2 DEF SeedRules, Moves
  <2>4. WorkFits(e) /\ AboutOf(e) = {c}
    BY <1>4, <2>2 DEF WorkFits, AtWork, AboutOf
  <2>5. ASSUME c \in alone PROVE Progress(e)' /\ MonSettled(c)'
    <3>1. Progress(e)'
      BY <1>1, <1>8, <2>2, <2>5 DEF Progress, Unfailed
    <3>2. MonSettled(c)'
      BY <1>1, <1>4, <1>8, <2>3, <2>4, <2>5, SettledAfter DEF ServedOn
    <3> QED BY <3>1, <3>2
  <2> QED BY <1>1, <1>2, <1>3, <1>4, <1>6, <1>7, <2>2, <2>3, <2>4, <2>5, WorkKeeps DEF MonInv, MonTypeOK
<1> QED BY <1>9, <1>10

\* What is lost of an edit leaves its clusters behind, a lost deploy is not told of.
LEMMA WorkerDiesKeeps ==
  ASSUME MonInv, NEW w \in MonRequest, WorkerDies(w)
  PROVE  MonInv'
<1>1. /\ UNCHANGED <<rules, channels, monconf, mon, asked>> /\ mreq[w].at # "idle"
      /\ mreq[w] \in MonWork /\ WorkFits(mreq[w])
      /\ mreq[w].op = "deploy" => alone' = alone \ About(w) /\ behind' = behind
      /\ mreq[w].op # "deploy" => alone' = alone /\ behind' = behind \cup About(w)
  BY DEF WorkerDies, MonInv, MonTypeOK
<1>2. Moves(w, NoWork) /\ WorkFits(NoWork) /\ ~AtWork(NoWork) /\ AboutOf(NoWork) = {} /\ NoWork.cluster = "none"
      /\ NoWork.op = "edit"
  BY NoWorkTyped DEF WorkerDies, Ends, Moves, WorkFits, AtWork, AboutOf
<1>3. About(w) \subseteq Monitored
  BY <1>1 DEF MonWork, About
<1>4. MonTypeOK' /\ StacksFit' /\ \A q \in MonRequest : WorkFits(mreq[q])'
  BY <1>1, <1>2, <1>3, MovesOne DEF MonInv, MonTypeOK, StacksFit
<1>5. ASSUME NEW c \in alone' PROVE Sole(c)' /\ OwnHosts(c)' /\ Progressing(c)' /\ MonSettled(c)'
  <2>1. c \in alone /\ c \in Monitored /\ c # "none"
    BY <1>1, NotNone DEF MonInv, MonTypeOK
  <2>2. Sole(c)'
    BY <1>2, <2>1, SoleKept
  <2>3. OwnHosts(c)'
    BY <1>1, <1>2, <2>1, OwnKept DEF Tied
  <2>4. CASE c = mreq[w].cluster
    <3>1. c \in About(w) /\ mreq[w].op # "deploy" /\ c \in behind'
      BY <1>1, <1>5, <2>1, <2>4 DEF About
    <3>2. \A q \in MonRequest \ {w} : c \notin About(q)
      BY <2>1, <3>1, AloneAtWork
    <3>3. Progressing(c)'
      BY <1>2, <2>1, <3>2, OneAtWork
    <3>4. \A q \in MonRequest : ~Redeploys(mreq[q], c)
      BY <1>2, <2>1, <3>1, <3>2, OneAtWork DEF Redeploys
    <3>5. MonSettled(c)
      BY <2>1 DEF MonInv
    <3>6. MonSettled(c)'
      BY <1>1, <1>2, <2>1, <3>1, <3>2, <3>4, <3>5, SettledAfter DEF MonSettled, ServedOn, ForceOn
    <3> QED BY <2>2, <2>3, <3>3, <3>6
  <2>5. CASE c # mreq[w].cluster
    <3>1. AtRest(c)' => c \in behind' \/ AtRest(c)
      <4>1. \A q \in MonRequest \ {w} : About(q)' = About(q)
        BY <1>2, MovesOne
      <4> QED BY <1>1, <1>5, <4>1 DEF AtRest
    <3> QED BY <1>1, <1>2, <2>1, <2>2, <2>3, <2>5, <3>1, Elsewhere
  <2> QED BY <2>4, <2>5
<1> QED BY <1>4, <1>5 DEF MonInv

\* Who deploys to a host of another's makes neither of them alone.
LEMMA AskMonitoringKeeps ==
  ASSUME MonInv, NEW w \in MonRequest, NEW d \in Monitored, NEW h \in MonHost, NEW p \in PromPort,
         AskMonitoring(w, d, h, p)
  PROVE  MonInv'
<1> DEFINE e == [NoWork EXCEPT !.at = "exporters", !.op = "deploy", !.cluster = d, !.host = h, !.port = p]
<1>1. /\ e \in MonWork /\ e.at = "exporters" /\ e.op = "deploy" /\ e.cluster = d /\ e.host = h /\ e.todo = {}
      /\ e.failed = FALSE
  BY NoWorkTyped DEF MonWork
<1>2. /\ Moves(w, e) /\ UNCHANGED <<rules, channels, monconf, mon, behind>> /\ mreq[w].at = "idle"
      /\ asked < MonOps /\ asked' = asked + 1
      /\ alone' = alone \ ((UNION {About(q) \cap {d} : q \in MonRequest \ {w}})
                             \cup Others(h, d) \cup (IF Others(h, d) # {} THEN {d} ELSE {}))
  BY <1>1 DEF AskMonitoring, Moves, MayAsk
<1> HIDE DEF e
<1>3. AboutOf(e) = {d} /\ WorkFits(e)
  BY <1>1, NotNone DEF AboutOf, WorkFits, AtWork
<1>4. MonTypeOK' /\ StacksFit' /\ \A q \in MonRequest : WorkFits(mreq[q])'
  <2>1. asked' \in 0..MonOps
    BY <1>2, MonAssumption DEF MonInv, MonTypeOK
  <2>2. alone' \subseteq Monitored
    BY <1>2 DEF MonInv, MonTypeOK
  <2> QED BY <1>2, <1>3, <2>1, <2>2, MovesOne DEF MonInv, MonTypeOK, StacksFit
<1>5. mreq[w].cluster = "none" /\ mreq[w].op = "edit" /\ About(w) = {}
  BY <1>2, NoWorkTyped DEF MonInv, WorkFits, About
<1>6. \A c \in Monitored \ {d} : Tied(h, c) => c \in Others(h, d)
  <2> SUFFICES ASSUME NEW c \in Monitored \ {d}, Tied(h, c) PROVE c \in Others(h, d)
    OBVIOUS
  <2>1. CASE \E q \in MonRequest : AtWork(mreq[q]) /\ mreq[q].cluster = c /\ mreq[q].host = h
    <3>1. PICK q \in MonRequest : AtWork(mreq[q]) /\ mreq[q].cluster = c /\ mreq[q].host = h
      BY <2>1
    <3>2. c \in About(q)
      BY <3>1, NotNone DEF About, AtWork
    <3> QED BY <3>1, <3>2 DEF Others
  <2>2. CASE ~\E q \in MonRequest : AtWork(mreq[q]) /\ mreq[q].cluster = c /\ mreq[q].host = h
    BY <2>2 DEF Tied, Others
  <2> QED BY <2>1, <2>2
<1>7. \A c \in Monitored, g \in MonHost : Tied(g, c)' => Tied(g, c) \/ (c = d /\ g = h)
  <2> SUFFICES ASSUME NEW c \in Monitored, NEW g \in MonHost, Tied(g, c)' PROVE Tied(g, c) \/ (c = d /\ g = h)
    OBVIOUS
  <2>1. CASE \E q \in MonRequest : AtWork(mreq'[q]) /\ mreq'[q].cluster = c /\ mreq'[q].host = g
    <3>1. PICK q \in MonRequest : AtWork(mreq'[q]) /\ mreq'[q].cluster = c /\ mreq'[q].host = g
      BY <2>1
    <3>2. CASE q = w
      BY <1>1, <1>2, <3>1, <3>2, MovesOne
    <3>3. CASE q # w
      BY <1>2, <3>1, <3>3, MovesOne DEF Tied
    <3> QED BY <3>2, <3>3
  <2>2. CASE ~\E q \in MonRequest : AtWork(mreq'[q]) /\ mreq'[q].cluster = c /\ mreq'[q].host = g
    BY <1>2, <2>2 DEF Tied, AtWork
  <2> QED BY <2>1, <2>2
<1>8. ASSUME NEW c \in alone' PROVE Sole(c)' /\ OwnHosts(c)' /\ Progressing(c)' /\ MonSettled(c)'
  <2>1. /\ c \in alone /\ c \in Monitored /\ c # "none"
        /\ c = d => Others(h, d) = {} /\ \A q \in MonRequest \ {w} : c \notin About(q)
        /\ c \notin Others(h, d)
    <3> DEFINE busy == UNION {About(q) \cap {d} : q \in MonRequest \ {w}}
               own == IF Others(h, d) # {} THEN {d} ELSE {}
    <3>1. c \in alone /\ c \notin busy /\ c \notin Others(h, d) /\ c \notin own
      <4> HIDE DEF busy, own
      <4>1. alone' = alone \ (busy \cup Others(h, d) \cup own)
        BY <1>2 DEF busy, own
      <4> QED BY <4>1
    <3>2. c \in Monitored /\ c # "none"
      BY <3>1, NotNone DEF MonInv, MonTypeOK
    <3>3. c = d => Others(h, d) = {}
      BY <3>1
    <3>4. ASSUME c = d, NEW q \in MonRequest \ {w} PROVE c \notin About(q)
      BY <3>1, <3>4
    <3> QED BY <3>1, <3>2, <3>3, <3>4
  <2>2. Sole(c)'
    BY <1>2, <1>3, <2>1, SoleKept
  <2>3. OwnHosts(c)'
    <3> SUFFICES ASSUME NEW x \in Monitored, NEW g \in MonHost, Tied(g, c)', Tied(g, x)' PROVE x = c
      BY DEF OwnHosts
    <3>1. OwnHosts(c)
      BY <2>1 DEF MonInv
    <3>2. CASE c = d
      BY <1>6, <1>7, <2>1, <3>1, <3>2 DEF OwnHosts
    <3>3. CASE c # d
      <4>1. Tied(g, c) /\ g # h
        BY <1>6, <1>7, <2>1, <3>3
      <4>2. Tied(g, x)
        BY <1>7, <4>1
      <4> QED BY <2>1, <3>1, <4>1, <4>2 DEF OwnHosts
    <3> QED BY <3>2, <3>3
  <2>4. CASE c = d
    <3>1. Progress(e)'
      BY <1>1 DEF Progress, Unfailed
    <3>2. Progressing(c)'
      BY <1>2, <2>1, <2>4, <3>1, OneAtWork
    <3>3. Redeploys(e, c) /\ c \in AboutOf(e)
      BY <1>1, <1>3, <2>4 DEF Redeploys
    <3>4. MonSettled(c)'
      BY <1>2, <2>1, <2>4, <3>3, SettledAfter
    <3> QED BY <2>2, <2>3, <3>2, <3>4
  <2>5. CASE c # d
    <3>1. AtRest(c)' <=> AtRest(c)
      BY <1>2, <1>3, <1>5, <2>5, MovesOne DEF AtRest
    <3> QED BY <1>1, <1>2, <1>5, <2>1, <2>2, <2>3, <2>5, <3>1, Elsewhere
  <2> QED BY <2>4, <2>5
<1> QED BY <1>4, <1>8 DEF MonInv

-----------------------------------------------------------------------------
(* The theorems.                                                           *)

LEMMA MonKept == MonInv /\ [MonNext]_monVars => MonInv'
<1> SUFFICES ASSUME MonInv, [MonNext]_monVars PROVE MonInv'
  OBVIOUS
<1>1. ASSUME NEW w \in MonRequest, NEW c \in Monitored, NEW n \in AlertRule, NEW row \in Row, EditRule(w, c, n, row)
      PROVE  MonInv'
  BY <1>1, EditRuleKeeps
<1>2. ASSUME NEW w \in MonRequest, NEW k \in Channel, EditChannel(w, k) PROVE MonInv'
  BY <1>2, EditChannelKeeps
<1>3. ASSUME NEW w \in MonRequest, NEW c \in Monitored, NEW h \in MonHost, NEW p \in PromPort, AskMonitoring(w, c, h, p)
      PROVE  MonInv'
  BY <1>3, AskMonitoringKeeps
<1>4. ASSUME NEW w \in MonRequest, NextReload(w) PROVE MonInv'
  BY <1>4, NextReloadKeeps
<1>5. ASSUME NEW w \in MonRequest, ReadRows(w) PROVE MonInv'
  BY <1>5, ReadRowsKeeps
<1>6. ASSUME NEW w \in MonRequest, Push(w) PROVE MonInv'
  BY <1>6, PushKeeps
<1>7. ASSUME NEW w \in MonRequest, DeployStep(w) PROVE MonInv'
  <2>1. CASE DeployExporters(w) \/ DeployGrafana(w) \/ DeployAlertmanager(w) \/ ProvisionDashboards(w)
    BY <2>1, DeployStagesKeep
  <2>2. CASE DeployPrometheus(w)
    BY <2>2, PrometheusKeeps
  <2>3. CASE FailIfNeeded(w)
    BY <2>3, FailIfNeededKeeps
  <2>4. CASE SaveConfig(w)
    BY <2>4, SaveConfigKeeps
  <2>5. CASE SeedRules(w)
    BY <2>5, SeedRulesKeeps
  <2> QED BY <1>7, <2>1, <2>2, <2>3, <2>4, <2>5 DEF DeployStep
<1>8. ASSUME NEW w \in MonRequest, WorkerDies(w) PROVE MonInv'
  BY <1>8, WorkerDiesKeeps
<1>9. CASE UNCHANGED monVars
  BY <1>9 DEF monVars, MonInv, MonTypeOK, StacksFit, WorkFits, AtWork, Sole, About, OwnHosts, Tied, Progressing, Progress,
              Unfailed, ServedOn, ForceOn, RenderedRules, Enabled, MonSettled, Redeploys, AtRest
<1> QED BY <1>1, <1>2, <1>3, <1>4, <1>5, <1>6, <1>7, <1>8, <1>9 DEF MonNext

LEMMA MonStart == MonInit => MonInv
<1> SUFFICES ASSUME MonInit PROVE MonInv
  OBVIOUS
<1>1. AnyHost \in MonHost /\ NoFile \in RulesFile /\ NoFile.of = "none"
  BY MonAssumption DEF AnyHost, NoFile, RulesFile, Text
<1>2. MonTypeOK
  BY <1>1, NoWorkTyped, MonAssumption DEF MonInit, MonTypeOK, Row, MonConf, Stack, PromPort
<1>3. \A w \in MonRequest : mreq[w] = NoWork /\ WorkFits(mreq[w]) /\ About(w) = {} /\ ~AtWork(mreq[w])
  BY NoWorkTyped DEF MonInit, WorkFits, AtWork, About
<1>4. \A c \in Monitored : ~monconf[c].deployed /\ ~monconf[c].row
  BY DEF MonInit
<1>5. ASSUME NEW c \in Monitored PROVE Sole(c) /\ OwnHosts(c) /\ Progressing(c) /\ MonSettled(c)
  <2>1. Sole(c) /\ MonSettled(c)
    BY <1>3, <1>4 DEF Sole, MonSettled
  <2>2. OwnHosts(c)
    BY <1>1, <1>3, <1>4, NotNone DEF MonInit, OwnHosts, Tied
  <2>3. Progressing(c)
    BY <1>3, NoWorkTyped, NotNone DEF Progressing
  <2> QED BY <2>1, <2>2, <2>3
<1> QED BY <1>2, <1>3, <1>4, <1>5 DEF MonInv, StacksFit, MonTypeOK

LEMMA MonInvHolds == MonSpec => []MonInv
  BY MonStart, MonKept, PTL DEF MonSpec

\* Rows, files, daemons and requests keep their types, for any clusters, hosts, rules,
\* channels and requests.
THEOREM MonitoringTyped == MonSpec => []MonTypeOK
<1>1. MonInv => MonTypeOK
  BY DEF MonInv
<1> QED BY <1>1, MonInvHolds, PTL

\* What Prometheus evaluates and Alertmanager routes to is what the rows say
\* (reload_alerting, deploy_monitoring_stack, the seeding of default rules), unless the
\* cluster's last push was lost, whatever edits, deploys and deaths of workers came before,
\* for a cluster on a host and the default port of its own whose requests do not overlap.
THEOREM RulesAreInForce == MonSpec => []RulesInForce
<1>1. MonInv => RulesInForce
  BY DEF MonInv, MonTypeOK, RulesInForce, Stacked, MonSettled, ForceOn
<1> QED BY <1>1, MonInvHolds, PTL

\* A stack whose row says deployed runs on the row's host and port and scrapes its
\* cluster, though a later deploy to the same or another host may have failed half way.
THEOREM DeployedServes == MonSpec => []DeployedIsServed
<1>1. ASSUME MonInv PROVE DeployedIsServed
  <2> SUFFICES ASSUME NEW c \in Monitored, Stacked(c) PROVE ServedOn(monconf[c].host, c, monconf[c].port)
    BY DEF DeployedIsServed, ServedOn
  <2>1. c \in alone /\ monconf[c].deployed /\ AtRest(c) /\ MonSettled(c) /\ c # "none"
    BY <1>1, NotNone DEF Stacked, MonInv
  <2>2. ASSUME NEW w \in MonRequest PROVE ~Redeploys(mreq[w], c)
    <3>1. CASE mreq[w].at = "idle"
      BY <1>1, <3>1, NoWorkTyped DEF MonInv, WorkFits, Redeploys
    <3>2. CASE mreq[w].at # "idle"
      BY <2>1, <3>2 DEF AtRest, About, Redeploys
    <3> QED BY <3>1, <3>2
  <2> QED BY <2>1, <2>2 DEF MonSettled
<1> QED BY <1>1, MonInvHolds, PTL

-----------------------------------------------------------------------------
(* The log of a deploy and its consoles.                                   *)

\* The log counts up from its first line, or from the one after it once the ACLs are out.
Uncut(b) ==
    /\ logged = Len(log) + b
    /\ \A i \in 1 .. Len(log) : log[i] = i + b

\* Or it has been cut: the first lines, one or two markers, and the last lines.
Cut(b, first, last) ==
    /\ HeadLines <= first /\ first <= last /\ last <= HeadLines + 1 /\ last < Len(log)
    /\ b = 0 => first = HeadLines + 1
    /\ logged > MaxLines /\ logged >= Len(log) + b
    /\ \A i \in 1 .. Len(log) : /\ i < first => log[i] = i + b
                                /\ first <= i /\ i <= last => log[i] = Marker
                                /\ last < i => log[i] = logged - Len(log) + i

\* The newest lines, as many as the cap allows.
Newest ==
    /\ \A i \in 1 .. Len(log) : log[i] = logged - Len(log) + i
    /\ logged >= Len(log)
    /\ logged <= MaxLines => logged = Len(log)

Shaped ==
    /\ stage \in OverAgents => Newest
    /\ stage \notin OverAgents => \E b \in {0, 1} :
         /\ Uncut(b) \/ \E first, last \in Nat : Cut(b, first, last)
         /\ sentinel # 0 => b = 0

\* Where the deploy is tells whether the ACLs may still come, and that there is a line beside them.
StageFits ==
    /\ stage = "new" => log = <<>> /\ logged = 0
    /\ stage = "posted" => logged = Len(log) /\ Len(log) <= 1
    /\ sentinel # 0 => sentinel = 1 /\ stage # "new" /\ Len(log) >= 1
    /\ stage \notin {"new", "posted"} => Len(log) >= 1 /\ (sentinel # 0 => Len(log) >= 2)

\* What a console has yet to be sent is newer than all it has been sent.
InOrder(v) ==
    /\ \A i, j \in 1 .. Len(view[v].sent) :
         i < j /\ view[v].sent[j] # Marker => view[v].sent[i] < view[v].sent[j]
    /\ \A i \in 1 .. Len(view[v].sent) :
         /\ view[v].sent[i] <= logged
         /\ \A j \in 1 .. Len(log) : j > view[v].index /\ log[j] # Marker => view[v].sent[i] < log[j]

\* A console of a log nothing was taken from has been sent as many lines as its index says.
InStep(v) ==
    logged <= MaxLines /\ (log # <<>> => log[1] = 1) /\ sentinel = 0 =>
        /\ Len(view[v].sent) = view[v].index /\ view[v].index <= Len(log)
        /\ \A i \in 1 .. view[v].index : view[v].sent[i] = log[i]

LogInv ==
    /\ LogTypeOK /\ Len(log) <= MaxLines /\ Shaped /\ StageFits
    /\ \A v \in Viewer : InOrder(v) /\ InStep(v)

-----------------------------------------------------------------------------
(* The log as a list.                                                      *)

LEMMA LogFacts ==
  ASSUME LogTypeOK
  PROVE  /\ Len(log) \in Nat /\ log \in Seq(Line) /\ logged \in Nat /\ logged \in Line
         /\ \A i \in 1 .. Len(log) : log[i] \in Line /\ log[i] \in Nat
         /\ log = <<>> <=> Len(log) = 0
  BY LogAssumption, EmptySeq DEF LogTypeOK, Line

\* Up to the cap a line joins at the end.
LEMMA AppendShort ==
  ASSUME LogInv, AppendLog, Len(log) < MaxLines
  PROVE  /\ logged' = logged + 1 /\ logged' \in Line /\ log' \in Seq(Line) /\ Len(log') = Len(log) + 1
         /\ \A i \in 1 .. Len(log) : log'[i] = log[i]
         /\ log'[Len(log) + 1] = logged + 1
<1>1. /\ logged' = logged + 1 /\ logged + 1 \in Line
      /\ log' \in {Capped(Append(log, logged + 1)), Trimmed(Append(log, logged + 1))}
  BY LogFacts, LogAssumption DEF AppendLog, LogInv, Line
<1>2. PICK lines \in Seq(Line) : lines = Append(log, logged + 1)
  BY <1>1, LogFacts, AppendProperties DEF LogInv
<1>3. /\ Len(lines) = Len(log) + 1
      /\ \A i \in 1 .. Len(log) : lines[i] = log[i]
      /\ lines[Len(log) + 1] = logged + 1
  BY <1>1, <1>2, LogFacts, AppendProperties DEF LogInv
<1>4. ~(Len(lines) > MaxLines)
  BY <1>3, LogFacts, LogAssumption DEF LogInv
<1>5. log' = lines
  BY <1>1, <1>2, <1>4 DEF Capped, Trimmed
<1> QED BY <1>1, <1>3, <1>5

\* The agent deployer drops the oldest line of a full log.
LEMMA AppendTrims ==
  ASSUME LogInv, AppendLog, Len(log) = MaxLines, stage = "agent"
  PROVE  /\ logged' = logged + 1 /\ logged' \in Line /\ log' \in Seq(Line) /\ Len(log') = MaxLines
         /\ \A i \in 1 .. MaxLines - 1 : log'[i] = log[i + 1]
         /\ log'[MaxLines] = logged + 1
<1>1. logged' = logged + 1 /\ logged + 1 \in Line /\ log' = Trimmed(Append(log, logged + 1))
  BY LogFacts, LogAssumption DEF AppendLog, LogInv, Line
<1>2. PICK lines \in Seq(Line) : lines = Append(log, logged + 1)
  BY <1>1, LogFacts, AppendProperties DEF LogInv
<1>3. /\ Len(lines) = MaxLines + 1
      /\ \A i \in 1 .. MaxLines : lines[i] = log[i]
      /\ lines[MaxLines + 1] = logged + 1
  BY <1>1, <1>2, LogFacts, AppendProperties DEF LogInv
<1>4. MaxLines \in Nat /\ MaxLines >= 1 /\ Len(lines) - MaxLines + 1 = 2
  BY <1>3, LogAssumption
<1>5. log' = SubSeq(lines, 2, MaxLines + 1)
  <2>1. Len(lines) > MaxLines
    BY <1>3, <1>4
  <2>2. log' = SubSeq(lines, Len(lines) - MaxLines + 1, Len(lines))
    BY <1>1, <1>2, <2>1 DEF Trimmed
  <2> QED BY <1>3, <1>4, <2>2
<1>6. \A i \in 2 .. MaxLines + 1 : lines[i] \in Line
  BY <1>3, ElementOfSeq
<1>7. 2 \in Int /\ MaxLines + 1 \in Int /\ 2 <= MaxLines + 1
  BY <1>4
<1>8. /\ log' \in Seq(Line) /\ Len(log') = (MaxLines + 1) - 2 + 1
      /\ \A i \in 1 .. (MaxLines + 1) - 2 + 1 : log'[i] = lines[2 + i - 1]
  BY <1>5, <1>6, <1>7, SubSeqProperties
<1>9. /\ Len(log') = MaxLines
      /\ \A i \in 1 .. MaxLines : log'[i] = lines[i + 1]
  BY <1>4, <1>8
<1> QED BY <1>1, <1>3, <1>4, <1>8, <1>9

\* A full log is cut: the head, a marker, and the tail from the line after the next.
LEMMA AppendFull ==
  ASSUME LogInv, AppendLog, Len(log) = MaxLines, stage # "agent"
  PROVE  /\ logged' = logged + 1 /\ logged' \in Line /\ log' \in Seq(Line) /\ Len(log') = MaxLines
         /\ \A i \in 1 .. HeadLines : log'[i] = log[i]
         /\ log'[HeadLines + 1] = Marker
         /\ \A i \in HeadLines + 2 .. MaxLines - 1 : log'[i] = log[i + 1]
         /\ log'[MaxLines] = logged + 1
<1>1. logged' = logged + 1 /\ logged + 1 \in Line /\ log' = Capped(Append(log, logged + 1))
  BY LogFacts, LogAssumption DEF AppendLog, LogInv, Line
<1>2. PICK lines \in Seq(Line) : lines = Append(log, logged + 1)
  BY <1>1, LogFacts, AppendProperties DEF LogInv
<1>3. /\ Len(lines) = MaxLines + 1
      /\ \A i \in 1 .. MaxLines : lines[i] = log[i]
      /\ lines[MaxLines + 1] = logged + 1
  BY <1>1, <1>2, LogFacts, AppendProperties DEF LogInv
<1>4. /\ MaxLines \in Nat /\ HeadLines \in Nat /\ HeadLines + 1 < MaxLines /\ HeadLines >= 1
      /\ Len(lines) - (MaxLines - HeadLines - 1) + 1 = HeadLines + 3
  BY <1>3, LogAssumption
<1>5. \A i \in 1 .. MaxLines + 1 : lines[i] \in Line
  BY <1>3, ElementOfSeq
<1>6. PICK head : head = SubSeq(lines, 1, HeadLines)
  OBVIOUS
<1>7. head \in Seq(Line) /\ Len(head) = HeadLines /\ \A i \in 1 .. HeadLines : head[i] = lines[i]
  <2>1. \A i \in 1 .. HeadLines : lines[i] \in Line
    BY <1>4, <1>5
  <2> QED BY <1>4, <1>6, <2>1, SubSeqProperties
<1>8. PICK tail : tail = SubSeq(lines, HeadLines + 3, MaxLines + 1)
  OBVIOUS
<1>9. /\ tail \in Seq(Line) /\ Len(tail) = MaxLines - HeadLines - 1
      /\ \A i \in 1 .. MaxLines - HeadLines - 1 : tail[i] = lines[HeadLines + 2 + i]
  <2>1. \A i \in HeadLines + 3 .. MaxLines + 1 : lines[i] \in Line
    BY <1>4, <1>5
  <2>2. HeadLines + 3 \in Int /\ MaxLines + 1 \in Int /\ HeadLines + 3 <= MaxLines + 1
    BY <1>4
  <2>3. /\ tail \in Seq(Line) /\ Len(tail) = (MaxLines + 1) - (HeadLines + 3) + 1
        /\ \A i \in 1 .. (MaxLines + 1) - (HeadLines + 3) + 1 : tail[i] = lines[(HeadLines + 3) + i - 1]
    BY <1>8, <2>1, <2>2, SubSeqProperties
  <2> QED BY <1>4, <2>3
<1>10. PICK mid : mid = head \o <<Marker>>
  OBVIOUS
<1>11. /\ mid \in Seq(Line) /\ Len(mid) = HeadLines + 1 /\ mid[HeadLines + 1] = Marker
       /\ \A i \in 1 .. HeadLines : mid[i] = lines[i]
  <2>1. <<Marker>> \in Seq(Line) /\ Len(<<Marker>>) = 1 /\ <<Marker>>[1] = Marker
    BY LogAssumption DEF Marker, Line
  <2> QED BY <1>4, <1>7, <1>10, <2>1, ConcatProperties
<1>12. log' = mid \o tail
  <2>1. Len(lines) > MaxLines
    BY <1>3, <1>4
  <2>2. log' = SubSeq(lines, 1, HeadLines) \o <<Marker>>
                 \o SubSeq(lines, Len(lines) - (MaxLines - HeadLines - 1) + 1, Len(lines))
    BY <1>1, <1>2, <2>1 DEF Capped
  <2> QED BY <1>3, <1>4, <1>6, <1>8, <1>10, <2>2
<1>13. /\ log' \in Seq(Line) /\ Len(log') = MaxLines
       /\ \A i \in 1 .. MaxLines : log'[i] = IF i <= HeadLines + 1 THEN mid[i] ELSE tail[i - (HeadLines + 1)]
  <2>1. /\ log' \in Seq(Line) /\ Len(log') = Len(mid) + Len(tail)
        /\ \A i \in 1 .. Len(mid) + Len(tail) : log'[i] = IF i <= Len(mid) THEN mid[i] ELSE tail[i - Len(mid)]
    BY <1>9, <1>11, <1>12, ConcatProperties
  <2>2. Len(mid) = HeadLines + 1 /\ Len(mid) + Len(tail) = MaxLines
    BY <1>4, <1>9, <1>11
  <2> QED BY <2>1, <2>2
<1>14. \A i \in HeadLines + 2 .. MaxLines : log'[i] = lines[i + 1]
  <2> SUFFICES ASSUME NEW i \in HeadLines + 2 .. MaxLines PROVE log'[i] = lines[i + 1]
    OBVIOUS
  <2>1. log'[i] = tail[i - (HeadLines + 1)] /\ i - (HeadLines + 1) \in 1 .. MaxLines - HeadLines - 1
    BY <1>4, <1>13
  <2>2. HeadLines + 2 + (i - (HeadLines + 1)) = i + 1
    BY <1>4
  <2> QED BY <1>9, <2>1, <2>2
<1> QED BY <1>1, <1>3, <1>4, <1>11, <1>13, <1>14

\* The ACLs are the one line that leaves, from the front.
LEMMA TakenFirst ==
  ASSUME LogInv, sentinel # 0, stage = "ssh"
  PROVE  RemoveFirst(log, sentinel) = Tail(log)
<1>1. sentinel = 1 /\ Len(log) >= 1 /\ log \in Seq(Line) /\ Len(log) \in Nat
  BY LogFacts DEF LogInv, StageFits
<1>2. log[1] = 1
  <2>1. PICK b \in {0, 1} : (Uncut(b) \/ \E first, last \in Nat : Cut(b, first, last)) /\ b = 0
    BY DEF LogInv, Shaped, OverAgents
  <2> QED BY <1>1, <2>1, LogAssumption DEF Uncut, Cut
<1>3. 1 \in {i \in 1 .. Len(log) : log[i] = 1} /\ \A j \in {i \in 1 .. Len(log) : log[i] = 1} : 1 <= j
  BY <1>1, <1>2
<1>4. SelectInSeq(log, LAMBDA v : v = 1) = 1
  BY <1>3 DEF SelectInSeq, Min
<1>5. RemoveFirst(log, 1) = SubSeq(log, 1, 0) \o SubSeq(log, 2, Len(log))
  BY <1>1, <1>2, <1>4 DEF RemoveFirst, RemoveAt
<1>6. SubSeq(log, 1, 0) = <<>> /\ SubSeq(log, 2, Len(log)) = Tail(log) /\ Tail(log) \in Seq(Line)
  BY <1>1, EmptySeq, SubSeqEmpty, TailIsSubSeq, HeadTailProperties
<1> QED BY <1>1, <1>5, <1>6, ConcatEmptySeq

\* But for markers the log goes up, and ends with the newest line.
LEMMA GoesUp ==
  ASSUME LogInv
  PROVE  /\ \A i, j \in 1 .. Len(log) : i < j /\ log[j] # Marker => log[i] < log[j]
         /\ \A i \in 1 .. Len(log) : log[i] <= logged
<1>1. Newest \/ \E b \in {0, 1} : Uncut(b) \/ \E first, last \in Nat : Cut(b, first, last)
  BY DEF LogInv, Shaped
<1>2. Len(log) \in Nat /\ logged \in Nat
  BY LogFacts DEF LogInv
<1>3. CASE Newest \/ \E b \in {0, 1} : Uncut(b)
  <2>1. CASE Newest
    BY <1>2, <2>1 DEF Newest
  <2>2. ASSUME NEW b \in {0, 1}, Uncut(b)
        PROVE  \A i \in 1 .. Len(log) : log[i] = i + b /\ i + b <= logged
    BY <1>2, <2>2 DEF Uncut
  <2> QED BY <1>2, <1>3, <2>1, <2>2
<1>4. CASE \E b \in {0, 1}, first, last \in Nat : Cut(b, first, last)
  <2>1. PICK b \in {0, 1}, first, last \in Nat : Cut(b, first, last)
    BY <1>4
  <2>2. ASSUME NEW i \in 1 .. Len(log)
        PROVE  /\ log[i] <= logged
               /\ i < first => log[i] = i + b
               /\ first <= i /\ i <= last => log[i] = 0
               /\ last < i => log[i] = logged - Len(log) + i
    BY <1>2, <2>1 DEF Cut, Marker
  <2>3. ASSUME NEW i \in 1 .. Len(log), NEW j \in 1 .. Len(log), i < j, log[j] # 0 PROVE log[i] < log[j]
    <3>1. j < first \/ last < j
      BY <2>1, <2>2, <2>3
    <3>2. first \in Nat /\ last \in Nat /\ first <= last /\ logged >= Len(log) + b
      BY <2>1 DEF Cut
    <3>3. b \in Nat /\ j \in Nat /\ i \in Nat /\ j >= 1
      BY <1>2
    <3>4. CASE j < first
      <4>1. log[i] = i + b /\ log[j] = j + b
        BY <2>2, <2>3, <3>2, <3>3, <3>4
      <4> QED BY <2>3, <3>3, <4>1
    <3>5. CASE last < j
      <4>1. log[j] = logged - Len(log) + j
        BY <2>2, <3>5
      <4>2. log[i] = i + b \/ log[i] = 0 \/ log[i] = logged - Len(log) + i
        BY <2>2, <3>2, <3>3
      <4> QED BY <1>2, <2>3, <3>2, <3>3, <4>1, <4>2
    <3> QED BY <3>1, <3>4, <3>5
  <2> QED BY <2>2, <2>3 DEF Marker
<1> QED BY <1>1, <1>3, <1>4

-----------------------------------------------------------------------------
(* Steps that change the log.                                              *)

LEMMA AppendKeepsShape ==
  ASSUME LogInv, AppendLog, stage # "agent",
         NEW b \in {0, 1}, Uncut(b) \/ \E first, last \in Nat : Cut(b, first, last)
  PROVE  Uncut(b)' \/ \E first, last \in Nat : Cut(b, first, last)'
<1>1. /\ Len(log) \in Nat /\ logged \in Nat /\ Len(log) <= MaxLines /\ b \in Nat
      /\ MaxLines \in Nat /\ HeadLines \in Nat /\ HeadLines >= 1 /\ HeadLines + 1 < MaxLines
  BY LogFacts, LogAssumption DEF LogInv
<1>2. CASE Len(log) < MaxLines
  <2>1. /\ logged' = logged + 1 /\ Len(log') = Len(log) + 1
        /\ \A i \in 1 .. Len(log) : log'[i] = log[i]
        /\ log'[Len(log) + 1] = logged + 1
    BY <1>2, AppendShort
  <2>2. CASE Uncut(b)
    <3>1. ASSUME NEW i \in 1 .. Len(log) + 1 PROVE log'[i] = i + b
      <4>1. CASE i \in 1 .. Len(log)
        BY <2>1, <2>2, <4>1 DEF Uncut
      <4>2. CASE i = Len(log) + 1
        BY <1>1, <2>1, <2>2, <4>2 DEF Uncut
      <4> QED BY <1>1, <4>1, <4>2
    <3>2. logged' = Len(log') + b
      BY <1>1, <2>1, <2>2 DEF Uncut
    <3> QED BY <2>1, <3>1, <3>2 DEF Uncut
  <2>3. ASSUME NEW first \in Nat, NEW last \in Nat, Cut(b, first, last) PROVE Cut(b, first, last)'
    <3>1. /\ HeadLines <= first /\ first <= last /\ last <= HeadLines + 1 /\ last < Len(log)
          /\ b = 0 => first = HeadLines + 1
          /\ logged > MaxLines /\ logged >= Len(log) + b
          /\ \A i \in 1 .. Len(log) : /\ i < first => log[i] = i + b
                                      /\ first <= i /\ i <= last => log[i] = Marker
                                      /\ last < i => log[i] = logged - Len(log) + i
      BY <2>3 DEF Cut
    <3>2. ASSUME NEW i \in 1 .. Len(log) + 1
          PROVE  /\ i < first => log'[i] = i + b
                 /\ first <= i /\ i <= last => log'[i] = Marker
                 /\ last < i => log'[i] = logged' - Len(log') + i
      <4>1. CASE i \in 1 .. Len(log)
        <5>1. log'[i] = log[i] /\ logged' - Len(log') = logged - Len(log)
          BY <1>1, <2>1, <4>1
        <5> QED BY <3>1, <4>1, <5>1
      <4>2. CASE i = Len(log) + 1
        <5>1. log'[i] = logged + 1 /\ logged' - Len(log') + i = logged + 1 /\ ~(i < first) /\ ~(i <= last)
          BY <1>1, <2>1, <3>1, <4>2
        <5> QED BY <5>1
      <4> QED BY <1>1, <4>1, <4>2
    <3>3. logged' > MaxLines /\ logged' >= Len(log') + b /\ last < Len(log')
      BY <1>1, <2>1, <3>1
    <3> QED BY <2>1, <3>1, <3>2, <3>3 DEF Cut
  <2> QED BY <2>2, <2>3
<1>3. CASE Len(log) = MaxLines
  <2>1. /\ logged' = logged + 1 /\ Len(log') = MaxLines
        /\ \A i \in 1 .. HeadLines : log'[i] = log[i]
        /\ log'[HeadLines + 1] = Marker
        /\ \A i \in HeadLines + 2 .. MaxLines - 1 : log'[i] = log[i + 1]
        /\ log'[MaxLines] = logged + 1
    BY <1>3, AppendFull
  <2>2. CASE Uncut(b)
    <3>1. Cut(b, HeadLines + 1, HeadLines + 1)'
      <4>1. logged' > MaxLines /\ logged' >= Len(log') + b
        BY <1>1, <1>3, <2>1, <2>2 DEF Uncut
      <4>2. ASSUME NEW i \in 1 .. Len(log')
            PROVE  /\ i < HeadLines + 1 => log'[i] = i + b
                   /\ i = HeadLines + 1 => log'[i] = Marker
                   /\ HeadLines + 1 < i => log'[i] = logged' - Len(log') + i
        <5>1. CASE i < HeadLines + 1
          BY <1>1, <1>3, <2>1, <2>2, <5>1 DEF Uncut
        <5>2. CASE i = HeadLines + 1
          BY <1>1, <2>1, <5>2
        <5>3. CASE HeadLines + 1 < i /\ i < MaxLines
          <6>1. log'[i] = log[i + 1] /\ i + 1 \in 1 .. Len(log)
            BY <1>1, <1>3, <2>1, <5>3
          <6> QED BY <1>1, <1>3, <2>1, <2>2, <5>3, <6>1 DEF Uncut
        <5>4. CASE i = MaxLines
          BY <1>1, <2>1, <5>4
        <5> QED BY <1>1, <2>1, <5>1, <5>2, <5>3, <5>4
      <4> QED BY <1>1, <2>1, <4>1, <4>2 DEF Cut
    <3> QED BY <1>1, <3>1
  <2>3. ASSUME NEW first \in Nat, NEW last \in Nat, Cut(b, first, last)
        PROVE  Cut(b, first, HeadLines + 1)'
    <3>1. /\ HeadLines <= first /\ first <= last /\ last <= HeadLines + 1
          /\ logged > MaxLines /\ logged >= Len(log) + b
      BY <2>3 DEF Cut
    <3>2. ASSUME NEW i \in 1 .. Len(log')
          PROVE  /\ i < first => log'[i] = i + b
                 /\ first <= i /\ i <= HeadLines + 1 => log'[i] = Marker
                 /\ HeadLines + 1 < i => log'[i] = logged' - Len(log') + i
      <4>1. CASE i <= HeadLines
        BY <1>1, <1>3, <2>1, <2>3, <3>1, <4>1 DEF Cut
      <4>2. CASE i = HeadLines + 1
        BY <1>1, <2>1, <3>1, <4>2
      <4>3. CASE HeadLines + 1 < i /\ i < MaxLines
        <5>1. log'[i] = log[i + 1] /\ i + 1 \in 1 .. Len(log) /\ last < i + 1
          BY <1>1, <1>3, <2>1, <3>1, <4>3
        <5>2. log[i + 1] = logged - Len(log) + (i + 1)
          BY <2>3, <5>1 DEF Cut
        <5> QED BY <1>1, <1>3, <2>1, <3>1, <4>3, <5>1, <5>2
      <4>4. CASE i = MaxLines
        BY <1>1, <2>1, <3>1, <4>4
      <4> QED BY <1>1, <2>1, <4>1, <4>2, <4>3, <4>4
    <3>3. first <= HeadLines + 1 /\ HeadLines + 1 < Len(log') /\ logged' > MaxLines /\ logged' >= Len(log') + b
          /\ (b = 0 => first = HeadLines + 1)
      BY <1>1, <1>3, <2>1, <2>3, <3>1 DEF Cut
    <3> QED BY <1>1, <3>1, <3>2, <3>3 DEF Cut
  <2> QED BY <1>1, <2>2, <2>3
<1> QED BY <1>1, <1>2, <1>3

LEMMA AppendKeepsNewest ==
  ASSUME LogInv, AppendLog, stage = "agent"
  PROVE  Newest'
<1>1. /\ Len(log) \in Nat /\ logged \in Nat /\ Len(log) <= MaxLines /\ MaxLines \in Nat /\ MaxLines >= 1
      /\ \A i \in 1 .. Len(log) : log[i] = logged - Len(log) + i
      /\ logged >= Len(log) /\ (logged <= MaxLines => logged = Len(log))
  BY LogFacts, LogAssumption DEF LogInv, Shaped, Newest, OverAgents
<1>2. CASE Len(log) < MaxLines
  <2>1. /\ logged' = logged + 1 /\ Len(log') = Len(log) + 1
        /\ \A i \in 1 .. Len(log) : log'[i] = log[i]
        /\ log'[Len(log) + 1] = logged + 1
    BY <1>2, AppendShort
  <2>2. ASSUME NEW i \in 1 .. Len(log) + 1 PROVE log'[i] = (logged + 1) - (Len(log) + 1) + i
    <3>1. CASE i \in 1 .. Len(log)
      BY <1>1, <2>1, <3>1
    <3>2. CASE i = Len(log) + 1
      BY <1>1, <2>1, <3>2
    <3> QED BY <1>1, <3>1, <3>2
  <2> QED BY <1>1, <2>1, <2>2 DEF Newest
<1>3. CASE Len(log) = MaxLines
  <2>1. /\ logged' = logged + 1 /\ Len(log') = MaxLines
        /\ \A i \in 1 .. MaxLines - 1 : log'[i] = log[i + 1]
        /\ log'[MaxLines] = logged + 1
    BY <1>3, AppendTrims
  <2>2. ASSUME NEW i \in 1 .. MaxLines PROVE log'[i] = (logged + 1) - MaxLines + i
    <3>1. CASE i \in 1 .. MaxLines - 1
      <4>1. i + 1 \in 1 .. Len(log)
        BY <1>1, <1>3, <3>1
      <4> QED BY <1>1, <1>3, <2>1, <3>1, <4>1
    <3>2. CASE i = MaxLines
      BY <1>1, <2>1, <3>2
    <3> QED BY <1>1, <3>1, <3>2
  <2> QED BY <1>1, <1>3, <2>1, <2>2 DEF Newest
<1> QED BY <1>1, <1>2, <1>3

LEMMA AppendKeepsOrder ==
  ASSUME LogInv, AppendLog, NEW v \in Viewer, view' = view
  PROVE  InOrder(v)'
<1>1. /\ Len(log) \in Nat /\ logged \in Nat /\ Len(log) <= MaxLines /\ logged' = logged + 1
      /\ MaxLines \in Nat /\ HeadLines \in Nat /\ HeadLines >= 1 /\ HeadLines + 1 < MaxLines
      /\ view[v].index \in Nat
  BY LogFacts, LogAssumption DEF LogInv, LogTypeOK, AppendLog
<1>2. InOrder(v)
  BY DEF LogInv
<1> SUFFICES ASSUME NEW i \in 1 .. Len(view[v].sent)
             PROVE  /\ view[v].sent[i] <= logged + 1
                    /\ \A j \in 1 .. Len(log') : j > view[v].index /\ log'[j] # Marker => view[v].sent[i] < log'[j]
  BY <1>1, <1>2 DEF InOrder
<1>3. view[v].sent[i] \in Nat /\ view[v].sent[i] <= logged
  BY <1>2, LogAssumption DEF InOrder, LogInv, LogTypeOK, Line
<1>4. ASSUME NEW j \in 1 .. Len(log), j > view[v].index, log[j] # Marker PROVE view[v].sent[i] < log[j]
  BY <1>2, <1>4 DEF InOrder
<1>5. ASSUME NEW j \in 1 .. Len(log'), j > view[v].index, log'[j] # Marker PROVE view[v].sent[i] < log'[j]
  <2>1. CASE Len(log) < MaxLines
    <3>1. /\ Len(log') = Len(log) + 1
          /\ \A x \in 1 .. Len(log) : log'[x] = log[x]
          /\ log'[Len(log) + 1] = logged + 1
      BY <2>1, AppendShort
    <3> QED BY <1>1, <1>3, <1>4, <1>5, <3>1
  <2>2. CASE Len(log) = MaxLines /\ stage # "agent"
    <3>1. /\ Len(log') = MaxLines
          /\ \A x \in 1 .. HeadLines : log'[x] = log[x]
          /\ log'[HeadLines + 1] = Marker
          /\ \A x \in HeadLines + 2 .. MaxLines - 1 : log'[x] = log[x + 1]
          /\ log'[MaxLines] = logged + 1
      BY <2>2, AppendFull
    <3>2. CASE j <= HeadLines
      BY <1>1, <1>4, <1>5, <2>2, <3>1, <3>2
    <3>3. CASE HeadLines + 2 <= j /\ j < MaxLines
      <4>1. log'[j] = log[j + 1] /\ j + 1 \in 1 .. Len(log) /\ j + 1 > view[v].index
        BY <1>1, <1>5, <2>2, <3>1, <3>3
      <4> QED BY <1>4, <1>5, <4>1
    <3>4. CASE j = MaxLines
      BY <1>1, <1>3, <3>1, <3>4
    <3> QED BY <1>1, <1>5, <3>1, <3>2, <3>3, <3>4
  <2>3. CASE Len(log) = MaxLines /\ stage = "agent"
    <3>1. /\ Len(log') = MaxLines
          /\ \A x \in 1 .. MaxLines - 1 : log'[x] = log[x + 1]
          /\ log'[MaxLines] = logged + 1
      BY <2>3, AppendTrims
    <3>2. CASE j < MaxLines
      <4>1. log'[j] = log[j + 1] /\ j + 1 \in 1 .. Len(log) /\ j + 1 > view[v].index
        BY <1>1, <1>5, <2>3, <3>1, <3>2
      <4> QED BY <1>4, <1>5, <4>1
    <3>3. CASE j = MaxLines
      BY <1>1, <1>3, <3>1, <3>3
    <3> QED BY <1>1, <1>5, <3>1, <3>2, <3>3
  <2> QED BY <1>1, <2>1, <2>2, <2>3
<1> QED BY <1>1, <1>3, <1>5

\* A log keeps every line until the cap is logged, or one is lost to the sentinel.
LEMMA LogGrown ==
  ASSUME LogInv, logged + 1 <= MaxLines
  PROVE  Len(log) < MaxLines
<1>1. Len(log) \in Nat /\ logged \in Nat /\ MaxLines \in Nat
  BY LogFacts, LogAssumption DEF LogInv
<1>2. Newest \/ \E b \in {0, 1} : Uncut(b) \/ \E first, last \in Nat : Cut(b, first, last)
  BY DEF LogInv, Shaped
<1> QED BY <1>1, <1>2 DEF Newest, Uncut, Cut

LEMMA AppendKeepsStep ==
  ASSUME LogInv, AppendLog, NEW v \in Viewer, view' = view, sentinel' = sentinel
  PROVE  InStep(v)'
<1>1. /\ Len(log) \in Nat /\ logged \in Nat /\ Len(log) <= MaxLines /\ logged' = logged + 1 /\ MaxLines \in Nat
      /\ view[v].index \in Nat
  BY LogFacts, LogAssumption DEF LogInv, LogTypeOK, AppendLog
<1> SUFFICES ASSUME logged + 1 <= MaxLines, log' # <<>> => log'[1] = 1, sentinel = 0
             PROVE  /\ Len(view[v].sent) = view[v].index /\ view[v].index <= Len(log')
                    /\ \A i \in 1 .. view[v].index : view[v].sent[i] = log'[i]
  BY <1>1 DEF InStep
<1>2. Len(log) < MaxLines
  BY <1>1, LogGrown
<1>3. /\ Len(log') = Len(log) + 1 /\ log' \in Seq(Line)
      /\ \A x \in 1 .. Len(log) : log'[x] = log[x]
  BY <1>2, AppendShort
<1>4. log' # <<>>
  BY <1>1, <1>3, EmptySeq
<1>5. log # <<>> => log[1] = 1
  BY <1>1, <1>3, <1>4, LogFacts DEF LogInv
<1>6. /\ Len(view[v].sent) = view[v].index /\ view[v].index <= Len(log)
      /\ \A i \in 1 .. view[v].index : view[v].sent[i] = log[i]
  BY <1>1, <1>5 DEF LogInv, InStep
<1> QED BY <1>1, <1>3, <1>6

LEMMA AppendGrows ==
  ASSUME LogInv, AppendLog
  PROVE  /\ logged' \in Line /\ log' \in Seq(Line) /\ Len(log') <= MaxLines
         /\ Len(log') >= Len(log) /\ Len(log') >= 1 /\ (Len(log) = 1 => Len(log') >= 2)
<1>1. PICK n \in Nat : n = Len(log)
  BY LogFacts DEF LogInv
<1>2. n <= MaxLines /\ MaxLines \in Nat /\ MaxLines >= 2
  BY <1>1, LogAssumption DEF LogInv
<1>3. CASE n < MaxLines
  <2>1. logged' \in Line /\ log' \in Seq(Line) /\ Len(log') = n + 1
    BY <1>1, <1>3, AppendShort
  <2>2. n + 1 <= MaxLines /\ n + 1 >= n /\ n + 1 >= 1 /\ (n = 1 => n + 1 >= 2)
    BY <1>1, <1>2, <1>3
  <2> QED BY ONLY <1>1, <2>1, <2>2
<1>4. CASE n = MaxLines
  <2>1. logged' \in Line /\ log' \in Seq(Line) /\ Len(log') = MaxLines
    BY <1>1, <1>4, AppendFull, AppendTrims
  <2> QED BY ONLY <1>1, <1>2, <1>4, <2>1
<1> QED BY <1>1, <1>2, <1>3, <1>4

\* The first line over the agents, after no more than the ACLs.
LEMMA FirstIsNewest ==
  ASSUME LogInv, AppendLog, Len(log) <= 1, logged = Len(log), stage \notin OverAgents
  PROVE  Newest'
<1>1. PICK n \in Nat : n = Len(log)
  BY LogFacts DEF LogInv
<1>2. n <= 1 /\ logged = n /\ MaxLines \in Nat /\ MaxLines >= 2 /\ n < MaxLines
  BY <1>1, LogAssumption
<1>3. \A i \in 1 .. n : log[i] = i
  BY <1>1, <1>2 DEF LogInv, Shaped, Uncut, Cut
<1>4. /\ logged' = n + 1 /\ Len(log') = n + 1
      /\ \A i \in 1 .. n : log'[i] = log[i]
      /\ log'[n + 1] = n + 1
  BY <1>1, <1>2, AppendShort
<1>5. \A i \in 1 .. n + 1 : log'[i] = i
  BY <1>2, <1>3, <1>4
<1> QED BY <1>2, <1>4, <1>5 DEF Newest

LEMMA AppendKeeps ==
  ASSUME LogInv, AppendLog, UNCHANGED <<view, sentinel>>, status' = status,
         (stage \notin {"new", "posted", "over", "agent over"} /\ stage' = stage)
         \/ (stage = "posted" /\ stage' \in {"ssh", "agent"})
  PROVE  LogInv'
<1>2. logged' \in Line /\ log' \in Seq(Line) /\ Len(log') <= MaxLines /\ Len(log') >= 1
  BY AppendGrows
<1>3. LogTypeOK'
  BY <1>2 DEF LogInv, LogTypeOK, OverAgents
<1>4. Shaped'
  <2>1. CASE stage = "agent"
    BY <2>1, AppendKeepsNewest DEF Shaped, OverAgents
  <2>2. CASE stage = "posted" /\ stage' = "agent"
    <3>1. Len(log) <= 1 /\ logged = Len(log)
      BY <2>2 DEF LogInv, StageFits
    <3> QED BY <2>2, <3>1, FirstIsNewest DEF Shaped, OverAgents
  <2>3. CASE stage \notin OverAgents /\ stage' \notin OverAgents
    <3>1. PICK b \in {0, 1} : (Uncut(b) \/ \E first, last \in Nat : Cut(b, first, last)) /\ (sentinel # 0 => b = 0)
      BY <2>3 DEF LogInv, Shaped
    <3>2. Uncut(b)' \/ \E first, last \in Nat : Cut(b, first, last)'
      BY <2>3, <3>1, AppendKeepsShape DEF OverAgents
    <3> QED BY <2>3, <3>1, <3>2 DEF Shaped
  <2> QED BY <2>1, <2>2, <2>3 DEF OverAgents
<1>5. StageFits'
  <2>1. stage' \notin {"new", "posted"}
    OBVIOUS
  <2>2. sentinel # 0 => sentinel = 1
    BY DEF LogInv, StageFits
  <2>3. ASSUME sentinel # 0 PROVE Len(log') >= 2
    <3>1. Len(log) >= 1 /\ Len(log) \in Nat /\ Len(log') \in Nat
      BY <2>3, <1>2, LogFacts, LenProperties DEF LogInv, StageFits
    <3>2. PICK n, m \in Nat : n = Len(log) /\ m = Len(log')
      BY <3>1
    <3>3. n >= 1 /\ m >= n /\ (n = 1 => m >= 2)
      BY <3>1, <3>2, AppendGrows
    <3>4. m >= 2
      BY ONLY <3>3, n \in Nat, m \in Nat
    <3> QED BY <3>2, <3>4
  <2> QED BY <1>2, <2>1, <2>2, <2>3 DEF StageFits
<1> QED BY <1>2, <1>3, <1>4, <1>5, AppendKeepsOrder, AppendKeepsStep DEF LogInv

\* The shape of the log is that of its lines.
LEMMA ShapeStays ==
  ASSUME Shaped, UNCHANGED <<log, logged, sentinel>>, stage' \in OverAgents <=> stage \in OverAgents
  PROVE  Shaped'
<1>0. Newest => Newest'
  BY DEF Newest
<1>1. \A b \in {0, 1} : Uncut(b) => Uncut(b)'
  BY DEF Uncut
<1>2. \A b \in {0, 1}, first, last \in Nat : Cut(b, first, last) => Cut(b, first, last)'
  BY DEF Cut
<1> QED BY <1>0, <1>1, <1>2 DEF Shaped

\* The ACLs leave from the front, and the log goes on from its second line.
LEMMA TakeAclsKeeps ==
  ASSUME LogInv, TakeAcls
  PROVE  LogInv'
<1>1. /\ Len(log) \in Nat /\ logged \in Nat /\ Len(log) <= MaxLines /\ log \in Seq(Line)
      /\ MaxLines \in Nat /\ HeadLines \in Nat /\ HeadLines >= 1 /\ HeadLines + 1 < MaxLines
      /\ Len(log) >= 1 /\ (sentinel # 0 => Len(log) >= 2 /\ sentinel = 1)
  BY LogFacts, LogAssumption DEF LogInv, StageFits, TakeAcls
<1>2. /\ stage' = "up" /\ sentinel' = 0 /\ logged' = logged /\ status' = status /\ view' = view
  BY DEF TakeAcls
<1>3. CASE sentinel = 0
  <2>1. log' = log
    BY <1>3 DEF TakeAcls
  <2>2. Shaped'
    BY <1>2, <1>3, <2>1, ShapeStays DEF LogInv, TakeAcls, OverAgents
  <2>3. \A v \in Viewer : InOrder(v)' /\ InStep(v)'
    BY <1>2, <1>3, <2>1 DEF LogInv, InOrder, InStep
  <2>4. LogTypeOK' /\ StageFits'
    BY <1>1, <1>2, <1>3, <2>1 DEF LogInv, LogTypeOK, StageFits
  <2> QED BY <1>1, <2>1, <2>2, <2>3, <2>4 DEF LogInv
<1>4. CASE sentinel # 0
  <2>1. log' = Tail(log)
    BY <1>4, TakenFirst DEF TakeAcls
  <2>2. PICK n \in Nat : n = Len(log)
    BY <1>1
  <2>3. n >= 2 /\ n <= MaxLines
    BY <1>1, <1>4, <2>2
  <2>4. /\ log' \in Seq(Line) /\ Len(log') = n - 1
        /\ \A i \in 1 .. n - 1 : log'[i] = log[i + 1]
    <3>1. log # <<>>
      BY <1>1, EmptySeq
    <3> QED BY <1>1, <2>1, <2>2, <3>1, HeadTailProperties
  <2>5. PICK b \in {0, 1} : (Uncut(b) \/ \E first, last \in Nat : Cut(b, first, last)) /\ b = 0
    BY <1>4 DEF LogInv, Shaped, TakeAcls, OverAgents
  <2>6. Uncut(1)' \/ \E first, last \in Nat : Cut(1, first, last)'
    <3>1. CASE Uncut(0)
      <4>1. logged = n /\ \A i \in 1 .. n : log[i] = i
        BY <2>2, <3>1 DEF Uncut
      <4>2. logged' = Len(log') + 1
        BY <1>2, <2>4, <4>1
      <4>3. \A i \in 1 .. n - 1 : log'[i] = i + 1
        BY <2>4, <4>1
      <4> QED BY <2>4, <4>2, <4>3 DEF Uncut
    <3>2. ASSUME NEW first \in Nat, NEW last \in Nat, Cut(0, first, last)
          PROVE  Cut(1, HeadLines, HeadLines)'
      <4>1. /\ first = HeadLines + 1 /\ last = HeadLines + 1 /\ last < n
            /\ logged > MaxLines /\ logged >= n
            /\ \A i \in 1 .. n : /\ i < first => log[i] = i
                                 /\ i = first => log[i] = Marker
                                 /\ first < i => log[i] = logged - n + i
        BY <1>1, <2>2, <3>2 DEF Cut
      <4>2. ASSUME NEW i \in 1 .. n - 1
            PROVE  /\ i < HeadLines => log'[i] = i + 1
                   /\ HeadLines <= i /\ i <= HeadLines => log'[i] = Marker
                   /\ HeadLines < i => log'[i] = logged - (n - 1) + i
        <5>1. log'[i] = log[i + 1] /\ i + 1 \in 1 .. n
          BY <2>4
        <5> QED BY <1>1, <4>1, <5>1
      <4> QED BY <1>1, <1>2, <2>4, <4>1, <4>2 DEF Cut
    <3> QED BY <1>1, <2>5, <3>1, <3>2
  <2>7. Shaped'
    BY <1>2, <2>6 DEF Shaped, OverAgents
  <2>8. ASSUME NEW v \in Viewer PROVE InOrder(v)' /\ InStep(v)'
    <3>1. InOrder(v) /\ view[v].index \in Nat
      BY DEF LogInv, LogTypeOK
    <3>2. ASSUME NEW i \in 1 .. Len(view[v].sent), NEW j \in 1 .. n - 1, j > view[v].index, log'[j] # Marker
          PROVE  view[v].sent[i] < log'[j]
      <4>1. log'[j] = log[j + 1] /\ j + 1 \in 1 .. n /\ j + 1 > view[v].index
        BY <2>4, <3>1, <3>2
      <4> QED BY <2>2, <3>1, <3>2, <4>1 DEF InOrder
    <3>3. InOrder(v)'
      BY <1>2, <2>4, <3>1, <3>2 DEF InOrder
    <3>4. ASSUME logged <= MaxLines PROVE log'[1] = 2
      <4>1. Uncut(0)
        BY <1>1, <2>5, <3>4 DEF Cut
      <4> QED BY <2>2, <2>3, <2>4, <4>1 DEF Uncut
    <3>5. log' # <<>>
      BY <2>3, <2>4, EmptySeq
    <3>6. InStep(v)'
      BY <1>2, <3>4, <3>5 DEF InStep
    <3> QED BY <3>3, <3>6
  <2>9. Len(log') >= 1 /\ Len(log') <= MaxLines
    BY <1>1, <2>3, <2>4
  <2>10. LogTypeOK'
    BY <1>1, <1>2, <2>4, LogAssumption DEF LogInv, LogTypeOK, Line
  <2>11. StageFits'
    BY <1>2, <2>9 DEF StageFits
  <2> QED BY <2>7, <2>8, <2>9, <2>10, <2>11 DEF LogInv
<1> QED BY <1>3, <1>4

\* The line of the ACLs is the first there is.
LEMMA StashAclsKeeps ==
  ASSUME LogInv, StashAcls
  PROVE  LogInv'
<1>1. /\ stage = "posted" /\ logged = 0 /\ logged' = 1 /\ log' = Append(log, 1) /\ sentinel' = 1
      /\ status' = status /\ stage' = stage /\ view' = view /\ 1 \in Line
  BY LogAssumption DEF StashAcls, Line
<1>2. Len(log) = 0 /\ log \in Seq(Line)
  BY <1>1, LogFacts DEF LogInv, StageFits
<1>3. log' \in Seq(Line) /\ Len(log') = 1 /\ log'[1] = 1
  BY <1>1, <1>2, AppendProperties
<1>4. Uncut(0)'
  BY <1>1, <1>3 DEF Uncut
<1>5. Shaped'
  BY <1>1, <1>4 DEF Shaped, OverAgents
<1>6. LogTypeOK' /\ StageFits' /\ Len(log') <= MaxLines
  BY <1>1, <1>3, LogAssumption DEF LogInv, LogTypeOK, StageFits
<1>7. ASSUME NEW v \in Viewer PROVE InOrder(v)' /\ InStep(v)'
  <2>1. \A i \in 1 .. Len(view[v].sent) : view[v].sent[i] \in Nat /\ view[v].sent[i] <= 0
    BY <1>1, LogAssumption DEF LogInv, LogTypeOK, InOrder, Line
  <2>2. InOrder(v)'
    BY <1>1, <1>3, <2>1 DEF LogInv, InOrder
  <2>3. InStep(v)'
    BY <1>1 DEF InStep
  <2> QED BY <2>2, <2>3
<1> QED BY <1>5, <1>6, <1>7 DEF LogInv

\* Steps that leave the log and the consoles alone.
LEMMA VerdictKeeps ==
  ASSUME LogInv, UNCHANGED <<log, logged, sentinel, view>>, StageFits',
         status' \in Final \cup {"none", "running"}, stage' \in {"posted", "closing", "over", "agent over"},
         stage' \in OverAgents <=> stage \in OverAgents
  PROVE  LogInv'
<1>1. LogTypeOK'
  BY DEF LogInv, LogTypeOK, OverAgents
<1>2. \A v \in Viewer : InOrder(v)' /\ InStep(v)'
  BY DEF LogInv, InOrder, InStep
<1> QED BY <1>1, <1>2, ShapeStays DEF LogInv

-----------------------------------------------------------------------------
(* Steps of a console.                                                     *)

LEMMA LogFrame ==
  ASSUME LogInv, UNCHANGED <<log, logged, status, stage, sentinel>>,
         view' \in [Viewer -> [at : {"off", "on", "over"}, index : Nat, sent : Seq(Line)]]
  PROVE  LogTypeOK' /\ StageFits' /\ Shaped'
<1>1. LogTypeOK'
  BY DEF LogInv, LogTypeOK
<1>2. StageFits'
  BY DEF LogInv, StageFits
<1> QED BY <1>1, <1>2, ShapeStays DEF LogInv

LEMMA OpenKeeps ==
  ASSUME LogInv, NEW v \in Viewer, Open(v)
  PROVE  LogInv'
<1>1. UNCHANGED <<log, logged, status, stage, sentinel>> /\ view' = [view EXCEPT ![v].at = "on"]
  BY DEF Open
<1>2. view' \in [Viewer -> [at : {"off", "on", "over"}, index : Nat, sent : Seq(Line)]]
  BY <1>1 DEF LogInv, LogTypeOK
<1>3. \A w \in Viewer : view'[w].index = view[w].index /\ view'[w].sent = view[w].sent
  BY <1>1 DEF LogInv, LogTypeOK
<1>4. ASSUME NEW w \in Viewer PROVE InOrder(w)' /\ InStep(w)'
  BY <1>1, <1>3 DEF LogInv, InOrder, InStep
<1>5. LogTypeOK' /\ StageFits' /\ Shaped'
  BY <1>1, <1>2, LogFrame
<1> QED BY <1>1, <1>4, <1>5 DEF LogInv

\* What a poll sends is the log past the console's index.
LEMMA NewsFacts ==
  ASSUME LogInv, NEW v \in Viewer, view[v].index < Len(log)
  PROVE  /\ News(v) \in Seq(Line) /\ Len(News(v)) = Len(log) - view[v].index
         /\ \A i \in 1 .. Len(log) - view[v].index : News(v)[i] = log[view[v].index + i]
<1>1. PICK n \in Nat, k \in Nat : n = Len(log) /\ k = view[v].index
  BY LogFacts DEF LogInv, LogTypeOK
<1>2. News(v) = SubSeq(log, k + 1, n) /\ k < n
  BY <1>1 DEF News
<1>3. \A i \in k + 1 .. n : log[i] \in Line
  BY <1>1, LogFacts DEF LogInv
<1>4. k + 1 \in Int /\ n \in Int /\ k + 1 <= n
  BY <1>1, <1>2
<1>5. /\ News(v) \in Seq(Line) /\ Len(News(v)) = n - (k + 1) + 1
      /\ \A i \in 1 .. n - (k + 1) + 1 : News(v)[i] = log[(k + 1) + i - 1]
  BY <1>2, <1>3, <1>4, SubSeqProperties
<1>6. n - (k + 1) + 1 = n - k
  BY <1>1
<1>7. \A i \in 1 .. n - k : (k + 1) + i - 1 = k + i
  BY <1>1
<1> QED BY <1>1, <1>5, <1>6, <1>7

LEMMA PollKeeps ==
  ASSUME LogInv, NEW v \in Viewer, Poll(v)
  PROVE  LogInv'
<1>1. UNCHANGED <<log, logged, status, stage, sentinel>>
  BY DEF Poll
<1>2. PICK k \in Nat, s \in Seq(Line), n \in Nat : k = view[v].index /\ s = view[v].sent /\ n = Len(log)
  BY LogFacts DEF LogInv, LogTypeOK
<1>3. \A w \in Viewer : w # v => view'[w] = view[w]
  BY DEF Poll, LogInv, LogTypeOK
<1>4. /\ view'[v].index = (IF k < n THEN n ELSE k) /\ view'[v].sent = s \o News(v)
      /\ view'[v].at \in {"on", "over"} /\ DOMAIN view' = Viewer
      /\ view'[v] = [at |-> view'[v].at, index |-> view'[v].index, sent |-> view'[v].sent]
  BY <1>2 DEF Poll, LogInv, LogTypeOK
<1>5. /\ \A i \in 1 .. Len(s) : s[i] <= logged
      /\ \A i, j \in 1 .. Len(s) : i < j /\ s[j] # Marker => s[i] < s[j]
      /\ \A i \in 1 .. Len(s), j \in 1 .. n : j > k /\ log[j] # Marker => s[i] < log[j]
  BY <1>2 DEF LogInv, InOrder
<1>6. CASE ~(k < n)
  <2>1. News(v) = <<>>
    BY <1>2, <1>6 DEF News
  <2>2. view'[v].index = k /\ view'[v].sent = s
    BY <1>2, <1>4, <1>6, <2>1, ConcatEmptySeq
  <2>3. \A w \in Viewer : view'[w].index = view[w].index /\ view'[w].sent = view[w].sent
    BY <1>2, <1>3, <2>2
  <2>4. view' \in [Viewer -> [at : {"off", "on", "over"}, index : Nat, sent : Seq(Line)]]
    BY <1>2, <1>3, <1>4, <2>2 DEF Poll, LogInv, LogTypeOK
  <2>5. ASSUME NEW w \in Viewer PROVE InOrder(w)' /\ InStep(w)'
    BY <1>1, <2>3 DEF LogInv, InOrder, InStep
  <2>6. LogTypeOK' /\ StageFits' /\ Shaped'
    BY <1>1, <2>4, LogFrame
  <2> QED BY <1>1, <2>5, <2>6 DEF LogInv
<1>7. CASE k < n
  <2>1. PICK l \in Nat : l = Len(s)
    BY <1>2, LenProperties
  <2>0. PICK t : t = s \o News(v)
    OBVIOUS
  <2>2. /\ News(v) \in Seq(Line) /\ Len(News(v)) = n - k
        /\ \A i \in 1 .. n - k : News(v)[i] = log[k + i]
    BY <1>2, <1>7, NewsFacts
  <2>3. /\ t \in Seq(Line) /\ Len(t) = l + (n - k)
        /\ \A i \in 1 .. l : t[i] = s[i]
        /\ \A i \in l + 1 .. l + (n - k) : t[i] = log[k + (i - l)]
    <3>1. /\ t \in Seq(Line) /\ Len(t) = Len(s) + Len(News(v))
          /\ \A i \in 1 .. Len(s) + Len(News(v)) : t[i] = IF i <= Len(s) THEN s[i] ELSE News(v)[i - Len(s)]
      <4>1. s \in Seq(Line) /\ News(v) \in Seq(Line)
        BY <2>2
      <4> QED BY <2>0, <4>1, ConcatProperties
    <3>2. \A i \in 1 .. l : i <= l /\ i \in 1 .. l + (n - k)
      BY <1>2, <1>7
    <3>3. \A i \in l + 1 .. l + (n - k) : ~(i <= l) /\ i \in 1 .. l + (n - k) /\ i - l \in 1 .. n - k
      BY <1>2, <1>7
    <3> QED BY <2>1, <2>2, <3>1, <3>2, <3>3
  <2>4. view'[v].index = n /\ view'[v].sent = t
    BY <1>4, <1>7, <2>0
  <2>5. view' \in [Viewer -> [at : {"off", "on", "over"}, index : Nat, sent : Seq(Line)]]
    BY <1>2, <1>3, <1>4, <2>3, <2>4 DEF Poll, LogInv, LogTypeOK
  <2>6. /\ \A i, j \in 1 .. n : i < j /\ log[j] # Marker => log[i] < log[j]
        /\ \A i \in 1 .. n : log[i] <= logged
    BY <1>2, GoesUp
  <2>7. \A i \in l + 1 .. l + (n - k) : i - l \in 1 .. n - k /\ k + (i - l) \in 1 .. n /\ k + (i - l) > k
    BY <1>2, <1>7
  <2>8. \A i \in 1 .. l + (n - k) : i \in 1 .. l \/ i \in l + 1 .. l + (n - k)
    BY <1>2, <1>7
  <2>9. InOrder(v)'
    <3>1. ASSUME NEW i \in 1 .. l + (n - k), NEW j \in 1 .. l + (n - k), i < j, t[j] # Marker PROVE t[i] < t[j]
      <4>1. CASE j \in 1 .. l
        <5>1. i \in 1 .. l
          BY <3>1, <4>1
        <5> QED BY <1>5, <2>1, <2>3, <3>1, <4>1, <5>1
      <4>2. CASE i \in 1 .. l /\ j \in l + 1 .. l + (n - k)
        BY <1>5, <2>1, <2>3, <2>7, <3>1, <4>2
      <4>3. CASE i \in l + 1 .. l + (n - k) /\ j \in l + 1 .. l + (n - k)
        <5>1. k + (i - l) < k + (j - l)
          BY <3>1, <4>3
        <5> QED BY <2>3, <2>6, <2>7, <3>1, <4>3, <5>1
      <4> QED BY <2>8, <4>1, <4>2, <4>3
    <3>2. ASSUME NEW i \in 1 .. l + (n - k) PROVE t[i] <= logged
      BY <1>5, <2>1, <2>3, <2>6, <2>7, <2>8
    <3>3. \A j \in 1 .. n : ~(j > n)
      BY <1>2
    <3> QED BY <1>1, <1>2, <2>3, <2>4, <3>1, <3>2, <3>3 DEF InOrder
  <2>10. InStep(v)'
    <3> SUFFICES ASSUME logged <= MaxLines, log # <<>> => log[1] = 1, sentinel = 0
                 PROVE  Len(t) = n /\ \A i \in 1 .. n : t[i] = log[i]
      BY <1>1, <1>2, <2>4 DEF InStep
    <3>1. l = k /\ \A i \in 1 .. k : s[i] = log[i]
      BY <1>2, <2>1 DEF LogInv, InStep
    <3>2. Len(t) = n
      BY <1>2, <2>3, <3>1
    <3>3. ASSUME NEW i \in l + 1 .. l + (n - k) PROVE t[i] = log[i]
      BY <2>3, <3>1, <3>3
    <3> QED BY <2>3, <2>8, <3>1, <3>2, <3>3
  <2>11. ASSUME NEW w \in Viewer, w # v PROVE InOrder(w)' /\ InStep(w)'
    BY <1>1, <1>3, <2>11 DEF LogInv, InOrder, InStep
  <2>12. LogTypeOK' /\ StageFits' /\ Shaped'
    BY <1>1, <2>5, LogFrame
  <2> QED BY <1>1, <2>9, <2>10, <2>11, <2>12 DEF LogInv
<1> QED BY <1>6, <1>7

-----------------------------------------------------------------------------
(* The log in every reachable state.                                       *)

LEMMA LogStep ==
  ASSUME LogInv, [LogNext]_logVars
  PROVE  LogInv'
<1>1. CASE UNCHANGED logVars
  <2>1. LogTypeOK' /\ StageFits' /\ Shaped'
    BY <1>1, LogFrame DEF logVars, LogInv, LogTypeOK
  <2>2. \A v \in Viewer : InOrder(v)' /\ InStep(v)'
    BY <1>1 DEF logVars, LogInv, InOrder, InStep
  <2> QED BY <1>1, <2>1, <2>2 DEF logVars, LogInv
<1>2. CASE InitTask
  <2>1. StageFits'
    BY <1>2, LogFacts DEF InitTask, LogInv, StageFits
  <2> QED BY <1>2, <2>1, VerdictKeeps DEF InitTask, OverAgents
<1>3. CASE StashAcls
  BY <1>3, StashAclsKeeps
<1>4. CASE LogLine
  BY <1>4, AppendKeeps DEF LogLine
<1>5. CASE TakeAcls
  BY <1>5, TakeAclsKeeps
<1>6. CASE Return
  BY <1>6, VerdictKeeps DEF Return, LogInv, LogTypeOK, StageFits, OverAgents
<1>7. ASSUME NEW path \in {"ssh", "agent"}, PickPath(path) PROVE LogInv'
  BY <1>7, AppendKeeps DEF PickPath
<1>8. ASSUME NEW s \in Final, SetStatus(s) PROVE LogInv'
  <2>1. /\ stage \in {"up", "ssh", "agent"} /\ stage' \in {"closing", "over", "agent over"} /\ status' = s
        /\ (stage' \in OverAgents <=> stage \in OverAgents)
        /\ UNCHANGED <<log, logged, sentinel, view>>
    BY <1>8 DEF SetStatus, OverAgents
  <2>2. StageFits'
    BY <2>1 DEF LogInv, StageFits
  <2> QED BY <2>1, <2>2, VerdictKeeps
<1>9. ASSUME NEW v \in Viewer, Open(v) \/ Poll(v) PROVE LogInv'
  BY <1>9, OpenKeeps, PollKeeps
<1> QED BY <1>1, <1>2, <1>3, <1>4, <1>5, <1>6, <1>7, <1>8, <1>9 DEF LogNext, Deploy

LEMMA LogStart ==
  ASSUME LogInit
  PROVE  LogInv
<1>1. log = <<>> /\ Len(log) = 0 /\ log \in Seq(Line) /\ logged = 0 /\ sentinel = 0 /\ stage = "new" /\ 0 \in Line
  BY EmptySeq, LogAssumption DEF LogInit, Line
<1>2. \A v \in Viewer : view[v].sent = <<>> /\ Len(view[v].sent) = 0 /\ view[v].index = 0
  BY EmptySeq DEF LogInit
<1>3. Uncut(0) /\ Shaped
  BY <1>1 DEF Uncut, Shaped, OverAgents
<1>4. <<>> \in Seq(Line)
  BY EmptySeq
<1>5. LogTypeOK
  BY <1>1, <1>4 DEF LogInit, LogTypeOK
<1>6. \A v \in Viewer : InOrder(v) /\ InStep(v)
  BY <1>1, <1>2 DEF InOrder, InStep
<1> QED BY <1>1, <1>3, <1>5, <1>6, LogAssumption DEF LogInv, StageFits

\* The row, the console's index and what it was sent keep their types.
THEOREM LogTyped == LogSpec => []LogTypeOK
<1>1. LogInit => LogInv
  BY LogStart
<1>2. LogInv /\ [LogNext]_logVars => LogInv'
  BY LogStep
<1>3. LogInv => LogTypeOK
  BY DEF LogInv
<1> QED BY <1>1, <1>2, <1>3, PTL DEF LogSpec

LEMMA ShapeShows ==
  ASSUME LogInv
  PROVE  HeadAndTail
<1>1. PICK n \in Nat : n = Len(log)
  BY LogFacts DEF LogInv
<1>0. CASE stage \in OverAgents
  <2>1. /\ n <= MaxLines /\ logged \in Nat /\ (log # <<>> => n >= 1)
        /\ \A i \in 1 .. n : log[i] = logged - n + i
    BY <1>0, <1>1, LogFacts, LogAssumption DEF LogInv, Shaped, Newest
  <2>2. IsRun(log)
    <3>1. ASSUME NEW i \in 1 .. n - 1 PROVE log[i + 1] = log[i] + 1
      <4>1. i \in 1 .. n /\ i + 1 \in 1 .. n
        OBVIOUS
      <4> QED BY <2>1, <4>1
    <3> QED BY <1>1, <3>1 DEF IsRun
  <2>3. log # <<>> => log[n] = logged
    BY <2>1
  <2> QED BY <1>0, <1>1, <2>1, <2>2, <2>3 DEF HeadAndTail
<1> SUFFICES ASSUME stage \notin OverAgents PROVE HeadAndTail
  BY <1>0
<1>2. PICK b \in {0, 1} : Uncut(b) \/ \E first, last \in Nat : Cut(b, first, last)
  BY DEF LogInv, Shaped
<1>3. n <= MaxLines /\ logged \in Nat /\ b \in {0, 1} /\ HeadLines \in Nat /\ HeadLines >= 1 /\ (log # <<>> => n >= 1)
      /\ \A i \in 1 .. n : log[i] \in Line
  BY <1>1, LogFacts, LogAssumption DEF LogInv
<1>4. CASE Uncut(b)
  <2>1. logged = n + b /\ \A i \in 1 .. n : log[i] = i + b
    BY <1>1, <1>4 DEF Uncut
  <2>2. IsOpening(log)
    <3>1. ASSUME NEW i \in 1 .. n - 1 PROVE log[i + 1] = log[i] + 1
      <4>1. i \in 1 .. n /\ i + 1 \in 1 .. n
        OBVIOUS
      <4> QED BY <1>3, <2>1, <4>1
    <3>2. log # <<>> => log[1] \in {1, 2}
      BY <1>3, <2>1
    <3> QED BY <1>1, <3>1, <3>2 DEF IsRun, IsOpening
  <2>3. log # <<>> => log[n] = logged
    BY <1>3, <2>1
  <2> QED BY <1>1, <1>3, <2>2, <2>3 DEF HeadAndTail
<1>5. ASSUME NEW first \in Nat, NEW last \in Nat, Cut(b, first, last) PROVE HeadAndTail
  <2>1. /\ HeadLines <= first /\ first <= last /\ last < n
        /\ \A i \in 1 .. n : /\ i < first => log[i] = i + b
                             /\ first <= i /\ i <= last => log[i] = Marker
                             /\ last < i => log[i] = logged - n + i
    BY <1>1, <1>5 DEF Cut
  <2>2. IsOpening(SubSeq(log, 1, first - 1))
    <3>1. PICK head : head = SubSeq(log, 1, first - 1)
      OBVIOUS
    <3>2. \A i \in 1 .. first - 1 : log[i] \in Line
      BY <1>3, <2>1
    <3>3. /\ Len(head) = IF 1 <= first - 1 THEN (first - 1) - 1 + 1 ELSE 0
          /\ \A i \in 1 .. (first - 1) - 1 + 1 : head[i] = log[1 + i - 1]
      BY <3>1, <3>2, SubSeqProperties
    <3>4. Len(head) = first - 1 /\ \A i \in 1 .. first - 1 : head[i] = i + b
      BY <1>3, <2>1, <3>3
    <3>5. IsRun(head)
      BY <1>3, <2>1, <3>4 DEF IsRun
    <3>6. ASSUME head # <<>> PROVE head[1] \in {1, 2}
      <4>1. head \in Seq(Line)
        BY <1>3, <2>1, <3>1, <3>2, SubSeqProperties
      <4>2. first - 1 >= 1
        BY <2>1, <3>4, <3>6, <4>1, EmptySeq
      <4> QED BY <1>3, <3>4, <4>2
    <3> QED BY <3>1, <3>5, <3>6 DEF IsOpening
  <2>3. IsRun(SubSeq(log, last + 1, n))
    <3>1. PICK tail : tail = SubSeq(log, last + 1, n)
      OBVIOUS
    <3>2. \A i \in last + 1 .. n : log[i] \in Line
      BY <1>3
    <3>3. /\ Len(tail) = IF last + 1 <= n THEN n - (last + 1) + 1 ELSE 0
          /\ \A i \in 1 .. n - (last + 1) + 1 : tail[i] = log[(last + 1) + i - 1]
      BY <3>1, <3>2, SubSeqProperties
    <3>4. Len(tail) = n - last /\ \A i \in 1 .. n - last : tail[i] = log[last + i] /\ last + i \in 1 .. n /\ last < last + i
      BY <2>1, <3>3
    <3>5. \A i \in 1 .. n - last : tail[i] = logged - n + (last + i)
      BY <2>1, <3>4
    <3> QED BY <1>3, <2>1, <3>1, <3>4, <3>5 DEF IsRun
  <2>4. log[n] = logged /\ first \in 1 .. n /\ last \in 1 .. n
    BY <1>3, <2>1
  <2>5. \A i \in first .. last : log[i] = Marker
    BY <1>3, <2>1
  <2> QED BY <1>1, <1>3, <2>1, <2>2, <2>3, <2>4, <2>5 DEF HeadAndTail
<1> QED BY <1>2, <1>4, <1>5

\* The capped row is its first lines, one or two markers and its last lines.
THEOREM LogKeepsEnds == LogSpec => []HeadAndTail
<1>1. LogInit => LogInv
  BY LogStart
<1>2. LogInv /\ [LogNext]_logVars => LogInv'
  BY LogStep
<1>3. LogInv => HeadAndTail
  BY ShapeShows
<1> QED BY <1>1, <1>2, <1>3, PTL DEF LogSpec

\* No console is sent a line twice or out of order, whatever the cap and the sentinel move.
THEOREM StreamGoesUp == LogSpec => []StreamInOrder
<1>1. LogInit => LogInv
  BY LogStart
<1>2. LogInv /\ [LogNext]_logVars => LogInv'
  BY LogStep
<1>3. LogInv => StreamInOrder
  BY DEF LogInv, InOrder, StreamInOrder
<1> QED BY <1>1, <1>2, <1>3, PTL DEF LogSpec

LEMMA PrefixByLines ==
  ASSUME NEW s \in Seq(Line), NEW t \in Seq(Line), Len(s) <= Len(t), \A i \in 1 .. Len(s) : s[i] = t[i]
  PROVE  IsPrefix(s, t)
<1>1. PICK k \in Nat : k = Len(s)
  BY LenProperties
<1>2. \A i \in 1 .. k : s[i] \in Line /\ t[i] \in Line
  BY <1>1, ElementOfSeq
<1>3. PICK p, q : p = SubSeq(s, 1, k) /\ q = SubSeq(t, 1, k)
  OBVIOUS
<1>4. 1 \in Int /\ k \in Int
  BY <1>1
<1>5. p \in Seq(Line) /\ Len(p) = (IF 1 <= k THEN k - 1 + 1 ELSE 0) /\ \A i \in 1 .. k - 1 + 1 : p[i] = s[1 + i - 1]
  BY <1>2, <1>3, <1>4, SubSeqProperties
<1>6. q \in Seq(Line) /\ Len(q) = (IF 1 <= k THEN k - 1 + 1 ELSE 0) /\ \A i \in 1 .. k - 1 + 1 : q[i] = t[1 + i - 1]
  BY <1>2, <1>3, <1>4, SubSeqProperties
<1>7. Len(p) = k /\ Len(q) = k /\ \A i \in 1 .. k : p[i] = q[i]
  BY <1>1, <1>5, <1>6
<1>8. p = q
  BY <1>5, <1>6, <1>7, SeqEqual
<1> QED BY <1>1, <1>3, <1>8 DEF IsPrefix

LEMMA StepShows ==
  ASSUME LogInv
  PROVE  StreamIsPrefix
<1> SUFFICES ASSUME NEW v \in Viewer, Whole
             PROVE  IsPrefix(view[v].sent, log)
  BY DEF StreamIsPrefix
<1>1. view[v].sent \in Seq(Line) /\ log \in Seq(Line)
  BY DEF LogInv, LogTypeOK
<1>2. Len(view[v].sent) <= Len(log) /\ \A i \in 1 .. Len(view[v].sent) : view[v].sent[i] = log[i]
  BY DEF LogInv, InStep, Whole
<1> QED BY <1>1, <1>2, PrefixByLines

\* Until the log is cut, a console of a deploy without initial ACLs has a prefix of it.
THEOREM StreamSkipsNothing == LogSpec => []StreamIsPrefix
<1>1. LogInit => LogInv
  BY LogStart
<1>2. LogInv /\ [LogNext]_logVars => LogInv'
  BY LogStep
<1>3. LogInv => StreamIsPrefix
  BY StepShows
<1> QED BY <1>1, <1>2, <1>3, PTL DEF LogSpec

-----------------------------------------------------------------------------
(* What who follows a deploy is promised.                                  *)

\* Beside what LogInv says: a log with no line is one nothing was logged in, and a
\* verdict is the last thing but the closing lines.
StreamInv ==
    /\ LogInv
    /\ log = <<>> => logged = 0
    /\ status \notin {"none", "running"} => stage \in {"closing", "over", "agent over"}

LEMMA StreamInvStep ==
  ASSUME StreamInv, [LogNext]_logVars
  PROVE  StreamInv'
<1>1. LogInv /\ LogInv'
  BY LogStep DEF StreamInv
<1>2. log' = <<>> => logged' = 0
  <2>1. CASE AppendLog
    <3>1. Len(log') >= 1
      BY <1>1, <2>1, AppendGrows
    <3> QED BY <3>1, EmptySeq
  <2>2. CASE StashAcls
    <3>1. stage' = "posted" /\ log' = Append(log, 1) /\ log \in Seq(Line) /\ 1 \in Line
      BY <1>1, <2>2, LogAssumption DEF StashAcls, LogInv, LogTypeOK, Line
    <3> QED BY <3>1, AppendProperties
  <2>3. CASE TakeAcls
    <3>1. Len(log') >= 1
      BY <1>1, <2>3 DEF TakeAcls, LogInv, StageFits
    <3> QED BY <3>1, EmptySeq
  <2>4. CASE UNCHANGED <<log, logged>>
    BY <2>4 DEF StreamInv
  <2>5. AppendLog \/ StashAcls \/ TakeAcls \/ UNCHANGED <<log, logged>>
    BY DEF LogNext, Deploy, InitTask, LogLine, PickPath, SetStatus, Return, Open, Poll, logVars
  <2> QED BY <2>1, <2>2, <2>3, <2>4, <2>5
<1>3. status' \notin {"none", "running"} => stage' \in {"closing", "over", "agent over"}
  <2>1. CASE UNCHANGED <<status, stage>>
    BY <2>1 DEF StreamInv
  <2>2. CASE status' = "running" \/ stage' \in {"closing", "over", "agent over"}
    BY <2>2
  <2>3. CASE status' = status /\ stage \notin {"closing", "over", "agent over"}
    BY <2>3 DEF StreamInv
  <2>4. ASSUME NEW s \in Final, SetStatus(s) PROVE stage' \in {"closing", "over", "agent over"}
    BY <2>4 DEF SetStatus
  <2>5. ASSUME InitTask \/ Return PROVE status' = "running" \/ stage' \in {"closing", "over", "agent over"}
    BY <2>5 DEF InitTask, Return
  <2>6. ASSUME TakeAcls \/ \E path \in {"ssh", "agent"} : PickPath(path)
        PROVE  status' = status /\ stage \notin {"closing", "over", "agent over"}
    BY <2>6 DEF TakeAcls, PickPath
  <2>7. ASSUME StashAcls \/ LogLine \/ (\E v \in Viewer : Open(v) \/ Poll(v)) \/ UNCHANGED logVars
        PROVE  UNCHANGED <<status, stage>>
    BY <2>7 DEF StashAcls, LogLine, Open, Poll, logVars
  <2> QED BY <2>1, <2>2, <2>3, <2>4, <2>5, <2>6, <2>7 DEF LogNext, Deploy
<1> QED BY <1>1, <1>2, <1>3 DEF StreamInv

LEMMA StreamInvariant == LogSpec => []StreamInv
<1>1. LogInit => StreamInv
  BY LogStart DEF LogInit, StreamInv
<1> QED BY <1>1, StreamInvStep, PTL DEF LogSpec

\* A log that is not whole never is again.
LEMMA AppendLoses ==
  ASSUME LogInv, AppendLog, UNCHANGED sentinel, Whole'
  PROVE  Whole
<1>1. /\ Len(log) \in Nat /\ logged \in Nat /\ Len(log) <= MaxLines /\ logged' = logged + 1 /\ MaxLines \in Nat
  BY LogFacts, LogAssumption DEF LogInv, AppendLog
<1>2. logged + 1 <= MaxLines /\ (log' # <<>> => log'[1] = 1) /\ sentinel = 0
  BY <1>1 DEF Whole
<1>3. Len(log) < MaxLines
  BY <1>2, LogGrown
<1>4. /\ Len(log') = Len(log) + 1 /\ log' \in Seq(Line)
      /\ \A i \in 1 .. Len(log) : log'[i] = log[i]
  BY <1>3, AppendShort
<1>5. log' # <<>>
  BY <1>1, <1>4, EmptySeq
<1>6. log # <<>> => log[1] = 1
  BY <1>1, <1>2, <1>4, <1>5, LogFacts DEF LogInv
<1> QED BY <1>1, <1>2, <1>6 DEF Whole

\* The sentinel's line is missed as soon as it is out.
LEMMA TakenIsMissed ==
  ASSUME LogInv, TakeAcls, sentinel # 0
  PROVE  ~Whole'
<1>1. PICK n \in Nat : n = Len(log)
  BY LogFacts DEF LogInv
<1>2. n >= 2 /\ n <= MaxLines /\ log \in Seq(Line) /\ MaxLines \in Nat /\ logged \in Nat
  BY <1>1, LogFacts, LogAssumption DEF LogInv, StageFits, TakeAcls
<1>3. logged' = logged /\ log' = Tail(log)
  BY TakenFirst DEF TakeAcls
<1>4. log # <<>>
  BY <1>1, <1>2, EmptySeq
<1>5. log' \in Seq(Line) /\ Len(log') = n - 1 /\ \A i \in 1 .. n - 1 : log'[i] = log[i + 1]
  BY <1>1, <1>2, <1>3, <1>4, HeadTailProperties
<1>6. log' # <<>>
  BY <1>2, <1>5, EmptySeq
<1>7. ASSUME logged <= MaxLines PROVE log'[1] = 2
  <2>1. PICK b \in {0, 1} : (Uncut(b) \/ \E first, last \in Nat : Cut(b, first, last)) /\ b = 0
    BY DEF LogInv, Shaped, TakeAcls, OverAgents
  <2>2. Uncut(0)
    BY <1>2, <1>7, <2>1 DEF Cut
  <2>3. log[2] = 2
    BY <1>1, <1>2, <2>2 DEF Uncut
  <2> QED BY <1>2, <1>5, <2>3
<1> QED BY <1>3, <1>6, <1>7 DEF Whole

\* A poll only adds to what was sent.
LEMMA PollAdds ==
  ASSUME LogInv, NEW v \in Viewer, Poll(v)
  PROVE  IsPrefix(view[v].sent, view'[v].sent)
<1>1. PICK k \in Nat, s \in Seq(Line), n \in Nat : k = view[v].index /\ s = view[v].sent /\ n = Len(log)
  BY LogFacts DEF LogInv, LogTypeOK
<1>2. view'[v].sent = s \o News(v)
  BY <1>1 DEF Poll, LogInv, LogTypeOK
<1>3. News(v) \in Seq(Line)
  <2>1. CASE k < n
    BY <1>1, <2>1, NewsFacts
  <2>2. CASE ~(k < n)
    BY <1>1, <2>2, EmptySeq DEF News
  <2> QED BY <2>1, <2>2
<1>4. PICK t : t = s \o News(v)
  OBVIOUS
<1>5. PICK l \in Nat, m \in Nat : l = Len(s) /\ m = Len(News(v))
  BY <1>3, LenProperties
<1>6. t \in Seq(Line) /\ Len(t) = l + m /\ \A i \in 1 .. l + m : t[i] = IF i <= l THEN s[i] ELSE News(v)[i - l]
  BY <1>3, <1>4, <1>5, ConcatProperties
<1>7. Len(s) <= Len(t) /\ \A i \in 1 .. Len(s) : s[i] = t[i]
  BY <1>5, <1>6
<1> QED BY <1>1, <1>2, <1>4, <1>6, <1>7, PrefixByLines

\* The lines of a whole log are those logged, one to the last.
LEMMA WholeLog ==
  ASSUME StreamInv, Whole
  PROVE  Len(log) = logged /\ \A i \in 1 .. logged : log[i] = i
<1>1. PICK n \in Nat : n = Len(log)
  BY LogFacts DEF StreamInv, LogInv
<1>0. CASE stage \in OverAgents
  <2>1. Newest /\ logged <= MaxLines /\ logged \in Nat
    BY <1>0, LogFacts DEF StreamInv, LogInv, Whole, Shaped
  <2>2. logged = Len(log) /\ \A i \in 1 .. logged : log[i] = logged - logged + i
    BY <2>1 DEF Newest
  <2> QED BY <2>1, <2>2
<1> SUFFICES ASSUME stage \notin OverAgents
             PROVE  Len(log) = logged /\ \A i \in 1 .. logged : log[i] = i
  BY <1>0
<1>2. PICK b \in {0, 1} : Uncut(b)
  <2>1. PICK b \in {0, 1} : Uncut(b) \/ \E first, last \in Nat : Cut(b, first, last)
    BY DEF StreamInv, LogInv, Shaped
  <2>2. logged \in Nat /\ MaxLines \in Nat /\ logged <= MaxLines
    BY LogFacts, LogAssumption DEF StreamInv, LogInv, Whole
  <2> QED BY <2>1, <2>2 DEF Cut
<1>3. logged = n + b /\ \A i \in 1 .. n : log[i] = i + b
  BY <1>1, <1>2 DEF Uncut
<1>4. b = 0
  <2>1. CASE log = <<>>
    <3>1. n = 0 /\ logged = 0
      BY <1>1, <2>1, EmptySeq DEF StreamInv
    <3> QED BY <1>3, <3>1
  <2>2. CASE log # <<>>
    <3>1. n >= 1
      <4>1. log \in Seq(Line)
        BY LogFacts DEF StreamInv, LogInv
      <4> QED BY <1>1, <2>2, <4>1, EmptySeq
    <3>2. log[1] = 1
      BY <2>2 DEF Whole
    <3> QED BY <1>3, <3>1, <3>2
  <2> QED BY <2>1, <2>2
<1> QED BY <1>1, <1>3, <1>4

\* Each poll of a whole log leaves the console with every line.
LEMMA PollShowsAll ==
  ASSUME StreamInv, NEW v \in Viewer, Poll(v), Whole
  PROVE  view'[v].sent = [i \in 1 .. logged |-> i]
<1>1. LogInv' /\ logged' = logged /\ log' = log /\ sentinel' = sentinel
  BY PollKeeps DEF StreamInv, Poll
<1>2. PICK n \in Nat, t \in Seq(Line) : n = Len(log) /\ t = view'[v].sent
  BY <1>1, LogFacts DEF StreamInv, LogInv, LogTypeOK
<1>3. view'[v].index = n
  <2>1. view[v].index \in Nat /\ view[v].index <= Len(log)
    BY DEF StreamInv, LogInv, LogTypeOK, InStep, Whole
  <2>2. view'[v].index = IF view[v].index < Len(log) THEN Len(log) ELSE view[v].index
    BY DEF Poll, StreamInv, LogInv, LogTypeOK
  <2> QED BY <1>2, <2>1, <2>2
<1>4. Len(t) = n /\ \A i \in 1 .. n : t[i] = log[i]
  <2>1. InStep(v)'
    BY <1>1 DEF LogInv
  <2> QED BY <1>1, <1>2, <1>3, <2>1 DEF InStep, Whole
<1>5. n = logged /\ \A i \in 1 .. n : t[i] = i
  BY <1>2, <1>4, WholeLog
<1>6. DOMAIN t = 1 .. n /\ t \in [1 .. n -> Line]
  BY <1>4, LenProperties
<1>7. t = [i \in 1 .. n |-> i]
  BY <1>5, <1>6
<1> QED BY <1>2, <1>5, <1>7

LEMMA OpenComes ==
  ASSUME StreamInv, NEW v \in Viewer, Open(v)
  PROVE  Stream!Come(v)
<1>1. LogInv /\ view[v].at = "off" /\ UNCHANGED <<log, logged, status, stage, sentinel>>
  BY DEF StreamInv, Open
<1>2. ConsoleAt[v] = "off" /\ ConsoleAt' = [ConsoleAt EXCEPT ![v] = "on"] /\ ConsoleShown' = ConsoleShown
  BY <1>1 DEF Open, ConsoleAt, ConsoleShown, LogInv, LogTypeOK
<1>3. Whole' = Whole /\ Decided' = Decided
  BY <1>1 DEF Whole, Decided
<1> QED BY <1>1, <1>2, <1>3 DEF Stream!Come

LEMMA PollLooks ==
  ASSUME StreamInv, NEW v \in Viewer, Poll(v)
  PROVE  Stream!Look(v)
<1>1. LogInv /\ LogInv' /\ UNCHANGED <<log, logged, status, stage, sentinel>> /\ view[v].at = "on"
  BY PollKeeps DEF StreamInv, Poll
<1>2. Whole' = Whole /\ Decided' = Decided
  BY <1>1 DEF Whole, Decided
<1>3. /\ ConsoleAt[v] = "on" /\ ConsoleShown[v] = view[v].sent /\ ConsoleShown'[v] = view'[v].sent
      /\ \A w \in Viewer \ {v} : ConsoleShown'[w] = ConsoleShown[w]
  BY <1>1 DEF Poll, ConsoleAt, ConsoleShown, LogInv, LogTypeOK
<1>4. ConsoleAt' = [ConsoleAt EXCEPT ![v] = IF Decided THEN "over" ELSE "on"]
  BY <1>1 DEF Poll, ConsoleAt, LogInv, LogTypeOK, Decided
<1>5. Stream!IsPrefix(ConsoleShown[v], ConsoleShown'[v])
  BY <1>1, <1>3, PollAdds DEF IsPrefix, Stream!IsPrefix
<1>6. Stream!Upward(ConsoleShown'[v]) /\ \A i \in 1 .. Len(ConsoleShown'[v]) : ConsoleShown'[v][i] <= logged
  BY <1>1, <1>3 DEF LogInv, InOrder, Stream!Upward
<1>7. Whole => ConsoleShown'[v] = [i \in 1 .. logged |-> i]
  BY <1>3, PollShowsAll
<1> QED BY <1>1, <1>2, <1>3, <1>4, <1>5, <1>6, <1>7 DEF Stream!Look

LEMMA AppendWrites ==
  ASSUME StreamInv, AppendLog, UNCHANGED <<status, sentinel, view>>
  PROVE  Stream!Write
<1>1. LogInv /\ logged' = logged + 1
  BY DEF StreamInv, AppendLog
<1>2. Decided' = Decided /\ ConsoleAt' = ConsoleAt /\ ConsoleShown' = ConsoleShown
  BY DEF Decided, ConsoleAt, ConsoleShown
<1> QED BY <1>1, <1>2, AppendLoses DEF Stream!Write

LEMMA StreamKeepsPromise ==
  ASSUME StreamInv, [LogNext]_logVars
  PROVE  [Stream!PNext]_(Stream!pvars)
<1>k. ASSUME UNCHANGED <<log, logged, sentinel, view>>, Decided' = Decided PROVE UNCHANGED Stream!pvars
  BY <1>k DEF Stream!pvars, Whole, ConsoleAt, ConsoleShown
<1>1. ASSUME InitTask \/ Return \/ UNCHANGED logVars PROVE UNCHANGED Stream!pvars
  <2>1. UNCHANGED <<log, logged, sentinel, view>>
    BY <1>1 DEF InitTask, Return, logVars
  <2>2. Decided' = Decided
    <3>1. CASE InitTask
      <4>1. status \in {"none", "running"} /\ status' = "running"
        BY <3>1 DEF InitTask, StreamInv
      <4> QED BY <4>1 DEF Decided, EndsStream
    <3>2. CASE status' = status
      BY <3>2 DEF Decided
    <3> QED BY <1>1, <3>1, <3>2 DEF Return, logVars
  <2> QED BY <1>k, <2>1, <2>2
<1>2. ASSUME LogLine \/ \E path \in {"ssh", "agent"} : PickPath(path) PROVE Stream!Write
  BY <1>2, AppendWrites DEF LogLine, PickPath
<1>3. CASE StashAcls
  <2>1. logged' = logged + 1 /\ Decided' = Decided /\ ConsoleAt' = ConsoleAt /\ ConsoleShown' = ConsoleShown
    BY <1>3 DEF StashAcls, Decided, ConsoleAt, ConsoleShown
  <2>2. ~Whole'
    BY <1>3 DEF StashAcls, Whole
  <2> QED BY <2>1, <2>2 DEF Stream!Write, Stream!PNext
<1>4. ASSUME TakeAcls PROVE UNCHANGED Stream!pvars
  <2>1. logged' = logged /\ status' = status /\ view' = view /\ sentinel' = 0
    BY <1>4 DEF TakeAcls
  <2>2. Whole' = Whole
    <3>1. CASE sentinel = 0
      BY <1>4, <2>1, <3>1 DEF TakeAcls, Whole
    <3>2. CASE sentinel # 0
      <4>1. ~Whole /\ ~Whole'
        BY <1>4, <3>2, TakenIsMissed DEF StreamInv, Whole
      <4> QED BY <4>1 DEF Whole
    <3> QED BY <3>1, <3>2
  <2> QED BY <2>1, <2>2 DEF Stream!pvars, Decided, ConsoleAt, ConsoleShown
<1>5. ASSUME NEW s \in Final, SetStatus(s) PROVE Stream!Decide \/ UNCHANGED Stream!pvars
  <2>1. UNCHANGED <<log, logged, sentinel, view>> /\ status' = s
    BY <1>5 DEF SetStatus
  <2>2. ~Decided
    BY <1>5 DEF SetStatus, StreamInv, Decided, EndsStream
  <2>3. CASE Decided'
    <3>1. Whole' = Whole /\ ConsoleAt' = ConsoleAt /\ ConsoleShown' = ConsoleShown
      BY <2>1 DEF Whole, ConsoleAt, ConsoleShown
    <3> QED BY <2>1, <2>2, <2>3, <3>1 DEF Stream!Decide
  <2>4. CASE ~Decided'
    <3>1. Decided' = Decided
      BY <2>2, <2>4 DEF Decided
    <3> QED BY <1>k, <2>1, <3>1
  <2> QED BY <2>3, <2>4
<1>6. ASSUME NEW v \in Viewer, Open(v) \/ Poll(v) PROVE Stream!Come(v) \/ Stream!Look(v)
  BY <1>6, OpenComes, PollLooks
<1> QED
  BY <1>1, <1>2, <1>3, <1>4, <1>5, <1>6 DEF LogNext, Deploy, Stream!PNext

\* Whatever is cut from the log, filtered out of it and polled when, the task and
\* its consoles do what StreamPromise allows: each of their steps logs a line,
\* decides, lets a follower come, looks for it, or goes unseen.
THEOREM TaskLogKeepsStreamPromise == LogSpec => KeepsStreamPromise
<1>1. LogInit => Stream!PInit
  <2> SUFFICES ASSUME LogInit PROVE Stream!PInit
    OBVIOUS
  <2>1. logged = 0 /\ log = <<>> /\ sentinel = 0 /\ Whole /\ ~Decided
    BY LogAssumption DEF LogInit, Whole, Decided, EndsStream
  <2>2. Whole = TRUE /\ Decided = FALSE
    BY <2>1 DEF Whole, Decided
  <2>3. ConsoleAt = [v \in Viewer |-> "off"] /\ ConsoleShown = [v \in Viewer |-> <<>>]
    BY DEF LogInit, ConsoleAt, ConsoleShown
  <2> QED BY <2>1, <2>2, <2>3 DEF Stream!PInit
<1>2. StreamInv /\ [LogNext]_logVars => [Stream!PNext]_(Stream!pvars)
  BY StreamKeepsPromise
<1> QED BY <1>1, <1>2, StreamInvariant, PTL DEF LogSpec, KeepsStreamPromise, Stream!PSafety

=============================================================================
