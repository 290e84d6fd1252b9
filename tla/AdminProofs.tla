---------------------------- MODULE AdminProofs ----------------------------
(***************************************************************************)
(* What Topics, Access and Linking promise, for any topics, users,         *)
(* permissions, links, hosts, settings and requests.                       *)
(*                                                                         *)
(* Topics: a list the cache held when a topic was created or deleted is    *)
(* not served once that is confirmed.  ListIsCurrent is not inductive: a   *)
(* list becomes the cache's only after it was read, so what a thread holds *)
(* in between, which the drop does not reach, has to be accounted for too. *)
(* OnTheWay says so.                                                       *)
(*                                                                         *)
(* Access: the rows and the trail tell what the cluster has, so far as the *)
(* requests about a user or a permission did not overlap or die.  Neither  *)
(* is inductive, for a request applies its change first and commits the    *)
(* rows and the trail after it.  UserHolds and GrantHolds say, for what no *)
(* two requests have fought over, how far its one request has got: what it *)
(* has applied is the cluster's, and what the rows tell is what was before *)
(* it or, once it has committed, what it has made.  RowsKnown is needed    *)
(* because a rotation finds its row before it runs the command.            *)
(*                                                                         *)
(* Linking: that a row called running has its MirrorMaker kept up is not   *)
(* inductive: a request writes the row from the state it has loaded, and   *)
(* the host from the settings it has loaded.  The invariant ties a request *)
(* that was never disturbed to the row it works on, the file it has        *)
(* installed to the settings it has loaded, and a host to the links placed *)
(* on it.                                                                  *)
(***************************************************************************)
EXTENDS Topics, Access, Linking, TLAPS

-----------------------------------------------------------------------------
(* Topics: the list and its cache.                                         *)

\* A list on its way to the cache is how Kafka is, but for topics changed since.
OnTheWay ==
    \A r \in TopicRequest : call[r].at = "fetched" =>
        \A t \in Topic : Agrees(call[r].list, t) \/ t \in call[r].missed

TopicsInv == TopicsTypeOK /\ OnTheWay /\ ListIsCurrent

-----------------------------------------------------------------------------
(* The records a thread may hold.                                          *)

LEMMA NoTopicListed == NoTopic \in Listing
  BY TopicsAssumption DEF NoTopic, Listing

LEMMA NoCacheTyped == NoCache \in Cache
  BY NoTopicListed DEF NoCache, Cache

\* A thread at rest, or at a step of a validation, is well typed and holds no list.
LEMMA RestingTyped == Resting \in Call /\ Resting.at = "idle" /\ Resting.missed = {}
  BY NoTopicListed, TopicsAssumption DEF Resting, Call

LEMMA ValidatingTyped ==
  ASSUME NEW at \in {"fetch", "create", "probe", "delete"}
  PROVE  Validating(at) \in Call /\ Validating(at).at = at
  BY RestingTyped DEF Validating, Call

LEMMA AfterTyped ==
  ASSUME NEW r \in TopicRequest, NEW deleted \in BOOLEAN
  PROVE  After(r, deleted) \in Call /\ After(r, deleted).at \in {"idle", "probe"}
  BY RestingTyped, ValidatingTyped DEF After

\* Overtaken writes the next state of one thread and adds to what the others missed.
LEMMA OvertakenTyped ==
  ASSUME call \in [TopicRequest -> Call], NEW r \in TopicRequest, NEW t \in Topic, NEW next \in Call
  PROVE  /\ Overtaken(r, t, next) \in [TopicRequest -> Call]
         /\ Overtaken(r, t, next)[r] = next
         /\ \A q \in TopicRequest \ {r} :
              /\ Overtaken(r, t, next)[q].at = call[q].at
              /\ Overtaken(r, t, next)[q].topic = call[q].topic
              /\ Overtaken(r, t, next)[q].list = call[q].list
              /\ Overtaken(r, t, next)[q].missed = call[q].missed \cup {t}
  BY DEF Overtaken, Call

-----------------------------------------------------------------------------
(* Initial states and steps.                                               *)

LEMMA TopicsStart == TopicsInit => TopicsInv
<1> SUFFICES ASSUME TopicsInit PROVE TopicsInv
  OBVIOUS
<1>1. TopicsTypeOK
  BY NoTopicListed, NoCacheTyped, RestingTyped DEF TopicsInit, TopicsTypeOK
<1>2. OnTheWay
  BY RestingTyped DEF TopicsInit, OnTheWay
<1>3. ListIsCurrent
  BY DEF TopicsInit, ListIsCurrent, NoCache
<1> QED BY <1>1, <1>2, <1>3 DEF TopicsInv

\* One thread goes on, Kafka and the cache stay, and what it holds of a list is right.
LEMMA OneThreadMoves ==
  ASSUME TopicsInv, NEW r \in TopicRequest, NEW next \in Call,
         call' = [call EXCEPT ![r] = next], UNCHANGED <<kind, topics, cache>>,
         call[r].at # "changed",
         next.at = "fetched" => \A t \in Topic : Agrees(next.list, t) \/ t \in next.missed
  PROVE  TopicsInv'
<1>1. TopicsTypeOK'
  BY DEF TopicsInv, TopicsTypeOK
<1>2. \A q \in TopicRequest : call'[q] = IF q = r THEN next ELSE call[q]
  BY DEF TopicsInv, TopicsTypeOK
<1>3. OnTheWay'
  BY <1>2 DEF TopicsInv, OnTheWay, Agrees
<1>4. ListIsCurrent'
  <2> SUFFICES ASSUME cache.held, NEW t \in Topic,
                      ~Agrees(cache.list, t), t \notin cache.missed
               PROVE  \E q \in TopicRequest : call'[q].at = "changed" /\ call'[q].topic = t
    BY DEF ListIsCurrent, Agrees
  <2>1. PICK q \in TopicRequest : call[q].at = "changed" /\ call[q].topic = t
    BY DEF TopicsInv, ListIsCurrent
  <2> QED BY <1>2, <2>1
<1> QED BY <1>1, <1>3, <1>4 DEF TopicsInv

\* A change of topic t by thread r, as every other thread sees it.
LEMMA ChangeSeen ==
  ASSUME TopicsInv, NEW r \in TopicRequest, NEW t \in Topic, NEW n \in 0 .. MaxPartitions, NEW next \in Call,
         topics' = [topics EXCEPT ![t] = n], call' = Overtaken(r, t, next), UNCHANGED kind,
         next.at # "fetched", call[r].at # "changed",
         \/ UNCHANGED cache /\ next.at = "changed" /\ next.topic = t
         \/ Unnoticed(t)
  PROVE  TopicsInv'
<1> USE DEF TopicsInv
<1>1. TopicsTypeOK'
  <2>1. topics' \in Listing
    BY DEF TopicsTypeOK, Listing
  <2>2. call' \in [TopicRequest -> Call]
    BY OvertakenTyped DEF TopicsTypeOK
  <2>3. cache' \in Cache
    BY DEF Unnoticed, TopicsTypeOK, Cache
  <2> QED BY <2>1, <2>2, <2>3 DEF TopicsTypeOK
<1>2. /\ call'[r] = next
      /\ \A q \in TopicRequest \ {r} : /\ call'[q].at = call[q].at /\ call'[q].topic = call[q].topic
                                       /\ call'[q].list = call[q].list
                                       /\ call'[q].missed = call[q].missed \cup {t}
  BY OvertakenTyped DEF TopicsTypeOK
<1>3. \A u \in Topic \ {t} : topics'[u] = topics[u]
  BY DEF TopicsTypeOK, Listing
<1>4. OnTheWay'
  <2> SUFFICES ASSUME NEW q \in TopicRequest, call'[q].at = "fetched", NEW u \in Topic
               PROVE  Agrees(call[q].list, u)' \/ u \in call'[q].missed
    BY DEF OnTheWay, Agrees
  <2>1. q # r
    BY <1>2
  <2>2. CASE u = t
    BY <1>2, <2>1, <2>2
  <2>3. CASE u # t
    BY <1>2, <1>3, <2>1, <2>3 DEF OnTheWay, Agrees
  <2> QED BY <2>2, <2>3
<1>5. ListIsCurrent'
  <2> SUFFICES ASSUME cache'.held, NEW u \in Topic
               PROVE  \/ Agrees(cache.list, u)'
                      \/ u \in cache'.missed
                      \/ \E q \in TopicRequest : call'[q].at = "changed" /\ call'[q].topic = u
    BY DEF ListIsCurrent
  <2>1. cache'.held = cache.held /\ cache'.list = cache.list /\ cache.missed \subseteq cache'.missed
    BY DEF Unnoticed, TopicsTypeOK, Cache
  <2>2. CASE u = t
    BY <1>2, <2>1, <2>2 DEF Unnoticed, TopicsTypeOK, Cache
  <2>3. CASE u # t
    <3>1. CASE Agrees(cache.list, u)
      BY <1>3, <2>1, <2>3, <3>1 DEF Agrees
    <3>2. CASE u \in cache.missed
      BY <2>1, <3>2
    <3>3. CASE \E q \in TopicRequest : call[q].at = "changed" /\ call[q].topic = u
      BY <1>2, <3>3
    <3> QED BY <2>1, <3>1, <3>2, <3>3 DEF ListIsCurrent
  <2> QED BY <2>2, <2>3
<1> QED BY <1>1, <1>4, <1>5

\* The cache is emptied: nothing is served, and lists on their way stay as they were.
LEMMA CacheDropped ==
  ASSUME TopicsInv, cache' = NoCache, UNCHANGED topics, TopicsTypeOK',
         \A r \in TopicRequest : call'[r] = call[r] \/ call'[r].at # "fetched"
  PROVE  TopicsInv'
<1>1. OnTheWay'
  BY DEF TopicsInv, OnTheWay, Agrees
<1>2. ListIsCurrent'
  BY DEF ListIsCurrent, NoCache
<1> QED BY <1>1, <1>2 DEF TopicsInv

\* Every step keeps the invariant.
LEMMA TopicsKept == TopicsInv /\ [TopicsNext]_topicsVars => TopicsInv'
<1> SUFFICES ASSUME TopicsInv, [TopicsNext]_topicsVars PROVE TopicsInv'
  OBVIOUS
<1> USE DEF TopicsInv
<1>1. ASSUME NEW r \in TopicRequest, List(r) PROVE TopicsInv'
  <2>1. [Resting EXCEPT !.at = "fetch"] \in Call /\ [Resting EXCEPT !.at = "fetch"].at = "fetch"
    BY RestingTyped DEF Call
  <2> QED BY <1>1, <2>1, OneThreadMoves DEF List
<1>2. ASSUME NEW r \in TopicRequest, ReadTopics(r) PROVE TopicsInv'
  <2>1. PICK l \in Answer : call' = [call EXCEPT ![r] =
                                       [call[r] EXCEPT !.at = "fetched", !.list = l, !.missed = {}]]
    BY <1>2 DEF ReadTopics
  <2> DEFINE next == [call[r] EXCEPT !.at = "fetched", !.list = l, !.missed = {}]
  <2>2. l \in Listing /\ \A t \in Topic : Agrees(l, t)
    <3>1. [topics EXCEPT ![TestTopic] = 0] \in Listing
      BY TopicsAssumption DEF TopicsTypeOK, Listing
    <3>2. \A t \in Topic : [topics EXCEPT ![TestTopic] = 0][t] = IF t = TestTopic THEN 0 ELSE topics[t]
      BY DEF TopicsTypeOK, Listing
    <3> QED BY <3>1, <3>2 DEF Answer, Agrees, TopicsTypeOK
  <2>3. next \in Call /\ next.list = l
    BY <2>2 DEF TopicsTypeOK, Call
  <2>4. \A t \in Topic : Agrees(next.list, t)
    BY <2>2, <2>3
  <2>5. /\ call' = [call EXCEPT ![r] = next] /\ UNCHANGED <<kind, topics, cache>>
        /\ call[r].at # "changed"
    BY <1>2, <2>1 DEF ReadTopics
  <2> HIDE DEF next
  <2> QED BY <2>3, <2>4, <2>5, OneThreadMoves
<1>3. ASSUME NEW r \in TopicRequest, StoreList(r) PROVE TopicsInv'
  <2> DEFINE next == IF call[r].validating THEN Validating("create") ELSE Resting
  <2>1. next \in Call /\ next.at \in {"create", "idle"}
    BY ValidatingTyped, RestingTyped
  <2>2. call' = [call EXCEPT ![r] = next] /\ UNCHANGED <<kind, topics>>
    BY <1>3 DEF StoreList
  <2>3. CASE UNCHANGED cache
    BY <1>3, <2>1, <2>2, <2>3, OneThreadMoves DEF StoreList
  <2>4. CASE cache' = [held |-> TRUE, list |-> call[r].list, missed |-> call[r].missed]
    <3>1. TopicsTypeOK'
      BY <2>1, <2>2, <2>4 DEF TopicsTypeOK, Call, Cache
    <3>2. OnTheWay'
      BY <2>1, <2>2 DEF OnTheWay, Agrees, TopicsTypeOK
    <3>3. ListIsCurrent'
      BY <1>3, <2>2, <2>4 DEF StoreList, OnTheWay, ListIsCurrent, Agrees
    <3> QED BY <3>1, <3>2, <3>3
  <2> QED BY <1>3, <2>3, <2>4 DEF StoreList
<1>4. ASSUME NEW r \in TopicRequest, ReadFails(r) PROVE TopicsInv'
  BY <1>4, RestingTyped, OneThreadMoves DEF ReadFails
<1>5. ASSUME NEW r \in TopicRequest, Validate(r) PROVE TopicsInv'
  <2>1. PICK at \in {"create", "fetch"} : call' = [call EXCEPT ![r] = Validating(at)]
    BY <1>5 DEF Validate
  <2> QED BY <1>5, <2>1, ValidatingTyped, OneThreadMoves DEF Validate
<1>6. ASSUME NEW r \in TopicRequest, NEW t \in Topic, NEW n \in 0 .. MaxPartitions,
             NEW op \in {"create", "delete", "increase"}, RunChange(r, op, t, n)
      PROVE  TopicsInv'
  <2>1. call[r].at # "changed"
    BY <1>6 DEF RunChange, Due
  <2>2. CASE DropsList(r, op)
    <3> DEFINE next == [Resting EXCEPT !.at = "changed", !.topic = t, !.validating = call[r].validating,
                                       !.deleted = (n = 0)]
    <3>1. next \in Call /\ next.at = "changed" /\ next.topic = t
      BY RestingTyped DEF Call, TopicsTypeOK
    <3> QED BY <1>6, <2>1, <2>2, <3>1, ChangeSeen DEF RunChange
  <2>3. CASE ~DropsList(r, op)
    BY <1>6, <2>1, <2>3, AfterTyped, ChangeSeen DEF RunChange
  <2> QED BY <2>2, <2>3
<1>7. ASSUME NEW r \in TopicRequest, NEW t \in Topic, NEW n \in 0 .. MaxPartitions,
             NEW op \in {"create", "delete", "increase"}, RunUnheard(r, op, t, n)
      PROVE  TopicsInv'
  <2>1. call[r].at # "changed"
    BY <1>7 DEF RunUnheard, Due
  <2>2. PICK next \in {Resting, Validating("probe")} : call' = Overtaken(r, t, next)
    BY <1>7 DEF RunUnheard
  <2> QED BY <1>7, <2>1, <2>2, RestingTyped, ValidatingTyped, ChangeSeen DEF RunUnheard
<1>8. ASSUME NEW r \in TopicRequest, RunRefused(r) PROVE TopicsInv'
  <2>1. PICK next \in {Resting, Validating("probe")} : call' = [call EXCEPT ![r] = next]
    BY <1>8 DEF RunRefused
  <2> QED BY <1>8, <2>1, RestingTyped, ValidatingTyped, OneThreadMoves DEF RunRefused
<1>9. ASSUME NEW r \in TopicRequest, DropCache(r) PROVE TopicsInv'
  <2>1. After(r, call[r].deleted) \in Call /\ After(r, call[r].deleted).at # "fetched"
    BY AfterTyped DEF TopicsTypeOK, Call
  <2>2. TopicsTypeOK'
    BY <1>9, <2>1, NoCacheTyped DEF DropCache, TopicsTypeOK
  <2> QED BY <1>9, <2>1, <2>2, CacheDropped DEF DropCache, TopicsTypeOK
<1>10. ASSUME NEW r \in TopicRequest, Probe(r) PROVE TopicsInv'
  BY <1>10, RestingTyped, ValidatingTyped, OneThreadMoves DEF Probe
<1>11. CASE Expire
  <2>1. TopicsTypeOK'
    BY <1>11, NoCacheTyped DEF Expire, TopicsTypeOK
  <2> QED BY <1>11, <2>1, CacheDropped DEF Expire
<1>12. CASE Restart
  <2>1. TopicsTypeOK'
    BY <1>12, NoCacheTyped, RestingTyped DEF Restart, TopicsTypeOK
  <2> QED BY <1>12, <2>1, RestingTyped, CacheDropped DEF Restart
<1>13. CASE UNCHANGED topicsVars
  BY <1>13 DEF topicsVars, TopicsTypeOK, OnTheWay, ListIsCurrent, Agrees
<1> QED BY <1>1, <1>2, <1>3, <1>4, <1>5, <1>6, <1>7, <1>8, <1>9, <1>10, <1>11, <1>12, <1>13
        DEF TopicsNext, TopicsStep, ChangeTopic

-----------------------------------------------------------------------------
(* Theorems.                                                               *)

\* Every reachable state of Topics is well typed.
THEOREM TopicsTyped == TopicsSpec => []TopicsTypeOK
<1>1. TopicsInv => TopicsTypeOK
  BY DEF TopicsInv
<1> QED BY <1>1, TopicsStart, TopicsKept, PTL DEF TopicsSpec

\* However many threads list, create and delete topics, a list that the cache of list_topics
\* held when one was created or deleted is not served once that is confirmed.  What can
\* hide it, until it expires, is a list read before and stored after the drop, and a change
\* that drops nothing: more partitions, an external validation's, one reported as failed.
THEOREM ServedListUpToRaces == TopicsSpec => []ListIsCurrent
<1>1. TopicsInv => ListIsCurrent
  BY DEF TopicsInv
<1> QED BY <1>1, TopicsStart, TopicsKept, PTL DEF TopicsSpec

-----------------------------------------------------------------------------
(* Access: rows, credentials, permissions and the trail.                   *)

\* Requests that overlap lead what they are about astray, so that it has one at most.
Single ==
    \A s \in (UserName \cup Grant) \ astray, r, q \in AccessRequest :
        Active(r) /\ Active(q) /\ s \in Subject(r) /\ s \in Subject(q) => r = q

RequestFits(r) ==
    /\ access[r].left \subseteq access[r].asked
    /\ OnUser(r) => access[r].asked = {}
    /\ access[r].at = "commit" /\ ~OnUser(r) => access[r].left = {}
    /\ access[r].op = "rotate" => access[r].row = r \/ access[access[r].row].at = "done"

\* A row is named by the request that made it, and keeps user and mechanism.
RowsKnown ==
    /\ \A row \in rows : access[row.id].at = "done"
    /\ \A row, other \in rows : row.id = other.id => row = other
    /\ \A r \in AccessRequest, row \in rows :
         Active(r) /\ access[r].op = "rotate" /\ row.id = access[r].row =>
           row.username = access[r].username /\ row.mechanism = access[r].mechanism

KeptRows(u, m) == {row \in rows : row.username = u /\ row.mechanism = m}

UserWorks(r, u) == Active(r) /\ OnUser(r) /\ access[r].username = u

\* Request r has done its part to the credential of u under m, and has not committed.
Touched(r, u, m) ==
    /\ UserWorks(r, u)
    /\ IF access[r].op = "delete"
       THEN access[r].at = "commit" \/ (access[r].step = 2 /\ m = Mechanisms[1])
       ELSE access[r].at = "commit" /\ access[r].mechanism = m

OneCredential(u, m) == \A row, other \in KeptRows(u, m) : row = other
Agreed(u, m) ==
    /\ OneCredential(u, m)
    /\ \A row \in KeptRows(u, m) : row.password = credentials[u][m]
    /\ credentials[u][m] # NoPassword => KeptRows(u, m) # {}
HasRow(r, u, m) == \E row \in KeptRows(u, m) : row.id = access[r].row
PartWay(r, u, m) ==
    /\ access[r].op = "delete" => credentials[u][m] = NoPassword
    /\ access[r].op = "create" => credentials[u][m] = r /\ KeptRows(u, m) = {}
    /\ access[r].op = "rotate" => credentials[u][m] = r /\ OneCredential(u, m) /\ HasRow(r, u, m)
Rotates(r, u, m) ==
    /\ UserWorks(r, u)
    /\ access[r].op = "rotate" /\ access[r].at = "run" /\ access[r].row # r
    /\ access[r].mechanism = m
UserHolds(u) ==
    \A m \in Mechanism :
        /\ (\A r \in AccessRequest : ~Touched(r, u, m)) => Agreed(u, m)
        /\ \A r \in AccessRequest : Touched(r, u, m) => PartWay(r, u, m)
        /\ \A r \in AccessRequest : Rotates(r, u, m) => HasRow(r, u, m)
UsersHold == \A u \in UserName \ astray : UserHolds(u)

\* What a request has applied of its permissions holds, the others are as they were.
Through(r) == IF Active(r) THEN access[r].asked \ access[r].left ELSE {}
GrantHolds(g) ==
    /\ (\A r \in AccessRequest : g \notin Through(r)) => (g \in acls <=> trail[g] = "acl_created")
    /\ \A r \in AccessRequest : g \in Through(r) => (g \in acls <=> access[r].op = "grant")
GrantsHold == \A g \in Grant \ astray : GrantHolds(g)

AccessInv == /\ AccessTypeOK /\ Single /\ (\A r \in AccessRequest : RequestFits(r))
             /\ RowsKnown /\ UsersHold /\ GrantsHold

-----------------------------------------------------------------------------
(* Types.                                                                  *)

LEMMA MechanismsTwo ==
  /\ Mechanisms[1] = "SCRAM-SHA-256" /\ Mechanisms[2] = "SCRAM-SHA-512" /\ Len(Mechanisms) = 2
  /\ Mechanism = {"SCRAM-SHA-256", "SCRAM-SHA-512"}
BY DEF Mechanisms, Mechanism

LEMMA NothingTyped ==
  ASSUME NEW r \in AccessRequest, NEW at \in {"idle", "run", "done"}
  PROVE  /\ Nothing(r, at) \in Access
         /\ Nothing(r, at).at = at /\ Nothing(r, at).op = "create" /\ Nothing(r, at).row = r
         /\ Nothing(r, at).asked = {} /\ Nothing(r, at).left = {} /\ Nothing(r, at).step = 1
<1>1. SomeUser \in UserName
  BY AccessAssumption DEF SomeUser
<1> QED BY <1>1, MechanismsTwo DEF Nothing, Access

LEMMA AccessInitInv == AccessInit => AccessInv
<1> SUFFICES ASSUME AccessInit PROVE AccessInv
  OBVIOUS
<1>1. \A r \in AccessRequest : access[r] = Nothing(r, "idle")
  BY DEF AccessInit
<1>2. AccessTypeOK
  BY NothingTyped DEF AccessInit, AccessTypeOK
<1>3. \A r \in AccessRequest : ~Active(r) /\ RequestFits(r)
  BY <1>1, NothingTyped DEF Active, RequestFits, OnUser
<1>4. Single /\ RowsKnown
  BY <1>3 DEF Single, RowsKnown, AccessInit
<1>5. UsersHold
  BY <1>3 DEF UsersHold, UserHolds, Touched, Rotates, UserWorks, Agreed, OneCredential, KeptRows, AccessInit
<1>6. GrantsHold
  BY <1>3 DEF GrantsHold, GrantHolds, Through, AccessInit
<1> QED BY <1>2, <1>3, <1>4, <1>5, <1>6 DEF AccessInv

-----------------------------------------------------------------------------
(* What a step of one request leaves alone.                                *)

\* It goes on with what it is about, or ends; the others wait.
Advances(r) ==
    /\ \A q \in AccessRequest : q # r => access'[q] = access[q]
    /\ access'[r] = Nothing(r, "done")
       \/ /\ access'[r].at \in {"run", "commit"}
          /\ \A f \in {"op", "username", "mechanism", "row", "asked"} : access'[r][f] = access[r][f]

LEMMA AdvanceKeeps ==
  ASSUME AccessInv, NEW r \in AccessRequest, Active(r), Advances(r), astray \subseteq astray',
         access'[r].left \subseteq access[r].left,
         access'[r].at = "commit" /\ ~OnUser(r) => access'[r].left = {}
  PROVE  Single' /\ \A q \in AccessRequest : RequestFits(q)'
<1>1. /\ Active(r)' => Subject(r)' = Subject(r) /\ OnUser(r)' = OnUser(r)
      /\ \A q \in AccessRequest : q # r => /\ Active(q)' = Active(q) /\ Subject(q)' = Subject(q)
                                           /\ OnUser(q)' = OnUser(q)
  BY NothingTyped DEF Advances, Active, Subject, OnUser
<1>2. Single'
  BY <1>1 DEF AccessInv, Single
<1>3. ASSUME NEW q \in AccessRequest PROVE RequestFits(q)'
  <2>1. RequestFits(q) /\ access[q] \in Access
    BY DEF AccessInv, AccessTypeOK
  <2>2. access[q].row \in AccessRequest
    BY <2>1 DEF Access
  <2>3. \A p \in AccessRequest : access[p].at = "done" => access'[p].at = "done"
    BY DEF Advances, Active
  <2>4. CASE q # r
    BY <1>1, <2>1, <2>2, <2>3, <2>4 DEF RequestFits, Advances
  <2>5. CASE q = r /\ access'[r] = Nothing(r, "done")
    BY <2>5, NothingTyped DEF RequestFits, OnUser
  <2>6. CASE q = r /\ access'[r].at \in {"run", "commit"} /\ access'[r] # Nothing(r, "done")
    BY <1>1, <2>1, <2>2, <2>3, <2>6 DEF RequestFits, Advances, Active
  <2> QED BY <2>4, <2>5, <2>6 DEF Advances
<1> QED BY <1>2, <1>3

\* A user the step is not about, before it or after.
LEMMA OtherUser ==
  ASSUME AccessTypeOK, NEW r \in AccessRequest, NEW u \in UserName, UserHolds(u),
         \A q \in AccessRequest : q # r => access'[q] = access[q],
         ~UserWorks(r, u), ~UserWorks(r, u)', credentials'[u] = credentials[u],
         \A m \in Mechanism : KeptRows(u, m)' = KeptRows(u, m)
  PROVE  UserHolds(u)'
<1> SUFFICES ASSUME NEW m \in Mechanism
             PROVE  /\ (\A q \in AccessRequest : ~Touched(q, u, m)') => Agreed(u, m)'
                    /\ \A q \in AccessRequest : Touched(q, u, m)' => PartWay(q, u, m)'
                    /\ \A q \in AccessRequest : Rotates(q, u, m)' => HasRow(q, u, m)'
  BY DEF UserHolds
<1>1. ASSUME NEW q \in AccessRequest
      PROVE  /\ Touched(q, u, m)' <=> Touched(q, u, m)
             /\ Rotates(q, u, m)' <=> Rotates(q, u, m)
  <2>1. CASE q = r
    BY <2>1 DEF Touched, Rotates
  <2>2. CASE q # r
    BY <2>2 DEF Touched, Rotates, UserWorks, Active, OnUser
  <2> QED BY <2>1, <2>2
<1>2. Agreed(u, m)' <=> Agreed(u, m)
  BY DEF Agreed, OneCredential
<1>3. ASSUME NEW q \in AccessRequest, q # r
      PROVE  /\ PartWay(q, u, m)' <=> PartWay(q, u, m)
             /\ HasRow(q, u, m)' <=> HasRow(q, u, m)
  BY <1>3 DEF PartWay, HasRow, OneCredential
<1>4. ~Touched(r, u, m) /\ ~Rotates(r, u, m)
  BY DEF Touched, Rotates
<1> QED BY <1>1, <1>2, <1>3, <1>4 DEF UserHolds

\* The user the step is about is nobody else's business, unless it is astray.
LEMMA OwnUser ==
  ASSUME AccessInv, NEW r \in AccessRequest, NEW u \in UserName \ astray, UserWorks(r, u),
         NEW q \in AccessRequest, q # r
  PROVE  ~UserWorks(q, u)
BY DEF AccessInv, Single, UserWorks, Subject

LEMMA OtherGrant ==
  ASSUME NEW r \in AccessRequest, NEW g \in Grant, GrantHolds(g),
         \A q \in AccessRequest : q # r => access'[q] = access[q],
         g \notin Through(r), g \notin Through(r)', (g \in acls') <=> (g \in acls), trail'[g] = trail[g]
  PROVE  GrantHolds(g)'
<1>1. \A q \in AccessRequest : q # r => Through(q)' = Through(q)
  BY DEF Through, Active
<1> QED BY <1>1 DEF GrantHolds

\* Of users, those that share no row with what the step writes.
LEMMA SameRows ==
  ASSUME rows' = rows
  PROVE  \A u \in UserName, m \in Mechanism : KeptRows(u, m)' = KeptRows(u, m)
BY DEF KeptRows

\* Rows stay, and the names they go by.
LEMMA RowsStayKnown ==
  ASSUME AccessInv, NEW r \in AccessRequest, Active(r), Advances(r), rows' = rows
  PROVE  RowsKnown'
<1>1. \A row \in rows : row.id \in AccessRequest /\ row.id # r
  BY DEF AccessInv, RowsKnown, AccessTypeOK, KafkaUser, Active
<1>2. \A q \in AccessRequest :
        Active(q)' /\ access'[q].op = "rotate" =>
          /\ Active(q) /\ access[q].op = "rotate" /\ access'[q].row = access[q].row
          /\ access'[q].username = access[q].username /\ access'[q].mechanism = access[q].mechanism
  BY NothingTyped DEF Advances, Active
<1>3. \A row \in rows : access'[row.id] = access[row.id]
  BY <1>1 DEF Advances
<1> QED BY <1>2, <1>3 DEF AccessInv, RowsKnown

-----------------------------------------------------------------------------
(* A request begins.                                                       *)

LEMMA RequestKeeps ==
  ASSUME AccessInv, NEW r \in AccessRequest, NEW next \in Access, Request(r, next),
         next.at = "run", next.step = 1, next.left = next.asked,
         next.op \in {"create", "rotate", "delete"} => next.asked = {},
         next.op = "rotate" => next.row = r \/ \E row \in rows :
           row.id = next.row /\ row.username = next.username /\ row.mechanism = next.mechanism
  PROVE  AccessInv'
<1> DEFINE subject == IF next.op \in {"grant", "revoke"} THEN next.asked ELSE {next.username}
<1>1. /\ access[r].at = "idle" /\ access' = [access EXCEPT ![r] = next]
      /\ astray' = astray \cup {s \in subject : \E q \in AccessRequest : Active(q) /\ s \in Subject(q)}
      /\ UNCHANGED <<owner, credentials, rows, acls, trail>>
  BY DEF Request
<1>2. /\ access'[r] = next /\ \A q \in AccessRequest : q # r => access'[q] = access[q]
      /\ ~Active(r) /\ Active(r)' /\ (OnUser(r)' <=> next.op \in {"create", "rotate", "delete"})
  BY <1>1 DEF AccessInv, AccessTypeOK, Active, OnUser
<1>3. Subject(r)' = subject /\ subject \subseteq UserName \cup Grant
  BY <1>2 DEF Subject, OnUser, Access
<1>4. AccessTypeOK'
  BY <1>1, <1>3 DEF AccessInv, AccessTypeOK
<1>5. Single'
  <2> SUFFICES ASSUME NEW s \in (UserName \cup Grant) \ astray', NEW p \in AccessRequest,
                      NEW q \in AccessRequest, Active(p)', Active(q)', s \in Subject(p)', s \in Subject(q)'
               PROVE  p = q
    BY DEF Single
  <2>1. \A c \in AccessRequest : c # r => (Active(c)' <=> Active(c)) /\ Subject(c)' = Subject(c)
    BY <1>2 DEF Active, Subject, OnUser
  <2>2. s \notin astray /\ \A c \in AccessRequest : c # r /\ Active(c) /\ s \in Subject(c) => s \notin subject
    BY <1>1
  <2> QED BY <1>3, <2>1, <2>2 DEF AccessInv, Single
<1>6. ASSUME NEW q \in AccessRequest PROVE RequestFits(q)'
  <2>1. \A p \in AccessRequest : access[p].at = "done" => access'[p].at = "done"
    BY <1>1, <1>2
  <2>2. CASE q = r
    <3>1. next.op = "rotate" => next.row = r \/ (access[next.row].at = "done" /\ next.row \in AccessRequest)
      BY DEF AccessInv, RowsKnown, Access
    <3> QED BY <1>2, <2>1, <2>2, <3>1 DEF RequestFits
  <2>3. CASE q # r
    <3>1. RequestFits(q) /\ access[q].row \in AccessRequest
      BY DEF AccessInv, AccessTypeOK, Access
    <3> QED BY <1>2, <2>1, <2>3, <3>1 DEF RequestFits, OnUser
  <2> QED BY <2>2, <2>3
<1>7. RowsKnown'
  <2>1. \A row \in rows : row.id \in AccessRequest /\ access[row.id].at = "done"
    BY DEF AccessInv, RowsKnown, AccessTypeOK, KafkaUser
  <2>2. \A row \in rows : access'[row.id].at = "done" /\ row.id # r
    BY <1>1, <1>2, <2>1
  <2>3. next.op = "rotate" => \A row \in rows : row.id = next.row =>
          row.username = next.username /\ row.mechanism = next.mechanism
    BY <2>2 DEF AccessInv, RowsKnown
  <2> QED BY <1>1, <1>2, <2>2, <2>3 DEF AccessInv, RowsKnown, Active
<1>8. ASSUME NEW u \in UserName \ astray' PROVE UserHolds(u)'
  <2>1. UserHolds(u) /\ u \notin astray /\ AccessTypeOK
    BY <1>1 DEF AccessInv, UsersHold
  <2>2. CASE ~UserWorks(r, u)'
    BY <1>1, <1>2, <2>1, <2>2, OtherUser, SameRows DEF UserWorks
  <2>3. CASE UserWorks(r, u)'
    <3>1. \A q \in AccessRequest : q # r => ~UserWorks(q, u) /\ ~UserWorks(q, u)'
      BY <1>1, <1>2, <1>3, <2>3 DEF UserWorks, Subject, OnUser, Active
    <3>2. \A m \in Mechanism, q \in AccessRequest : ~Touched(q, u, m) /\ ~Touched(q, u, m)'
      BY <1>2, <3>1 DEF Touched, UserWorks
    <3>3. \A m \in Mechanism : Agreed(u, m)'
      BY <1>1, <2>1, <3>2 DEF UserHolds, Agreed, OneCredential, KeptRows
    <3>4. \A m \in Mechanism, q \in AccessRequest : Rotates(q, u, m)' => HasRow(q, u, m)'
      BY <1>1, <1>2, <3>1 DEF Rotates, HasRow, UserWorks, KeptRows
    <3> QED BY <3>2, <3>3, <3>4 DEF UserHolds
  <2> QED BY <2>2, <2>3
<1>9. ASSUME NEW g \in Grant \ astray' PROVE GrantHolds(g)'
  <2>1. GrantHolds(g)
    BY <1>1 DEF AccessInv, GrantsHold
  <2>2. Through(r) = {} /\ Through(r)' = {}
    BY <1>2 DEF Through
  <2> QED BY <1>1, <1>2, <2>1, <2>2, OtherGrant
<1> QED BY <1>4, <1>5, <1>6, <1>7, <1>8, <1>9 DEF AccessInv, UsersHold, GrantsHold

LEMMA BeginKeeps ==
  ASSUME AccessInv, NEW r \in AccessRequest,
         CreateUser(r) \/ DeleteUser(r) \/ RotatePassword(r) \/ ChangeAcl(r)
  PROVE  AccessInv'
<1> DEFINE n == Nothing(r, "run")
<1>1. /\ n \in Access /\ n.at = "run" /\ n.step = 1 /\ n.asked = {} /\ n.left = {} /\ n.op = "create"
  BY NothingTyped
<1> HIDE DEF n
<1>2. CASE CreateUser(r)
  <2>1. PICK u \in UserName, m \in Mechanism : Request(r, [n EXCEPT !.username = u, !.mechanism = m])
    BY <1>2 DEF CreateUser, n
  <2>2. [n EXCEPT !.username = u, !.mechanism = m] \in Access
    BY <1>1 DEF Access
  <2> QED BY <1>1, <2>1, <2>2, RequestKeeps DEF Access
<1>3. CASE DeleteUser(r)
  <2>1. PICK u \in UserName : Request(r, [n EXCEPT !.op = "delete", !.username = u])
    BY <1>3 DEF DeleteUser, n
  <2>2. [n EXCEPT !.op = "delete", !.username = u] \in Access
    BY <1>1 DEF Access
  <2> QED BY <1>1, <2>1, <2>2, RequestKeeps DEF Access
<1>4. CASE RotatePassword(r)
  <2>0. PICK u \in UserName : \E found \in Found(r, u) :
          Request(r, [n EXCEPT !.op = "rotate", !.username = u, !.row = found[1], !.mechanism = found[2]])
    BY <1>4 DEF RotatePassword, n
  <2>1. PICK found \in Found(r, u) :
          Request(r, [n EXCEPT !.op = "rotate", !.username = u, !.row = found[1], !.mechanism = found[2]])
    BY <2>0
  <2> DEFINE next == [n EXCEPT !.op = "rotate", !.username = u, !.row = found[1], !.mechanism = found[2]]
  <2>2. \/ found[1] = r /\ found[2] \in Mechanism
        \/ \E row \in rows : row.username = u /\ found[1] = row.id /\ found[2] = row.mechanism
    <3>1. DefaultMechanism \in Mechanism
      BY MechanismsTwo DEF DefaultMechanism
    <3> QED BY <3>1 DEF Found, UsersNamed
  <2>3. found[1] \in AccessRequest /\ found[2] \in Mechanism
    BY <2>2 DEF AccessInv, AccessTypeOK, KafkaUser
  <2>4. /\ next \in Access /\ next.at = "run" /\ next.step = 1 /\ next.left = next.asked /\ next.asked = {}
        /\ next.row = found[1] /\ next.username = u /\ next.mechanism = found[2]
    BY <1>1, <2>3 DEF Access
  <2>5. next.row = r \/ \E row \in rows :
           row.id = next.row /\ row.username = next.username /\ row.mechanism = next.mechanism
    BY <2>2, <2>4
  <2> HIDE DEF next
  <2>6. Request(r, next)
    BY <2>1 DEF next
  <2> QED BY <2>4, <2>5, <2>6, RequestKeeps
<1>5. CASE ChangeAcl(r)
  <2>1. PICK op \in {"grant", "revoke"}, gs \in (SUBSET Grant) \ {{}} :
          Request(r, [n EXCEPT !.op = op, !.asked = gs, !.left = gs])
    BY <1>5 DEF ChangeAcl, n
  <2>2. [n EXCEPT !.op = op, !.asked = gs, !.left = gs] \in Access
    BY <1>1 DEF Access
  <2> QED BY <1>1, <2>1, <2>2, RequestKeeps DEF Access
<1> QED BY <1>2, <1>3, <1>4, <1>5

-----------------------------------------------------------------------------
(* Its end without a commit.                                               *)

\* Whatever a failed command or commit has left behind is astray.
LEMMA FailKeeps ==
  ASSUME AccessInv, NEW r \in AccessRequest, Active(r), Finish(r), AccessTypeOK',
         astray' = astray \cup Subject(r), rows' = rows, trail' = trail,
         \A u \in UserName : UserWorks(r, u) \/ credentials'[u] = credentials[u],
         \A g \in Grant : g \in Subject(r) \/ ((g \in acls') <=> (g \in acls))
  PROVE  AccessInv'
<1>1. /\ access'[r] = Nothing(r, "done") /\ \A q \in AccessRequest : q # r => access'[q] = access[q]
      /\ ~Active(r)' /\ access'[r].left = {}
  BY NothingTyped DEF AccessInv, AccessTypeOK, Finish, Active
<1>2. Advances(r)
  BY <1>1 DEF Advances
<1>3. Single' /\ \A q \in AccessRequest : RequestFits(q)'
  BY <1>1, <1>2, AdvanceKeeps, NothingTyped
<1>4. RowsKnown'
  BY <1>2, RowsStayKnown
<1>5. ASSUME NEW u \in UserName \ astray' PROVE UserHolds(u)'
  <2>1. UserHolds(u) /\ AccessTypeOK /\ ~UserWorks(r, u)
    BY <1>5 DEF AccessInv, UsersHold, UserWorks, Subject
  <2> QED BY <1>1, <2>1, OtherUser, SameRows DEF UserWorks
<1>6. ASSUME NEW g \in Grant \ astray' PROVE GrantHolds(g)'
  <2>1. GrantHolds(g) /\ g \notin Subject(r)
    BY <1>6 DEF AccessInv, GrantsHold
  <2>2. g \notin Through(r) /\ g \notin Through(r)'
    BY <1>1, <2>1 DEF Through, Subject, AccessInv, RequestFits
  <2> QED BY <1>1, <2>1, <2>2, OtherGrant
<1> QED BY <1>3, <1>4, <1>5, <1>6 DEF AccessInv, UsersHold, GrantsHold

LEMMA SubjectTyped ==
  ASSUME AccessTypeOK, NEW r \in AccessRequest
  PROVE  /\ access[r] \in Access /\ Subject(r) \subseteq UserName \cup Grant
         /\ Finish(r) => access' \in [AccessRequest -> Access]
<1>1. access[r] \in Access
  BY DEF AccessTypeOK
<1>2. access[r].username \in UserName /\ access[r].asked \subseteq Grant
  BY <1>1 DEF Access
<1>3. Subject(r) \subseteq UserName \cup Grant
  BY <1>2 DEF Subject
<1>4. Nothing(r, "done") \in Access
  BY NothingTyped
<1>5. Finish(r) => access' \in [AccessRequest -> Access]
  BY <1>4 DEF Finish, AccessTypeOK
<1> QED BY <1>1, <1>3, <1>5

LEMMA EnteredTyped ==
  ASSUME AccessTypeOK, NEW r \in AccessRequest, Entered(r)
  PROVE  /\ credentials' \in [UserName -> [Mechanism -> Password \cup {NoPassword}]]
         /\ \A u \in UserName : u # access[r].username => credentials'[u] = credentials[u]
         /\ credentials'[access[r].username] =
              [credentials[access[r].username] EXCEPT ![access[r].mechanism] = r]
<1>1. access[r].username \in UserName /\ access[r].mechanism \in Mechanism
  BY SubjectTyped DEF Access
<1> QED BY <1>1 DEF AccessTypeOK, Entered, Password

LEMMA AppliedTyped ==
  ASSUME AccessTypeOK, NEW r \in AccessRequest, NEW gs \in Batch(r)
  PROVE  /\ gs \subseteq access[r].left /\ Applied(r, gs) \subseteq Grant
         /\ \A g \in Grant \ gs : g \in Applied(r, gs) <=> g \in acls
         /\ \A g \in gs : g \in Applied(r, gs) <=> access[r].op = "grant"
<1>1. access[r].left \subseteq Grant
  BY SubjectTyped DEF Access
<1>2. gs \subseteq access[r].left
  BY DEF Batch
<1> QED BY <1>1, <1>2 DEF AccessTypeOK, Applied

LEMMA CommandFailsKeeps ==
  ASSUME AccessInv, NEW r \in AccessRequest, CommandFails(r)
  PROVE  AccessInv'
<1>1. /\ Active(r) /\ Finish(r) /\ astray' = astray \cup Subject(r) /\ UNCHANGED <<owner, rows, trail>>
      /\ AccessTypeOK /\ access[r].at = "run"
  BY DEF CommandFails, Active, AccessInv
<1>2. CASE UNCHANGED <<credentials, acls>>
  <2>1. AccessTypeOK'
    BY <1>1, <1>2, SubjectTyped DEF AccessTypeOK
  <2> QED BY <1>1, <1>2, <2>1, FailKeeps
<1>3. CASE access[r].op \in {"create", "rotate"} /\ Entered(r) /\ UNCHANGED acls
  <2>1. AccessTypeOK'
    BY <1>1, <1>3, SubjectTyped, EnteredTyped DEF AccessTypeOK
  <2>2. \A u \in UserName : UserWorks(r, u) \/ credentials'[u] = credentials[u]
    BY <1>1, <1>3, EnteredTyped DEF UserWorks, OnUser
  <2> QED BY <1>1, <1>3, <2>1, <2>2, FailKeeps
<1>4. CASE ~OnUser(r) /\ (\E gs \in Batch(r) : acls' = Applied(r, gs)) /\ UNCHANGED credentials
  <2>1. PICK gs \in Batch(r) : acls' = Applied(r, gs)
    BY <1>4
  <2>2. AccessTypeOK'
    BY <1>1, <1>4, <2>1, SubjectTyped, AppliedTyped DEF AccessTypeOK
  <2>3. gs \subseteq Subject(r)
    BY <1>1, <1>4, AppliedTyped DEF Subject, AccessInv, RequestFits
  <2>4. \A g \in Grant : g \in Subject(r) \/ ((g \in acls') <=> (g \in acls))
    BY <1>1, <2>1, <2>3, AppliedTyped
  <2> QED BY <1>1, <1>4, <2>2, <2>4, FailKeeps
<1> QED BY <1>2, <1>3, <1>4 DEF CommandFails

LEMMA CommitFailsKeeps ==
  ASSUME AccessInv, NEW r \in AccessRequest, CommitFails(r)
  PROVE  AccessInv'
<1>1. /\ Active(r) /\ Finish(r) /\ astray' = astray \cup Subject(r)
      /\ UNCHANGED <<owner, credentials, rows, acls, trail>> /\ AccessTypeOK
  BY DEF CommitFails, Active, AccessInv
<1>2. AccessTypeOK'
  BY <1>1, SubjectTyped DEF AccessTypeOK
<1> QED BY <1>1, <1>2, FailKeeps

\* Refused before anything was sent, the request leaves things as they were.
LEMMA AccessRefuseKeeps ==
  ASSUME AccessInv, NEW r \in AccessRequest, RefuseRequest(r)
  PROVE  AccessInv'
<1>1. /\ Active(r) /\ Finish(r) /\ UNCHANGED <<owner, credentials, rows, acls, trail, astray>>
      /\ access[r].at = "run" /\ access[r].left = access[r].asked /\ access[r].step = 1 /\ AccessTypeOK
  BY DEF RefuseRequest, Active, AccessInv
<1>2. AccessTypeOK'
  BY <1>1, SubjectTyped DEF AccessTypeOK
<1>3. /\ access'[r] = Nothing(r, "done") /\ \A q \in AccessRequest : q # r => access'[q] = access[q]
      /\ ~Active(r)' /\ access'[r].left = {}
  BY <1>1, NothingTyped DEF AccessTypeOK, Finish, Active
<1>4. Advances(r)
  BY <1>3 DEF Advances
<1>5. Single' /\ \A q \in AccessRequest : RequestFits(q)'
  BY <1>1, <1>3, <1>4, AdvanceKeeps, NothingTyped
<1>6. RowsKnown'
  BY <1>1, <1>4, RowsStayKnown
<1>7. ASSUME NEW u \in UserName \ astray' PROVE UserHolds(u)'
  <2>1. UserHolds(u) /\ u \in UserName \ astray
    BY <1>1 DEF AccessInv, UsersHold
  <2>2. CASE ~UserWorks(r, u)
    BY <1>1, <1>3, <2>1, <2>2, OtherUser, SameRows DEF UserWorks
  <2>3. CASE UserWorks(r, u)
    <3>1. \A q \in AccessRequest : q # r => ~UserWorks(q, u) /\ ~UserWorks(q, u)'
      BY <1>3, <2>1, <2>3, OwnUser DEF UserWorks, Active, OnUser
    <3>2. \A m \in Mechanism, q \in AccessRequest : ~Touched(q, u, m) /\ ~Touched(q, u, m)' /\ ~Rotates(q, u, m)'
      BY <1>1, <1>3, <3>1 DEF Touched, UserWorks, Rotates
    <3>3. \A m \in Mechanism : Agreed(u, m)'
      BY <1>1, <2>1, <3>2 DEF UserHolds, Agreed, OneCredential, KeptRows
    <3> QED BY <3>2, <3>3 DEF UserHolds
  <2> QED BY <2>2, <2>3
<1>8. ASSUME NEW g \in Grant \ astray' PROVE GrantHolds(g)'
  <2>1. GrantHolds(g) /\ g \notin Through(r) /\ g \notin Through(r)'
    BY <1>1, <1>3 DEF AccessInv, GrantsHold, Through
  <2> QED BY <1>1, <1>3, <2>1, OtherGrant
<1> QED BY <1>2, <1>5, <1>6, <1>7, <1>8 DEF AccessInv, UsersHold, GrantsHold

-----------------------------------------------------------------------------
(* Its commands.                                                           *)

LEMMA SetKeeps ==
  ASSUME AccessInv, NEW r \in AccessRequest, SetCredential(r)
  PROVE  AccessInv'
<1>s. access[r].username \in UserName /\ access[r].mechanism \in Mechanism
  BY SubjectTyped DEF AccessInv, Access
<1>n. PICK s \in UserName, n \in Mechanism : s = access[r].username /\ n = access[r].mechanism
  BY <1>s
<1>1. /\ access[r].at = "run" /\ access[r].op \in {"create", "rotate"} /\ Entered(r)
      /\ access' = [access EXCEPT ![r].at = "commit"] /\ UNCHANGED <<owner, rows, acls, trail>>
      /\ astray' = IF Unforeseen(r) THEN astray \cup Subject(r) ELSE astray
      /\ AccessTypeOK /\ access[r] \in Access
  BY DEF SetCredential, AccessInv, AccessTypeOK
<1>e. credentials'[s] = [credentials[s] EXCEPT ![n] = r]
      /\ \A u \in UserName : u # s => credentials'[u] = credentials[u]
  BY <1>1, <1>n, EnteredTyped
<1>2. /\ access'[r] = [access[r] EXCEPT !.at = "commit"] /\ s \in UserName /\ n \in Mechanism
      /\ \A q \in AccessRequest : q # r => access'[q] = access[q]
  BY <1>1 DEF AccessTypeOK, Access
<1>3. /\ access'[r].at = "commit" /\ access'[r].op = access[r].op /\ access'[r].username = s /\ access[r].username = s
      /\ access'[r].mechanism = n /\ access[r].mechanism = n /\ access'[r].row = access[r].row /\ access'[r].step = access[r].step
      /\ access'[r].asked = access[r].asked /\ access'[r].left = access[r].left
      /\ access'[r] \in Access
  BY <1>1, <1>2, <1>n DEF Access
<1>4. AccessTypeOK'
  BY <1>1, <1>2, <1>3, SubjectTyped, EnteredTyped DEF AccessTypeOK
<1>5. Active(r) /\ OnUser(r) /\ UserWorks(r, s) /\ UserWorks(r, s)'
  BY <1>1, <1>3 DEF Active, OnUser, UserWorks
<1>6. Advances(r)
  BY <1>2, <1>3 DEF Advances
<1>7. Single' /\ \A q \in AccessRequest : RequestFits(q)'
  BY <1>1, <1>3, <1>5, <1>6, AdvanceKeeps DEF AccessInv, RequestFits
<1>8. RowsKnown'
  BY <1>1, <1>5, <1>6, RowsStayKnown
<1>9. ASSUME NEW u \in UserName \ astray', u # s PROVE UserHolds(u)'
  <2>1. UserHolds(u) /\ ~UserWorks(r, u) /\ ~UserWorks(r, u)' /\ credentials'[u] = credentials[u]
    BY <1>1, <1>3, <1>9, <1>e, <1>n DEF AccessInv, UsersHold, UserWorks
  <2> QED BY <1>1, <1>2, <2>1, OtherUser, SameRows
<1>10. ASSUME s \notin astray' PROVE UserHolds(s)'
  <2>1. UserHolds(s) /\ s \notin astray /\ ~Unforeseen(r)
    BY <1>1, <1>2, <1>3, <1>5, <1>10 DEF AccessInv, UsersHold, Subject
  <2>2. \A q \in AccessRequest : q # r => ~UserWorks(q, s) /\ ~UserWorks(q, s)'
    BY <1>2, <1>5, <2>1, OwnUser DEF UserWorks, Active, OnUser
  <2>3. \A m \in Mechanism, q \in AccessRequest : ~Touched(q, s, m)
    BY <1>1, <2>2 DEF Touched
  <2>4. \A m \in Mechanism : Agreed(s, m) /\ KeptRows(s, m)' = KeptRows(s, m)
    BY <1>1, <2>1, <2>3, SameRows DEF UserHolds
  <2>5. \A m \in Mechanism : m # n => Agreed(s, m)'
    <3>1. \A m \in Mechanism : m # n => credentials'[s][m] = credentials[s][m]
      BY <1>1, <1>2, <1>e DEF AccessTypeOK
    <3> QED BY <1>3, <2>4, <3>1 DEF Agreed, OneCredential
  <2>6. credentials'[s][n] = r
    BY <1>1, <1>2, <1>e DEF AccessTypeOK
  <2>7. PartWay(r, s, n)'
    <3>1. CASE access[r].op = "create"
      <4>1. KeptRows(s, n) = {}
        BY <1>3, <2>1, <3>1 DEF Unforeseen, UsersNamed, KeptRows
      <4> QED BY <1>3, <2>4, <2>6, <3>1, <4>1, <1>2 DEF PartWay
    <3>2. CASE access[r].op = "rotate"
      <4>1. Rotates(r, s, n)
        BY <1>1, <1>3, <1>5, <2>1, <3>2 DEF Rotates, Unforeseen
      <4>2. HasRow(r, s, n) /\ OneCredential(s, n)
        BY <1>2, <2>1, <2>4, <4>1 DEF UserHolds, Agreed
      <4> QED BY <1>2, <1>3, <2>4, <2>6, <3>2, <4>2 DEF PartWay, HasRow, OneCredential
    <3> QED BY <1>1, <3>1, <3>2
  <2>8. \A m \in Mechanism, q \in AccessRequest :
          /\ ~Rotates(q, s, m)'
          /\ Touched(q, s, m)' <=> q = r /\ m = n
    BY <1>1, <1>3, <1>5, <2>2 DEF Rotates, Touched
  <2> QED BY <1>2, <2>5, <2>7, <2>8 DEF UserHolds
<1>11. ASSUME NEW g \in Grant \ astray' PROVE GrantHolds(g)'
  <2>1. GrantHolds(g) /\ g \notin Through(r) /\ g \notin Through(r)'
    BY <1>1, <1>3, <1>5 DEF AccessInv, GrantsHold, Through, RequestFits
  <2> QED BY <1>1, <1>2, <2>1, OtherGrant
<1> QED BY <1>4, <1>7, <1>8, <1>9, <1>10, <1>11 DEF AccessInv, UsersHold, GrantsHold

LEMMA DropKeeps ==
  ASSUME AccessInv, NEW r \in AccessRequest, DropCredential(r)
  PROVE  AccessInv'
<1>s. access[r].username \in UserName /\ Mechanisms[access[r].step] \in Mechanism
  BY SubjectTyped, MechanismsTwo DEF AccessInv, Access
<1>n. PICK s \in UserName, n \in Mechanism : s = access[r].username /\ n = Mechanisms[access[r].step]
  BY <1>s
<1>1. /\ access[r].at = "run" /\ access[r].op = "delete" /\ UNCHANGED <<owner, rows, acls, trail>>
      /\ access' = [access EXCEPT ![r] = IF access[r].step < Len(Mechanisms)
                                         THEN [access[r] EXCEPT !.step = @ + 1]
                                         ELSE [access[r] EXCEPT !.at = "commit", !.step = 1]]
      /\ \/ credentials' = [credentials EXCEPT ![s][n] = NoPassword] /\ astray' = astray
         \/ astray' = astray \cup Subject(r) /\ credentials' = credentials
      /\ AccessTypeOK /\ access[r] \in Access
  BY <1>n DEF DropCredential, AccessInv, AccessTypeOK
<1>2. /\ s \in UserName /\ n \in Mechanism /\ access[r].step \in {1, 2}
      /\ \A q \in AccessRequest : q # r => access'[q] = access[q]
  BY <1>1, MechanismsTwo DEF AccessTypeOK, Access
<1>3. /\ access'[r].op = "delete" /\ access'[r].username = s /\ access[r].username = s
      /\ access'[r].mechanism = access[r].mechanism /\ access'[r].row = access[r].row
      /\ access'[r].asked = access[r].asked /\ access'[r].left = access[r].left
      /\ access'[r] \in Access
      /\ access[r].step = 1 => access'[r].at = "run" /\ access'[r].step = 2
      /\ access[r].step = 2 => access'[r].at = "commit" /\ access'[r].step = 1
  <2>1. CASE access[r].step = 1
    <3>1. access'[r] = [access[r] EXCEPT !.step = 2]
      BY <1>1, <2>1, MechanismsTwo DEF AccessTypeOK
    <3> QED BY <1>1, <1>n, <2>1, <3>1, MechanismsTwo DEF Access
  <2>2. CASE access[r].step = 2
    <3>1. access'[r] = [access[r] EXCEPT !.at = "commit", !.step = 1]
      BY <1>1, <2>2, MechanismsTwo DEF AccessTypeOK
    <3> DEFINE committing == [access[r] EXCEPT !.at = "commit"]
    <3>2. /\ committing \in Access /\ committing.at = "commit"
          /\ \A f \in {"op", "username", "mechanism", "row", "asked", "left"} : committing[f] = access[r][f]
      BY <1>1 DEF Access
    <3>3. access'[r] = [committing EXCEPT !.step = 1]
      BY <1>1, <3>1 DEF Access
    <3> HIDE DEF committing
    <3> QED BY <1>1, <1>n, <2>2, <3>2, <3>3, MechanismsTwo DEF Access
  <2> QED BY <1>2, <2>1, <2>2
<1>4. AccessTypeOK'
  <2>1. access' \in [AccessRequest -> Access]
    BY <1>1, <1>2, <1>3 DEF AccessTypeOK
  <2>2. credentials' \in [UserName -> [Mechanism -> Password \cup {NoPassword}]]
    BY <1>1, <1>2 DEF AccessTypeOK
  <2> QED BY <1>1, <2>1, <2>2, SubjectTyped DEF AccessTypeOK
<1>5. Active(r) /\ OnUser(r) /\ UserWorks(r, s) /\ UserWorks(r, s)' /\ Active(r)'
  BY <1>1, <1>2, <1>3 DEF Active, OnUser, UserWorks
<1>6. Advances(r)
  BY <1>1, <1>2, <1>3 DEF Advances
<1>7. Single' /\ \A q \in AccessRequest : RequestFits(q)'
  BY <1>1, <1>3, <1>5, <1>6, AdvanceKeeps DEF AccessInv, RequestFits
<1>8. RowsKnown'
  BY <1>1, <1>5, <1>6, RowsStayKnown
<1>9. ASSUME NEW u \in UserName \ astray', u # s PROVE UserHolds(u)'
  <2>1. UserHolds(u) /\ ~UserWorks(r, u) /\ ~UserWorks(r, u)' /\ credentials'[u] = credentials[u]
    BY <1>1, <1>2, <1>3, <1>9 DEF AccessInv, UsersHold, UserWorks, AccessTypeOK
  <2> QED BY <1>1, <1>2, <2>1, OtherUser, SameRows
<1>10. ASSUME s \notin astray' PROVE UserHolds(s)'
  <2>1. UserHolds(s) /\ s \notin astray /\ credentials' = [credentials EXCEPT ![s][n] = NoPassword]
    BY <1>1, <1>2, <1>3, <1>5, <1>10 DEF AccessInv, UsersHold, Subject
  <2>2. \A q \in AccessRequest : q # r => ~UserWorks(q, s) /\ ~UserWorks(q, s)'
    BY <1>2, <1>5, <2>1, OwnUser DEF UserWorks, Active, OnUser
  <2>3. /\ credentials'[s][n] = NoPassword
        /\ \A m \in Mechanism : m # n => credentials'[s][m] = credentials[s][m]
    BY <1>1, <1>2, <2>1 DEF AccessTypeOK
  <2>4. \A m \in Mechanism, q \in AccessRequest : ~Rotates(q, s, m)'
    BY <1>3, <2>2 DEF Rotates
  <2>5. CASE access[r].step = 1
    <3>1. \A m \in Mechanism, q \in AccessRequest :
            ~Touched(q, s, m) /\ (Touched(q, s, m)' <=> q = r /\ m = n)
      BY <1>1, <1>2, <1>3, <1>5, <1>n, <2>2, <2>5, MechanismsTwo DEF Touched
    <3>2. \A m \in Mechanism : m # n => Agreed(s, m)'
      BY <1>1, <1>3, <2>1, <2>3, <3>1, SameRows DEF UserHolds, Agreed, OneCredential, KeptRows
    <3>3. PartWay(r, s, n)'
      BY <1>3, <2>3 DEF PartWay
    <3> QED BY <1>2, <2>4, <3>1, <3>2, <3>3 DEF UserHolds
  <2>6. CASE access[r].step = 2
    <3>1. \A m \in Mechanism, q \in AccessRequest : Touched(q, s, m)' <=> q = r
      BY <1>1, <1>2, <1>3, <1>5, <2>2, <2>6 DEF Touched
    <3>2. \A m \in Mechanism : m # n => Touched(r, s, m)
      BY <1>1, <1>2, <1>5, <1>n, <2>6, MechanismsTwo DEF Touched
    <3>3. \A m \in Mechanism : credentials'[s][m] = NoPassword
      BY <1>1, <1>2, <2>1, <2>3, <3>2 DEF UserHolds, PartWay
    <3>4. \A m \in Mechanism : PartWay(r, s, m)'
      BY <1>3, <3>3 DEF PartWay
    <3> QED BY <2>4, <3>1, <3>4 DEF UserHolds
  <2> QED BY <1>2, <2>5, <2>6
<1>11. ASSUME NEW g \in Grant \ astray' PROVE GrantHolds(g)'
  <2>1. GrantHolds(g) /\ g \notin Through(r) /\ g \notin Through(r)'
    BY <1>1, <1>3, <1>5 DEF AccessInv, GrantsHold, Through, RequestFits
  <2> QED BY <1>1, <1>2, <2>1, OtherGrant
<1> QED BY <1>4, <1>7, <1>8, <1>9, <1>10, <1>11 DEF AccessInv, UsersHold, GrantsHold

LEMMA RunKeeps ==
  ASSUME AccessInv, NEW r \in AccessRequest, RunAcl(r)
  PROVE  AccessInv'
<1>1. PICK gs \in Batch(r) :
         /\ acls' = Applied(r, gs)
         /\ access' = [access EXCEPT ![r] = [access[r] EXCEPT
                         !.left = @ \ gs, !.at = IF access[r].left = gs THEN "commit" ELSE "run"]]
  BY DEF RunAcl
<1>2. /\ access[r].at = "run" /\ ~OnUser(r) /\ UNCHANGED <<owner, credentials, rows, trail, astray>>
      /\ AccessTypeOK /\ access[r] \in Access /\ RequestFits(r)
  BY DEF RunAcl, AccessInv, AccessTypeOK
<1>3. /\ \A q \in AccessRequest : q # r => access'[q] = access[q]
      /\ access'[r].op = access[r].op /\ access'[r].username = access[r].username
      /\ access'[r].mechanism = access[r].mechanism /\ access'[r].row = access[r].row
      /\ access'[r].asked = access[r].asked /\ access'[r].left = access[r].left \ gs
      /\ access'[r].at = (IF access[r].left = gs THEN "commit" ELSE "run")
      /\ access'[r] \in Access
  BY <1>1, <1>2 DEF Access, AccessTypeOK
<1>4. AccessTypeOK'
  BY <1>1, <1>2, <1>3, AppliedTyped DEF AccessTypeOK
<1>5. Active(r) /\ Active(r)' /\ ~OnUser(r)'
  BY <1>2, <1>3 DEF Active, OnUser
<1>6. Advances(r)
  BY <1>3 DEF Advances
<1>7. Single' /\ \A q \in AccessRequest : RequestFits(q)'
  BY <1>2, <1>3, <1>5, <1>6, AdvanceKeeps
<1>8. RowsKnown'
  BY <1>2, <1>5, <1>6, RowsStayKnown
<1>9. ASSUME NEW u \in UserName \ astray' PROVE UserHolds(u)'
  <2>1. UserHolds(u) /\ ~UserWorks(r, u) /\ ~UserWorks(r, u)'
    BY <1>2, <1>5 DEF AccessInv, UsersHold, UserWorks
  <2> QED BY <1>2, <1>3, <2>1, OtherUser, SameRows
<1>10. ASSUME NEW g \in Grant \ astray' PROVE GrantHolds(g)'
  <2>1. GrantHolds(g) /\ g \notin astray
    BY <1>2 DEF AccessInv, GrantsHold
  <2>2. gs \subseteq access[r].left /\ access[r].left \subseteq access[r].asked
    BY <1>2, AppliedTyped DEF RequestFits
  <2>3. Through(r) = access[r].asked \ access[r].left /\ Through(r)' = access[r].asked \ (access[r].left \ gs)
    BY <1>3, <1>5 DEF Through
  <2>4. CASE g \notin gs
    <3>1. ((g \in acls') <=> (g \in acls)) /\ (g \in Through(r)' <=> g \in Through(r))
      BY <1>1, <1>2, <2>3, <2>4, AppliedTyped
    <3>2. \A q \in AccessRequest : (g \in Through(q)' <=> g \in Through(q)) /\ access'[q].op = access[q].op
      BY <1>3, <3>1 DEF Through, Active
    <3> QED BY <1>2, <2>1, <3>1, <3>2 DEF GrantHolds
  <2>5. CASE g \in gs
    <3>1. g \in Through(r)' /\ (g \in acls' <=> access'[r].op = "grant")
      BY <1>1, <1>2, <1>3, <2>2, <2>3, <2>5, AppliedTyped
    <3>2. g \in Subject(r)
      BY <1>2, <2>2, <2>5 DEF Subject
    <3>3. ASSUME NEW q \in AccessRequest, q # r PROVE g \notin Through(q)'
      <4>1. ~Active(q) \/ g \notin Subject(q)
        BY <1>5, <2>1, <3>2, <3>3 DEF AccessInv, Single
      <4>2. g \in Through(q) => Active(q) /\ g \in Subject(q)
        BY DEF Through, Subject, AccessInv, RequestFits
      <4> QED BY <1>3, <3>3, <4>1, <4>2 DEF Through, Active
    <3> QED BY <3>1, <3>3 DEF GrantHolds
  <2> QED BY <2>4, <2>5
<1> QED BY <1>4, <1>7, <1>8, <1>9, <1>10 DEF AccessInv, UsersHold, GrantsHold

-----------------------------------------------------------------------------
(* Its commit.                                                             *)

\* The row a commit makes, takes away or changes is one of the request's user; the
\* others keep id and names.
LEMMA CommitRows ==
  ASSUME AccessInv, NEW r \in AccessRequest, CommitUser(r)
  PROVE  /\ rows' \subseteq KafkaUser /\ RowsKnown'
         /\ \A u \in UserName, m \in Mechanism : ~UserWorks(r, u) => KeptRows(u, m)' = KeptRows(u, m)
<1>1. /\ access[r].at = "commit" /\ OnUser(r) /\ Active(r) /\ RequestFits(r) /\ RowsKnown
      /\ rows \subseteq KafkaUser /\ access[r] \in Access /\ AccessTypeOK
  BY DEF CommitUser, AccessInv, AccessTypeOK, Active
<1>2. /\ access'[r] = Nothing(r, "done") /\ \A q \in AccessRequest : q # r => access'[q] = access[q]
      /\ ~Active(r)' /\ access'[r].at = "done"
  BY <1>1, NothingTyped DEF CommitUser, AccessTypeOK, Finish, Active
<1>3. \A row \in rows : row.id \in AccessRequest /\ access[row.id].at = "done" /\ row.id # r
  BY <1>1 DEF RowsKnown, KafkaUser
<1>4. \A q \in AccessRequest : Active(q)' => q # r /\ Active(q) /\ access'[q] = access[q]
  BY <1>2 DEF Active
<1>5. CASE access[r].op = "create"
  <2> DEFINE new == [id |-> r, username |-> access[r].username,
                     mechanism |-> access[r].mechanism, password |-> r]
  <2>1. rows' = rows \cup {new}
    BY <1>5 DEF CommitUser
  <2>2. /\ new \in KafkaUser /\ new.id = r /\ new.username = access[r].username
        /\ \A m \in Mechanism : UserWorks(r, new.username)
    BY <1>1 DEF KafkaUser, Access, Password, UserWorks
  <2> HIDE DEF new
  <2>3. \A q \in AccessRequest : Active(q)' /\ access'[q].op = "rotate" => access'[q].row # r
    BY <1>1, <1>4 DEF AccessInv, RequestFits
  <2>4. RowsKnown'
    BY <1>1, <1>2, <1>3, <1>4, <2>1, <2>2, <2>3 DEF RowsKnown
  <2>5. ASSUME NEW u \in UserName, NEW m \in Mechanism, ~UserWorks(r, u) PROVE KeptRows(u, m)' = KeptRows(u, m)
    <3>1. new.username # u
      BY <1>1, <2>2, <2>5 DEF UserWorks
    <3> QED BY <2>1, <3>1 DEF KeptRows
  <2> QED BY <1>1, <2>1, <2>2, <2>4, <2>5
<1>6. CASE access[r].op = "delete"
  <2>1. rows' = rows \ UsersNamed(access[r].username)
    BY <1>6 DEF CommitUser
  <2>2. RowsKnown'
    BY <1>1, <1>2, <1>3, <1>4, <2>1 DEF RowsKnown
  <2>3. ASSUME NEW u \in UserName, NEW m \in Mechanism, ~UserWorks(r, u) PROVE KeptRows(u, m)' = KeptRows(u, m)
    <3>1. access[r].username # u
      BY <1>1, <2>3 DEF UserWorks
    <3> QED BY <2>1, <3>1 DEF KeptRows, UsersNamed
  <2> QED BY <1>1, <2>1, <2>2, <2>3
<1>7. CASE access[r].op = "rotate"
  <2> DEFINE New(row) == IF row.id = access[r].row THEN [row EXCEPT !.password = r] ELSE row
  <2>1. rows' = {New(row) : row \in rows}
    BY <1>7 DEF CommitUser
  <2>2. \A row \in rows : /\ New(row) \in KafkaUser /\ New(row).id = row.id
                          /\ New(row).username = row.username /\ New(row).mechanism = row.mechanism
                          /\ row.id # access[r].row => New(row) = row
    BY <1>1 DEF KafkaUser, Password
  <2> HIDE DEF New
  <2>3. \A row \in rows : row.id = access[r].row => row.username = access[r].username
    BY <1>1, <1>7 DEF RowsKnown
  <2>4. RowsKnown'
    <3>1. \A row \in rows' : access'[row.id].at = "done"
      BY <1>2, <1>3, <2>1, <2>2
    <3>2. \A row, other \in rows' : row.id = other.id => row = other
      BY <1>1, <2>1, <2>2 DEF RowsKnown
    <3>3. \A q \in AccessRequest, row \in rows' :
            Active(q)' /\ access'[q].op = "rotate" /\ row.id = access'[q].row =>
              row.username = access'[q].username /\ row.mechanism = access'[q].mechanism
      BY <1>1, <1>4, <2>1, <2>2 DEF RowsKnown
    <3> QED BY <3>1, <3>2, <3>3 DEF RowsKnown
  <2>5. ASSUME NEW u \in UserName, NEW m \in Mechanism, ~UserWorks(r, u) PROVE KeptRows(u, m)' = KeptRows(u, m)
    <3>1. access[r].username # u
      BY <1>1, <2>5 DEF UserWorks
    <3>2. \A row \in rows : row.username = u => New(row) = row
      BY <2>2, <2>3, <3>1
    <3>3. \A row \in rows' : row.username = u => row \in rows
      BY <2>1, <2>2, <3>2
    <3>4. \A row \in rows : row.username = u => row \in rows'
      BY <2>1, <3>2
    <3> QED BY <3>3, <3>4 DEF KeptRows
  <2> QED BY <2>1, <2>2, <2>4, <2>5
<1> QED BY <1>1, <1>5, <1>6, <1>7 DEF OnUser

LEMMA CommitUserKeeps ==
  ASSUME AccessInv, NEW r \in AccessRequest, CommitUser(r)
  PROVE  AccessInv'
<1>1. /\ access[r].at = "commit" /\ OnUser(r) /\ Active(r) /\ RequestFits(r) /\ AccessTypeOK
      /\ access[r] \in Access /\ Finish(r) /\ UNCHANGED <<owner, credentials, acls, trail, astray>>
  BY DEF CommitUser, AccessInv, AccessTypeOK, Active
<1>n. PICK s \in UserName : s = access[r].username
  BY <1>1 DEF Access
<1>2. /\ access'[r] = Nothing(r, "done") /\ \A q \in AccessRequest : q # r => access'[q] = access[q]
      /\ ~Active(r)' /\ access'[r].left = {} /\ access'[r].at = "done"
  BY <1>1, NothingTyped DEF AccessTypeOK, Finish, Active
<1>3. AccessTypeOK'
  BY <1>1, SubjectTyped, CommitRows DEF AccessTypeOK
<1>4. Advances(r)
  BY <1>2 DEF Advances
<1>5. Single' /\ \A q \in AccessRequest : RequestFits(q)'
  BY <1>1, <1>2, <1>4, AdvanceKeeps
<1>6. ASSUME NEW u \in UserName \ astray', u # s PROVE UserHolds(u)'
  <2>1. UserHolds(u) /\ ~UserWorks(r, u) /\ ~UserWorks(r, u)' /\ credentials'[u] = credentials[u]
    BY <1>1, <1>2, <1>6, <1>n DEF AccessInv, UsersHold, UserWorks
  <2> QED BY <1>1, <1>2, <2>1, OtherUser, CommitRows
<1>7. ASSUME s \notin astray' PROVE UserHolds(s)'
  <2>1. UserHolds(s) /\ s \notin astray /\ UserWorks(r, s)
    BY <1>1, <1>7, <1>n DEF AccessInv, UsersHold, UserWorks
  <2>2. \A q \in AccessRequest : q # r => ~UserWorks(q, s)
    BY <2>1, OwnUser
  <2>3. \A q \in AccessRequest : ~UserWorks(q, s)'
    BY <1>2, <2>2 DEF UserWorks, Active, OnUser
  <2>4. \A m \in Mechanism, q \in AccessRequest : ~Touched(q, s, m)' /\ ~Rotates(q, s, m)'
    BY <2>3 DEF Touched, Rotates
  <2>5. ASSUME NEW m \in Mechanism PROVE Agreed(s, m)'
    <3>1. CASE access[r].op = "delete"
      <4>1. rows' = rows \ UsersNamed(s)
        BY <1>n, <3>1 DEF CommitUser
      <4>2. credentials[s][m] = NoPassword
        BY <1>1, <2>1, <3>1 DEF UserHolds, Touched, PartWay
      <4>3. KeptRows(s, m)' = {}
        BY <4>1 DEF KeptRows, UsersNamed
      <4> QED BY <1>1, <4>2, <4>3 DEF Agreed, OneCredential
    <3>2. CASE access[r].op # "delete" /\ m # access[r].mechanism
      <4>1. ~Touched(r, s, m)
        BY <3>2 DEF Touched
      <4>2. Agreed(s, m)
        BY <2>1, <2>2, <4>1 DEF UserHolds, Touched
      <4>3. KeptRows(s, m)' = KeptRows(s, m)
        <5>1. CASE access[r].op = "create"
          <6>1. rows' = rows \cup {[id |-> r, username |-> access[r].username,
                                    mechanism |-> access[r].mechanism, password |-> r]}
            BY <5>1 DEF CommitUser
          <6> QED BY <3>2, <6>1 DEF KeptRows
        <5>2. CASE access[r].op = "rotate"
          <6>1. rows' = {IF row.id = access[r].row THEN [row EXCEPT !.password = r] ELSE row : row \in rows}
            BY <5>2 DEF CommitUser
          <6>2. \A row \in rows : row.id = access[r].row =>
                  row.mechanism = access[r].mechanism /\ [row EXCEPT !.password = r].mechanism = row.mechanism
            BY <1>1, <5>2 DEF AccessInv, RowsKnown, AccessTypeOK, KafkaUser
          <6>3. \A row \in rows : row.mechanism = m => row \in rows'
            BY <3>2, <6>1, <6>2
          <6>4. \A row \in rows' : row.mechanism = m => row \in rows
            BY <3>2, <6>1, <6>2
          <6> QED BY <6>3, <6>4 DEF KeptRows
        <5> QED BY <1>1, <3>2, <5>1, <5>2 DEF OnUser
      <4> QED BY <1>1, <4>2, <4>3 DEF Agreed, OneCredential
    <3>3. CASE access[r].op = "create" /\ m = access[r].mechanism
      <4> DEFINE new == [id |-> r, username |-> s, mechanism |-> m, password |-> r]
      <4>1. rows' = rows \cup {new}
        BY <1>n, <3>3 DEF CommitUser
      <4>2. credentials[s][m] = r /\ KeptRows(s, m) = {}
        BY <1>1, <2>1, <3>3 DEF UserHolds, Touched, PartWay
      <4>3. KeptRows(s, m)' = {new}
        BY <4>1, <4>2 DEF KeptRows
      <4> QED BY <1>1, <4>2, <4>3 DEF Agreed, OneCredential
    <3>4. CASE access[r].op = "rotate" /\ m = access[r].mechanism
      <4>1. credentials[s][m] = r /\ OneCredential(s, m) /\ HasRow(r, s, m)
        BY <1>1, <2>1, <3>4 DEF UserHolds, Touched, PartWay
      <4>2. PICK row \in KeptRows(s, m) : row.id = access[r].row
        BY <4>1 DEF HasRow
      <4> DEFINE new == [row EXCEPT !.password = r]
      <4>3. rows' = {IF w.id = access[r].row THEN [w EXCEPT !.password = r] ELSE w : w \in rows}
        BY <3>4 DEF CommitUser
      <4>4. new.username = s /\ new.mechanism = m /\ new.password = r /\ row \in rows
        BY <1>1, <4>2 DEF KeptRows, AccessTypeOK, KafkaUser
      <4>5. \A w \in rows : w.id = access[r].row => w = row
        BY <4>2, <4>4 DEF AccessInv, RowsKnown
      <4>6. new \in rows' /\ \A w \in rows' : w = new \/ (w \in rows /\ w # row)
        BY <4>2, <4>3, <4>4, <4>5
      <4>7. \A w \in rows : w # row => w.username # s \/ w.mechanism # m
        BY <4>1, <4>2 DEF OneCredential, KeptRows
      <4>8. KeptRows(s, m)' = {new}
        BY <4>4, <4>6, <4>7 DEF KeptRows
      <4> HIDE DEF new
      <4> QED BY <1>1, <4>1, <4>4, <4>8 DEF Agreed, OneCredential
    <3> QED BY <1>1, <3>1, <3>2, <3>3, <3>4 DEF OnUser
  <2> QED BY <2>4, <2>5 DEF UserHolds
<1>8. ASSUME NEW g \in Grant \ astray' PROVE GrantHolds(g)'
  <2>1. GrantHolds(g) /\ g \notin Through(r) /\ g \notin Through(r)'
    BY <1>1, <1>2 DEF AccessInv, GrantsHold, Through, RequestFits
  <2> QED BY <1>1, <1>2, <2>1, OtherGrant
<1> QED BY <1>3, <1>5, <1>6, <1>7, <1>8, CommitRows DEF AccessInv, UsersHold, GrantsHold

LEMMA CommitAclKeeps ==
  ASSUME AccessInv, NEW r \in AccessRequest, CommitAcl(r)
  PROVE  AccessInv'
<1>1. /\ access[r].at = "commit" /\ ~OnUser(r) /\ Active(r) /\ RequestFits(r) /\ AccessTypeOK
      /\ access[r] \in Access /\ Finish(r) /\ UNCHANGED <<owner, credentials, rows, acls, astray>>
      /\ trail' = [g \in Grant |-> IF g \notin access[r].asked THEN trail[g]
                                   ELSE IF access[r].op = "grant" THEN "acl_created" ELSE "acl_deleted"]
  BY DEF CommitAcl, Audited, AccessInv, AccessTypeOK, Active
<1>2. /\ access'[r] = Nothing(r, "done") /\ \A q \in AccessRequest : q # r => access'[q] = access[q]
      /\ ~Active(r)' /\ access'[r].left = {} /\ access[r].left = {}
  BY <1>1, NothingTyped DEF AccessTypeOK, Finish, Active, RequestFits
<1>3. AccessTypeOK'
  BY <1>1, SubjectTyped DEF AccessTypeOK
<1>4. Advances(r)
  BY <1>2 DEF Advances
<1>5. Single' /\ \A q \in AccessRequest : RequestFits(q)'
  BY <1>1, <1>2, <1>4, AdvanceKeeps
<1>6. RowsKnown'
  BY <1>1, <1>4, RowsStayKnown
<1>7. ASSUME NEW u \in UserName \ astray' PROVE UserHolds(u)'
  <2>1. UserHolds(u) /\ ~UserWorks(r, u) /\ ~UserWorks(r, u)'
    BY <1>1, <1>2 DEF AccessInv, UsersHold, UserWorks
  <2> QED BY <1>1, <1>2, <2>1, OtherUser, SameRows
<1>8. ASSUME NEW g \in Grant \ astray' PROVE GrantHolds(g)'
  <2>1. GrantHolds(g) /\ g \notin astray /\ Through(r) = access[r].asked /\ Through(r)' = {}
    BY <1>1, <1>2 DEF AccessInv, GrantsHold, Through
  <2>2. CASE g \notin access[r].asked
    BY <1>1, <1>2, <2>1, <2>2, OtherGrant
  <2>3. CASE g \in access[r].asked
    <3>1. g \in acls <=> access[r].op = "grant"
      BY <2>1, <2>3 DEF GrantHolds
    <3>2. g \in acls' <=> trail'[g] = "acl_created"
      BY <1>1, <2>3, <3>1
    <3>3. ASSUME NEW q \in AccessRequest PROVE g \notin Through(q)'
      <4>1. q # r => ~Active(q) \/ g \notin Subject(q)
        BY <1>1, <2>1, <2>3 DEF AccessInv, Single, Subject
      <4>2. g \in Through(q) => Active(q) /\ g \in Subject(q)
        BY DEF Through, Subject, AccessInv, RequestFits
      <4> QED BY <1>2, <2>1, <4>1, <4>2 DEF Through, Active
    <3> QED BY <3>2, <3>3 DEF GrantHolds
  <2> QED BY <2>2, <2>3
<1> QED BY <1>3, <1>5, <1>6, <1>7, <1>8 DEF AccessInv, UsersHold, GrantsHold

-----------------------------------------------------------------------------
(* Theorems.                                                               *)

LEMMA AccessInvariant == AccessSpec => []AccessInv
<1>1. ASSUME AccessInv, UNCHANGED accessVars PROVE AccessInv'
  <2>1. UNCHANGED <<owner, credentials, rows, acls, trail, access, astray>>
    BY <1>1 DEF accessVars
  <2>2. AccessTypeOK' /\ Single' /\ RowsKnown' /\ \A r \in AccessRequest : RequestFits(r)'
    BY <1>1, <2>1 DEF AccessInv, AccessTypeOK, Single, RowsKnown, RequestFits, Active, OnUser, Subject
  <2>3. UsersHold'
    BY <1>1, <2>1 DEF AccessInv, UsersHold, UserHolds, Touched, Rotates, UserWorks, PartWay, HasRow, Agreed,
                      OneCredential, KeptRows, Active, OnUser
  <2>4. GrantsHold'
    BY <1>1, <2>1 DEF AccessInv, GrantsHold, GrantHolds, Through, Active
  <2> QED BY <2>2, <2>3, <2>4 DEF AccessInv
<1>2. ASSUME AccessInv, AccessNext PROVE AccessInv'
  BY <1>2, BeginKeeps, SetKeeps, DropKeeps, RunKeeps, AccessRefuseKeeps, CommandFailsKeeps, CommitUserKeeps,
     CommitAclKeeps, CommitFailsKeeps DEF AccessNext, AccessStep
<1> QED BY <1>1, <1>2, AccessInitInv, PTL DEF AccessSpec

\* Every variable keeps its type.
THEOREM AccessTyped == AccessSpec => []AccessTypeOK
<1>1. AccessInv => AccessTypeOK
  BY DEF AccessInv
<1> QED BY <1>1, AccessInvariant, PTL

\* For a user whose requests came one after the other and had all their commands succeed
\* (kafka_users against SCRAM), the passwords in the rows are those Kafka lets in, mechanism
\* by mechanism, after any creations, rotations and deletions, whatever becomes of other
\* users.  It says nothing of a user with overlapping or half-failed requests.
THEOREM RowsTell == AccessSpec => []RowsTellCredentials
<1>1. AccessInv => RowsTellCredentials
  <2> SUFFICES ASSUME AccessInv, NEW u \in UserName, Undisturbed(u), NEW m \in Mechanism
               PROVE  {row.password : row \in {w \in UsersNamed(u) : w.mechanism = m}}
                        = {credentials[u][m]} \ {NoPassword}
    BY DEF RowsTellCredentials
  <2>1. \A r \in AccessRequest : ~UserWorks(r, u)
    BY DEF Undisturbed, UserWorks, Subject
  <2>2. Agreed(u, m)
    BY <2>1 DEF AccessInv, UsersHold, UserHolds, Touched, Undisturbed
  <2>3. {w \in UsersNamed(u) : w.mechanism = m} = KeptRows(u, m)
    BY DEF UsersNamed, KeptRows
  <2>4. \A row \in KeptRows(u, m) : row.password # NoPassword
    BY AccessAssumption DEF AccessInv, AccessTypeOK, KafkaUser, Password, KeptRows
  <2> QED BY <2>2, <2>3, <2>4 DEF Agreed
<1> QED BY <1>1, AccessInvariant, PTL

\* For a permission whose batches came one after the other and none failed half way, the
\* newest audit entry says whether Kafka gives it: every operation of a batch that succeeded
\* is in the trail, as the last word on its permission.  It says nothing of one that batches
\* have overlapped for or that was in a failed batch.
THEOREM TrailTells == AccessSpec => []TrailTellsAcls
<1>1. AccessInv => TrailTellsAcls
  <2> SUFFICES ASSUME AccessInv, NEW g \in Grant, Undisturbed(g)
               PROVE  g \in acls <=> trail[g] = "acl_created"
    BY DEF TrailTellsAcls
  <2>1. \A r \in AccessRequest : g \notin Through(r)
    BY DEF Undisturbed, Through, Subject, AccessInv, RequestFits
  <2> QED BY <2>1 DEF AccessInv, GrantsHold, GrantHolds, Undisturbed
<1> QED BY <1>1, AccessInvariant, PTL

-----------------------------------------------------------------------------
(* Linking.                                                                *)

Used(l) == links[l].at # "unused"

\* A link that is there and shares its host with no link there is or was.
Own(l) == links[l].at = "there" /\ \A d \in Link \ {l} : ~Used(d) \/ links[d].host # links[l].host

\* A host holds what links deployed to it have put there.
Placed(h) == {NoMirror} \cup [of : {d \in Link : Used(d) /\ links[d].host = h}, with : Setting]
HostsHold == \A h \in LinkHost : /\ mm2[h].file \in Placed(h) /\ mm2[h].runs \in Placed(h)
                                 /\ mm2[h].is = "active" => mm2[h].runs # NoMirror

LinkBusy(r) == lreq[r].at # "idle"
LinkSole(r) == \A q \in LinkRequest : q # r /\ LinkBusy(q) => lreq[q].link # lreq[r].link
RequestHolds(r) ==
    /\ Used(lreq[r].link)
    /\ lreq[r].undisturbed => LinkSole(r) /\ lreq[r].state = links[lreq[r].link].state
    /\ lreq[r].link \notin strayed => lreq[r].undisturbed
    /\ lreq[r].link \notin edited => lreq[r].conf = links[lreq[r].link].conf
RequestsHold == \A r \in LinkRequest : LinkBusy(r) => RequestHolds(r)

Current(l) == {NoMirror, [of |-> l, with |-> links[l].conf]}
FileHolds(r) == lreq[r].undisturbed /\ lreq[r].at \in {"install", "start"} => mm2[HostOf(r)].file = FileOf(r)
LinkHolds(l) ==
    LET m == mm2[links[l].host] IN
    /\ l \notin edited => m.file \in Current(l) /\ m.runs \in Current(l)
    /\ \A r \in LinkRequest : lreq[r].link = l => FileHolds(r)
    /\ l \notin strayed /\ links[l].state = "stopped" => m.is = "inactive"
    /\ l \notin strayed /\ links[l].state = "running" =>
         m.is # "inactive" \/ \E r \in LinkRequest : lreq[r].link = l /\ lreq[r].at = "drop"
LinksHold == \A l \in Link : Own(l) => LinkHolds(l)

LinkInv == LinkTypeOK /\ HostsHold /\ RequestsHold /\ LinksHold

-----------------------------------------------------------------------------
(* Types.                                                                  *)

LEMMA NoLinkWorkTyped == NoLinkWork \in LinkWork /\ NoMirror \in Mirror
<1>1. (CHOOSE l \in Link : TRUE) \in Link /\ (CHOOSE v \in Setting : TRUE) \in Setting
  BY LinkingAssumption
<1> QED BY <1>1 DEF NoLinkWork, LinkWork, LinkState, NoMirror, Mirror

LEMMA LinkInitTyped == LinkInit => LinkTypeOK
<1> SUFFICES ASSUME LinkInit PROVE LinkTypeOK
  OBVIOUS
<1>1. (CHOOSE h \in LinkHost : TRUE) \in LinkHost /\ (CHOOSE v \in Setting : TRUE) \in Setting
  BY LinkingAssumption
<1>2. links \in [Link -> LinkRow]
  BY <1>1 DEF LinkInit, LinkRow, LinkState
<1>3. [file |-> NoMirror, unit |-> FALSE, is |-> "inactive", runs |-> NoMirror] \in MirrorUnit
  BY NoLinkWorkTyped DEF MirrorUnit
<1>4. mm2 \in [LinkHost -> MirrorUnit]
  BY <1>3 DEF LinkInit
<1>5. lreq \in [LinkRequest -> LinkWork]
  BY NoLinkWorkTyped DEF LinkInit
<1>6. calls \in 0 .. LinkOps /\ strayed \subseteq Link /\ edited \subseteq Link
  BY LinkingAssumption DEF LinkInit
<1> QED BY <1>2, <1>4, <1>5, <1>6 DEF LinkTypeOK

LEMMA WriteTyped ==
  ASSUME LinkTypeOK, NEW r \in LinkRequest, NEW s \in LinkState, WriteState(r, s)
  PROVE  links' \in [Link -> LinkRow]
BY DEF LinkTypeOK, LinkRow, LinkWork, WriteState

LEMMA WorkTyped ==
  ASSUME LinkTypeOK, NEW r \in LinkRequest
  PROVE  /\ lreq[r].link \in Link /\ lreq[r].conf \in Setting /\ lreq[r].state \in LinkState
         /\ HostOf(r) \in LinkHost /\ FileOf(r) \in Mirror /\ mm2[HostOf(r)].file \in Mirror
         /\ LEnds(r) => lreq' \in [LinkRequest -> LinkWork]
         /\ \A at \in {"install", "start", "drop"} : LGoes(r, at) => lreq' \in [LinkRequest -> LinkWork]
<1>1. lreq[r] \in LinkWork
  BY DEF LinkTypeOK
<1>2. lreq[r].link \in Link /\ lreq[r].conf \in Setting /\ lreq[r].state \in LinkState
  BY <1>1 DEF LinkWork
<1>3. links[lreq[r].link] \in LinkRow
  BY <1>2 DEF LinkTypeOK
<1>4. HostOf(r) \in LinkHost
  BY <1>3 DEF HostOf, LinkRow
<1>5. LEnds(r) => lreq' \in [LinkRequest -> LinkWork]
  BY NoLinkWorkTyped DEF LinkTypeOK, LEnds
<1>6. ASSUME NEW at \in {"install", "start", "drop"}, LGoes(r, at)
      PROVE  lreq' \in [LinkRequest -> LinkWork]
  <2>1. [lreq[r] EXCEPT !.at = at] \in LinkWork
    BY <1>1 DEF LinkWork
  <2> QED BY <1>6, <2>1 DEF LGoes, LinkTypeOK
<1>7. FileOf(r) \in Mirror
  BY <1>2 DEF FileOf, Mirror
<1>8. mm2[HostOf(r)].file \in Mirror
  BY <1>4 DEF LinkTypeOK, MirrorUnit
<1> QED BY <1>2, <1>4, <1>5, <1>6, <1>7, <1>8

LEMMA LaunchedTyped ==
  ASSUME NEW m \in MirrorUnit
  PROVE  /\ Launched(m) \in MirrorUnit /\ Launched(m).file = m.file /\ Launched(m).runs = m.file
         /\ Launched(m).is = IF m.file = NoMirror THEN "activating" ELSE "active"
BY DEF Launched, MirrorUnit

LEMMA HaltedTyped ==
  ASSUME LinkTypeOK, NEW h \in LinkHost
  PROVE  /\ Halted(h) \in [LinkHost -> MirrorUnit]
         /\ \A g \in LinkHost : g # h => Halted(h)[g] = mm2[g]
         /\ Halted(h)[h].file = mm2[h].file /\ Halted(h)[h].runs = NoMirror /\ Halted(h)[h].is = "inactive"
<1>1. mm2[h] \in MirrorUnit
  BY DEF LinkTypeOK
<1>2. [mm2[h] EXCEPT !.is = "inactive", !.runs = NoMirror] \in MirrorUnit
  BY <1>1, NoLinkWorkTyped DEF MirrorUnit
<1> QED BY <1>1, <1>2 DEF Halted, LinkTypeOK, MirrorUnit

LEMMA StepTyped ==
  ASSUME LinkTypeOK, NEW r \in LinkRequest, LinkStep(r)
  PROVE  LinkTypeOK'
<1> USE WorkTyped, NoLinkWorkTyped
<1>1. CASE WriteConfig(r)
  BY <1>1 DEF WriteConfig, LinkTypeOK, MirrorUnit
<1>2. CASE InstallMirror(r)
  BY <1>2 DEF InstallMirror, LinkTypeOK, MirrorUnit
<1>s. /\ Started(r) \in [LinkHost -> MirrorUnit]
      /\ Halted(HostOf(r)) \in [LinkHost -> MirrorUnit]
  BY LaunchedTyped, HaltedTyped DEF Started, LinkTypeOK
<1>3. CASE StartMirror(r)
  BY <1>3, <1>s, WriteTyped DEF StartMirror, LinkTypeOK, LinkState
<1>4. CASE StartFails(r)
  BY <1>4, <1>s, WriteTyped DEF StartFails, LinkTypeOK, LinkState
<1>5. CASE StopMirror(r)
  BY <1>5, <1>s, WriteTyped DEF StopMirror, LinkTypeOK, LinkState
<1>6. CASE StopFails(r)
  BY <1>6, <1>s DEF StopFails, LinkTypeOK
<1>7. CASE PollStatus(r)
  <2>1. links' \in [Link -> LinkRow]
    BY <1>7, WriteTyped DEF PollStatus, LinkState, LinkTypeOK
  <2> QED BY <1>7, <2>1 DEF PollStatus, PollSettles, LinkTypeOK
<1>8. CASE WipeMirror(r)
  <2>1. PICK on \in {mm2, Halted(HostOf(r))}, unit \in {mm2[HostOf(r)].unit, FALSE},
             file \in {mm2[HostOf(r)].file, NoMirror} :
               mm2' = [on EXCEPT ![HostOf(r)] = [@ EXCEPT !.unit = unit, !.file = file]]
    BY <1>8 DEF WipeMirror
  <2>2. on \in [LinkHost -> MirrorUnit] /\ unit \in BOOLEAN /\ file \in Mirror
    BY <1>s DEF LinkTypeOK, MirrorUnit
  <2>3. mm2' \in [LinkHost -> MirrorUnit]
    BY <2>1, <2>2 DEF MirrorUnit
  <2> QED BY <1>8, <2>3 DEF WipeMirror, LinkTypeOK
<1>9. CASE DropLink(r)
  BY <1>9 DEF DropLink, LinkTypeOK, LinkRow
<1>10. CASE Abandon(r)
  BY <1>10 DEF Abandon, LinkTypeOK
<1> QED BY <1>1, <1>2, <1>3, <1>4, <1>5, <1>6, <1>7, <1>8, <1>9, <1>10 DEF LinkStep

LEMMA LoadTyped ==
  ASSUME LinkTypeOK, NEW r \in LinkRequest, NEW l \in Link,
         NEW op \in {"deploy", "start", "stop", "poll", "delete"}, LoadLink(r, l, op)
  PROVE  LinkTypeOK'
<1>1. \A q \in LinkRequest : lreq[q] \in LinkWork
  BY DEF LinkTypeOK
<1>2. links[l] \in LinkRow
  BY DEF LinkTypeOK
<1> DEFINE loaded == [at |-> FirstStep(op), op |-> op, link |-> l, state |-> links[l].state,
                      conf |-> links[l].conf, undisturbed |-> On(l) = {}]
<1>3. FirstStep(op) \in {"write", "stop", "poll", "wipe"}
  BY DEF FirstStep
<1>4. loaded \in LinkWork
  BY <1>2, <1>3 DEF LinkWork, LinkRow
<1>5. \A q \in LinkRequest : [lreq[q] EXCEPT !.undisturbed = FALSE] \in LinkWork
  BY <1>1 DEF LinkWork
<1>6. lreq' = [q \in LinkRequest |->
                 IF q = r THEN loaded
                 ELSE IF q \in On(l) THEN [lreq[q] EXCEPT !.undisturbed = FALSE] ELSE lreq[q]]
  BY DEF LoadLink
<1> HIDE DEF loaded
<1>7. lreq' \in [LinkRequest -> LinkWork]
  BY <1>1, <1>4, <1>5, <1>6
<1>8. calls' \in 0 .. LinkOps
  BY LinkingAssumption DEF LoadLink, Counts, LinkTypeOK
<1> QED BY <1>7, <1>8 DEF LoadLink, LinkTypeOK

LEMMA DiesTyped ==
  ASSUME LinkTypeOK, NEW h \in LinkHost, MirrorDies(h)
  PROVE  LinkTypeOK'
<1>1. \A q \in LinkRequest : lreq[q] \in LinkWork
  BY DEF LinkTypeOK
<1>2. \A q \in LinkRequest : [lreq[q] EXCEPT !.undisturbed = (lreq[q].at = "idle")] \in LinkWork
  BY <1>1 DEF LinkWork
<1>3. lreq' \in [LinkRequest -> LinkWork]
  BY <1>1, <1>2 DEF MirrorDies
<1>4. mm2' \in [LinkHost -> MirrorUnit]
  BY HaltedTyped DEF MirrorDies
<1> QED BY <1>3, <1>4 DEF MirrorDies, LinkTypeOK

LEMMA LoopTyped ==
  ASSUME LinkTypeOK, NEW h \in LinkHost, MirrorFails(h) \/ MirrorRestarts(h)
  PROVE  LinkTypeOK'
<1>1. mm2[h] \in MirrorUnit
  BY DEF LinkTypeOK
<1>2. [mm2[h] EXCEPT !.is = "activating", !.runs = NoMirror] \in MirrorUnit
  BY <1>1, NoLinkWorkTyped DEF MirrorUnit
<1>3. mm2' \in [LinkHost -> MirrorUnit]
  BY <1>1, <1>2, LaunchedTyped DEF MirrorFails, MirrorRestarts, LinkTypeOK
<1> QED BY <1>3 DEF MirrorFails, MirrorRestarts, LinkTypeOK

LEMMA RowTyped ==
  ASSUME LinkTypeOK, NEW l \in Link, NEW v \in Setting,
         UpdateLink(l, v) \/ \E h \in LinkHost : CreateLink(l, v, h)
  PROVE  LinkTypeOK'
<1>1. CASE UpdateLink(l, v)
  BY <1>1, LinkingAssumption DEF UpdateLink, Counts, LinkTypeOK, LinkRow
<1>2. CASE \E h \in LinkHost : CreateLink(l, v, h)
  BY <1>2, LinkingAssumption DEF CreateLink, Counts, LinkTypeOK, LinkRow, LinkState
<1> QED BY <1>1, <1>2

LEMMA LinkTypedStep ==
  ASSUME LinkTypeOK, [LinkNext]_linkVars
  PROVE  LinkTypeOK'
<1>1. CASE UNCHANGED linkVars
  BY <1>1 DEF linkVars, LinkTypeOK
<1>2. CASE LinkNext
  BY <1>2, StepTyped, LoadTyped, DiesTyped, LoopTyped, RowTyped DEF LinkNext
<1> QED BY <1>1, <1>2

-----------------------------------------------------------------------------
(* What a step of a request leaves alone.                                  *)

\* The row of its link keeps host and settings and is dropped at most, other rows stay;
\* on the host of that link the request leaves or takes away what is there, or installs its
\* own; and the request goes on over the row as it is, or ends.
LinkWorks(r) ==
    LET l == lreq[r].link
        h == HostOf(r) IN
    /\ LinkBusy(r)
    /\ \A d \in Link : /\ links'[d].host = links[d].host /\ links'[d].conf = links[d].conf
                       /\ Used(d)' <=> Used(d)
                       /\ links'[d].at = "there" => links[d].at = "there"
                       /\ d # l => links'[d] = links[d]
    /\ \A q \in LinkRequest : q # r => lreq'[q] = lreq[q]
    /\ LinkBusy(r)' => /\ links' = links /\ strayed' = strayed /\ edited' = edited
                       /\ lreq'[r] = [lreq[r] EXCEPT !.at = lreq'[r].at]
    /\ \A g \in LinkHost : g # h => mm2'[g] = mm2[g]
    /\ mm2'[h].file \in {mm2[h].file, NoMirror, FileOf(r)}
    /\ mm2'[h].runs \in {mm2[h].runs, NoMirror, mm2[h].file}
    /\ mm2'[h].is = "active" => mm2'[h].runs # NoMirror
    /\ \A d \in strayed : d \in strayed' \/ (d = l /\ lreq[r].undisturbed /\ ~LinkBusy(r)')
    /\ \A d \in edited : d \in edited' \/ (d = l /\ lreq[r].undisturbed /\ ~LinkBusy(r)')

LEMMA RowWritten ==
  ASSUME LinkTypeOK, NEW r \in LinkRequest, NEW s \in LinkState, WriteState(r, s)
  PROVE  \A d \in Link : /\ links'[d].host = links[d].host /\ links'[d].conf = links[d].conf
                         /\ links'[d].at = links[d].at
                         /\ d # lreq[r].link => links'[d] = links[d]
BY DEF LinkTypeOK, LinkRow, LinkWork, WriteState

LEMMA WorkEnds ==
  ASSUME LinkTypeOK, NEW r \in LinkRequest, LEnds(r)
  PROVE  ~LinkBusy(r)' /\ \A q \in LinkRequest : q # r => lreq'[q] = lreq[q]
BY DEF LinkTypeOK, LEnds, NoLinkWork, LinkBusy

LEMMA WorkGoes ==
  ASSUME LinkTypeOK, NEW r \in LinkRequest, NEW at, LGoes(r, at)
  PROVE  /\ lreq'[r] = [lreq[r] EXCEPT !.at = lreq'[r].at] /\ lreq'[r].at = at
         /\ \A q \in LinkRequest : q # r => lreq'[q] = lreq[q]
BY DEF LinkTypeOK, LGoes, LinkWork

LEMMA WipeLeaves ==
  ASSUME LinkTypeOK, NEW r \in LinkRequest, WipeMirror(r)
  PROVE  LET h == HostOf(r) IN
         /\ \A g \in LinkHost : g # h => mm2'[g] = mm2[g]
         /\ mm2'[h].file \in {mm2[h].file, NoMirror}
         /\ \/ mm2'[h].runs = mm2[h].runs /\ mm2'[h].is = mm2[h].is
            \/ mm2'[h].runs = NoMirror /\ mm2'[h].is = "inactive"
<1> DEFINE h == HostOf(r)
<1>1. h \in LinkHost
  BY WorkTyped
<1>2. PICK on \in {mm2, Halted(h)}, unit \in {mm2[h].unit, FALSE}, file \in {mm2[h].file, NoMirror} :
         mm2' = [on EXCEPT ![h] = [@ EXCEPT !.unit = unit, !.file = file]]
  BY DEF WipeMirror
<1>3. on \in [LinkHost -> MirrorUnit]
  BY <1>1, HaltedTyped DEF LinkTypeOK
<1>4. /\ \A g \in LinkHost : g # h => mm2'[g] = on[g]
      /\ mm2'[h].file = file /\ mm2'[h].runs = on[h].runs /\ mm2'[h].is = on[h].is
  BY <1>1, <1>2, <1>3 DEF MirrorUnit
<1>5. /\ \A g \in LinkHost : g # h => on[g] = mm2[g]
      /\ on = mm2 \/ (on[h].runs = NoMirror /\ on[h].is = "inactive")
  BY <1>1, <1>2, HaltedTyped
<1> QED BY <1>2, <1>4, <1>5

LEMMA StepWorks ==
  ASSUME LinkInv, NEW r \in LinkRequest, LinkStep(r)
  PROVE  LinkWorks(r)
<1> USE DEF LinkInv
<1>b. LinkBusy(r)
  BY DEF LinkStep, WriteConfig, InstallMirror, StartMirror, StartFails, StopMirror, StopFails, PollStatus,
         WipeMirror, DropLink, Abandon, LinkBusy
<1>t. /\ lreq[r].link \in Link /\ HostOf(r) \in LinkHost
      /\ Used(lreq[r].link) /\ (lreq[r].link \notin strayed => lreq[r].undisturbed)
  BY <1>b, WorkTyped DEF RequestsHold, RequestHolds
<1>m. mm2 \in [LinkHost -> MirrorUnit]
  BY DEF LinkTypeOK
<1>r. links \in [Link -> LinkRow]
  BY DEF LinkTypeOK
<1>a. mm2[HostOf(r)] \in MirrorUnit /\ (mm2[HostOf(r)].is = "active" => mm2[HostOf(r)].runs # NoMirror)
  BY <1>t, <1>m DEF HostsHold
<1>s. ASSUME mm2' = Started(r)
      PROVE  /\ \A g \in LinkHost : g # HostOf(r) => mm2'[g] = mm2[g]
             /\ mm2'[HostOf(r)].file = mm2[HostOf(r)].file
             /\ mm2'[HostOf(r)].runs \in {mm2[HostOf(r)].runs, mm2[HostOf(r)].file}
             /\ mm2'[HostOf(r)].is = "active" => mm2'[HostOf(r)].runs # NoMirror
  BY <1>s, <1>t, <1>m, <1>a, LaunchedTyped DEF Started
<1>u. ASSUME mm2' = Halted(HostOf(r))
      PROVE  /\ \A g \in LinkHost : g # HostOf(r) => mm2'[g] = mm2[g]
             /\ mm2'[HostOf(r)].file = mm2[HostOf(r)].file
             /\ mm2'[HostOf(r)].runs = NoMirror /\ mm2'[HostOf(r)].is = "inactive"
  BY <1>u, <1>t, HaltedTyped
<1>1. CASE WriteConfig(r)
  <2>1. links' = links /\ strayed' = strayed /\ edited' = edited
    BY <1>1 DEF WriteConfig
  <2>2. \E at : LGoes(r, at)
    BY <1>1 DEF WriteConfig
  <2>3. /\ lreq'[r] = [lreq[r] EXCEPT !.at = lreq'[r].at]
        /\ \A q \in LinkRequest : q # r => lreq'[q] = lreq[q]
    BY <2>2, WorkGoes
  <2>4. /\ \A g \in LinkHost : g # HostOf(r) => mm2'[g] = mm2[g]
        /\ mm2'[HostOf(r)].file = FileOf(r)
        /\ mm2'[HostOf(r)].runs = mm2[HostOf(r)].runs /\ mm2'[HostOf(r)].is = mm2[HostOf(r)].is
    BY <1>1, <1>m, <1>t DEF WriteConfig, MirrorUnit
  <2> QED BY <1>b, <1>t, <1>a, <2>1, <2>3, <2>4 DEF LinkWorks, Used
<1>2. CASE InstallMirror(r)
  <2>1. links' = links /\ strayed' = strayed /\ edited' = edited
    BY <1>2 DEF InstallMirror
  <2>3. /\ lreq'[r] = [lreq[r] EXCEPT !.at = lreq'[r].at]
        /\ \A q \in LinkRequest : q # r => lreq'[q] = lreq[q]
    BY <1>2, WorkGoes DEF InstallMirror
  <2>4. /\ \A g \in LinkHost : g # HostOf(r) => mm2'[g] = mm2[g]
        /\ mm2'[HostOf(r)].file = mm2[HostOf(r)].file
        /\ mm2'[HostOf(r)].runs = mm2[HostOf(r)].runs /\ mm2'[HostOf(r)].is = mm2[HostOf(r)].is
    BY <1>2, <1>m, <1>t DEF InstallMirror, MirrorUnit
  <2> QED BY <1>b, <1>t, <1>a, <2>1, <2>3, <2>4 DEF LinkWorks, Used
<1>3. CASE StartMirror(r)
  <2>1. ~LinkBusy(r)' /\ \A q \in LinkRequest : q # r => lreq'[q] = lreq[q]
    BY <1>3, WorkEnds DEF StartMirror
  <2>2. \A d \in edited : d \in edited' \/ (d = lreq[r].link /\ d \notin strayed)
    BY <1>3 DEF StartMirror
  <2>3. WriteState(r, "running") /\ mm2' = Started(r) /\ strayed' = strayed
    BY <1>3 DEF StartMirror
  <2> QED BY <1>b, <1>t, <1>s, <2>1, <2>2, <2>3, RowWritten DEF LinkWorks, Used, LinkState
<1>4. CASE StartFails(r)
  <2>1. ~LinkBusy(r)' /\ \A q \in LinkRequest : q # r => lreq'[q] = lreq[q]
    BY <1>4, WorkEnds DEF StartFails
  <2>2. WriteState(r, "error") /\ (mm2' = Started(r) \/ mm2' = mm2) /\ strayed' = strayed /\ edited' = edited
    BY <1>4 DEF StartFails
  <2> QED BY <1>b, <1>t, <1>s, <1>a, <2>1, <2>2, RowWritten DEF LinkWorks, Used, LinkState
<1>5. CASE StopMirror(r)
  <2>1. ~LinkBusy(r)' /\ \A q \in LinkRequest : q # r => lreq'[q] = lreq[q]
    BY <1>5, WorkEnds DEF StopMirror
  <2>2. /\ WriteState(r, "stopped") /\ strayed' = strayed /\ edited' = edited
        /\ mm2' = Halted(HostOf(r))
    BY <1>5 DEF StopMirror
  <2> QED BY <1>b, <1>t, <1>u, <2>1, <2>2, RowWritten DEF LinkWorks, Used, LinkState
<1>6. CASE StopFails(r)
  <2>1. ~LinkBusy(r)' /\ \A q \in LinkRequest : q # r => lreq'[q] = lreq[q]
    BY <1>6, WorkEnds DEF StopFails
  <2>2. /\ links' = links /\ strayed \subseteq strayed' /\ edited' = edited
        /\ mm2' = mm2 \/ mm2' = Halted(HostOf(r))
    BY <1>6 DEF StopFails
  <2> QED BY <1>b, <1>t, <1>a, <1>u, <2>1, <2>2 DEF LinkWorks, Used
<1>7. CASE PollStatus(r)
  <2>1. ~LinkBusy(r)' /\ \A q \in LinkRequest : q # r => lreq'[q] = lreq[q]
    BY <1>7, WorkEnds DEF PollStatus
  <2>2. /\ mm2' = mm2 /\ edited' = edited
        /\ \A d \in strayed : d \in strayed' \/ (d = lreq[r].link /\ lreq[r].undisturbed)
    BY <1>7 DEF PollStatus, PollSettles
  <2>3. links' = links \/ \E s \in LinkState : WriteState(r, s)
    BY <1>7 DEF PollStatus, LinkState
  <2> QED BY <1>b, <1>t, <1>a, <2>1, <2>2, <2>3, RowWritten DEF LinkWorks, Used
<1>8. CASE WipeMirror(r)
  <2>1. links' = links /\ strayed' = strayed /\ edited' = edited
    BY <1>8 DEF WipeMirror
  <2>3. /\ lreq'[r] = [lreq[r] EXCEPT !.at = lreq'[r].at]
        /\ \A q \in LinkRequest : q # r => lreq'[q] = lreq[q]
    BY <1>8, WorkGoes DEF WipeMirror
  <2>4. /\ \A g \in LinkHost : g # HostOf(r) => mm2'[g] = mm2[g]
        /\ mm2'[HostOf(r)].file \in {mm2[HostOf(r)].file, NoMirror}
        /\ mm2'[HostOf(r)].runs \in {mm2[HostOf(r)].runs, NoMirror}
        /\ mm2'[HostOf(r)].is = "active" => mm2'[HostOf(r)].runs # NoMirror
    BY <1>8, <1>t, <1>a, WipeLeaves
  <2> QED BY <1>b, <1>t, <2>1, <2>3, <2>4 DEF LinkWorks, Used
<1>9. CASE DropLink(r)
  <2>1. ~LinkBusy(r)' /\ \A q \in LinkRequest : q # r => lreq'[q] = lreq[q]
    BY <1>9, WorkEnds DEF DropLink
  <2>2. mm2' = mm2 /\ strayed' = strayed /\ edited' = edited /\ links' = [links EXCEPT ![lreq[r].link].at = "gone"]
    BY <1>9 DEF DropLink
  <2> QED BY <1>b, <1>t, <1>r, <1>a, <2>1, <2>2 DEF LinkWorks, Used, LinkRow
<1>10. CASE Abandon(r)
  <2>1. ~LinkBusy(r)' /\ \A q \in LinkRequest : q # r => lreq'[q] = lreq[q]
    BY <1>10, WorkEnds DEF Abandon
  <2>2. mm2' = mm2 /\ links' = links /\ strayed \subseteq strayed' /\ edited' = edited
    BY <1>10 DEF Abandon
  <2> QED BY <1>b, <1>t, <1>a, <2>1, <2>2 DEF LinkWorks, Used
<1> QED BY <1>1, <1>2, <1>3, <1>4, <1>5, <1>6, <1>7, <1>8, <1>9, <1>10 DEF LinkStep

-----------------------------------------------------------------------------
(* The invariant.                                                          *)

LEMMA OnlyOwn ==
  ASSUME LinkInv, NEW r \in LinkRequest, LinkBusy(r), NEW d \in Link, Own(d), HostOf(r) = links[d].host
  PROVE  lreq[r].link = d
BY WorkTyped DEF LinkInv, RequestsHold, RequestHolds, Own, HostOf

LEMMA NothingIsLess == NoMirror.with = NoSetting /\ \A r \in LinkRequest : LinkTypeOK => FileOf(r) # NoMirror
BY WorkTyped, LinkingAssumption DEF NoMirror, FileOf

\* All that a step of r does not decide by itself: what hosts hold, what requests know,
\* and the links other than its own.
LEMMA WorksKeeps ==
  ASSUME LinkInv, LinkTypeOK', NEW r \in LinkRequest, LinkWorks(r)
  PROVE  /\ HostsHold' /\ RequestsHold'
         /\ \A d \in Link : Own(d)' => Own(d)
         /\ \A d \in Link : d # lreq[r].link /\ Own(d)' => LinkHolds(d)'
<1> DEFINE l == lreq[r].link
           h == HostOf(r)
<1>t. /\ l \in Link /\ h \in LinkHost /\ Used(l) /\ h = links[l].host
  BY WorkTyped DEF LinkInv, RequestsHold, RequestHolds, LinkWorks, HostOf
<1>p. \A g \in LinkHost : Placed(g)' = Placed(g)
  BY DEF LinkWorks, Placed
<1>1. HostsHold'
  <2>1. FileOf(r) \in Placed(h)
    BY <1>t, WorkTyped DEF LinkInv, FileOf, Placed
  <2>2. /\ mm2[h].file \in Placed(h) /\ mm2[h].runs \in Placed(h) /\ NoMirror \in Placed(h)
    BY <1>t DEF LinkInv, HostsHold, Placed
  <2>3. /\ mm2'[h].file \in Placed(h) /\ mm2'[h].runs \in Placed(h)
        /\ mm2'[h].is = "active" => mm2'[h].runs # NoMirror
    BY <2>1, <2>2 DEF LinkWorks
  <2>4. \A g \in LinkHost : g # h => mm2'[g] = mm2[g]
    BY DEF LinkWorks
  <2> QED BY <1>p, <2>3, <2>4 DEF LinkInv, HostsHold
<1>2. RequestsHold'
  <2> SUFFICES ASSUME NEW q \in LinkRequest, LinkBusy(q)' PROVE RequestHolds(q)'
    BY DEF RequestsHold
  <2>w. \A p \in LinkRequest : LinkBusy(p)' => LinkBusy(p) /\ lreq'[p].link = lreq[p].link
    <3>1. lreq[r] \in LinkWork
      BY DEF LinkInv, LinkTypeOK
    <3> QED BY <3>1 DEF LinkWorks, LinkBusy, LinkWork
  <2>1. CASE q = r
    <3>1. /\ links' = links /\ strayed' = strayed /\ edited' = edited
          /\ lreq'[r].link = l /\ lreq'[r].conf = lreq[r].conf /\ lreq'[r].state = lreq[r].state
          /\ lreq'[r].undisturbed = lreq[r].undisturbed
      <4>1. lreq[r] \in LinkWork
        BY DEF LinkInv, LinkTypeOK
      <4> QED BY <2>1, <4>1 DEF LinkWorks, LinkWork
    <3>2. RequestHolds(r)
      BY DEF LinkInv, RequestsHold, LinkWorks
    <3> QED BY <2>1, <2>w, <3>1, <3>2 DEF RequestHolds, LinkSole, Used
  <2>2. CASE q # r
    <3>1. lreq'[q] = lreq[q] /\ LinkBusy(q) /\ RequestHolds(q)
      BY <2>2, <2>w DEF LinkInv, RequestsHold, LinkWorks
    <3>2. lreq[q].link \in Link
      BY WorkTyped DEF LinkInv
    <3>3. LinkSole(q) => LinkSole(q)' /\ lreq[q].link # l
      BY <2>2, <2>w, <3>1 DEF LinkSole, LinkWorks
    <3>4. CASE lreq[q].link = l
      <4>1. ~lreq[q].undisturbed /\ l \in strayed
        BY <3>1, <3>3, <3>4 DEF RequestHolds
      <4>2. ~lreq[r].undisturbed
        <5>1. RequestHolds(r)
          BY DEF LinkInv, RequestsHold, LinkWorks
        <5>2. ~LinkSole(r)
          BY <2>2, <3>1, <3>4 DEF LinkSole
        <5> QED BY <5>1, <5>2 DEF RequestHolds
      <4>3. /\ l \in strayed' /\ (l \in edited => l \in edited')
            /\ links'[l].at # "unused" /\ links'[l].conf = links[l].conf
        BY <1>t, <4>1, <4>2 DEF LinkWorks, Used
      <4>4. l \notin edited' => lreq[q].conf = links[l].conf
        BY <3>1, <3>4, <4>3 DEF RequestHolds
      <4> QED BY <3>1, <3>4, <4>1, <4>3, <4>4 DEF RequestHolds, Used
    <3>5. CASE lreq[q].link # l
      <4>1. /\ links'[lreq[q].link] = links[lreq[q].link]
            /\ lreq[q].link \in strayed => lreq[q].link \in strayed'
            /\ lreq[q].link \in edited => lreq[q].link \in edited'
        BY <3>2, <3>5 DEF LinkWorks
      <4> QED BY <3>1, <3>3, <4>1 DEF RequestHolds, Used
    <3> QED BY <3>4, <3>5
  <2> QED BY <2>1, <2>2
<1>3. \A d \in Link : Own(d)' => Own(d)
  BY DEF LinkWorks, Own, Used
<1>4. ASSUME NEW d \in Link, d # l, Own(d)'
      PROVE  LinkHolds(d)'
  <2>1. Own(d) /\ LinkHolds(d)
    BY <1>3, <1>4 DEF LinkInv, LinksHold
  <2>2. links[d].host # h /\ links[d].host \in LinkHost
    BY <1>4, <1>t, <2>1 DEF Own, LinkInv, LinkTypeOK, LinkRow
  <2>3. links'[d] = links[d] /\ mm2'[links[d].host] = mm2[links[d].host]
    BY <1>4, <2>2 DEF LinkWorks
  <2>4. (d \in strayed => d \in strayed') /\ (d \in edited => d \in edited')
    BY <1>4 DEF LinkWorks
  <2>5. \A q \in LinkRequest : lreq'[q].link = d /\ q # r => lreq'[q] = lreq[q]
    BY DEF LinkWorks
  <2>6. lreq'[r].at # "idle" => lreq'[r].link = l
    <3>1. lreq[r] \in LinkWork
      BY DEF LinkInv, LinkTypeOK
    <3> QED BY <3>1 DEF LinkWorks, LinkBusy, LinkWork
  <2>7. ASSUME NEW q \in LinkRequest, lreq'[q].link = d
        PROVE  FileHolds(q)'
    <3>1. CASE q = r
      BY <1>4, <2>6, <2>7, <3>1 DEF FileHolds
    <3>2. CASE q # r
      <4>1. lreq'[q] = lreq[q] /\ FileHolds(q)
        BY <2>1, <2>5, <2>7, <3>2 DEF LinkHolds
      <4> QED BY <2>3, <2>7, <4>1 DEF FileHolds, HostOf, FileOf
    <3> QED BY <3>1, <3>2
  <2>8. (\E q \in LinkRequest : lreq[q].link = d /\ lreq[q].at = "drop")
          => \E q \in LinkRequest : lreq'[q].link = d /\ lreq'[q].at = "drop"
    BY <1>4 DEF LinkWorks
  <2> QED BY <2>1, <2>3, <2>4, <2>7, <2>8 DEF LinkHolds, Current
<1> QED BY <1>1, <1>2, <1>3, <1>4

\* The link the step works on, if its host is its own.
LEMMA OwnLinkKept ==
  ASSUME LinkInv, LinkTypeOK', NEW r \in LinkRequest, LinkStep(r),
         NEW l \in Link, lreq[r].link = l, Own(l)'
  PROVE  LinkHolds(l)'
<1> DEFINE h == links[l].host
           m == mm2[h]
<1>w. LinkWorks(r) /\ LinkBusy(r)
  BY StepWorks DEF LinkWorks
<1>o. Own(l) /\ LinkHolds(l)
  BY <1>w, WorksKeeps DEF LinkInv, LinksHold
<1>r. RequestHolds(r)
  BY <1>w DEF LinkInv, RequestsHold
<1>h. HostOf(r) = h /\ h \in LinkHost /\ links[l].at = "there"
  BY <1>o DEF HostOf, Own, LinkInv, LinkTypeOK, LinkRow
<1>l. links'[l].host = h /\ links'[l].conf = links[l].conf
  BY <1>w DEF LinkWorks
<1>t. /\ mm2 \in [LinkHost -> MirrorUnit]
      /\ links \in [Link -> LinkRow] /\ lreq[r] \in LinkWork
  BY DEF LinkInv, LinkTypeOK
<1>f. /\ m.file \in {NoMirror} \cup [of : {l}, with : Setting]
      /\ m.runs \in {NoMirror} \cup [of : {l}, with : Setting]
  <2>1. {d \in Link : Used(d) /\ links[d].host = h} = {l}
    BY <1>o, <1>h DEF Own, Used
  <2> QED BY <1>h, <2>1 DEF LinkInv, HostsHold, Placed
<1>n. FileOf(r) = [of |-> l, with |-> lreq[r].conf] /\ FileOf(r) # NoMirror
  BY NothingIsLess DEF FileOf, LinkInv
<1>1. l \notin edited => mm2'[h].file \in Current(l) /\ mm2'[h].runs \in Current(l)
  <2>1. mm2'[h].file \in {m.file, NoMirror, FileOf(r)} /\ mm2'[h].runs \in {m.runs, NoMirror, m.file}
    BY <1>w, <1>h DEF LinkWorks
  <2>2. l \notin edited => lreq[r].conf = links[l].conf
    BY <1>r DEF RequestHolds
  <2> QED BY <1>o, <1>n, <2>1, <2>2 DEF LinkHolds, Current
<1>2. ASSUME NEW q \in LinkRequest, q # r, lreq'[q].link = l
      PROVE  FileHolds(q)'
  <2>1. lreq'[q] = lreq[q]
    BY <1>w, <1>2 DEF LinkWorks
  <2>2. LinkBusy(q) => ~lreq[q].undisturbed
    BY <1>w, <1>2, <2>1 DEF LinkInv, RequestsHold, RequestHolds, LinkSole
  <2> QED BY <2>1, <2>2 DEF FileHolds, LinkBusy
\* What is left to show of the action at hand.
<1> DEFINE Fits(f) == f = NoMirror \/ f = [of |-> l, with |-> links[l].conf]
           Kept == /\ l \in edited /\ l \notin edited' => Fits(mm2'[h].file) /\ Fits(mm2'[h].runs)
                   /\ lreq'[r].undisturbed /\ lreq'[r].at \in {"install", "start"}
                        => lreq'[r].link = l /\ lreq'[r].conf = lreq[r].conf /\ mm2'[h].file = FileOf(r)
                   /\ l \notin strayed' /\ links'[l].state = "stopped" => mm2'[h].is = "inactive"
                   /\ l \notin strayed' /\ links'[l].state = "running" =>
                        mm2'[h].is # "inactive" \/ \E q \in LinkRequest : lreq'[q].link = l /\ lreq'[q].at = "drop"
<1>3. ASSUME Kept PROVE LinkHolds(l)'
  <2>1. l \notin edited' => mm2'[h].file \in Current(l)' /\ mm2'[h].runs \in Current(l)'
    BY <1>1, <1>3, <1>l DEF Current
  <2>2. lreq'[r].link = l => FileHolds(r)'
    BY <1>3, <1>n, <1>l DEF FileHolds, FileOf, HostOf
  <2> QED BY <1>2, <1>3, <1>l, <2>1, <2>2 DEF LinkHolds
<1> SUFFICES Kept BY <1>3
<1> HIDE DEF Kept
<1>c. /\ l \notin strayed => lreq[r].undisturbed
      /\ lreq[r].undisturbed => lreq[r].state = links[l].state
      /\ l \notin strayed /\ links[l].state = "stopped" => m.is = "inactive"
      /\ l \notin strayed /\ links[l].state = "running" /\ lreq[r].at # "drop" => m.is # "inactive"
      /\ lreq[r].undisturbed /\ lreq[r].at \in {"install", "start"} => m.file = FileOf(r)
  <2>1. ASSUME NEW q \in LinkRequest, lreq[q].link = l, lreq[q].at = "drop", l \notin strayed
        PROVE  q = r
    BY <1>r, <1>w, <2>1 DEF RequestHolds, LinkSole, LinkBusy
  <2>2. FileHolds(r)
    BY <1>o DEF LinkHolds
  <2> QED BY <1>r, <1>o, <1>h, <2>1, <2>2 DEF RequestHolds, LinkHolds, FileHolds
<1>g. \A at : LGoes(r, at) =>
        /\ lreq'[r].at = at /\ lreq'[r].link = l /\ lreq'[r].conf = lreq[r].conf
        /\ lreq'[r].undisturbed = lreq[r].undisturbed
  BY <1>t, WorkGoes DEF LGoes, LinkWork, LinkInv, LinkTypeOK
<1>e. LEnds(r) => lreq'[r].at = "idle"
  BY WorkEnds DEF LinkBusy, LinkInv
<1>s. \A s \in LinkState : WriteState(r, s) =>
        links'[l].state = IF s = lreq[r].state THEN links[l].state ELSE s
  BY <1>t, <1>h DEF WriteState, LinkRow
<1>x. mm2' = Started(r) =>
        /\ mm2'[h].file = m.file /\ mm2'[h].runs = (IF m.is = "active" THEN m.runs ELSE m.file)
        /\ mm2'[h].is # "inactive"
  BY <1>t, <1>h, LaunchedTyped DEF Started
<1>y. mm2' = Halted(h) => mm2'[h].runs = NoMirror /\ mm2'[h].is = "inactive"
  BY <1>h, HaltedTyped DEF LinkInv
<1>11. CASE WriteConfig(r)
  <2>1. /\ mm2'[h].file = FileOf(r) /\ mm2'[h].is = m.is /\ UNCHANGED <<links, strayed, edited>>
        /\ lreq'[r].conf = lreq[r].conf /\ lreq'[r].link = l
    BY <1>11, <1>t, <1>h, <1>g DEF WriteConfig, MirrorUnit
  <2> QED BY <1>11, <1>c, <2>1 DEF Kept, WriteConfig
<1>12. CASE InstallMirror(r)
  <2>1. /\ mm2'[h].file = m.file /\ mm2'[h].is = m.is /\ UNCHANGED <<links, strayed, edited>>
        /\ lreq'[r].conf = lreq[r].conf /\ lreq'[r].link = l /\ lreq'[r].undisturbed = lreq[r].undisturbed
    BY <1>12, <1>t, <1>h, <1>g DEF InstallMirror, MirrorUnit
  <2> QED BY <1>12, <1>c, <2>1 DEF Kept, InstallMirror
<1>13. CASE StartMirror(r)
  <2>1. /\ lreq'[r].at = "idle" /\ strayed' = strayed /\ lreq[r].at = "start"
        /\ mm2'[h].file = m.file /\ mm2'[h].runs = (IF m.is = "active" THEN m.runs ELSE m.file)
        /\ mm2'[h].is # "inactive"
        /\ links'[l].state = IF "running" = lreq[r].state THEN links[l].state ELSE "running"
    BY <1>13, <1>e, <1>x, <1>s DEF StartMirror, LinkState
  <2>2. l \in edited /\ l \notin edited' =>
          l \notin strayed /\ lreq[r].conf = links[l].conf /\ lreq[r].state = "stopped"
    BY <1>13 DEF StartMirror
  <2>3. l \notin strayed => m.file = FileOf(r) /\ links'[l].state = "running"
    BY <1>c, <1>n, <2>1
  <2>4. l \in edited /\ l \notin edited' => Fits(mm2'[h].file) /\ Fits(mm2'[h].runs)
    BY <1>c, <1>n, <2>1, <2>2, <2>3
  <2> QED BY <2>1, <2>3, <2>4 DEF Kept
<1>14. CASE StartFails(r)
  <2>1. /\ lreq'[r].at = "idle" /\ UNCHANGED <<strayed, edited>>
        /\ links'[l].state = IF "error" = lreq[r].state THEN links[l].state ELSE "error"
    BY <1>14, <1>e, <1>s DEF StartFails, LinkState
  <2>2. l \notin strayed => links'[l].state = "error"
    BY <1>c, <2>1
  <2> QED BY <2>1, <2>2 DEF Kept
<1>15. CASE StopMirror(r)
  <2>1. /\ lreq'[r].at = "idle" /\ UNCHANGED <<strayed, edited>> /\ mm2'[h].is = "inactive"
        /\ links'[l].state = IF "stopped" = lreq[r].state THEN links[l].state ELSE "stopped"
    BY <1>15, <1>e, <1>s, <1>y, <1>h DEF StopMirror, LinkState
  <2>2. l \notin strayed => links'[l].state = "stopped"
    BY <1>c, <2>1
  <2> QED BY <2>1, <2>2 DEF Kept
<1>16. CASE StopFails(r)
  <2>1. /\ lreq'[r].at = "idle" /\ UNCHANGED <<links, edited>> /\ lreq[r].at = "stop"
        /\ l \notin strayed' => l \notin strayed /\ mm2' = mm2
    BY <1>16, <1>e DEF StopFails
  <2> QED BY <1>c, <2>1 DEF Kept
<1>17. CASE PollStatus(r)
  <2>1. /\ lreq'[r].at = "idle" /\ UNCHANGED <<mm2, edited>> /\ lreq[r].at # "drop"
        /\ l \notin strayed' => lreq[r].undisturbed
        /\ l \notin strayed' => (l \in strayed /\ m.is = "activating" => lreq[r].state = "running")
    BY <1>17, <1>e, <1>c, <1>h DEF PollStatus, PollSettles
  <2>2. CASE m.is = "active"
    <3>1. links'[l].state = IF "running" = lreq[r].state THEN links[l].state ELSE "running"
      BY <1>17, <1>h, <1>s, <2>2 DEF PollStatus, LinkState
    <3> QED BY <1>c, <2>1, <2>2, <3>1 DEF Kept
  <2>3. CASE m.is = "inactive" /\ lreq[r].state = "running"
    <3>1. links'[l].state \in {"stopped", "error"}
      BY <1>17, <1>h, <1>s, <2>3 DEF PollStatus, LinkState
    <3> QED BY <2>1, <2>3, <3>1 DEF Kept
  <2>4. CASE m.is = "inactive" /\ lreq[r].state # "running"
    <3>1. links' = links
      BY <1>17, <1>h, <2>4 DEF PollStatus
    <3> QED BY <1>c, <2>1, <2>4, <3>1 DEF Kept
  <2>5. CASE m.is = "activating"
    <3>1. links' = links
      BY <1>17, <1>h, <2>5 DEF PollStatus
    <3>2. l \notin strayed' => links[l].state # "stopped"
      BY <1>c, <2>1, <2>5
    <3> QED BY <2>1, <2>5, <3>1, <3>2 DEF Kept
  <2>6. m.is \in {"inactive", "active", "activating"}
    BY <1>t, <1>h DEF MirrorUnit
  <2> QED BY <2>2, <2>3, <2>4, <2>5, <2>6
<1>18. CASE WipeMirror(r)
  <2>1. /\ lreq'[r].at = "drop" /\ lreq'[r].link = l /\ UNCHANGED <<links, strayed, edited>>
    BY <1>18, <1>g DEF WipeMirror
  <2>2. mm2'[h].is \in {m.is, "inactive"}
    BY <1>18, <1>h, WipeLeaves DEF LinkInv
  <2> QED BY <1>c, <2>1, <2>2 DEF Kept
<1>19. CASE DropLink(r)
  <2>1. links'[l].at = "gone"
    BY <1>19, <1>t DEF DropLink, LinkRow
  <2> QED BY <2>1 DEF Own
<1>20. CASE Abandon(r)
  <2>1. /\ lreq'[r].at = "idle" /\ UNCHANGED <<mm2, links, edited>>
        /\ l \notin strayed' => l \notin strayed /\ lreq[r].at = "poll"
    BY <1>20, <1>e DEF Abandon
  <2> QED BY <1>c, <2>1 DEF Kept
<1> QED BY <1>11, <1>12, <1>13, <1>14, <1>15, <1>16, <1>17, <1>18, <1>19, <1>20 DEF LinkStep

LEMMA LinkStepKeeps ==
  ASSUME LinkInv, NEW r \in LinkRequest, LinkStep(r)
  PROVE  LinkInv'
<1>1. LinkTypeOK'
  BY StepTyped DEF LinkInv
<1>2. LinkWorks(r) /\ lreq[r].link \in Link
  BY StepWorks, WorkTyped DEF LinkInv
<1>3. HostsHold' /\ RequestsHold'
  BY <1>1, <1>2, WorksKeeps
<1>4. ASSUME NEW d \in Link, Own(d)'
      PROVE  LinkHolds(d)'
  BY <1>1, <1>2, <1>4, WorksKeeps, OwnLinkKept
<1> QED BY <1>1, <1>3, <1>4 DEF LinkInv, LinksHold

\* A request that loads a row: another one of the link is disturbed, and the link astray.
LEMMA LoadKeeps ==
  ASSUME LinkInv, NEW r \in LinkRequest, NEW l \in Link,
         NEW op \in {"deploy", "start", "stop", "poll", "delete"}, LoadLink(r, l, op)
  PROVE  LinkInv'
<1>1. LinkTypeOK' /\ LinkTypeOK
  BY LoadTyped DEF LinkInv
<1>2. /\ UNCHANGED <<links, mm2, edited>> /\ strayed \subseteq strayed' /\ ~LinkBusy(r)
      /\ On(l) # {} => l \in strayed'
  BY DEF LoadLink, LinkBusy
<1>3. /\ lreq'[r].at \in {"write", "stop", "poll", "wipe"} /\ lreq'[r].link = l
      /\ lreq'[r].state = links[l].state /\ lreq'[r].conf = links[l].conf
      /\ lreq'[r].undisturbed <=> On(l) = {}
  BY DEF LoadLink, FirstStep
<1>4. ASSUME NEW q \in LinkRequest, q # r
      PROVE  /\ lreq'[q].at = lreq[q].at /\ lreq'[q].link = lreq[q].link
             /\ lreq'[q].state = lreq[q].state /\ lreq'[q].conf = lreq[q].conf
             /\ lreq'[q].undisturbed <=> lreq[q].undisturbed /\ q \notin On(l)
  <2>1. lreq[q] \in LinkWork
    BY <1>1 DEF LinkTypeOK
  <2>2. lreq'[q] = IF q \in On(l) THEN [lreq[q] EXCEPT !.undisturbed = FALSE] ELSE lreq[q]
    BY <1>4 DEF LoadLink
  <2> QED BY <2>1, <2>2 DEF LinkWork
<1>5. HostsHold'
  BY <1>2 DEF LinkInv, HostsHold, Placed, Used
<1>6. ASSUME NEW q \in LinkRequest, LinkBusy(q)'
      PROVE  RequestHolds(q)'
  <2>1. CASE q = r
    <3>1. lreq'[r].undisturbed => LinkSole(r)'
      BY <1>3, <1>4 DEF LinkSole, On, LinkBusy
    <3>2. links[l].at # "unused"
      BY DEF LoadLink
    <3> QED BY <1>2, <1>3, <2>1, <3>1, <3>2 DEF RequestHolds, Used
  <2>2. CASE q # r
    <3>1. LinkBusy(q) /\ RequestHolds(q)
      BY <1>4, <1>6, <2>2 DEF LinkInv, RequestsHold, LinkBusy
    <3>2. lreq'[q].undisturbed => lreq[q].undisturbed /\ lreq[q].link # l
      BY <1>4, <2>2, <3>1 DEF On, LinkBusy
    <3>3. lreq'[q].undisturbed => LinkSole(q)'
      BY <1>3, <1>4, <2>2, <3>1, <3>2 DEF RequestHolds, LinkSole, LinkBusy
    <3>4. lreq[q].link \notin strayed' => lreq'[q].undisturbed
      BY <1>2, <1>4, <2>2, <3>1 DEF RequestHolds, On, LinkBusy
    <3> QED BY <1>2, <1>4, <2>2, <3>1, <3>2, <3>3, <3>4 DEF RequestHolds, Used
  <2> QED BY <2>1, <2>2
<1>7. ASSUME NEW d \in Link, Own(d)'
      PROVE  LinkHolds(d)'
  <2>1. LinkHolds(d)
    BY <1>2, <1>7 DEF LinkInv, LinksHold, Own, Used
  <2>2. ASSUME NEW q \in LinkRequest, lreq'[q].link = d
        PROVE  FileHolds(q)'
    <3>1. CASE q = r
      BY <1>3, <3>1 DEF FileHolds
    <3>2. CASE q # r
      <4>1. FileHolds(q)
        BY <1>4, <2>1, <2>2, <3>2 DEF LinkHolds
      <4> QED BY <1>2, <1>4, <3>2, <4>1 DEF FileHolds, HostOf, FileOf
    <3> QED BY <3>1, <3>2
  <2>3. (\E q \in LinkRequest : lreq[q].link = d /\ lreq[q].at = "drop")
          => \E q \in LinkRequest : lreq'[q].link = d /\ lreq'[q].at = "drop"
    BY <1>2, <1>4 DEF LinkBusy
  <2> QED BY <1>2, <2>1, <2>2, <2>3 DEF LinkHolds, Current
<1> QED BY <1>1, <1>5, <1>6, <1>7 DEF LinkInv, RequestsHold, LinksHold

\* MirrorMaker dies: every link of its host is astray, and every request on one disturbed.
LEMMA DiesKeeps ==
  ASSUME LinkInv, NEW h \in LinkHost, MirrorDies(h)
  PROVE  LinkInv'
<1>1. LinkTypeOK' /\ LinkTypeOK
  BY DiesTyped DEF LinkInv
<1>2. /\ UNCHANGED <<links, edited>> /\ strayed \subseteq strayed'
      /\ \A d \in Link : links[d].host = h => d \in strayed'
  BY DEF MirrorDies
<1>3. ASSUME NEW q \in LinkRequest
      PROVE  /\ lreq'[q].at = lreq[q].at /\ lreq'[q].link = lreq[q].link
             /\ lreq'[q].state = lreq[q].state /\ lreq'[q].conf = lreq[q].conf
             /\ HostOf(q) # h => lreq'[q].undisturbed = lreq[q].undisturbed
             /\ LinkBusy(q) /\ HostOf(q) = h => ~lreq'[q].undisturbed
  <2>1. lreq[q] \in LinkWork
    BY <1>1 DEF LinkTypeOK
  <2>2. lreq'[q] = IF HostOf(q) = h THEN [lreq[q] EXCEPT !.undisturbed = (lreq[q].at = "idle")] ELSE lreq[q]
    BY DEF MirrorDies
  <2> QED BY <2>1, <2>2 DEF LinkWork, LinkBusy
<1>4. \A g \in LinkHost : /\ mm2'[g].file = mm2[g].file
                          /\ mm2'[g].runs = IF g = h THEN NoMirror ELSE mm2[g].runs
                          /\ mm2'[g].is = IF g = h THEN "inactive" ELSE mm2[g].is
  BY <1>1, HaltedTyped DEF MirrorDies
<1>5. HostsHold'
  BY <1>2, <1>4 DEF LinkInv, HostsHold, Placed, Used
<1>6. ASSUME NEW q \in LinkRequest, LinkBusy(q)'
      PROVE  RequestHolds(q)'
  <2>1. LinkBusy(q) /\ RequestHolds(q) /\ lreq[q].link \in Link
    BY <1>1, <1>3, <1>6, WorkTyped DEF LinkInv, RequestsHold, LinkBusy
  <2>2. LinkSole(q) => LinkSole(q)'
    BY <1>3 DEF LinkSole, LinkBusy
  <2>3. lreq'[q].undisturbed => lreq[q].undisturbed
    BY <1>3, <2>1
  <2>4. lreq[q].link \notin strayed' => HostOf(q) # h
    BY <1>2, <2>1 DEF HostOf
  <2> QED BY <1>2, <1>3, <2>1, <2>2, <2>3, <2>4 DEF RequestHolds, Used
<1>7. ASSUME NEW d \in Link, Own(d)'
      PROVE  LinkHolds(d)'
  <2>1. LinkHolds(d) /\ links[d].host \in LinkHost
    BY <1>1, <1>2, <1>7 DEF LinkInv, LinksHold, Own, Used, LinkTypeOK, LinkRow
  <2>2. ASSUME NEW q \in LinkRequest, lreq'[q].link = d
        PROVE  FileHolds(q)'
    <3>1. FileHolds(q) /\ HostOf(q) \in LinkHost
      BY <1>1, <1>3, <2>1, <2>2, WorkTyped DEF LinkHolds
    <3>2. lreq'[q].undisturbed /\ lreq'[q].at \in {"install", "start"} => lreq[q].undisturbed
      BY <1>3 DEF LinkBusy
    <3> QED BY <1>2, <1>3, <1>4, <3>1, <3>2 DEF FileHolds, HostOf, FileOf
  <2>3. CASE links[d].host = h
    <3>1. d \in strayed'
      BY <1>2, <2>3
    <3> QED BY <1>2, <1>4, <2>1, <2>2, <3>1 DEF LinkHolds, Current
  <2>4. CASE links[d].host # h
    <3>1. (\E q \in LinkRequest : lreq[q].link = d /\ lreq[q].at = "drop")
            => \E q \in LinkRequest : lreq'[q].link = d /\ lreq'[q].at = "drop"
      BY <1>3
    <3> QED BY <1>2, <1>4, <2>1, <2>2, <2>4, <3>1 DEF LinkHolds, Current
  <2> QED BY <2>3, <2>4
<1> QED BY <1>1, <1>5, <1>6, <1>7 DEF LinkInv, RequestsHold, LinksHold

\* It fails and is started again: with what the file says, and never down in between.
LEMMA LoopKeeps ==
  ASSUME LinkInv, NEW h \in LinkHost, MirrorFails(h) \/ MirrorRestarts(h)
  PROVE  LinkInv'
<1>1. LinkTypeOK' /\ LinkTypeOK
  BY LoopTyped DEF LinkInv
<1>2. UNCHANGED <<links, lreq, strayed, edited>>
  BY DEF MirrorFails, MirrorRestarts
<1>3. mm2[h] \in MirrorUnit
  BY <1>1 DEF LinkTypeOK
<1>4. /\ \A g \in LinkHost : g # h => mm2'[g] = mm2[g]
      /\ mm2'[h].file = mm2[h].file /\ mm2'[h].runs \in {NoMirror, mm2[h].file}
      /\ mm2[h].is # "inactive" /\ mm2'[h].is # "inactive"
      /\ mm2'[h].is = "active" => mm2'[h].runs # NoMirror
  <2>1. CASE MirrorFails(h)
    BY <1>1, <1>3, <2>1 DEF MirrorFails, LinkTypeOK, MirrorUnit
  <2>2. CASE MirrorRestarts(h)
    BY <1>1, <1>3, <2>2, LaunchedTyped DEF MirrorRestarts, LinkTypeOK
  <2> QED BY <2>1, <2>2
<1>5. HostsHold'
  <2>1. \A g \in LinkHost : Placed(g)' = Placed(g)
    BY <1>2 DEF Placed, Used
  <2>2. NoMirror \in Placed(h) /\ mm2[h].file \in Placed(h)
    BY DEF LinkInv, HostsHold, Placed
  <2> QED BY <1>4, <2>1, <2>2 DEF LinkInv, HostsHold
<1>6. RequestsHold'
  BY <1>2 DEF LinkInv, RequestsHold, RequestHolds, LinkBusy, LinkSole, Used
<1>7. ASSUME NEW d \in Link, Own(d)'
      PROVE  LinkHolds(d)'
  <2>1. LinkHolds(d) /\ links[d].host \in LinkHost
    BY <1>1, <1>2, <1>7 DEF LinkInv, LinksHold, Own, Used, LinkTypeOK, LinkRow
  <2>2. \A g \in LinkHost : mm2'[g].file = mm2[g].file
    BY <1>4
  <2>3. ASSUME NEW q \in LinkRequest, lreq'[q].link = d
        PROVE  FileHolds(q)'
    BY <1>1, <1>2, <2>1, <2>2, <2>3, WorkTyped DEF LinkHolds, FileHolds, HostOf, FileOf
  <2>4. CASE links[d].host # h
    BY <1>2, <1>4, <2>1, <2>3, <2>4 DEF LinkHolds, Current
  <2>5. CASE links[d].host = h
    BY <1>2, <1>4, <2>1, <2>3, <2>5 DEF LinkHolds, Current
  <2> QED BY <2>4, <2>5
<1> QED BY <1>1, <1>5, <1>6, <1>7 DEF LinkInv, RequestsHold, LinksHold

LEMMA UpdateKeeps ==
  ASSUME LinkInv, NEW l \in Link, NEW v \in Setting, UpdateLink(l, v)
  PROVE  LinkInv'
<1>1. LinkTypeOK' /\ LinkTypeOK
  BY RowTyped DEF LinkInv
<1>2. /\ UNCHANGED <<mm2, lreq, strayed>> /\ edited' = edited \cup {l}
      /\ \A d \in Link : /\ links'[d].at = links[d].at /\ links'[d].host = links[d].host
                         /\ links'[d].state = links[d].state /\ (d # l => links'[d].conf = links[d].conf)
  BY <1>1 DEF UpdateLink, LinkTypeOK, LinkRow
<1>3. HostsHold'
  BY <1>2 DEF LinkInv, HostsHold, Placed, Used
<1>4. RequestsHold'
  BY <1>1, <1>2, WorkTyped DEF LinkInv, RequestsHold, RequestHolds, LinkBusy, LinkSole, Used
<1>5. ASSUME NEW d \in Link, Own(d)'
      PROVE  LinkHolds(d)'
  <2>1. LinkHolds(d)
    BY <1>2, <1>5 DEF LinkInv, LinksHold, Own, Used
  <2>2. \A q \in LinkRequest : FileHolds(q) /\ lreq[q].link \in Link => FileHolds(q)'
    BY <1>2 DEF FileHolds, HostOf, FileOf
  <2> QED BY <1>2, <2>1, <2>2 DEF LinkHolds, Current
<1> QED BY <1>1, <1>3, <1>4, <1>5 DEF LinkInv, LinksHold

\* A new link finds on a host of its own what nobody has put there: nothing.
LEMMA LinkCreateKeeps ==
  ASSUME LinkInv, NEW l \in Link, NEW v \in Setting, NEW h \in LinkHost, CreateLink(l, v, h)
  PROVE  LinkInv'
<1>1. LinkTypeOK' /\ LinkTypeOK
  BY RowTyped DEF LinkInv
<1>2. /\ UNCHANGED <<mm2, lreq, strayed, edited>> /\ links[l].at = "unused"
      /\ links'[l] = [at |-> "there", state |-> "created", conf |-> v, host |-> h]
      /\ \A d \in Link : d # l => links'[d] = links[d]
  BY <1>1 DEF CreateLink, LinkTypeOK
<1>3. \A g \in LinkHost : Placed(g) \subseteq Placed(g)'
  BY <1>2 DEF Placed, Used
<1>4. HostsHold'
  BY <1>2, <1>3 DEF LinkInv, HostsHold
<1>5. \A q \in LinkRequest : LinkBusy(q) => lreq[q].link # l /\ lreq[q].link \in Link
  BY <1>1, <1>2, WorkTyped DEF LinkInv, RequestsHold, RequestHolds, Used
<1>6. RequestsHold'
  BY <1>2, <1>5 DEF LinkInv, RequestsHold, RequestHolds, LinkBusy, LinkSole, Used
<1>7. ASSUME NEW d \in Link, Own(d)'
      PROVE  LinkHolds(d)'
  <2>1. CASE d = l
    <3>1. {c \in Link : Used(c) /\ links[c].host = h} = {}
      BY <1>2, <1>7, <2>1 DEF Own, Used
    <3>2. mm2[h].file = NoMirror /\ mm2[h].runs = NoMirror
      BY <3>1 DEF LinkInv, HostsHold, Placed
    <3>3. \A q \in LinkRequest : lreq[q].link = l => lreq[q].at = "idle"
      BY <1>5 DEF LinkBusy
    <3> QED BY <1>2, <2>1, <3>2, <3>3 DEF LinkHolds, Current, FileHolds
  <2>2. CASE d # l
    <3>1. LinkHolds(d)
      BY <1>2, <1>7, <2>2 DEF LinkInv, LinksHold, Own, Used
    <3>2. \A q \in LinkRequest : lreq[q].link = d /\ FileHolds(q) => FileHolds(q)'
      BY <1>2, <2>2 DEF FileHolds, HostOf, FileOf
    <3> QED BY <1>2, <2>2, <3>1, <3>2 DEF LinkHolds, Current
  <2> QED BY <2>1, <2>2
<1> QED BY <1>1, <1>4, <1>6, <1>7 DEF LinkInv, LinksHold

LEMMA LinkInvStep ==
  ASSUME LinkInv, [LinkNext]_linkVars
  PROVE  LinkInv'
<1>1. CASE UNCHANGED linkVars
  <2>1. UNCHANGED <<links, mm2, lreq, calls, strayed, edited>>
    BY <1>1 DEF linkVars
  <2> QED BY <2>1 DEF LinkInv, LinkTypeOK, HostsHold, Placed, Used, RequestsHold, RequestHolds, LinkBusy, LinkSole,
                      LinksHold, Own, LinkHolds, Current, FileHolds, HostOf, FileOf
<1>2. CASE LinkNext
  BY <1>2, LinkStepKeeps, LoadKeeps, DiesKeeps, LoopKeeps, UpdateKeeps, LinkCreateKeeps DEF LinkNext
<1> QED BY <1>1, <1>2

LEMMA LinkInvariant == LinkSpec => []LinkInv
<1>1. LinkInit => LinkInv
  <2> SUFFICES ASSUME LinkInit PROVE LinkInv
    OBVIOUS
  <2>1. HostsHold
    BY DEF LinkInit, HostsHold, Placed
  <2>2. RequestsHold /\ LinksHold
    BY DEF LinkInit, RequestsHold, LinksHold, LinkBusy, Own, NoLinkWork
  <2> QED BY <2>1, <2>2, LinkInitTyped DEF LinkInv
<1> QED BY <1>1, LinkInvStep, PTL DEF LinkSpec

-----------------------------------------------------------------------------
(* Theorems.                                                               *)

\* Every variable of Linking keeps its type, whatever requests write back from
\* rows they read before.
THEOREM LinkTyped == LinkSpec => []LinkTypeOK
<1>1. LinkInv => LinkTypeOK
  BY DEF LinkInv
<1> QED BY <1>1, LinkInvariant, PTL

\* A link that is settled on a host of its own and called running is kept up: its
\* MirrorMaker runs, or has failed and is started again, after any deploys, starts, stops,
\* polls (get_link_status) and failures of them.
THEOREM RunningKeptUp == LinkSpec => []RunningLinkKeptUp
<1>1. LinkInv => RunningLinkKeptUp
  <2> SUFFICES ASSUME LinkInv, NEW l \in Link, Settled(l), links[l].state = "running"
               PROVE  /\ mm2[links[l].host].is # "inactive"
                      /\ mm2[links[l].host].is = "active" => mm2[links[l].host].runs.of = l
    BY DEF RunningLinkKeptUp
  <2>1. Own(l) /\ links[l].host \in LinkHost
    BY DEF Settled, Own, Used, LinkInv, LinkTypeOK, LinkRow
  <2>2. ~ \E r \in LinkRequest : lreq[r].link = l /\ lreq[r].at = "drop"
    BY DEF Settled, On
  <2>3. mm2[links[l].host].is # "inactive"
    BY <2>1, <2>2 DEF LinkInv, LinksHold, LinkHolds, Settled
  <2>4. {d \in Link : Used(d) /\ links[d].host = links[l].host} = {l}
    BY <2>1 DEF Own, Used
  <2>5. ASSUME mm2[links[l].host].is = "active" PROVE mm2[links[l].host].runs.of = l
    BY <2>1, <2>4, <2>5 DEF LinkInv, HostsHold, Placed
  <2> QED BY <2>3, <2>5
<1> QED BY <1>1, LinkInvariant, PTL

\* If its settings have not changed since it was started from a stop, those are the
\* settings it runs with when it runs (start_link), whichever of the requests since then
\* wrote the file, and however often it was started again.
THEOREM StartApplies == LinkSpec => []StartAppliesSettings
<1>1. LinkInv => StartAppliesSettings
  <2> SUFFICES ASSUME LinkInv, NEW l \in Link, Settled(l), links[l].state = "running", l \notin edited,
                      mm2[links[l].host].is = "active"
               PROVE  mm2[links[l].host].runs.with = links[l].conf
    BY DEF StartAppliesSettings
  <2>1. Own(l) /\ links[l].host \in LinkHost
    BY DEF Settled, Own, Used, LinkInv, LinkTypeOK, LinkRow
  <2>2. mm2[links[l].host].runs \in Current(l) /\ mm2[links[l].host].runs # NoMirror
    BY <2>1 DEF LinkInv, LinksHold, LinkHolds, HostsHold
  <2> QED BY <2>2 DEF Current
<1> QED BY <1>1, LinkInvariant, PTL

=============================================================================
