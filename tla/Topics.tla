------------------------------- MODULE Topics -------------------------------
(***************************************************************************)
(* The topics of one cluster as the console lists them                     *)
(* (services/kafka_admin.py): a list kept for five seconds, changes that   *)
(* drop it, and the validation run that makes and removes a test topic.    *)
(* Request threads share the cache, each of its accesses under a lock.     *)
(***************************************************************************)
EXTENDS Naturals

CONSTANTS
    Topic,          \* names of topics
    TestTopic,      \* the one a validation uses
    TopicRequest,   \* request threads
    MaxPartitions   \* bound: partitions of a topic

ASSUME TopicsAssumption ==
    /\ TestTopic \in Topic
    /\ MaxPartitions \in Nat \ {0}

VARIABLES
    kind,           \* a managed cluster, or one that was only connected
    topics,         \* Kafka: partitions of every topic, 0 where there is none
    cache,          \* the entry of the cluster in _TOPIC_LIST_CACHE
    call            \* call[r]: where thread r is

topicsVars == <<kind, topics, cache, call>>

Listing == [Topic -> 0 .. MaxPartitions]

\* "missed" is history: topics changed since the list was read, by a change that
\* does not drop it or came before it was stored.
Cache == [held : BOOLEAN, list : Listing, missed : SUBSET Topic]

\* fetch: the cache had nothing; fetched: Kafka answered; changed: a command was
\* executed, the cache not yet dropped.  A validation has its test topic to create, to
\* probe with messages and to delete besides.
Call == [at : {"idle", "fetch", "fetched", "changed", "create", "probe", "delete"},
         validating : BOOLEAN, topic : Topic, deleted : BOOLEAN,
         list : Listing, missed : SUBSET Topic]

TopicsTypeOK ==
    /\ kind \in {"managed", "external"}
    /\ topics \in Listing
    /\ cache \in Cache
    /\ call \in [TopicRequest -> Call]

NoTopic == [t \in Topic |-> 0]
NoCache == [held |-> FALSE, list |-> NoTopic, missed |-> {}]
Resting == [at |-> "idle", validating |-> FALSE, topic |-> TestTopic, deleted |-> FALSE,
            list |-> NoTopic, missed |-> {}]
Validating(at) == [Resting EXCEPT !.at = at, !.validating = TRUE]
TopicsInit ==
    /\ kind \in {"managed", "external"}
    /\ topics = NoTopic /\ cache = NoCache
    /\ call = [r \in TopicRequest |-> Resting]

-----------------------------------------------------------------------------
(* Listing.                                                                *)

\* A list that is held answers at once.
List(r) ==
    /\ call[r].at = "idle" /\ ~cache.held
    /\ call' = [call EXCEPT ![r] = [Resting EXCEPT !.at = "fetch"]]
    /\ UNCHANGED <<kind, topics, cache>>

\* The fast path over TCP leaves out names such as the test topic's; kafka-topics.sh
\* and an external cluster's client show them.
Answer == {topics} \cup (IF kind = "managed" THEN {[topics EXCEPT ![TestTopic] = 0]} ELSE {})

ReadTopics(r) ==
    /\ call[r].at = "fetch"
    /\ \E l \in Answer :
         call' = [call EXCEPT ![r] = [call[r] EXCEPT !.at = "fetched", !.list = l, !.missed = {}]]
    /\ UNCHANGED <<kind, topics, cache>>

\* The validation of an external cluster calls the client itself, past the cache.
PastCache(r) == call[r].validating /\ kind = "external"

StoreList(r) ==
    /\ call[r].at = "fetched"
    /\ cache' = IF PastCache(r) THEN cache
                ELSE [held |-> TRUE, list |-> call[r].list, missed |-> call[r].missed]
    /\ call' = [call EXCEPT ![r] = IF call[r].validating THEN Validating("create") ELSE Resting]
    /\ UNCHANGED <<kind, topics>>

\* Neither way of asking worked; a validation stops here too.
ReadFails(r) ==
    /\ call[r].at = "fetch"
    /\ call' = [call EXCEPT ![r] = Resting]
    /\ UNCHANGED <<kind, topics, cache>>

Expire ==
    /\ cache.held
    /\ cache' = NoCache
    /\ UNCHANGED <<kind, topics, call>>

-----------------------------------------------------------------------------
(* Changing.                                                               *)

\* Validation lists first, from the cache if that holds a list.
Validate(r) ==
    /\ call[r].at = "idle"
    /\ call' = [call EXCEPT ![r] = Validating(IF cache.held /\ kind = "managed" THEN "create" ELSE "fetch")]
    /\ UNCHANGED <<kind, topics, cache>>

\* The commands thread r may send: any, or the one its validation has come to.
Due(r, op, t, n) ==
    \/ call[r].at = "idle"
    \/ call[r].at = op /\ t = TestTopic /\ n <= 1

\* What Kafka takes.  That partitions grow is looked at first, and by Kafka again.
Accepted(op, t, n) ==
    \/ op = "create" /\ topics[t] = 0 /\ n > 0
    \/ op = "delete" /\ topics[t] > 0 /\ n = 0
    \/ op = "increase" /\ topics[t] > 0 /\ n > topics[t]

\* The result of more partitions drops no list.
DropsList(r, op) == op # "increase" /\ ~PastCache(r)

\* What was read before no longer says how the topic is.
Overtaken(r, t, next) ==
    [q \in TopicRequest |-> IF q = r THEN next ELSE [call[q] EXCEPT !.missed = @ \cup {t}]]
Unnoticed(t) == cache' = [cache EXCEPT !.missed = IF cache.held THEN @ \cup {t} ELSE {}]

\* A test topic that was made is probed.
After(r, deleted) == IF call[r].validating /\ ~deleted THEN Validating("probe") ELSE Resting

RunChange(r, op, t, n) ==
    /\ Due(r, op, t, n) /\ Accepted(op, t, n)
    /\ topics' = [topics EXCEPT ![t] = n]
    /\ IF DropsList(r, op)
       THEN /\ call' = Overtaken(r, t, [Resting EXCEPT !.at = "changed", !.topic = t,
                                           !.validating = call[r].validating, !.deleted = (n = 0)])
            /\ UNCHANGED cache
       ELSE /\ call' = Overtaken(r, t, After(r, n = 0))
            /\ Unnoticed(t)
    /\ UNCHANGED kind

\* The command was executed, and is reported as failed: the agent's answer is lost, SSH
\* runs it again and meets its own result.  A validation takes a topic that exists.
RunUnheard(r, op, t, n) ==
    /\ Due(r, op, t, n) /\ Accepted(op, t, n)
    /\ topics' = [topics EXCEPT ![t] = n]
    /\ Unnoticed(t)
    /\ \/ call' = Overtaken(r, t, Resting)
       \/ call[r].at = "create" /\ call' = Overtaken(r, t, Validating("probe"))
    /\ UNCHANGED kind

\* A validation's command is refused, or not executed: one that exists is used.
RunRefused(r) ==
    /\ call[r].at \in {"create", "delete"}
    /\ \/ call' = [call EXCEPT ![r] = Resting]
       \/ /\ call[r].at = "create" /\ topics[TestTopic] > 0
          /\ call' = [call EXCEPT ![r] = Validating("probe")]
    /\ UNCHANGED <<kind, topics, cache>>

\* Seeded fault: a deletion leaves the list.
DropCacheOnCreate(r) ==
    /\ call[r].at = "changed"
    /\ cache' = IF call[r].deleted THEN cache ELSE NoCache
    /\ call' = [call EXCEPT ![r] = After(r, call[r].deleted)]
    /\ UNCHANGED <<kind, topics>>

DropCache(r) ==
    /\ call[r].at = "changed"
    /\ cache' = NoCache
    /\ call' = [call EXCEPT ![r] = After(r, call[r].deleted)]
    /\ UNCHANGED <<kind, topics>>

\* The message was written, and read again or not: the topic goes.  If it could not be
\* written, the validation returns at once and the topic stays.
Probe(r) ==
    /\ call[r].at = "probe"
    /\ \E next \in {Validating("delete"), Resting} : call' = [call EXCEPT ![r] = next]
    /\ UNCHANGED <<kind, topics, cache>>

\* The backend is started again: the cache was in its memory.
Restart ==
    /\ cache' = NoCache
    /\ call' = [r \in TopicRequest |-> Resting]
    /\ UNCHANGED <<kind, topics>>

\* create_topic, delete_topic and increase_partitions, of a user or of a validation.
ChangeTopic(r) ==
    \E op \in {"create", "delete", "increase"}, t \in Topic, n \in 0 .. MaxPartitions :
        RunChange(r, op, t, n) \/ RunUnheard(r, op, t, n)

TopicsStep(r) ==
    \/ List(r) \/ ReadTopics(r) \/ StoreList(r) \/ ReadFails(r)
    \/ Validate(r) \/ ChangeTopic(r) \/ RunRefused(r) \/ DropCache(r) \/ Probe(r)

TopicsNext == (\E r \in TopicRequest : TopicsStep(r)) \/ Expire \/ Restart

TopicsSpec == TopicsInit /\ [][TopicsNext]_topicsVars

-----------------------------------------------------------------------------
(* Property.                                                               *)

\* The test topic may be left out of a list.
Agrees(l, t) == l[t] = topics[t] \/ (t = TestTopic /\ l[t] = 0)

\* What is served from the cache is how Kafka is, for every topic but those whose change
\* is still to drop it, was one of partitions, an external validation's or one reported
\* as failed, or came while the list was on its way: that one the drop does not reach, and
\* it hides the change until it expires.  A list that was there when a creation or deletion
\* was made is never served after it was confirmed.
ListIsCurrent ==
    cache.held =>
        \A t \in Topic : \/ Agrees(cache.list, t)
                         \/ t \in cache.missed
                         \/ \E r \in TopicRequest : call[r].at = "changed" /\ call[r].topic = t

=============================================================================
