---------------------------- MODULE BrokerConfig ----------------------------
(***************************************************************************)
(* Editing server.properties (services/config_manager.py): single edits,   *)
(* bulk edits and rollbacks, each a read of the whole file, a write of the *)
(* whole file and an entry in the audit log, through the agent or SSH.     *)
(* Requests run in threads and take no lock.                               *)
(***************************************************************************)
EXTENDS Naturals, Sequences

CONSTANTS
    Broker,        \* brokers of the cluster
    ConfigKey,     \* keys that are edited
    Configured,    \* those of them the rendered file has
    ConfigValue,   \* values, among them
    Default,       \* the rendered one
    Absent,        \* no line with the key
    EditRequest    \* bound: requests

ASSUME ConfigAssumption ==
    /\ Broker # {} /\ ConfigKey # {} /\ Configured \subseteq ConfigKey
    /\ Default \in ConfigValue /\ Absent \notin ConfigValue

VARIABLES
    properties,    \* properties[b]: the file on the host of b
    late,          \* writes an agent may still do after the caller has given up
    audit,         \* the audit log, oldest first
    edit,          \* edit[r]: where request r is
    clean,         \* history: brokers whose edits never overlapped or went astray
    apart          \* history: keys no edit of which came between a rollback and its mark

configVars == <<properties, late, audit, edit, clean, apart>>

Content == [ConfigKey -> ConfigValue \cup {Absent}]
Entry == [broker : Broker, key : ConfigKey, old : ConfigValue \cup {Absent}, new : ConfigValue,
          type : {"update", "rollback"}, by : EditRequest]
Edit == [at : {"idle", "loop", "read", "fallback", "written", "mark", "done", "failed"},
         kind : {"update", "bulk", "rollback"}, key : ConfigKey, value : ConfigValue,
         todo : SUBSET Broker, broker : Broker, seen : Content, via : {"agent", "ssh"}]

ConfigTypeOK ==
    /\ properties \in [Broker -> Content]
    /\ late \subseteq Broker \X Content
    /\ audit \in Seq(Entry)
    /\ edit \in [EditRequest -> Edit]
    /\ clean \subseteq Broker /\ apart \subseteq ConfigKey

\* Every key the rendered file has is there.
Rendered == [k \in ConfigKey |-> IF k \in Configured THEN Default ELSE Absent]
SomeBroker == CHOOSE b \in Broker : TRUE
Blank(at, kind) ==
    [at |-> at, kind |-> kind, key |-> CHOOSE k \in ConfigKey : TRUE, value |-> Default,
     todo |-> {}, broker |-> SomeBroker, seen |-> Rendered, via |-> "ssh"]
ConfigInit ==
    /\ properties = [b \in Broker |-> Rendered]
    /\ late = {} /\ audit = <<>>
    /\ edit = [r \in EditRequest |-> Blank("idle", "update")]
    /\ clean = Broker /\ apart = ConfigKey

Moved(r, at) == edit' = [edit EXCEPT ![r].at = at]

\* What a request remembers is gone with the broker it is done with, or at its end.
Left(r, at) ==
    edit' = [edit EXCEPT ![r] =
               IF at \in {"done", "failed"} THEN Blank(at, edit[r].kind)
               ELSE [edit[r] EXCEPT !.at = at, !.broker = SomeBroker, !.seen = Rendered, !.via = "ssh"]]

\* What follows when a broker is done with.
AfterBroker(r) == IF edit[r].todo # {} THEN "loop"
                  ELSE IF edit[r].kind = "rollback" THEN "mark" ELSE "done"

-----------------------------------------------------------------------------
\* Somebody else is between a read and a commit on b, or its write is under way.
Disturbed(r, b) ==
    \/ \E q \in EditRequest \ {r} : edit[q].broker = b /\ edit[q].at \in {"read", "fallback", "written"}
    \/ \E c \in Content : <<b, c>> \in late
Overlap(r, b) == clean' = IF Disturbed(r, b) THEN clean \ {b} ELSE clean

\* The agent, if it is connected, or SSH reads the file of b for the edit e.
Reads(r, e, b) ==
    /\ b \in e.todo
    /\ \E via \in {"agent", "ssh"} :
         edit' = [edit EXCEPT ![r] = [e EXCEPT !.at = "read", !.broker = b, !.via = via,
                                               !.todo = @ \ {b}, !.seen = properties[b]]]
    /\ Overlap(r, b)
    /\ UNCHANGED <<properties, late, audit, apart>>

Asked(kind, k, v, targets) ==
    [Blank("loop", kind) EXCEPT !.key = k, !.value = v, !.todo = targets]

\* One broker, or each of a list, at once on the first of them.
AskEdit(r) ==
    /\ edit[r].at = "idle"
    /\ \E b \in Broker, k \in ConfigKey, v \in ConfigValue :
         \/ Reads(r, Asked("update", k, v, {b}), b)
         \/ Reads(r, Asked("bulk", k, v, Broker), b)

\* An entry that added its key cannot be rolled back.
AskRollback(r) ==
    /\ edit[r].at = "idle"
    /\ \E i \in DOMAIN audit :
         /\ audit[i].old # Absent
         /\ edit' = [edit EXCEPT ![r] = Asked("rollback", audit[i].key, audit[i].old, {audit[i].broker})]
    /\ UNCHANGED <<properties, late, audit, clean, apart>>

ReadFile(r, b) == edit[r].at = "loop" /\ Reads(r, edit[r], b)

\* The agent timed out: over SSH the file is read afresh.
ReadAgain(r) ==
    /\ edit[r].at = "fallback"
    /\ edit' = [edit EXCEPT ![r] = [@ EXCEPT !.at = "read", !.via = "ssh",
                                              !.seen = properties[edit[r].broker]]]
    /\ UNCHANGED <<properties, late, audit, clean, apart>>

\* The line of the key is replaced or appended, every other line kept as it was read.
NewContent(r) == [edit[r].seen EXCEPT ![edit[r].key] = edit[r].value]

Installed(r) == properties' = [properties EXCEPT ![edit[r].broker] = NewContent(r)]

WriteFile(r) ==
    /\ edit[r].at = "read"
    /\ Moved(r, "written")
    /\ Installed(r)
    /\ UNCHANGED <<late, audit, clean, apart>>

\* The answer of the agent does not come in time; its command may yet be executed.
GiveUpOnAgent(r) ==
    /\ edit[r].at = "read" /\ edit[r].via = "agent"
    /\ edit' = [edit EXCEPT ![r] = [@ EXCEPT !.at = "fallback", !.via = "ssh", !.seen = Rendered]]
    /\ late' = late \cup {<<edit[r].broker, NewContent(r)>>}
    /\ clean' = clean \ {edit[r].broker}
    /\ UNCHANGED <<properties, audit, apart>>

LateWrite ==
    \E w \in late :
        /\ properties' \in {properties, [properties EXCEPT ![w[1]] = w[2]]}
        /\ late' = late \ {w}
        /\ UNCHANGED <<audit, edit, clean, apart>>

\* Seeded fault: old and new value are swapped in the entry.
RecordedSwapped(r) ==
    [broker |-> edit[r].broker, key |-> edit[r].key, old |-> edit[r].value,
     new |-> edit[r].seen[edit[r].key], type |-> "update", by |-> r]

Recorded(r) ==
    [broker |-> edit[r].broker, key |-> edit[r].key, old |-> edit[r].seen[edit[r].key],
     new |-> edit[r].value, type |-> "update", by |-> r]

CommitAudit(r) ==
    /\ edit[r].at = "written"
    /\ audit' = Append(audit, Recorded(r))
    /\ Left(r, AfterBroker(r))
    /\ apart' = IF \E q \in EditRequest \ {r} : edit[q].at = "mark" /\ edit[q].key = edit[r].key
                THEN apart \ {edit[r].key} ELSE apart
    /\ UNCHANGED <<properties, late, clean>>

\* A ValueError or RuntimeError, caught by the bulk loop: the command failed, though
\* the file may have been replaced before it did.
FailBroker(r) ==
    /\ edit[r].at \in {"read", "fallback"}
    /\ Left(r, IF edit[r].kind = "bulk" THEN AfterBroker(r) ELSE "failed")
    /\ \/ UNCHANGED <<properties, clean>>
       \/ Installed(r) /\ clean' = clean \ {edit[r].broker}
    /\ UNCHANGED <<late, audit, apart>>

\* Any other exception (SSH, the database), or the worker dies: all of it ends.
FailRequest(r) ==
    /\ edit[r].at \in {"loop", "read", "fallback", "written", "mark"}
    /\ Left(r, "failed")
    /\ clean' = IF edit[r].at = "written" THEN clean \ {edit[r].broker} ELSE clean
    /\ UNCHANGED <<properties, late, audit, apart>>

\* Seeded fault: the order of the query is ascending.
Oldest(k) == CHOOSE i \in DOMAIN audit :
    audit[i].key = k /\ \A j \in DOMAIN audit : audit[j].key = k => i <= j

Latest(k) == CHOOSE i \in DOMAIN audit :
    audit[i].key = k /\ \A j \in DOMAIN audit : audit[j].key = k => j <= i

\* The newest entry of the key, of whichever broker, becomes the rollback.
MarkRollback(r) ==
    /\ edit[r].at = "mark"
    /\ audit' = [audit EXCEPT ![Latest(edit[r].key)].type = "rollback"]
    /\ Left(r, "done")
    /\ UNCHANGED <<properties, late, clean, apart>>

EditStep(r) ==
    \/ \E b \in Broker : ReadFile(r, b)
    \/ ReadAgain(r) \/ WriteFile(r) \/ GiveUpOnAgent(r) \/ CommitAudit(r)
    \/ FailBroker(r) \/ FailRequest(r) \/ MarkRollback(r)

ConfigNext ==
    \/ \E r \in EditRequest : AskEdit(r) \/ AskRollback(r) \/ EditStep(r)
    \/ LateWrite

ConfigSpec == ConfigInit /\ [][ConfigNext]_configVars

-----------------------------------------------------------------------------
(* Properties.                                                             *)

EntriesOf(b, k) == {i \in DOMAIN audit : audit[i].broker = b /\ audit[i].key = k}

\* The value that entries of a key leave: that of the newest, or the rendered one.
LeftBy(es, k) ==
    IF es = {} THEN Rendered[k] ELSE audit[CHOOSE i \in es : \A j \in es : j <= i].new

\* The audit log of a broker replays to its file: each entry starts from the value
\* the one before it left, and the last one is what the file says.  So it is as long as no two
\* edits of the broker overlapped and none was lost between file and log; a bulk edit
\* that stops half way, failed edits and rollbacks do no harm.
AuditReplays ==
    \A b \in clean, k \in ConfigKey :
        LET es == EntriesOf(b, k) IN
        /\ \A i \in es : audit[i].old = LeftBy({j \in es : j < i}, k)
        /\ (\A r \in EditRequest : edit[r].broker = b => edit[r].at # "written")
              => properties[b][k] = LeftBy(es, k)

\* The entry called a rollback is the one a rollback wrote, unless another edit of the
\* key, even on another broker, was committed before the mark.
MarksOwnEntry ==
    \A i \in DOMAIN audit : audit[i].key \in apart =>
        (audit[i].type = "rollback" <=> /\ edit[audit[i].by].kind = "rollback"
                                        /\ edit[audit[i].by].at = "done")

=============================================================================
