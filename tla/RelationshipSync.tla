-------------------------- MODULE RelationshipSync --------------------------
(***************************************************************************)
(* The way of a relationship tuple from the database to OpenFGA.  A service *)
(* transaction changes the row of authz_relationship_tuples and appends an *)
(* outbox event (src/internal/service/relationship_tuples.go); a dispatcher *)
(* writes the change to OpenFGA, or publishes it to a NATS stream whose    *)
(* consumers write it (src/internal/jobs, src/internal/platform/natsbus).  *)
(*                                                                         *)
(* Claims, leases and attempts of the outbox are the business of           *)
(* Outbox.tla.  Here a row is to do until a handler call returned success, *)
(* and two dispatchers may be in the handler with one row, as they are     *)
(* when a lease runs out.                                                  *)
(***************************************************************************)
EXTENDS Naturals, Sequences, FiniteSets

CONSTANTS
    Tuples,         \* object, relation and subject of a relationship
    Dispatchers,    \* outbox dispatchers
    Consumers,      \* replicas that run the OpenFGA consumer
    Modes,          \* whether a NATS publisher is configured: TRUE, FALSE or either
    MaxChanges,     \* bound: how many changes are made
    MaxDeliver,     \* max_deliver of the durable consumer
    MaxProcessed    \* openFGAConsumerMaxProcessedIDs

ASSUME SyncAssumption ==
    /\ Modes \subseteq BOOLEAN
    /\ MaxChanges \in Nat
    /\ MaxDeliver \in Nat \ {0}
    /\ MaxProcessed \in Nat \ {0}

VARIABLES
    stream,     \* whether the dispatchers publish, or write to OpenFGA themselves
    local,      \* authz_relationship_tuples
    log,        \* the appended events, in the order of their transactions
    row,        \* what the outbox still has to do for an event
    at,         \* the event a dispatcher is in the handler with, or 0
    msg, sent,  \* the event's message in the stream, and its deliveries so far
    on, nth,    \* the event a consumer works on, or 0, and which delivery that is
    processed,  \* event ids a consumer remembers
    effect,     \* per tuple the event that was written to OpenFGA last, or 0
    applied,    \* the events that were ever written to OpenFGA
    overlapped  \* history: tuples that were changed before an earlier change was settled

pipeVars == <<row, at, msg, sent, on, nth, processed, effect, applied>>
tupleVars == <<stream, local, log, overlapped>>
relVars == <<tupleVars, pipeVars>>

Events == 1..MaxChanges
Change == [op : {"write", "delete"}, tuple : Tuples]

RelTypeOK ==
    /\ stream \in Modes
    /\ local \subseteq Tuples
    /\ log \in Seq(Change) /\ Len(log) <= MaxChanges
    /\ row \in [Events -> {"none", "todo", "done", "dead"}]
    /\ at \in [Dispatchers -> 0..MaxChanges]
    /\ msg \in [Events -> {"none", "ready", "out", "acked", "spent"}]
    /\ sent \in [Events -> 0..MaxDeliver]
    /\ on \in [Consumers -> 0..MaxChanges]
    /\ nth \in [Consumers -> 0..MaxDeliver]
    /\ processed \in [Consumers -> SUBSET Events]
    /\ effect \in [Tuples -> 0..MaxChanges]
    /\ applied \subseteq Events
    /\ overlapped \subseteq Tuples

RelInit ==
    /\ stream \in Modes
    /\ local = {}
    /\ log = << >>
    /\ row = [i \in Events |-> "none"]
    /\ at = [d \in Dispatchers |-> 0]
    /\ msg = [i \in Events |-> "none"]
    /\ sent = [i \in Events |-> 0]
    /\ on = [c \in Consumers |-> 0]
    /\ nth = [c \in Consumers |-> 0]
    /\ processed = [c \in Consumers |-> {}]
    /\ effect = [t \in Tuples |-> 0]
    /\ applied = {}
    /\ overlapped = {}

-----------------------------------------------------------------------------
\* The transaction that changes tuples

\* Tuple t is there after the changes cs because the last one of t wrote it.
Leaves(cs, t) ==
    \E i \in DOMAIN cs : /\ cs[i] = [op |-> "write", tuple |-> t]
                        /\ \A j \in DOMAIN cs : j > i => cs[j].tuple # t

\* The rows are written or deleted one after the other.
Changed(cs) ==
    {t \in Tuples : Leaves(cs, t) \/ (t \in local /\ \A i \in DOMAIN cs : cs[i].tuple # t)}

\* Somebody works on event i, or may take it up again: the dispatchers, the stream
\* and its consumers, or an operator who retries a row that was given up.
Unsettled(i) ==
    \/ row[i] \in {"todo", "dead"}
    \/ msg[i] \in {"ready", "out"}
    \/ \E d \in Dispatchers : at[d] = i
    \/ \E c \in Consumers : on[c] = i

\* The tuples of which the changes cs are not the only ones under way.
Overlap(cs) ==
    {t \in Tuples : \E i \in DOMAIN cs :
        /\ cs[i].tuple = t
        /\ \/ \E j \in DOMAIN cs : j # i /\ cs[j].tuple = t
           \/ \E k \in 1..Len(log) : log[k].tuple = t /\ Unsettled(k)}

\* The changes cs of one transaction.
ApplyChanges(cs) ==
    /\ Len(log) + Len(cs) <= MaxChanges
    /\ local' = Changed(cs)
    /\ log' = log \o cs
    /\ row' = [i \in Events |-> IF i \in Len(log) + 1 .. Len(log) + Len(cs)
                                THEN "todo" ELSE row[i]]
    /\ overlapped' = overlapped \cup Overlap(cs)
    /\ UNCHANGED <<stream, at, msg, sent, on, nth, processed, effect, applied>>

-----------------------------------------------------------------------------
\* OpenFGA.  A write of a tuple that is there, or a delete of one that is not,
\* counts as success: the tuple is what the last write made of it.

Written(i) ==
    /\ effect' = [effect EXCEPT ![log[i].tuple] = i]
    /\ applied' = applied \cup {i}

Remote == {t \in Tuples : effect[t] # 0 /\ log[effect[t]].op = "write"}

-----------------------------------------------------------------------------
\* The dispatcher

\* A row to do is handled by some dispatcher; a back-off, or a lease that ran
\* out, may let any order and two calls at a time happen.
TakeRow(d) ==
    /\ at[d] = 0
    /\ \E i \in Events : row[i] = "todo" /\ at' = [at EXCEPT ![d] = i]
    /\ UNCHANGED <<tupleVars, row, msg, sent, on, nth, processed, effect, applied>>

\* The stream keeps one message per event id.
Published(i) ==
    /\ msg' = [msg EXCEPT ![i] = IF msg[i] = "none" THEN "ready" ELSE msg[i]]
    /\ UNCHANGED <<effect, applied>>

Handled(i) == IF stream THEN Published(i) ELSE Written(i) /\ UNCHANGED msg

\* Mutant: a dispatcher that was overtaken settles the row all the same.
AfterSuccess_Unfenced(i) == "done"

\* The row after a success: only the holder of its claim can report it.
AfterSuccess(i) == IF row[i] = "todo" THEN "done" ELSE row[i]

\* The call returned success.
RowDone(d) ==
    /\ at[d] # 0
    /\ Handled(at[d])
    /\ row' = [row EXCEPT ![at[d]] = AfterSuccess(at[d])]
    /\ at' = [at EXCEPT ![d] = 0]
    /\ UNCHANGED <<tupleVars, sent, on, nth, processed>>

\* The call failed, before or after it took effect, or the dispatcher stopped:
\* the row is retried, or dead-lettered after its last attempt.
RowFails(d) ==
    /\ at[d] # 0
    /\ \/ Handled(at[d])
       \/ UNCHANGED <<msg, effect, applied>>
    /\ \/ UNCHANGED row
       \/ row[at[d]] = "todo" /\ row' = [row EXCEPT ![at[d]] = "dead"]
    /\ at' = [at EXCEPT ![d] = 0]
    /\ UNCHANGED <<tupleVars, sent, on, nth, processed>>

-----------------------------------------------------------------------------
\* The stream's durable consumer

Idle(c) == on' = [on EXCEPT ![c] = 0] /\ nth' = [nth EXCEPT ![c] = 0]

Receive(c) ==
    /\ on[c] = 0
    /\ \E i \in Events :
        /\ msg[i] = "ready"
        /\ on' = [on EXCEPT ![c] = i]
        /\ nth' = [nth EXCEPT ![c] = sent[i] + 1]
        /\ sent' = [sent EXCEPT ![i] = @ + 1]
        /\ msg' = [msg EXCEPT ![i] = "out"]
    /\ UNCHANGED <<tupleVars, row, at, processed, effect, applied>>

\* A message that was delivered the allowed number of times stays unacknowledged.
Returned(i) == IF sent[i] < MaxDeliver THEN "ready" ELSE "spent"

AckWaitExpires(i) ==
    /\ msg[i] = "out"
    /\ msg' = [msg EXCEPT ![i] = Returned(i)]
    /\ UNCHANGED <<tupleVars, row, at, sent, on, nth, processed, effect, applied>>

\* The set of remembered ids is thrown away when it is full.
Remembered(S, i) == IF Cardinality(S) >= MaxProcessed THEN {i} ELSE S \cup {i}

Acked(i) == msg' = [msg EXCEPT ![i] = "acked"]

\* Mutant: what is remembered is the tuple and not the event.
Duplicate_ByTuple(c) == \E i \in processed[c] : log[i].tuple = log[on[c]].tuple

Duplicate(c) == on[c] \in processed[c]

AckDuplicate(c) ==
    /\ on[c] # 0 /\ Duplicate(c)
    /\ \/ Acked(on[c])
       \/ UNCHANGED msg
    /\ Idle(c)
    /\ UNCHANGED <<tupleVars, row, at, sent, processed, effect, applied>>

\* The change is written, remembered and acknowledged; the acknowledgement may
\* get lost.
Consume(c) ==
    /\ on[c] # 0 /\ ~Duplicate(c)
    /\ Written(on[c])
    /\ processed' = [processed EXCEPT ![c] = Remembered(@, on[c])]
    /\ \/ Acked(on[c])
       \/ UNCHANGED msg
    /\ Idle(c)
    /\ UNCHANGED <<tupleVars, row, at, sent>>

\* Mutant: a failed message is acknowledged instead of handed back.
AfterFailure_Ack(i) == "acked"

AfterFailure(i) == IF msg[i] = "out" THEN Returned(i) ELSE msg[i]

\* The write failed, before or after it took effect.  The failure of the last
\* delivery is put on record in the audit log, which nothing reads back.
ConsumeFails(c) ==
    /\ on[c] # 0 /\ ~Duplicate(c)
    /\ Written(on[c]) \/ UNCHANGED <<effect, applied>>
    /\ msg' = [msg EXCEPT ![on[c]] = AfterFailure(on[c])]
    /\ Idle(c)
    /\ UNCHANGED <<tupleVars, row, at, sent, processed>>

ConsumerStops(c) ==
    /\ on[c] # 0 \/ processed[c] # {}
    /\ Idle(c)
    /\ processed' = [processed EXCEPT ![c] = {}]
    /\ UNCHANGED <<tupleVars, row, at, msg, sent, effect, applied>>

-----------------------------------------------------------------------------
\* Any other caller: org units, groups, roles, grants by the operator's tool.
ChangeTuple ==
    \E op \in {"write", "delete"}, t \in Tuples : ApplyChanges(<<[op |-> op, tuple |-> t]>>)

Work(c) == AckDuplicate(c) \/ Consume(c) \/ ConsumeFails(c)

Pipeline ==
    \/ \E d \in Dispatchers : TakeRow(d) \/ RowDone(d) \/ RowFails(d)
    \/ \E c \in Consumers :
        Receive(c) \/ Work(c) \/ ConsumerStops(c)
    \/ \E i \in Events : AckWaitExpires(i)

RelNext == ChangeTuple \/ Pipeline

RelSpec == RelInit /\ [][RelNext]_relVars

\* Tickers fire, calls return, the ack wait ends, and a dispatcher's call that
\* is repeated for ever succeeds now and then.
PipelineFairness ==
    /\ WF_relVars(\E d \in Dispatchers : TakeRow(d))
    /\ SF_relVars(\E d \in Dispatchers : RowDone(d))
    /\ WF_relVars(\E c \in Consumers : Receive(c))
    /\ WF_relVars(\E c \in Consumers : Work(c))
    /\ WF_relVars(\E i \in Events : AckWaitExpires(i))

-----------------------------------------------------------------------------
\* Properties

Outstanding(i) == row[i] \in {"todo", "dead"} \/ msg[i] \in {"ready", "out", "spent"}

\* A change that was committed reaches OpenFGA, or is still on its way, or was
\* given up after its last attempt or its last delivery: neither the hand-over
\* to the stream nor the memory of duplicates loses one.
NothingForgotten == \A i \in 1..Len(log) : i \in applied \/ Outstanding(i)

\* Where OpenFGA and the database disagree about a tuple, its last change is still
\* under way or on record as given up, unless it was changed before an earlier
\* change of it was settled.  So nothing that is repeated, lost, handed back or late
\* undoes a change that was made after the earlier ones were settled, and no change
\* is taken for the duplicate of another one.
RemoteFollowsLocal ==
    \A t \in Tuples \ overlapped :
        (t \in Remote <=> t \in local)
            \/ \E i \in 1..Len(log) : /\ log[i].tuple = t /\ Outstanding(i)
                                     /\ \A j \in 1..Len(log) : j > i => log[j].tuple # t

Standing(i) ==
    CASE row[i] = "none" -> "absent"
      [] row[i] = "dead" -> "givenUp"
      [] OTHER -> row[i]

Queue == INSTANCE DurableQueue WITH
    job <- [i \in Events |-> Standing(i)],
    delivered <- {i \in Events : msg[i] # "none" \/ i \in applied}

\* The outbox of the tuples is the queue that the outbox as such implements: the
\* changes of a transaction are to do together, a row is done only when OpenFGA or
\* the stream has the change, and an overtaken dispatcher settles nothing.
RowsAreQueued == Queue!QueueSpec

\* And it does not stay on its way for ever.
ChangesEnd ==
    \A i \in Events :
        row[i] = "todo" ~> (i \in applied \/ row[i] = "dead" \/ msg[i] = "spent")
=============================================================================
