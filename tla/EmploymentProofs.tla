-------------------------- MODULE EmploymentProofs --------------------------
(***************************************************************************)
(* Relationship tuples, employees and their accounts, for any numbers of   *)
(* them, of requests, dispatchers and consumers.  First the delivery: no   *)
(* committed change is forgotten, and none is undone by an older one that  *)
(* was settled before.  Then the transactions that make the changes:       *)
(* the tuples follow the accounts and the links.                           *)
(***************************************************************************)
EXTENDS Employment, SequenceTheorems, WellFoundedInduction, TLAPS

-----------------------------------------------------------------------------
\* The delivery of tuples: RelationshipSync

\* A message that waits, or is not published yet, may be delivered once more.
RelTyped ==
    /\ RelTypeOK
    /\ \A i \in Events : msg[i] \in {"none", "ready"} => sent[i] < MaxDeliver

\* The outbox, the stream, the dispatchers and the consumers only know of events
\* that were appended, and an event of the log has a row.
OfTheLog ==
    /\ \A i \in Events : row[i] # "none" <=> i <= Len(log)
    /\ \A i \in Events : msg[i] # "none" => i <= Len(log)
    /\ \A d \in Dispatchers : at[d] <= Len(log)
    /\ \A c \in Consumers : on[c] <= Len(log)

\* What was written to OpenFGA last for a tuple is an event of that tuple.
LastWritten ==
    \A t \in Tuples : effect[t] # 0 => effect[t] <= Len(log) /\ log[effect[t]].tuple = t

\* The rows are what the log, read from its beginning, makes of them.
LogTellsRows == local = {t \in Tuples : Leaves(log, t)}

\* A row that is done was handed over: it is in the stream, or in OpenFGA.
HandedOver == \A i \in Events : row[i] = "done" => msg[i] # "none" \/ i \in applied

\* What was acknowledged, or is remembered as a duplicate, was written.
Acknowledged ==
    /\ \A i \in Events : msg[i] = "acked" => i \in applied
    /\ \A c \in Consumers : processed[c] \subseteq applied

RelInv == RelTyped /\ OfTheLog /\ LastWritten /\ LogTellsRows /\ HandedOver /\ Acknowledged

\* The length of the log is a natural number, and its entries are changes.
LEMMA LogIs ==
    ASSUME RelTypeOK
    PROVE  /\ Len(log) \in Nat /\ Len(log) <= MaxChanges /\ DOMAIN log = 1..Len(log)
           /\ \A i \in 1..Len(log) : i \in Events /\ log[i] \in Change
<1>1. log \in Seq(Change) /\ Len(log) <= MaxChanges BY DEF RelTypeOK
<1>2. Len(log) \in Nat /\ DOMAIN log = 1..Len(log) /\ log \in [1..Len(log) -> Change]
    BY <1>1, LenProperties
<1> HIDE DEF Change
<1>3. \A i \in 1..Len(log) : log[i] \in Change BY <1>2
<1> QED BY <1>1, <1>2, <1>3, SyncAssumption DEF Events

\* The invariant says where every event of the log is.
LEMMA NothingLost == RelInv => NothingForgotten
<1> SUFFICES ASSUME RelInv, NEW i \in 1..Len(log)
             PROVE  i \in applied \/ Outstanding(i)
    BY DEF NothingForgotten
<1>1. i \in Events /\ row[i] # "none"
    BY LogIs DEF RelInv, RelTyped, OfTheLog
<1> QED BY <1>1 DEF RelInv, RelTyped, RelTypeOK, HandedOver, Acknowledged, Outstanding

\* Where the last change of a tuple is the one that OpenFGA was told last, both
\* sides have what that change made of it.
InOrder(t) == \A i \in 1..Len(log) : log[i].tuple = t => i <= effect[t]

LEMMA ToldInOrder ==
    ASSUME RelInv, NEW t \in Tuples, InOrder(t)
    PROVE  t \in Remote <=> t \in local
<1> DEFINE k == effect[t]
<1>1. /\ Len(log) \in Nat /\ DOMAIN log = 1..Len(log) /\ k \in Nat
      /\ \A i \in 1..Len(log) : log[i] \in Change
    BY LogIs DEF RelInv, RelTyped, RelTypeOK
<1>2. \A i \in 1..Len(log) : log[i].tuple = t => i <= k BY DEF InOrder
<1>3. k # 0 => k \in 1..Len(log) /\ log[k].tuple = t
    BY <1>1 DEF RelInv, LastWritten
<1>4. t \in Remote <=> k # 0 /\ log[k].op = "write" BY DEF Remote
<1>5. t \in local <=> Leaves(log, t) BY DEF RelInv, LogTellsRows
<1> HIDE DEF k
<1>6. ASSUME k # 0, log[k].op = "write" PROVE Leaves(log, t)
    <2>1. log[k] = [op |-> "write", tuple |-> t] BY <1>1, <1>3, <1>6 DEF Change
    <2>2. \A j \in 1..Len(log) : j > k => log[j].tuple # t BY <1>1, <1>2
    <2> QED BY <1>1, <1>3, <1>6, <2>1, <2>2 DEF Leaves
<1>7. ASSUME Leaves(log, t) PROVE k # 0 /\ log[k].op = "write"
    <2>1. PICK i \in 1..Len(log) :
            /\ log[i] = [op |-> "write", tuple |-> t]
            /\ \A j \in 1..Len(log) : j > i => log[j].tuple # t
        BY <1>1, <1>7 DEF Leaves
    <2>2. i = k BY <1>1, <1>2, <1>3, <2>1
    <2> QED BY <1>1, <2>1, <2>2
<1> QED BY <1>4, <1>5, <1>6, <1>7

-----------------------------------------------------------------------------
\* Changes

\* What a log leaves of a tuple after it was extended: what the new part says,
\* and where it is silent what was there.
LEMMA LeavesConcat ==
    ASSUME NEW a \in Seq(Change), NEW b \in Seq(Change), NEW t
    PROVE  Leaves(a \o b, t) <=>
            \/ Leaves(b, t)
            \/ Leaves(a, t) /\ \A i \in DOMAIN b : b[i].tuple # t
<1> DEFINE w == [op |-> "write", tuple |-> t]
           m == Len(a)
           n == Len(b)
           ab == a \o b
<1>1. m \in Nat /\ n \in Nat /\ DOMAIN a = 1..m /\ DOMAIN b = 1..n BY LenProperties
<1>2. ab \in Seq(Change) /\ Len(ab) = m + n BY ConcatProperties
<1>3. DOMAIN ab = 1..(m + n) BY <1>2, LenProperties
<1>4. \A i \in 1..m : ab[i] = a[i] BY <1>1, ConcatProperties
<1>5. \A i \in 1..n : ab[m + i] = b[i] /\ m + i \in 1..(m + n)
    <2>1. \A i \in 1..n : m + i \in 1..(m + n) /\ ~(m + i <= m) /\ m + i - m = i BY <1>1
    <2> QED BY <2>1, ConcatProperties
<1>6. \A i \in 1..(m + n) : i \in 1..m \/ \E k \in 1..n : i = m + k
    <2>1. SUFFICES ASSUME NEW i \in 1..(m + n), i \notin 1..m
                   PROVE  \E k \in 1..n : i = m + k
        OBVIOUS
    <2>2. i - m \in 1..n /\ i = m + (i - m) BY <1>1, <2>1
    <2> QED BY <2>2
<1>7. /\ Leaves(a, t) <=> \E i \in 1..m : a[i] = w /\ \A j \in 1..m : j > i => a[j].tuple # t
      /\ Leaves(b, t) <=> \E i \in 1..n : b[i] = w /\ \A j \in 1..n : j > i => b[j].tuple # t
      /\ Leaves(ab, t) <=> \E i \in 1..(m + n) :
            ab[i] = w /\ \A j \in 1..(m + n) : j > i => ab[j].tuple # t
    BY <1>1, <1>3 DEF Leaves
<1>8. w.tuple = t OBVIOUS
<1> HIDE DEF m, n, ab, w
<1>9. ASSUME Leaves(b, t) PROVE Leaves(ab, t)
    <2>1. PICK i \in 1..n : b[i] = w /\ \A j \in 1..n : j > i => b[j].tuple # t
        BY <1>7, <1>9
    <2>2. ASSUME NEW j \in 1..(m + n), j > m + i PROVE ab[j].tuple # t
        <3>1. PICK k \in 1..n : j = m + k BY <1>1, <1>6, <2>2
        <3>2. k > i BY <1>1, <2>2, <3>1
        <3> QED BY <1>5, <2>1, <3>1, <3>2
    <2> QED BY <1>5, <1>7, <2>1, <2>2
<1>10. ASSUME Leaves(a, t), \A i \in 1..n : b[i].tuple # t PROVE Leaves(ab, t)
    <2>1. PICK i \in 1..m : a[i] = w /\ \A j \in 1..m : j > i => a[j].tuple # t
        BY <1>7, <1>10
    <2>2. i \in 1..(m + n) BY <1>1
    <2>3. \A j \in 1..(m + n) : j > i => ab[j].tuple # t
        BY <1>4, <1>5, <1>6, <1>10, <2>1
    <2> QED BY <1>4, <1>7, <2>1, <2>2, <2>3
<1>11. ASSUME Leaves(ab, t), ~Leaves(b, t)
       PROVE  Leaves(a, t) /\ \A i \in 1..n : b[i].tuple # t
    <2>1. PICK i \in 1..(m + n) :
            ab[i] = w /\ \A j \in 1..(m + n) : j > i => ab[j].tuple # t
        BY <1>7, <1>11
    <2>2. i \in 1..m
        <3>1. SUFFICES ASSUME NEW k \in 1..n, i = m + k PROVE FALSE BY <1>6
        <3>2. b[k] = w BY <1>5, <2>1, <3>1
        <3>3. ASSUME NEW j \in 1..n, j > k PROVE b[j].tuple # t
            <4>1. m + j > i BY <1>1, <3>1, <3>3
            <4> QED BY <1>5, <2>1, <4>1
        <3> QED BY <1>7, <1>11, <3>2, <3>3
    <2>3. \A j \in 1..m : j \in 1..(m + n) BY <1>1
    <2>4. Leaves(a, t) BY <1>4, <1>7, <2>1, <2>2, <2>3
    <2>5. \A k \in 1..n : m + k > i BY <1>1, <2>2
    <2> QED BY <1>5, <2>1, <2>4, <2>5
<1> QED BY <1>1, <1>9, <1>10, <1>11 DEF ab

\* A transaction that changes tuples appends an event and a row for each change.
LEMMA ChangesInv ==
    ASSUME RelInv, NEW cs \in Seq(Change), ApplyChanges(cs)
    PROVE  RelInv'
<1> USE SyncAssumption DEF RelInv
<1>1. /\ Len(log) + Len(cs) <= MaxChanges /\ log' = log \o cs /\ local' = Changed(cs)
      /\ row' = [i \in Events |-> IF i \in Len(log) + 1 .. Len(log) + Len(cs)
                                  THEN "todo" ELSE row[i]]
      /\ UNCHANGED <<stream, at, msg, sent, on, nth, processed, effect, applied>>
    BY DEF ApplyChanges
<1>2. log \in Seq(Change) /\ Len(log) \in Nat /\ Len(cs) \in Nat
    BY LenProperties DEF RelTyped, RelTypeOK
<1>3. /\ log' \in Seq(Change) /\ Len(log') = Len(log) + Len(cs) /\ Len(log') \in Nat
      /\ \A i \in 1..Len(log) : log'[i] = log[i]
    <2>1. /\ log \o cs \in Seq(Change) /\ Len(log \o cs) = Len(log) + Len(cs)
          /\ \A i \in 1 .. Len(log) + Len(cs) : (log \o cs)[i] =
                IF i <= Len(log) THEN log[i] ELSE cs[i - Len(log)]
        BY <1>2, ConcatProperties
    <2> QED BY <1>1, <1>2, <2>1
<1>4. RelTyped'
    <2>1. row' \in [Events -> {"none", "todo", "done", "dead"}]
        BY <1>1 DEF RelTyped, RelTypeOK
    <2>2. local' \subseteq Tuples BY <1>1 DEF Changed
    <2>3. overlapped' \subseteq Tuples BY DEF ApplyChanges, Overlap, RelTyped, RelTypeOK
    <2> QED BY <1>1, <1>3, <2>1, <2>2, <2>3 DEF RelTyped, RelTypeOK
<1>5. OfTheLog'
    <2>1. \A i \in Events : row'[i] # "none" <=> i <= Len(log')
        BY <1>1, <1>2, <1>3 DEF OfTheLog, Events
    <2>2. \A i \in Nat : i <= Len(log) => i <= Len(log') BY <1>2, <1>3
    <2>3. \A i \in Events : msg'[i] # "none" => i <= Len(log')
        BY <1>1, <2>2 DEF OfTheLog, Events
    <2>4. \A d \in Dispatchers : at'[d] <= Len(log')
        BY <1>1, <2>2 DEF OfTheLog, RelTyped, RelTypeOK
    <2>5. \A c \in Consumers : on'[c] <= Len(log')
        BY <1>1, <2>2 DEF OfTheLog, RelTyped, RelTypeOK
    <2> QED BY <2>1, <2>3, <2>4, <2>5 DEF OfTheLog
<1>6. LastWritten'
    <2>1. \A t \in Tuples : effect[t] # 0 => effect[t] \in 1..Len(log)
        BY <1>2 DEF LastWritten, RelTyped, RelTypeOK
    <2> QED BY <1>1, <1>2, <1>3, <2>1 DEF LastWritten
<1>7. LogTellsRows' BY <1>1, <1>2, LeavesConcat DEF Changed, LogTellsRows
<1>8. HandedOver' BY <1>1 DEF HandedOver
<1>9. Acknowledged' BY <1>1 DEF Acknowledged
<1> QED BY <1>4, <1>5, <1>6, <1>7, <1>8, <1>9

\* A transaction of any other caller changes one tuple.
LEMMA ChangeInv ==
    ASSUME RelInv, ChangeTuple
    PROVE  RelInv'
<1>1. PICK op \in {"write", "delete"}, t \in Tuples :
        ApplyChanges(<<[op |-> op, tuple |-> t]>>)
    BY DEF ChangeTuple
<1>2. <<[op |-> op, tuple |-> t]>> \in Seq(Change) BY DEF Change
<1> QED BY <1>1, <1>2, ChangesInv

-----------------------------------------------------------------------------
\* The pipeline

\* What a dispatcher or a consumer writes to OpenFGA is an event of the log.
LEMMA WrittenInv ==
    ASSUME RelInv, NEW i \in Events, i <= Len(log), Written(i), UNCHANGED log
    PROVE  /\ effect' \in [Tuples -> 0..MaxChanges] /\ LastWritten'
           /\ applied' \subseteq Events /\ applied \subseteq applied' /\ i \in applied'
<1> USE SyncAssumption DEF RelInv
<1>1. /\ effect' = [effect EXCEPT ![log[i].tuple] = i] /\ applied' = applied \cup {i}
    BY DEF Written
<1>2. i \in 0..MaxChanges /\ i \in 1..Len(log)
    BY LogIs DEF Events, RelTyped
<1>3. effect \in [Tuples -> 0..MaxChanges] BY DEF RelTyped, RelTypeOK
<1>4. effect' \in [Tuples -> 0..MaxChanges] BY <1>1, <1>2, <1>3
<1>5. LastWritten' BY <1>1, <1>2, <1>3 DEF LastWritten
<1> QED BY <1>1, <1>4, <1>5 DEF RelTyped, RelTypeOK

\* What holds of the log and the rows is untouched by the pipeline: it remains to
\* say what it does to the stream, the claims and OpenFGA.
LEMMA PipelineInv ==
    ASSUME RelInv, UNCHANGED tupleVars, LastWritten',
           row' \in [Events -> {"none", "todo", "done", "dead"}],
           \A i \in Events : row'[i] # "none" <=> row[i] # "none",
           \A i \in Events : row'[i] = "done" =>
                row[i] = "done" \/ msg'[i] # "none" \/ i \in applied',
           at' \in [Dispatchers -> 0..MaxChanges],
           \A d \in Dispatchers : at'[d] <= Len(log),
           msg' \in [Events -> {"none", "ready", "out", "acked", "spent"}],
           \A i \in Events : msg'[i] = "none" => msg[i] = "none",
           \A i \in Events : msg'[i] # "none" => i <= Len(log),
           \A i \in Events : msg'[i] = "acked" => msg[i] = "acked" \/ i \in applied',
           sent' \in [Events -> 0..MaxDeliver],
           \A i \in Events : msg'[i] \in {"none", "ready"} => sent'[i] < MaxDeliver,
           on' \in [Consumers -> 0..MaxChanges],
           \A c \in Consumers : on'[c] <= Len(log),
           nth' \in [Consumers -> 0..MaxDeliver],
           processed' \in [Consumers -> SUBSET Events],
           \A c \in Consumers : processed'[c] \subseteq processed[c] \cup applied',
           effect' \in [Tuples -> 0..MaxChanges],
           applied' \subseteq Events, applied \subseteq applied'
    PROVE  RelInv'
<1> USE DEF RelInv
<1>1. UNCHANGED <<stream, local, log, overlapped>> BY DEF tupleVars
<1>2. RelTyped' BY <1>1 DEF RelTyped, RelTypeOK
<1>3. OfTheLog' BY <1>1 DEF OfTheLog
<1>4. LogTellsRows' BY <1>1 DEF LogTellsRows
<1>5. HandedOver' BY DEF HandedOver
<1>6. Acknowledged' BY DEF Acknowledged
<1> QED BY <1>2, <1>3, <1>4, <1>5, <1>6

\* What a dispatcher hands over is in the stream afterwards, or in OpenFGA.
LEMMA HandledInv ==
    ASSUME RelInv, NEW i \in Events, i <= Len(log), Handled(i), UNCHANGED log
    PROVE  /\ msg' \in [Events -> {"none", "ready", "out", "acked", "spent"}]
           /\ msg'[i] # "none" \/ i \in applied'
           /\ \A j \in Events : msg[j] # "none" => msg'[j] = msg[j]
           /\ \A j \in Events : msg'[j] # msg[j] => j = i /\ msg'[j] = "ready"
           /\ effect' \in [Tuples -> 0..MaxChanges] /\ LastWritten'
           /\ applied' \subseteq Events /\ applied \subseteq applied'
<1>1. CASE stream
    <2>1. /\ msg' = [msg EXCEPT ![i] = IF msg[i] = "none" THEN "ready" ELSE msg[i]]
          /\ UNCHANGED <<effect, applied>>
        BY <1>1 DEF Handled, Published
    <2>2. msg \in [Events -> {"none", "ready", "out", "acked", "spent"}]
        BY DEF RelInv, RelTyped, RelTypeOK
    <2>3. LastWritten' BY <2>1 DEF RelInv, LastWritten
    <2> QED BY <2>1, <2>2, <2>3 DEF RelInv, RelTyped, RelTypeOK
<1>2. CASE ~stream
    <2>1. Written(i) /\ UNCHANGED msg BY <1>2 DEF Handled
    <2> QED BY <2>1, WrittenInv DEF RelInv, RelTyped, RelTypeOK
<1> QED BY <1>1, <1>2

\* The dispatchers.
LEMMA DispatcherInv ==
    ASSUME RelInv, NEW d \in Dispatchers, TakeRow(d) \/ RowDone(d) \/ RowFails(d)
    PROVE  RelInv'
<1> DEFINE i == at[d]
           Msgs == {"none", "ready", "out", "acked", "spent"}
<1>1. ASSUME at[d] # 0 PROVE i \in Events /\ i <= Len(log)
    BY <1>1, SyncAssumption DEF RelInv, RelTyped, RelTypeOK, OfTheLog, Events
<1>2. /\ row \in [Events -> {"none", "todo", "done", "dead"}]
      /\ at \in [Dispatchers -> 0..MaxChanges] /\ msg \in [Events -> Msgs]
      /\ sent \in [Events -> 0..MaxDeliver] /\ on \in [Consumers -> 0..MaxChanges]
      /\ nth \in [Consumers -> 0..MaxDeliver] /\ processed \in [Consumers -> SUBSET Events]
      /\ effect \in [Tuples -> 0..MaxChanges] /\ applied \subseteq Events
      /\ \A j \in Events : msg[j] \in {"none", "ready"} => sent[j] < MaxDeliver
      /\ \A e \in Dispatchers : at[e] <= Len(log)
      /\ \A c \in Consumers : on[c] <= Len(log)
      /\ \A j \in Events : row[j] # "none" <=> j <= Len(log)
      /\ \A j \in Events : msg[j] # "none" => j <= Len(log)
      /\ LastWritten /\ Len(log) \in Nat
    BY LogIs DEF RelInv, RelTyped, RelTypeOK, OfTheLog
<1>3. CASE TakeRow(d)
    <2>1. PICK j \in Events : row[j] = "todo" /\ at' = [at EXCEPT ![d] = j]
        BY <1>3 DEF TakeRow
    <2>2. UNCHANGED <<tupleVars, row, msg, sent, on, nth, processed, effect, applied>>
        BY <1>3 DEF TakeRow
    <2>3. /\ at' \in [Dispatchers -> 0..MaxChanges]
          /\ \A e \in Dispatchers : at'[e] <= Len(log)
        BY <1>2, <2>1 DEF Events
    <2>4. LastWritten' BY <1>2, <2>2 DEF LastWritten, tupleVars
    <2> QED BY <1>2, <2>2, <2>3, <2>4, PipelineInv
<1>4. ASSUME at' = [at EXCEPT ![d] = 0]
      PROVE  /\ at' \in [Dispatchers -> 0..MaxChanges]
             /\ \A e \in Dispatchers : at'[e] <= Len(log)
    BY <1>2, <1>4, SyncAssumption
<1>5. CASE RowDone(d)
    <2>1. i \in Events /\ i <= Len(log) /\ Handled(i) BY <1>1, <1>5 DEF RowDone
    <2>2. /\ row' = [row EXCEPT ![i] = IF row[i] = "todo" THEN "done" ELSE row[i]]
          /\ at' = [at EXCEPT ![d] = 0] /\ UNCHANGED <<tupleVars, sent, on, nth, processed>>
        BY <1>5 DEF RowDone, AfterSuccess
    <2> HIDE DEF i
    <2>3. /\ msg' \in [Events -> Msgs] /\ (msg'[i] # "none" \/ i \in applied')
          /\ \A j \in Events : msg'[j] # msg[j] => j = i /\ msg'[j] = "ready" /\ msg[j] = "none"
          /\ effect' \in [Tuples -> 0..MaxChanges] /\ LastWritten'
          /\ applied' \subseteq Events /\ applied \subseteq applied'
        BY <2>1, <2>2, HandledInv DEF tupleVars
    <2>4. /\ row' \in [Events -> {"none", "todo", "done", "dead"}]
          /\ \A j \in Events : row'[j] # row[j] => j = i /\ row[j] = "todo" /\ row'[j] = "done"
        BY <1>2, <2>1, <2>2
    <2> QED BY ONLY <1>2, <1>4, <2>1, <2>2, <2>3, <2>4, PipelineInv, RelInv
<1>6. CASE RowFails(d)
    <2>1. /\ i \in Events /\ i <= Len(log)
          /\ Handled(i) \/ UNCHANGED <<msg, effect, applied>>
        BY <1>1, <1>6 DEF RowFails
    <2>2. /\ UNCHANGED row \/ (row[i] = "todo" /\ row' = [row EXCEPT ![i] = "dead"])
          /\ at' = [at EXCEPT ![d] = 0] /\ UNCHANGED <<tupleVars, sent, on, nth, processed>>
        BY <1>6 DEF RowFails
    <2> HIDE DEF i
    <2>3. /\ msg' \in [Events -> Msgs]
          /\ \A j \in Events : msg'[j] # msg[j] => j = i /\ msg'[j] = "ready" /\ msg[j] = "none"
          /\ effect' \in [Tuples -> 0..MaxChanges] /\ LastWritten'
          /\ applied' \subseteq Events /\ applied \subseteq applied'
        <3>1. CASE Handled(i) BY <2>1, <2>2, <3>1, HandledInv DEF tupleVars
        <3>2. CASE UNCHANGED <<msg, effect, applied>>
            <4>1. LastWritten' BY <1>2, <2>2, <3>2 DEF LastWritten, tupleVars
            <4> QED BY <1>2, <3>2, <4>1
        <3> QED BY <2>1, <3>1, <3>2
    <2>4. /\ row' \in [Events -> {"none", "todo", "done", "dead"}]
          /\ \A j \in Events : row'[j] # row[j] => j = i /\ row[j] = "todo" /\ row'[j] = "dead"
        BY <1>2, <2>1, <2>2
    <2> QED BY ONLY <1>2, <1>4, <2>1, <2>2, <2>3, <2>4, PipelineInv, RelInv
<1> QED BY <1>3, <1>5, <1>6

\* The stream and its consumers.
LEMMA ConsumerInv ==
    ASSUME RelInv,
           \/ \E c \in Consumers : Receive(c) \/ Work(c) \/ ConsumerStops(c)
           \/ \E i \in Events : AckWaitExpires(i)
    PROVE  RelInv'
<1> DEFINE Msgs == {"none", "ready", "out", "acked", "spent"}
<1>1. /\ row \in [Events -> {"none", "todo", "done", "dead"}]
      /\ at \in [Dispatchers -> 0..MaxChanges] /\ msg \in [Events -> Msgs]
      /\ sent \in [Events -> 0..MaxDeliver] /\ on \in [Consumers -> 0..MaxChanges]
      /\ nth \in [Consumers -> 0..MaxDeliver] /\ processed \in [Consumers -> SUBSET Events]
      /\ effect \in [Tuples -> 0..MaxChanges] /\ applied \subseteq Events
      /\ \A j \in Events : msg[j] \in {"none", "ready"} => sent[j] < MaxDeliver
      /\ \A e \in Dispatchers : at[e] <= Len(log)
      /\ \A c \in Consumers : on[c] <= Len(log)
      /\ \A j \in Events : row[j] # "none" <=> j <= Len(log)
      /\ \A j \in Events : msg[j] # "none" => j <= Len(log)
      /\ LastWritten /\ Len(log) \in Nat
    BY LogIs DEF RelInv, RelTyped, RelTypeOK, OfTheLog
<1>2. \A j \in Events : row[j] = "done" => msg[j] # "none" \/ j \in applied
    BY DEF RelInv, HandedOver
<1>3. ASSUME NEW c \in Consumers, Idle(c)
      PROVE  /\ on' \in [Consumers -> 0..MaxChanges] /\ nth' \in [Consumers -> 0..MaxDeliver]
             /\ \A d \in Consumers : on'[d] <= Len(log)
    BY <1>1, <1>3, SyncAssumption DEF Idle
<1>4. ASSUME UNCHANGED <<effect, log>> PROVE LastWritten' BY <1>1, <1>4 DEF LastWritten
<1>5. ASSUME NEW c \in Consumers, on[c] # 0 PROVE on[c] \in Events /\ on[c] <= Len(log)
    BY <1>1, <1>5, SyncAssumption DEF Events
<1>6. ASSUME NEW i \in Events, msg[i] # "none"
      PROVE  /\ Returned(i) \in {"ready", "spent"}
             /\ Returned(i) = "ready" => sent[i] < MaxDeliver
             /\ AfterFailure(i) \in Msgs /\ AfterFailure(i) # "none"
             /\ AfterFailure(i) = "acked" => msg[i] = "acked"
             /\ AfterFailure(i) = "ready" => sent[i] < MaxDeliver
    BY <1>1, <1>6 DEF Returned, AfterFailure
<1>7. ASSUME NEW c \in Consumers, Receive(c) PROVE RelInv'
    <2>1. PICK i \in Events :
            /\ msg[i] = "ready"
            /\ on' = [on EXCEPT ![c] = i] /\ nth' = [nth EXCEPT ![c] = sent[i] + 1]
            /\ sent' = [sent EXCEPT ![i] = @ + 1] /\ msg' = [msg EXCEPT ![i] = "out"]
        BY <1>7 DEF Receive
    <2>2. UNCHANGED <<tupleVars, row, at, processed, effect, applied>> BY <1>7 DEF Receive
    <2>3. sent[i] + 1 \in 0..MaxDeliver BY <1>1, <2>1, SyncAssumption
    <2>4. /\ sent' \in [Events -> 0..MaxDeliver] /\ nth' \in [Consumers -> 0..MaxDeliver]
          /\ on' \in [Consumers -> 0..MaxChanges]
          /\ \A d \in Consumers : on'[d] <= Len(log)
        BY <1>1, <2>1, <2>3 DEF Events
    <2>5. /\ msg' \in [Events -> Msgs] /\ msg'[i] = "out"
          /\ \A j \in Events : j # i => msg'[j] = msg[j] /\ sent'[j] = sent[j]
        BY <1>1, <2>1
    <2>6. LastWritten' BY <1>4, <2>2 DEF tupleVars
    <2> QED BY <1>1, <1>2, <2>1, <2>2, <2>4, <2>5, <2>6, PipelineInv
<1>8. ASSUME NEW i \in Events, AckWaitExpires(i) PROVE RelInv'
    <2>1. /\ msg[i] = "out" /\ msg' = [msg EXCEPT ![i] = Returned(i)]
          /\ UNCHANGED <<tupleVars, row, at, sent, on, nth, processed, effect, applied>>
        BY <1>8 DEF AckWaitExpires
    <2>2. /\ msg' \in [Events -> Msgs] /\ msg'[i] = Returned(i)
          /\ \A j \in Events : j # i => msg'[j] = msg[j]
        BY <1>1, <1>6, <2>1
    <2>3. LastWritten' BY <1>4, <2>1 DEF tupleVars
    <2> QED BY <1>1, <1>2, <1>6, <2>1, <2>2, <2>3, PipelineInv
<1>9. ASSUME NEW c \in Consumers, on[c] # 0, on[c] \in applied', Idle(c),
             Acked(on[c]) \/ UNCHANGED msg,
             UNCHANGED <<tupleVars, row, at, sent>>, LastWritten',
             processed' \in [Consumers -> SUBSET Events],
             \A d \in Consumers : processed'[d] \subseteq processed[d] \cup applied',
             effect' \in [Tuples -> 0..MaxChanges],
             applied' \subseteq Events, applied \subseteq applied'
      PROVE  RelInv'
    <2>1. on[c] \in Events /\ on[c] <= Len(log) BY <1>5, <1>9
    <2>2. /\ msg' \in [Events -> Msgs]
          /\ \A j \in Events : msg'[j] # msg[j] => j = on[c] /\ msg'[j] = "acked"
        <3>1. msg' = [msg EXCEPT ![on[c]] = "acked"] \/ UNCHANGED msg BY <1>9 DEF Acked
        <3>2. msg \in [Events -> Msgs] /\ "acked" \in Msgs BY <1>1
        <3>3. CASE msg' = [msg EXCEPT ![on[c]] = "acked"] BY ONLY <2>1, <3>2, <3>3
        <3>4. CASE UNCHANGED msg BY ONLY <3>2, <3>4
        <3> QED BY <3>1, <3>3, <3>4
    <2> QED BY <1>1, <1>2, <1>3, <1>9, <2>1, <2>2, PipelineInv
<1>10. ASSUME NEW c \in Consumers, AckDuplicate(c) PROVE RelInv'
    <2>1. /\ on[c] # 0 /\ on[c] \in applied /\ Idle(c) /\ (Acked(on[c]) \/ UNCHANGED msg)
          /\ UNCHANGED <<tupleVars, row, at, sent, processed, effect, applied>>
        BY <1>10 DEF AckDuplicate, Duplicate, RelInv, Acknowledged
    <2>2. LastWritten' BY <1>4, <2>1 DEF tupleVars
    <2> QED BY <1>1, <1>9, <2>1, <2>2
<1>11. ASSUME NEW c \in Consumers, Consume(c) PROVE RelInv'
    <2>1. /\ on[c] # 0 /\ Written(on[c]) /\ Idle(c) /\ (Acked(on[c]) \/ UNCHANGED msg)
          /\ processed' = [processed EXCEPT ![c] = Remembered(@, on[c])]
          /\ UNCHANGED <<tupleVars, row, at, sent>>
        BY <1>11 DEF Consume
    <2>2. on[c] \in Events /\ on[c] <= Len(log) /\ UNCHANGED log
        BY <1>5, <2>1 DEF tupleVars
    <2>3. /\ effect' \in [Tuples -> 0..MaxChanges] /\ LastWritten' /\ on[c] \in applied'
          /\ applied' \subseteq Events /\ applied \subseteq applied'
        BY <2>1, <2>2, WrittenInv
    <2>4. Remembered(processed[c], on[c]) \subseteq processed[c] \cup {on[c]}
        BY DEF Remembered
    <2>5. /\ processed' \in [Consumers -> SUBSET Events]
          /\ \A d \in Consumers : processed'[d] \subseteq processed[d] \cup {on[c]}
        BY <1>1, <2>1, <2>2, <2>4
    <2> QED BY <1>9, <2>1, <2>3, <2>5
<1>12. ASSUME NEW c \in Consumers, ConsumeFails(c) PROVE RelInv'
    <2>1. /\ on[c] # 0 /\ Idle(c) /\ (Written(on[c]) \/ UNCHANGED <<effect, applied>>)
          /\ msg' = [msg EXCEPT ![on[c]] = AfterFailure(on[c])]
          /\ UNCHANGED <<tupleVars, row, at, sent, processed>>
        BY <1>12 DEF ConsumeFails
    <2>2. on[c] \in Events /\ on[c] <= Len(log) /\ UNCHANGED log
        BY <1>5, <2>1 DEF tupleVars
    <2>3. /\ effect' \in [Tuples -> 0..MaxChanges] /\ LastWritten'
          /\ applied' \subseteq Events /\ applied \subseteq applied'
        BY <1>1, <1>4, <2>1, <2>2, WrittenInv
    <2>4. AfterFailure(on[c]) \in Msgs /\ (msg[on[c]] = "none" => AfterFailure(on[c]) = "none")
        BY <1>1, <1>6, <2>2 DEF AfterFailure
    <2>5. /\ msg' \in [Events -> Msgs] /\ msg'[on[c]] = AfterFailure(on[c])
          /\ \A j \in Events : j # on[c] => msg'[j] = msg[j]
        BY <1>1, <2>1, <2>2, <2>4
    <2> QED BY <1>1, <1>2, <1>3, <1>6, <2>1, <2>2, <2>3, <2>4, <2>5, PipelineInv
<1>13. ASSUME NEW c \in Consumers, ConsumerStops(c) PROVE RelInv'
    <2>1. /\ Idle(c) /\ processed' = [processed EXCEPT ![c] = {}]
          /\ UNCHANGED <<tupleVars, row, at, msg, sent, effect, applied>>
        BY <1>13 DEF ConsumerStops
    <2>2. /\ processed' \in [Consumers -> SUBSET Events]
          /\ \A d \in Consumers : processed'[d] \subseteq processed[d]
        BY <1>1, <2>1
    <2>3. LastWritten' BY <1>4, <2>1 DEF tupleVars
    <2> QED BY <1>1, <1>2, <1>3, <2>1, <2>2, <2>3, PipelineInv
<1> QED BY <1>7, <1>8, <1>10, <1>11, <1>12, <1>13 DEF Work

\* What a step leaves alone keeps the invariant.
LEMMA RelStutter ==
    ASSUME RelInv, UNCHANGED relVars
    PROVE  RelInv'
BY DEF relVars, tupleVars, pipeVars, RelInv, RelTyped, RelTypeOK, OfTheLog, LastWritten, LogTellsRows, HandedOver,
       Acknowledged, Events, Change, Leaves

LEMMA RelInitInv ==
    ASSUME RelInit
    PROVE  RelInv
<1> USE SyncAssumption DEF RelInit
<1>1. log = << >> /\ Len(log) = 0 /\ log \in Seq(Change) BY DEF Change
<1>2. RelTyped BY <1>1 DEF RelTyped, RelTypeOK, Events
<1>3. OfTheLog BY <1>1 DEF OfTheLog, Events
<1>4. LastWritten BY DEF LastWritten
<1>5. LogTellsRows BY <1>1 DEF LogTellsRows, Leaves
<1>6. HandedOver /\ Acknowledged BY DEF HandedOver, Acknowledged
<1> QED BY <1>2, <1>3, <1>4, <1>5, <1>6 DEF RelInv

-----------------------------------------------------------------------------

\* The invariant holds of the tuples, the outbox, the stream and OpenFGA in every
\* state.
THEOREM DeliveryInvariant == RelSpec => []RelInv
<1>1. RelInit => RelInv BY RelInitInv
<1>2. RelInv /\ [RelNext]_relVars => RelInv'
    BY RelStutter, ChangeInv, DispatcherInv, ConsumerInv DEF RelNext, Pipeline
<1> QED BY <1>1, <1>2, PTL DEF RelSpec

\* Every variable keeps its type: the log within its bound, claims and deliveries
\* within the events and the limit of deliveries.
THEOREM DeliveryTypeCorrect == RelSpec => []RelTypeOK
<1>1. RelInv => RelTypeOK BY DEF RelInv, RelTyped
<1> QED BY <1>1, DeliveryInvariant, PTL

\* A change that was committed reaches OpenFGA, is still on its way, or was given
\* up for good: neither the hand-over to the stream nor the memory of duplicates
\* loses one.
THEOREM Delivered == RelSpec => []NothingForgotten
BY NothingLost, DeliveryInvariant, PTL

-----------------------------------------------------------------------------
\* The order of the changes of one tuple

\* Event i is the last change of its tuple.
Latest(i) == \A j \in 1..Len(log) : j > i => log[j].tuple # log[i].tuple

\* Somebody who works on an event of a tuple that was never changed too early works
\* on its last change, and once that was written it is what was written last.
Ordered ==
    /\ applied \subseteq 1..Len(log)
    /\ \A i \in 1..Len(log) :
        log[i].tuple \notin overlapped => /\ Unsettled(i) => Latest(i)
                                          /\ i \in applied /\ Latest(i) => effect[log[i].tuple] = i

LEMMA OneLatest ==
    ASSUME RelInv, NEW i \in 1..Len(log), NEW k \in 1..Len(log),
           log[i].tuple = log[k].tuple, Latest(i), Latest(k)
    PROVE  i = k
BY LogIs DEF Latest, RelInv, RelTyped

\* A tuple that was changed has a last change.
LEMMA LatestExists ==
    ASSUME RelInv, NEW i \in 1..Len(log)
    PROVE  \E k \in 1..Len(log) : log[k].tuple = log[i].tuple /\ Latest(k)
<1> DEFINE t == log[i].tuple
           T == {n \in Nat : \E k \in 1..Len(log) : log[k].tuple = t /\ n = Len(log) - k}
<1>1. Len(log) \in Nat BY LogIs DEF RelInv, RelTyped
<1>2. \A k \in 1..Len(log) : log[k].tuple = t => Len(log) - k \in T BY <1>1
<1>3. T \subseteq Nat /\ T # {} BY <1>2
<1>4. PICK n \in T : \A m \in T : <<m, n>> \notin OpToRel(<, Nat)
    BY <1>3, NatLessThanWellFounded, WFMin, Zenon
<1>5. \A m \in T : ~(m < n) BY <1>3, <1>4 DEF OpToRel
<1>6. PICK k \in 1..Len(log) : log[k].tuple = t /\ n = Len(log) - k BY <1>4
<1> HIDE DEF t, T
<1>7. Latest(k) BY <1>1, <1>2, <1>5, <1>6 DEF Latest
<1> QED BY <1>6, <1>7 DEF t

\* If a tuple's last change was written it was written last, and both sides have
\* what it made of the tuple; if not, it is outstanding.
LEMMA OrderedFollows == RelInv /\ Ordered => RemoteFollowsLocal
<1> SUFFICES ASSUME RelInv, Ordered, NEW t \in Tuples \ overlapped
             PROVE  \/ t \in Remote <=> t \in local
                    \/ \E i \in 1..Len(log) :
                        /\ log[i].tuple = t /\ Outstanding(i)
                        /\ \A j \in 1..Len(log) : j > i => log[j].tuple # t
    BY DEF RemoteFollowsLocal
<1>1. CASE \A i \in 1..Len(log) : log[i].tuple # t
    BY <1>1, ToldInOrder DEF InOrder
<1>2. ASSUME NEW i \in 1..Len(log), log[i].tuple = t
      PROVE  \/ t \in Remote <=> t \in local
             \/ \E k \in 1..Len(log) :
                    /\ log[k].tuple = t /\ Outstanding(k)
                    /\ \A j \in 1..Len(log) : j > k => log[j].tuple # t
    <2>1. PICK k \in 1..Len(log) : log[k].tuple = t /\ Latest(k) BY <1>2, LatestExists
    <2>2. CASE Outstanding(k) BY <2>1, <2>2 DEF Latest
    <2>3. CASE k \in applied
        <3>1. effect[t] = k BY <2>1, <2>3 DEF Ordered
        <3>2. InOrder(t) BY <2>1, <3>1, LogIs DEF InOrder, Latest, RelInv, RelTyped
        <3> QED BY <3>2, ToldInOrder
    <2> QED BY <2>2, <2>3, NothingLost DEF NothingForgotten
<1> QED BY <1>1, <1>2

\* A new change of a tuple that somebody still works on, and two changes of it in
\* one transaction, overlap; otherwise the new change is the only one at work.
LEMMA ChangesOrdered ==
    ASSUME RelInv, Ordered, NEW cs \in Seq(Change), ApplyChanges(cs)
    PROVE  Ordered'
<1> DEFINE m == Len(log)
           n == Len(cs)
<1>1. /\ m + n <= MaxChanges /\ log' = log \o cs
      /\ row' = [i \in Events |-> IF i \in m + 1 .. m + n THEN "todo" ELSE row[i]]
      /\ overlapped' = overlapped \cup Overlap(cs)
      /\ UNCHANGED <<at, msg, on, effect, applied>>
    BY DEF ApplyChanges
<1>2. log \in Seq(Change) /\ m \in Nat /\ n \in Nat /\ DOMAIN cs = 1..n
    BY LenProperties DEF RelInv, RelTyped, RelTypeOK
<1>3. /\ Len(log') = m + n
      /\ \A i \in 1..m : log'[i] = log[i]
      /\ \A i \in 1 .. m + n : i \notin 1..m => i - m \in 1..n /\ log'[i] = cs[i - m]
    <2>1. /\ Len(log \o cs) = m + n
          /\ \A i \in 1 .. m + n : (log \o cs)[i] = IF i <= m THEN log[i] ELSE cs[i - m]
        BY <1>2, ConcatProperties
    <2> QED BY <1>1, <1>2, <2>1
<1>4. \A i \in 1..n : cs[i].tuple \in Tuples
    <2>1. \A i \in 1..n : cs[i] \in Change BY <1>2, ElementOfSeq
    <2> QED BY <2>1 DEF Change
<1>5. \A i \in 1..m : i \in Events /\ row'[i] = row[i]
    BY <1>1, <1>2, LogIs DEF RelInv, RelTyped
<1>6. \A i \in 1..m : Unsettled(i)' <=> Unsettled(i) BY <1>1, <1>5 DEF Unsettled
<1> HIDE DEF m, n
<1>7. ASSUME NEW i \in 1..m, NEW j \in 1 .. m + n, j \notin 1..m, Unsettled(i),
             log'[j].tuple = log[i].tuple
      PROVE  log[i].tuple \in overlapped'
    <2>1. j - m \in 1..n /\ cs[j - m].tuple = log[i].tuple BY <1>3, <1>7
    <2>2. log[i].tuple \in Overlap(cs) BY <1>2, <1>4, <1>7, <2>1 DEF Overlap, m
    <2> QED BY <1>1, <2>2
<1>8. ASSUME NEW i \in 1 .. m + n, i \notin 1..m, NEW j \in 1 .. m + n, j > i,
             log'[j].tuple = log'[i].tuple
      PROVE  log'[i].tuple \in overlapped'
    <2>1. /\ i - m \in 1..n /\ j - m \in 1..n /\ j - m # i - m
          /\ log'[i] = cs[i - m] /\ log'[j] = cs[j - m]
        BY <1>2, <1>3, <1>8
    <2>2. log'[i].tuple \in Overlap(cs) BY <1>2, <1>4, <1>8, <2>1 DEF Overlap
    <2> QED BY <1>1, <2>2
<1>9. applied' \subseteq 1..m /\ applied' \subseteq 1 .. m + n
    BY <1>1, <1>2 DEF Ordered, m
<1>10. ASSUME NEW i \in 1..m, log[i].tuple \notin overlapped'
       PROVE  /\ Unsettled(i)' => Latest(i)'
              /\ i \in applied' /\ Latest(i)' => effect'[log[i].tuple] = i
    <2>1. log[i].tuple \notin overlapped BY <1>1, <1>10
    <2>2. Latest(i)' => Latest(i) BY <1>2, <1>3 DEF Latest, m
    <2>3. ASSUME Unsettled(i)' PROVE Latest(i)'
        <3>1. Unsettled(i) /\ Latest(i) BY <1>6, <2>1, <2>3 DEF Ordered, m
        <3>2. ASSUME NEW j \in 1 .. m + n, j > i PROVE log'[j].tuple # log'[i].tuple
            <4>1. CASE j \in 1..m BY <1>3, <3>1, <3>2, <4>1 DEF Latest, m
            <4>2. CASE j \notin 1..m BY <1>3, <1>7, <1>10, <3>1, <4>2
            <4> QED BY <4>1, <4>2
        <3> QED BY <1>3, <3>2 DEF Latest
    <2> QED BY <1>1, <2>1, <2>2, <2>3 DEF Ordered, m
<1>11. ASSUME NEW i \in 1 .. m + n, i \notin 1..m, log'[i].tuple \notin overlapped'
       PROVE  Latest(i)' /\ i \notin applied'
    BY <1>3, <1>8, <1>9, <1>11 DEF Latest
<1> QED BY <1>3, <1>9, <1>10, <1>11 DEF Ordered

\* Nobody takes up what was settled, and only who works on an event writes it.
LEMMA PipelineOrdered ==
    ASSUME RelInv, Ordered, UNCHANGED tupleVars,
           \A i \in 1..Len(log) : Unsettled(i)' => Unsettled(i),
           \/ UNCHANGED <<effect, applied>>
           \/ \E k \in 1..Len(log) : Unsettled(k) /\ Written(k)
    PROVE  Ordered'
<1>1. UNCHANGED <<log, overlapped>> /\ \A i : Latest(i)' <=> Latest(i)
    BY DEF tupleVars, Latest
<1>2. CASE UNCHANGED <<effect, applied>> BY <1>1, <1>2 DEF Ordered
<1>3. ASSUME NEW k \in 1..Len(log), Unsettled(k), Written(k) PROVE Ordered'
    <2>1. /\ effect' = [effect EXCEPT ![log[k].tuple] = k] /\ applied' = applied \cup {k}
          /\ effect \in [Tuples -> 0..MaxChanges]
        BY <1>3 DEF Written, RelInv, RelTyped, RelTypeOK
    <2>2. \A i \in 1..Len(log) : log[i].tuple \in Tuples BY LogIs DEF RelInv, RelTyped, Change
    <2>3. ASSUME NEW i \in 1..Len(log), log[i].tuple \notin overlapped, i \in applied', Latest(i)
          PROVE  effect'[log[i].tuple] = i
        <3>1. CASE log[i].tuple # log[k].tuple BY <2>1, <2>2, <2>3, <3>1 DEF Ordered
        <3>2. CASE log[i].tuple = log[k].tuple
            <4>1. Latest(k) BY <1>3, <2>3, <3>2 DEF Ordered
            <4>2. i = k BY <2>3, <3>2, <4>1, OneLatest
            <4> QED BY <2>1, <2>2, <4>2
        <3> QED BY <3>1, <3>2
    <2>4. applied' \subseteq 1..Len(log) BY <2>1 DEF Ordered
    <2> QED BY <1>1, <2>3, <2>4 DEF Ordered
<1> QED BY <1>2, <1>3

LEMMA DispatcherOrdered ==
    ASSUME RelInv, Ordered, NEW d \in Dispatchers, TakeRow(d) \/ RowDone(d) \/ RowFails(d)
    PROVE  Ordered'
<1>1. /\ row \in [Events -> {"none", "todo", "done", "dead"}]
      /\ msg \in [Events -> {"none", "ready", "out", "acked", "spent"}]
      /\ at \in [Dispatchers -> 0..MaxChanges] /\ at[d] <= Len(log)
      /\ \A i \in 1..Len(log) : i \in Events
    BY LogIs DEF RelInv, RelTyped, RelTypeOK, OfTheLog
<1>2. CASE TakeRow(d)
    <2>1. PICK k \in Events : row[k] = "todo" /\ at' = [at EXCEPT ![d] = k] BY <1>2 DEF TakeRow
    <2>2. UNCHANGED <<tupleVars, row, msg, on, effect, applied>> BY <1>2 DEF TakeRow
    <2>3. \A i \in 1..Len(log) : Unsettled(i)' => Unsettled(i)
        BY <1>1, <2>1, <2>2 DEF Unsettled
    <2> QED BY <2>2, <2>3, PipelineOrdered
<1>3. CASE RowDone(d) \/ RowFails(d)
    <2> DEFINE k == at[d]
    <2>1. /\ k # 0 /\ at' = [at EXCEPT ![d] = 0] /\ UNCHANGED <<tupleVars, on>>
          /\ Handled(k) \/ UNCHANGED <<msg, effect, applied>>
          /\ \/ UNCHANGED row \/ row' = [row EXCEPT ![k] = "dead"]
             \/ row' = [row EXCEPT ![k] = AfterSuccess(k)]
        BY <1>3 DEF RowDone, RowFails
    <2>2. k \in 1..Len(log) BY <1>1, <2>1, LogIs DEF RelInv, RelTyped
    <2>3. Unsettled(k) BY DEF Unsettled
    <2>4. /\ UNCHANGED <<effect, applied>> \/ Written(k)
          /\ UNCHANGED msg \/ msg' = [msg EXCEPT ![k] = IF @ = "none" THEN "ready" ELSE @]
        BY <2>1 DEF Handled, Published
    <2> HIDE DEF k
    <2>5. \A i \in 1..Len(log) : i # k => row'[i] = row[i] /\ msg'[i] = msg[i]
        BY <1>1, <2>1, <2>4
    <2>6. \A i \in 1..Len(log) : Unsettled(i)' => Unsettled(i)
        <3>1. \A i \in 1..Len(log), e \in Dispatchers : at'[e] = i => at[e] = i
            BY <1>1, <2>1, LogIs DEF RelInv, RelTyped
        <3> QED BY <2>1, <2>3, <2>5, <3>1 DEF Unsettled
    <2> QED BY <2>1, <2>2, <2>3, <2>4, <2>6, PipelineOrdered
<1> QED BY <1>2, <1>3

LEMMA ConsumerOrdered ==
    ASSUME RelInv, Ordered,
           \/ \E c \in Consumers : Receive(c) \/ Work(c) \/ ConsumerStops(c)
           \/ \E i \in Events : AckWaitExpires(i)
    PROVE  Ordered'
<1>1. /\ msg \in [Events -> {"none", "ready", "out", "acked", "spent"}]
      /\ on \in [Consumers -> 0..MaxChanges] /\ \A c \in Consumers : on[c] <= Len(log)
      /\ \A i \in 1..Len(log) : i \in Events /\ i # 0
    BY LogIs DEF RelInv, RelTyped, RelTypeOK, OfTheLog
<1>2. ASSUME NEW c \in Consumers, Idle(c)
      PROVE  \A i \in 1..Len(log), b \in Consumers : on'[b] = i => on[b] = i
    BY <1>1, <1>2 DEF Idle
<1>3. ASSUME NEW c \in Consumers, Receive(c) PROVE Ordered'
    <2>1. PICK k \in Events :
            msg[k] = "ready" /\ on' = [on EXCEPT ![c] = k] /\ msg' = [msg EXCEPT ![k] = "out"]
        BY <1>3 DEF Receive
    <2>2. UNCHANGED <<tupleVars, row, at, effect, applied>> BY <1>3 DEF Receive
    <2>3. \A i \in 1..Len(log) : Unsettled(i)' => Unsettled(i)
        BY <1>1, <2>1, <2>2 DEF Unsettled
    <2> QED BY <2>2, <2>3, PipelineOrdered
<1>4. ASSUME NEW k \in Events, AckWaitExpires(k) PROVE Ordered'
    <2>1. /\ msg[k] = "out" /\ msg' = [msg EXCEPT ![k] = Returned(k)]
          /\ UNCHANGED <<tupleVars, row, at, on, effect, applied>>
        BY <1>4 DEF AckWaitExpires
    <2>2. \A i \in 1..Len(log) : Unsettled(i)' => Unsettled(i)
        BY <1>1, <2>1 DEF Unsettled
    <2> QED BY <2>1, <2>2, PipelineOrdered
<1>5. ASSUME NEW c \in Consumers, ConsumerStops(c) PROVE Ordered'
    <2>1. Idle(c) /\ UNCHANGED <<tupleVars, row, at, msg, effect, applied>>
        BY <1>5 DEF ConsumerStops
    <2>2. \A i \in 1..Len(log) : Unsettled(i)' => Unsettled(i)
        BY <1>2, <2>1 DEF Unsettled
    <2> QED BY <2>1, <2>2, PipelineOrdered
<1>6. ASSUME NEW c \in Consumers, Work(c) PROVE Ordered'
    <2> DEFINE k == on[c]
    <2>1. /\ k # 0 /\ Idle(c) /\ UNCHANGED <<tupleVars, row, at>>
          /\ UNCHANGED <<effect, applied>> \/ Written(k)
          /\ UNCHANGED msg \/ msg' = [msg EXCEPT ![k] = "acked"]
                \/ msg' = [msg EXCEPT ![k] = AfterFailure(k)]
        BY <1>6 DEF Work, AckDuplicate, Consume, ConsumeFails, Acked
    <2>2. k \in 1..Len(log) BY <1>1, <2>1, LogIs DEF RelInv, RelTyped
    <2>3. Unsettled(k) BY DEF Unsettled
    <2> HIDE DEF k
    <2>4. \A i \in 1..Len(log) : i # k => msg'[i] = msg[i] BY <1>1, <2>1
    <2>5. \A i \in 1..Len(log) : Unsettled(i)' => Unsettled(i)
        BY <1>2, <2>1, <2>3, <2>4 DEF Unsettled
    <2> QED BY <2>1, <2>2, <2>3, <2>5, PipelineOrdered
<1> QED BY <1>3, <1>4, <1>5, <1>6

LEMMA OrderedStutter ==
    ASSUME Ordered, UNCHANGED relVars
    PROVE  Ordered'
BY DEF relVars, tupleVars, pipeVars, Ordered, Latest, Unsettled

LEMMA OrderedInit == RelInit => Ordered
BY DEF RelInit, Ordered

\* Wherever OpenFGA and the database disagree about a tuple, its last change is
\* under way or was given up on record, unless the tuple was changed before an
\* earlier change of it was settled: a change that is repeated, lost, handed back
\* or late undoes none that was made after it was settled.
THEOREM Faithful == RelSpec => []RemoteFollowsLocal
<1>1. RelInit => Ordered BY OrderedInit
<1>2. RelInv /\ Ordered /\ [RelNext]_relVars => Ordered'
    <2> SUFFICES ASSUME RelInv, Ordered, [RelNext]_relVars PROVE Ordered' OBVIOUS
    <2>1. CASE ChangeTuple
        <3>1. PICK op \in {"write", "delete"}, t \in Tuples :
                ApplyChanges(<<[op |-> op, tuple |-> t]>>)
            BY <2>1 DEF ChangeTuple
        <3>2. <<[op |-> op, tuple |-> t]>> \in Seq(Change) BY DEF Change
        <3> QED BY <3>1, <3>2, ChangesOrdered
    <2> QED BY <2>1, OrderedStutter, DispatcherOrdered, ConsumerOrdered DEF RelNext, Pipeline
<1>3. RelInv /\ Ordered => RemoteFollowsLocal BY OrderedFollows
<1> QED BY <1>1, <1>2, <1>3, DeliveryInvariant, PTL DEF RelSpec

-----------------------------------------------------------------------------
\* The outbox of the tuples as a queue

QueueStep == [Queue!QueueNext]_(Queue!qvars)

\* The changes of a transaction are submitted together.
LEMMA ChangesSubmit ==
    ASSUME RelInv, NEW cs, ApplyChanges(cs)
    PROVE  QueueStep
<1> DEFINE new == {i \in Events : i \in Len(log) + 1 .. Len(log) + Len(cs)}
<1>1. Len(log) \in Nat /\ \A i \in Events : row[i] # "none" <=> i <= Len(log)
    BY LogIs DEF RelInv, RelTyped, OfTheLog
<1>2. \A i \in Events : row'[i] = IF i \in new THEN "todo" ELSE row[i]
    BY DEF ApplyChanges
<1>3. \A i \in new : row[i] = "none" BY <1>1 DEF Events
<1>4. UNCHANGED <<msg, applied>> BY DEF ApplyChanges
<1> HIDE DEF new
<1>5. new \in SUBSET Events BY DEF new
<1>6. Queue!Submit(new) BY <1>2, <1>3, <1>4, <1>5 DEF Queue!Submit, Standing
<1> QED BY <1>5, <1>6 DEF QueueStep, Queue!QueueNext

\* The events the stream or OpenFGA has, and what one of them adds.
Taken(m, a) == {j \in Events : m[j] # "none" \/ j \in a}

LEMMA TakenOne ==
    ASSUME NEW i \in Events, NEW m, NEW n, NEW a, NEW b,
           \A j \in Events : j # i => (m[j] # "none" <=> n[j] # "none") /\ (j \in a <=> j \in b),
           m[i] # "none" \/ i \in a => n[i] # "none" \/ i \in b
    PROVE  Taken(n, b) \in {Taken(m, a), Taken(m, a) \cup {i}}
<1>1. /\ \A j \in Events : j # i => (j \in Taken(n, b) <=> j \in Taken(m, a))
      /\ i \in Taken(m, a) => i \in Taken(n, b)
      /\ Taken(m, a) \subseteq Events /\ Taken(n, b) \subseteq Events
    BY DEF Taken
<1>2. CASE i \in Taken(n, b) /\ i \notin Taken(m, a)
    <2>1. Taken(n, b) = Taken(m, a) \cup {i} BY <1>1, <1>2
    <2> QED BY <2>1
<1>3. CASE ~(i \in Taken(n, b) /\ i \notin Taken(m, a))
    <2>1. Taken(n, b) = Taken(m, a) BY <1>1, <1>3
    <2> QED BY <2>1
<1> QED BY <1>2, <1>3

\* A call that returned, with or without success, delivered event i or nothing, and
\* settled its row or left it.
LEMMA CallReturns ==
    ASSUME RelInv, NEW i \in Events,
           \A j \in Events : j # i => row'[j] = row[j],
           \A j \in Events : j # i =>
                (msg[j] # "none" <=> msg'[j] # "none") /\ (j \in applied <=> j \in applied'),
           msg[i] # "none" \/ i \in applied => msg'[i] # "none" \/ i \in applied',
           row[i] # "none",
           \/ row'[i] = row[i]
           \/ row[i] = "todo" /\ row'[i] = "dead"
           \/ row[i] = "todo" /\ row'[i] = "done" /\ (msg'[i] # "none" \/ i \in applied')
    PROVE  QueueStep
<1> DEFINE job == [j \in Events |-> Standing(j)]
           delivered == {j \in Events : msg[j] # "none" \/ j \in applied}
<1>1. /\ delivered' \in {delivered, delivered \cup {i}}
      /\ i \in delivered' <=> msg'[i] # "none" \/ i \in applied'
    BY TakenOne DEF Taken
<1>2. row[i] \in {"todo", "done", "dead"} BY DEF RelInv, RelTyped, RelTypeOK
<1>3. job' = [job EXCEPT ![i] = Standing(i)'] BY DEF Standing
<1>4. CASE row'[i] = row[i]
    <2>1. job' = job BY <1>4 DEF Standing
    <2>2. CASE delivered' = delivered BY <2>1, <2>2 DEF QueueStep, Queue!qvars
    <2>3. CASE i \notin delivered /\ delivered' = delivered \cup {i}
        <3>1. row[i] # "done" BY <2>3 DEF RelInv, HandedOver
        <3>2. job[i] \in {"todo", "givenUp"} BY <1>2, <3>1 DEF Standing
        <3> QED BY <2>1, <2>3, <3>2 DEF QueueStep, Queue!QueueNext, Queue!Deliver
    <2> QED BY <1>1, <2>2, <2>3
<1>5. CASE row[i] = "todo" /\ row'[i] = "dead"
    <2>1. job[i] = "todo" /\ job' = [job EXCEPT ![i] = "givenUp"] BY <1>3, <1>5 DEF Standing
    <2> QED BY <1>1, <2>1 DEF QueueStep, Queue!QueueNext, Queue!GiveUp, Queue!Move
<1>6. CASE row[i] = "todo" /\ row'[i] = "done" /\ (msg'[i] # "none" \/ i \in applied')
    <2>1. job[i] = "todo" /\ job' = [job EXCEPT ![i] = "done"] BY <1>3, <1>6 DEF Standing
    <2>2. delivered' = delivered \cup {i} BY <1>1, <1>6
    <2> QED BY <2>1, <2>2 DEF QueueStep, Queue!QueueNext, Queue!Finish, Queue!Move
<1> QED BY <1>4, <1>5, <1>6

LEMMA QueueStutter ==
    ASSUME UNCHANGED <<row, msg, applied>>
    PROVE  QueueStep
BY DEF QueueStep, Queue!qvars, Standing

LEMMA DispatcherSteps ==
    ASSUME RelInv, NEW d \in Dispatchers, TakeRow(d) \/ RowDone(d) \/ RowFails(d)
    PROVE  QueueStep
<1> DEFINE i == at[d]
<1>1. CASE TakeRow(d) BY <1>1, QueueStutter DEF TakeRow
<1>2. CASE RowDone(d) \/ RowFails(d)
    <2>1. i \in Events /\ i <= Len(log) /\ row[i] # "none" /\ UNCHANGED log
        BY <1>2, SyncAssumption
        DEF RowDone, RowFails, tupleVars, RelInv, RelTyped, RelTypeOK, OfTheLog, Events
    <2>2. row \in [Events -> {"none", "todo", "done", "dead"}]
        BY DEF RelInv, RelTyped, RelTypeOK
    <2>3. Handled(i) =>
            /\ msg'[i] # "none" \/ i \in applied'
            /\ \A j \in Events : msg[j] # "none" => msg'[j] = msg[j]
            /\ \A j \in Events : msg'[j] # msg[j] => j = i
            /\ applied \subseteq applied'
        BY <2>1, HandledInv
    <2>4. Handled(i) => \A j \in Events : j # i => (j \in applied' <=> j \in applied)
        BY DEF Handled, Published, Written
    <2>5. CASE RowDone(d)
        <3>1. Handled(i) /\ row' = [row EXCEPT ![i] = AfterSuccess(i)] BY <2>5 DEF RowDone
        <3> HIDE DEF i
        <3> QED BY <2>1, <2>2, <2>3, <2>4, <3>1, CallReturns DEF AfterSuccess
    <2>6. CASE RowFails(d)
        <3>1. /\ Handled(i) \/ UNCHANGED <<msg, applied>>
              /\ UNCHANGED row \/ (row[i] = "todo" /\ row' = [row EXCEPT ![i] = "dead"])
            BY <2>6 DEF RowFails
        <3> HIDE DEF i
        <3> QED BY <2>1, <2>2, <2>3, <2>4, <3>1, CallReturns
    <2> QED BY <1>2, <2>5, <2>6
<1> QED BY <1>1, <1>2

\* A consumer may write what was given up, but not what was done and is nowhere.
LEMMA ConsumerSteps ==
    ASSUME RelInv,
           \/ \E c \in Consumers : Receive(c) \/ Work(c) \/ ConsumerStops(c)
           \/ \E i \in Events : AckWaitExpires(i)
    PROVE  QueueStep
<1> DEFINE Msgs == {"none", "ready", "out", "acked", "spent"}
<1>1. /\ msg \in [Events -> Msgs] /\ on \in [Consumers -> 0..MaxChanges]
      /\ \A i \in Events : row[i] # "none" <=> i <= Len(log)
      /\ \A i \in Events : msg[i] # "none" => i <= Len(log)
      /\ \A c \in Consumers : on[c] <= Len(log)
    BY DEF RelInv, RelTyped, RelTypeOK, OfTheLog
<1>2. ASSUME NEW i \in Events, row[i] # "none", UNCHANGED row,
             NEW m \in Msgs \ {"none"}, msg' = [msg EXCEPT ![i] = m] \/ UNCHANGED msg,
             UNCHANGED applied \/ applied' = applied \cup {i}
      PROVE  QueueStep
    BY <1>1, <1>2, CallReturns
<1> HIDE DEF Msgs
<1>3. ASSUME NEW c \in Consumers, Receive(c) PROVE QueueStep
    <2>1. PICK i \in Events : msg[i] = "ready" /\ msg' = [msg EXCEPT ![i] = "out"]
        BY <1>3 DEF Receive
    <2>2. UNCHANGED <<row, applied>> /\ row[i] # "none" BY <1>1, <1>3, <2>1 DEF Receive
    <2> QED BY <1>2, <2>1, <2>2 DEF Msgs
<1>4. ASSUME NEW i \in Events, AckWaitExpires(i) PROVE QueueStep
    <2>1. msg' = [msg EXCEPT ![i] = Returned(i)] /\ UNCHANGED <<row, applied>> /\ row[i] # "none"
        BY <1>1, <1>4 DEF AckWaitExpires
    <2>2. Returned(i) \in Msgs \ {"none"} BY DEF Returned, Msgs
    <2> QED BY <1>2, <2>1, <2>2
<1>5. ASSUME NEW c \in Consumers, ConsumerStops(c) PROVE QueueStep
    BY <1>5, QueueStutter DEF ConsumerStops
<1>6. ASSUME NEW c \in Consumers, Work(c) PROVE QueueStep
    <2> DEFINE i == on[c]
    <2>1. i # 0 /\ UNCHANGED row BY <1>6 DEF Work, AckDuplicate, Consume, ConsumeFails
    <2>2. i \in Events /\ row[i] # "none" BY <1>1, <2>1, SyncAssumption DEF Events
    <2>3. /\ UNCHANGED msg \/ msg' = [msg EXCEPT ![i] = "acked"]
             \/ msg' = [msg EXCEPT ![i] = AfterFailure(i)]
          /\ UNCHANGED applied \/ applied' = applied \cup {i}
        BY <1>6 DEF Work, AckDuplicate, Consume, ConsumeFails, Acked, Written
    <2>4. AfterFailure(i) \in Msgs \ {"none"} \/ (AfterFailure(i) = msg[i] /\ msg[i] = "none")
        BY <1>1, <2>2 DEF AfterFailure, Returned, Msgs
    <2>5. msg' = [msg EXCEPT ![i] = AfterFailure(i)] /\ AfterFailure(i) = msg[i] => UNCHANGED msg
        BY <1>1, <2>2
    <2>6. "acked" \in Msgs \ {"none"} BY DEF Msgs
    <2> HIDE DEF i
    <2> QED BY <1>2, <2>1, <2>2, <2>3, <2>4, <2>5, <2>6
<1> QED BY <1>3, <1>4, <1>5, <1>6

\* The outbox of the tuples keeps the promise of DurableQueue: what one transaction
\* changes is to do together, a row is done only when the stream or OpenFGA has the
\* change, and what is done or given up stays so, whichever dispatcher comes late.
THEOREM RowsQueued == RelSpec => RowsAreQueued
<1>1. RelInit => Queue!QueueInit BY DEF RelInit, Queue!QueueInit, Standing
<1>2. RelInv /\ [RelNext]_relVars => QueueStep
    <2> SUFFICES ASSUME RelInv, [RelNext]_relVars PROVE QueueStep OBVIOUS
    <2>1. CASE UNCHANGED relVars BY <2>1, QueueStutter DEF relVars, pipeVars
    <2>2. CASE ChangeTuple BY <2>2, ChangesSubmit DEF ChangeTuple
    <2> QED BY <2>1, <2>2, DispatcherSteps, ConsumerSteps DEF RelNext, Pipeline
<1> QED BY <1>1, <1>2, DeliveryInvariant, PTL DEF RelSpec, RowsAreQueued, Queue!QueueSpec, QueueStep
-----------------------------------------------------------------------------
\* What the changes of a transaction name and leave

Names(cs, t) == \E i \in DOMAIN cs : cs[i].tuple = t

LEMMA NamesConcat ==
    ASSUME NEW a \in Seq(Change), NEW b \in Seq(Change), NEW t
    PROVE  Names(a \o b, t) <=> Names(a, t) \/ Names(b, t)
<1> DEFINE m == Len(a)
           n == Len(b)
           ab == a \o b
<1>1. m \in Nat /\ n \in Nat /\ DOMAIN a = 1..m /\ DOMAIN b = 1..n BY LenProperties
<1>2. ab \in Seq(Change) /\ Len(ab) = m + n BY ConcatProperties
<1>3. DOMAIN ab = 1..(m + n) BY <1>2, LenProperties
<1>4. \A i \in 1..m : ab[i] = a[i] /\ i \in 1..(m + n) BY <1>1, ConcatProperties
<1>5. \A i \in 1..n : ab[m + i] = b[i] /\ m + i \in 1..(m + n)
    <2>1. \A i \in 1..n : m + i \in 1..(m + n) /\ ~(m + i <= m) /\ m + i - m = i BY <1>1
    <2> QED BY <2>1, ConcatProperties
<1>6. \A i \in 1..(m + n) : i \in 1..m \/ \E k \in 1..n : i = m + k
    <2>1. SUFFICES ASSUME NEW i \in 1..(m + n), i \notin 1..m
                   PROVE  \E k \in 1..n : i = m + k
        OBVIOUS
    <2>2. i - m \in 1..n /\ i = m + (i - m) BY <1>1, <2>1
    <2> QED BY <2>2
<1> HIDE DEF m, n, ab
<1>7. ASSUME NEW i \in 1..(m + n), ab[i].tuple = t PROVE Names(a, t) \/ Names(b, t)
    <2>1. CASE i \in 1..m BY <1>1, <1>4, <1>7, <2>1 DEF Names
    <2>2. CASE \E k \in 1..n : i = m + k BY <1>1, <1>5, <1>7, <2>2 DEF Names
    <2> QED BY <1>6, <2>1, <2>2
<1>8. Names(a, t) => Names(ab, t) BY <1>1, <1>3, <1>4 DEF Names
<1>9. Names(b, t) => Names(ab, t) BY <1>1, <1>3, <1>5 DEF Names
<1> QED BY <1>3, <1>7, <1>8, <1>9 DEF ab, Names

LEMMA NoChange ==
    ASSUME NEW t
    PROVE  << >> \in Seq(Change) /\ ~Names(<< >>, t) /\ ~Leaves(<< >>, t)
BY DEF Names, Leaves

LEMMA OneChange ==
    ASSUME NEW op \in {"write", "delete"}, NEW s \in Tuples, NEW t
    PROVE  LET cs == <<[op |-> op, tuple |-> s]>>
           IN  /\ cs \in Seq(Change)
               /\ Names(cs, t) <=> t = s
               /\ Leaves(cs, t) <=> t = s /\ op = "write"
BY DEF Names, Leaves, Change

\* A tuple after a transaction of two parts.
LEMMA ChangedBy ==
    ASSUME NEW a \in Seq(Change), NEW b \in Seq(Change), NEW t \in Tuples
    PROVE  t \in Changed(a \o b) <=>
            \/ Leaves(b, t)
            \/ ~Names(b, t) /\ (Leaves(a, t) \/ (~Names(a, t) /\ t \in local))
<1>1. t \in Changed(a \o b) <=> Leaves(a \o b, t) \/ (t \in local /\ ~Names(a \o b, t))
    BY DEF Changed, Names
<1>2. Leaves(a \o b, t) <=> Leaves(b, t) \/ (Leaves(a, t) /\ ~Names(b, t))
    BY LeavesConcat DEF Names
<1>3. Names(a \o b, t) <=> Names(a, t) \/ Names(b, t) BY NamesConcat
<1>4. Leaves(a, t) => Names(a, t) BY DEF Leaves, Names
<1> QED BY <1>1, <1>2, <1>3, <1>4

\* The tuples of employees are told apart.
LEMMA TuplesDiffer ==
    /\ \A a, b \in Accounts : Member(a) = Member(b) => a = b
    /\ \A e, f \in Employees, a, b \in Accounts : Owner(e, a) = Owner(f, b) => e = f /\ a = b
    /\ \A e \in Employees, a, b \in Accounts : Member(a) # Owner(e, b)
    /\ \A a \in Accounts : Member(a) \in Tuples /\ Member(a) \in StaffTuples
    /\ \A e \in Employees, a \in Accounts : Owner(e, a) \in Tuples /\ Owner(e, a) \in StaffTuples
<1>1. \A a, b \in Accounts : Member(a) = Member(b) => a = b BY DEF Member
<1>2. \A e, f \in Employees, a, b \in Accounts : Owner(e, a) = Owner(f, b) => e = f /\ a = b
    BY DEF Owner
<1>3. \A e \in Employees, a, b \in Accounts : Member(a) # Owner(e, b) BY DEF Member, Owner
<1>4. /\ \A a \in Accounts : Member(a) \in StaffTuples
      /\ \A e \in Employees, a \in Accounts : Owner(e, a) \in StaffTuples
    BY DEF StaffTuples
<1> QED BY <1>1, <1>2, <1>3, <1>4, EmploymentAssumption

LEMMA MembershipChangesAre ==
    ASSUME NEW a \in Accounts, NEW before, NEW after, NEW t
    PROVE  LET cs == MembershipChanges(a, before, after)
           IN  /\ cs \in Seq(Change)
               /\ Names(cs, t) <=> t = Member(a) /\ Usable(before) # Usable(after)
               /\ Leaves(cs, t) <=> t = Member(a) /\ Usable(before) # Usable(after) /\ Usable(after)
<1>1. Member(a) \in Tuples BY TuplesDiffer
<1>2. CASE Usable(before) = Usable(after) BY <1>2, NoChange DEF MembershipChanges
<1>3. CASE Usable(before) # Usable(after)
    <2> DEFINE op == IF Usable(after) THEN "write" ELSE "delete"
    <2>1. MembershipChanges(a, before, after) = <<[op |-> op, tuple |-> Member(a)]>>
        BY <1>3 DEF MembershipChanges
    <2>2. op \in {"write", "delete"} /\ (op = "write" <=> Usable(after)) OBVIOUS
    <2> HIDE DEF op
    <2> QED BY <1>1, <1>3, <2>1, <2>2, OneChange
<1> QED BY <1>2, <1>3

LEMMA OwnerChangesAre ==
    ASSUME NEW e \in Employees, NEW before \in Accounts \cup {NoAccount},
           NEW after \in Accounts \cup {NoAccount}, NEW t
    PROVE  LET cs == OwnerChanges(e, before, after)
           IN  /\ cs \in Seq(Change)
               /\ Names(cs, t) <=>
                    /\ before # after
                    /\ \/ before # NoAccount /\ t = Owner(e, before)
                       \/ after # NoAccount /\ t = Owner(e, after)
               /\ Leaves(cs, t) <=> before # after /\ after # NoAccount /\ t = Owner(e, after)
<1> DEFINE D == IF before = NoAccount THEN << >>
                ELSE <<[op |-> "delete", tuple |-> Owner(e, before)]>>
           W == IF after = NoAccount THEN << >>
                ELSE <<[op |-> "write", tuple |-> Owner(e, after)]>>
<1>1. CASE before = after BY <1>1, NoChange DEF OwnerChanges
<1>2. CASE before # after
    <2>1. OwnerChanges(e, before, after) = D \o W BY <1>2 DEF OwnerChanges
    <2>2. /\ D \in Seq(Change) /\ ~Leaves(D, t)
          /\ Names(D, t) <=> before # NoAccount /\ t = Owner(e, before)
        BY NoChange, OneChange, TuplesDiffer
    <2>3. /\ W \in Seq(Change)
          /\ Names(W, t) <=> after # NoAccount /\ t = Owner(e, after)
          /\ Leaves(W, t) <=> after # NoAccount /\ t = Owner(e, after)
        BY NoChange, OneChange, TuplesDiffer
    <2> HIDE DEF D, W
    <2>4. D \o W \in Seq(Change) BY <2>2, <2>3, ConcatProperties
    <2>5. Names(D \o W, t) <=> Names(D, t) \/ Names(W, t) BY <2>2, <2>3, NamesConcat
    <2>6. Leaves(D \o W, t) <=> Leaves(W, t) BY <2>2, <2>3, LeavesConcat
    <2> QED BY <1>2, <2>1, <2>2, <2>3, <2>4, <2>5, <2>6
<1> QED BY <1>1, <1>2

-----------------------------------------------------------------------------
\* Employees and accounts: Employment

\* Operations that leave the employee the account he has.
Keeping == {"delete", "status", "suspend", "resign", "reinstate"}

KnownRequests ==
    \A p \in Admins : tx[p].step # "idle" =>
        /\ tx[p].e \in Employees
        /\ tx[p].kind \in Keeping => tx[p].account = tx[p].row.account

\* What a request read of the account is so, as long as the version says so.
ReadFresh ==
    \A p \in Admins :
        tx[p].step = "write" /\ tx[p].newest /\ tx[p].account # NoAccount =>
            tx[p].login = acct[tx[p].account]

StaffInv ==
    StaffTypeOK /\ KnownRequests /\ ReadFresh /\ MembershipFollowsAccount /\ LinksAgree

\* A request that starts, reads or is rolled back changes no row.
LEMMA RequestInv ==
    ASSUME StaffInv, NEW p \in Admins, UNCHANGED <<local, emp, acct, crossed>>,
           NEW t, tx' = [tx EXCEPT ![p] = t],
           t \in [step : {"idle", "read", "write"}, kind : Kinds,
                  e : Employees \cup {NoEmployee}, row : Employee,
                  account : Accounts \cup {NoAccount}, login : Account, newest : BOOLEAN],
           t.step # "idle" => /\ t.e \in Employees
                              /\ t.kind \in Keeping => t.account = t.row.account,
           t.step = "write" /\ t.account # NoAccount => t.login = acct[t.account]
    PROVE  StaffInv'
<1> DEFINE Tx == [step : {"idle", "read", "write"}, kind : Kinds,
                  e : Employees \cup {NoEmployee}, row : Employee,
                  account : Accounts \cup {NoAccount}, login : Account, newest : BOOLEAN]
<1>1. tx \in [Admins -> Tx] BY DEF StaffInv, StaffTypeOK
<1>2. t \in Tx OBVIOUS
<1> HIDE DEF Tx
<1>3. /\ tx' \in [Admins -> Tx] /\ tx'[p] = t
      /\ \A q \in Admins : q # p => tx'[q] = tx[q]
    BY <1>1, <1>2
<1>4. StaffTypeOK' BY <1>3 DEF StaffInv, StaffTypeOK, Tx
<1>5. KnownRequests' BY <1>3 DEF StaffInv, KnownRequests
<1>6. ReadFresh' BY <1>3 DEF StaffInv, ReadFresh
<1>7. MembershipFollowsAccount' /\ LinksAgree'
    BY DEF StaffInv, MembershipFollowsAccount, LinksAgree
<1> QED BY <1>4, <1>5, <1>6, <1>7 DEF StaffInv

\* Between requests, and before one has read the account.
LEMMA IdleIs ==
    /\ Idle0 \in [step : {"idle", "read", "write"}, kind : Kinds,
                  e : Employees \cup {NoEmployee}, row : Employee,
                  account : Accounts \cup {NoAccount}, login : Account, newest : BOOLEAN]
    /\ Idle0.step = "idle" /\ NoLogin \in Account /\ NoRow \in Employee
BY DEF Idle0, NoLogin, NoRow, Account, Employee, Kinds

LEMMA OpenInv ==
    ASSUME StaffInv, NEW p \in Admins, NEW ks \in SUBSET Kinds, Open(p, ks)
    PROVE  StaffInv'
<1>1. PICK k \in ks, e \in Employees, a \in Accounts \cup {NoAccount} :
        /\ Admitted(k, e, a)
        /\ tx' = [tx EXCEPT ![p] = [step |-> "read", kind |-> k, e |-> e, row |-> emp[e],
                                    account |-> a, login |-> NoLogin, newest |-> TRUE]]
    BY DEF Open
<1> DEFINE t == [step |-> "read", kind |-> k, e |-> e, row |-> emp[e],
                 account |-> a, login |-> NoLogin, newest |-> TRUE]
<1>2. emp[e] \in Employee BY DEF StaffInv, StaffTypeOK
<1>3. t \in [step : {"idle", "read", "write"}, kind : Kinds,
             e : Employees \cup {NoEmployee}, row : Employee,
             account : Accounts \cup {NoAccount}, login : Account, newest : BOOLEAN]
    BY <1>2, IdleIs
<1>4. k \in Keeping => a = emp[e].account BY <1>1 DEF Admitted, Keeping
<1>5. UNCHANGED <<local, emp, acct, crossed>> BY DEF Open, relVars, tupleVars, pipeVars
<1>6. /\ t.step = "read" /\ t.e = e /\ t.kind = k /\ t.account = a /\ t.row = emp[e]
      /\ tx' = [tx EXCEPT ![p] = t]
    BY <1>1
<1> HIDE DEF t
<1> QED BY <1>3, <1>4, <1>5, <1>6, RequestInv

LEMMA ReadAccountInv ==
    ASSUME StaffInv, NEW p \in Admins, ReadAccount(p)
    PROVE  StaffInv'
<1> DEFINE Tx == [step : {"idle", "read", "write"}, kind : Kinds,
                  e : Employees \cup {NoEmployee}, row : Employee,
                  account : Accounts \cup {NoAccount}, login : Account, newest : BOOLEAN]
           login == IF tx[p].account = NoAccount THEN NoLogin ELSE acct[tx[p].account]
           t == [tx[p] EXCEPT !.step = "write", !.login = login]
<1>1. tx[p] \in Tx /\ tx \in [Admins -> Tx] BY DEF StaffInv, StaffTypeOK
<1>2. login \in Account BY <1>1, IdleIs DEF StaffInv, StaffTypeOK
<1>3. tx' = [tx EXCEPT ![p] = t] BY <1>1 DEF ReadAccount
<1>4. t.account # NoAccount => login = acct[t.account] BY <1>1
<1> HIDE DEF login
<1>5. /\ t \in Tx /\ t.e = tx[p].e /\ t.kind = tx[p].kind /\ t.login = login
      /\ t.account = tx[p].account /\ t.row = tx[p].row
    BY <1>1, <1>2
<1>6. tx[p].step = "read" /\ UNCHANGED <<local, emp, acct, crossed>>
    BY DEF ReadAccount, relVars, tupleVars, pipeVars
<1> HIDE DEF t
<1>7. t.e \in Employees /\ (t.kind \in Keeping => t.account = t.row.account)
    BY <1>5, <1>6 DEF StaffInv, KnownRequests
<1> QED BY <1>3, <1>4, <1>5, <1>6, <1>7, RequestInv

LEMMA RollbackInv ==
    ASSUME StaffInv, NEW p \in Admins, Rollback(p)
    PROVE  StaffInv'
<1>1. tx' = [tx EXCEPT ![p] = Idle0] /\ UNCHANGED <<local, emp, acct, crossed>>
    BY DEF Rollback, relVars, tupleVars, pipeVars
<1> QED BY <1>1, IdleIs, RequestInv

-----------------------------------------------------------------------------
\* The commit

\* What an operation makes of the status and of the account.
LEMMA NewIs ==
    ASSUME NEW k \in Kinds, NEW e \in Employees, NEW r \in Employee, NEW l \in Account
    PROVE  /\ NewStatus(k, r.status) \in {"absent", "active", "suspended", "resigned", "deleted"}
           /\ NewLogin(k, e, l) \in Account
           /\ k \in Keeping \ {"status", "suspend"} => NewLogin(k, e, l).employee = l.employee
           /\ k \notin Keeping => NewLogin(k, e, l).employee = e
           /\ l.status = "disabled" /\ NewLogin(k, e, l).status # "disabled" =>
                k \in {"reinstate", "invite"}
<1>1. NewStatus(k, r.status) \in {"absent", "active", "suspended", "resigned", "deleted"}
    BY DEF NewStatus, Employee, Kinds
<1>2. CASE k \in {"delete", "resign"}
    <2>1. NewLogin(k, e, l) = [l EXCEPT !.status = "disabled"] BY <1>2 DEF NewLogin
    <2> QED BY <1>1, <1>2, <2>1 DEF Account, Keeping
<1>3. CASE k = "reinstate"
    <2>1. NewLogin(k, e, l) = [l EXCEPT !.status = "active"] BY <1>3 DEF NewLogin
    <2> QED BY <1>1, <1>3, <2>1 DEF Account, Keeping
<1>4. CASE k = "invite"
    <2>1. NewLogin(k, e, l) = [status |-> "pending_invite", employee |-> e]
        BY <1>4 DEF NewLogin
    <2> QED BY <1>1, <1>4, <2>1 DEF Account, Keeping
<1>5. CASE k \notin {"delete", "resign", "reinstate", "invite"}
    <2>1. NewLogin(k, e, l) =
            [status |-> IF l.status # "absent" THEN l.status
                        ELSE IF k = "create_active" THEN "active" ELSE "pending_invite",
             employee |-> e]
        BY <1>5 DEF NewLogin
    <2> QED BY <1>1, <1>5, <2>1 DEF Account, Keeping
<1> QED BY <1>2, <1>3, <1>4, <1>5

\* A commit writes what it read and changed, unless somebody was there before;
\* then the version of the account, or the mark of the crossing, says so.
LEMMA CommitInv ==
    ASSUME RelInv, StaffInv, NEW p \in Admins, Commit(p)
    PROVE  RelInv' /\ StaffInv' /\ \E cs \in Seq(Change) : ApplyChanges(cs)
<1> DEFINE t == tx[p]
           e == t.e
           a == t.account
           k == t.kind
           w == WritesAccount(p)
           next == [status |-> NewStatus(k, t.row.status), account |-> a]
           login == NewLogin(k, e, t.login)
           M == IF w THEN MembershipChanges(a, t.login.status, login.status) ELSE << >>
           O == OwnerChanges(e, t.row.account, a)
           Tx == [step : {"idle", "read", "write"}, kind : Kinds,
                  e : Employees \cup {NoEmployee}, row : Employee,
                  account : Accounts \cup {NoAccount}, login : Account, newest : BOOLEAN]
<1>1. /\ t.step = "write" /\ (w => t.newest) /\ AccountFree(e, a)
      /\ emp' = [emp EXCEPT ![e] = next]
      /\ acct' = IF w THEN [acct EXCEPT ![a] = login] ELSE acct
      /\ crossed' = IF emp[e] # t.row THEN crossed \cup {e} ELSE crossed
      /\ tx' = Closed(p, w)
      /\ ApplyChanges(M \o O)
    BY DEF Commit, VersionMatches
<1>2. /\ emp \in [Employees -> Employee] /\ acct \in [Accounts -> Account]
      /\ tx \in [Admins -> Tx] /\ crossed \subseteq Employees
    BY DEF StaffInv, StaffTypeOK
<1>3. /\ t \in Tx /\ e \in Employees /\ k \in Kinds /\ a \in Accounts \cup {NoAccount}
      /\ t.row \in Employee /\ t.login \in Account
      /\ t.row.account \in Accounts \cup {NoAccount}
      /\ k \in Keeping => a = t.row.account
    BY <1>1, <1>2 DEF StaffInv, KnownRequests, Employee
<1>4. w => a \in Accounts /\ t.login = acct[a] /\ k \notin {"status", "suspend"}
    BY <1>1, <1>3 DEF StaffInv, ReadFresh, WritesAccount
<1>5. ~w => a = NoAccount \/ k \in {"status", "suspend"} BY <1>3 DEF WritesAccount
<1>6. /\ next \in Employee /\ next.account = a /\ login \in Account
      /\ k \in Keeping \ {"status", "suspend"} => login.employee = t.login.employee
      /\ k \notin Keeping => login.employee = e
    <2>1. NewStatus(k, t.row.status) \in {"absent", "active", "suspended", "resigned", "deleted"}
        BY <1>3, NewIs
    <2> QED BY <1>3, <2>1, NewIs DEF Employee
<1>7. M \in Seq(Change) /\ O \in Seq(Change)
    <2>1. M \in Seq(Change)
        <3>1. CASE w
            <4>1. \A before, after : MembershipChanges(a, before, after) \in Seq(Change)
                BY <1>4, <3>1, MembershipChangesAre
            <4> QED BY <3>1, <4>1
        <3>2. CASE ~w BY <3>2
        <3> QED BY <3>1, <3>2
    <2>2. \A before \in Accounts \cup {NoAccount}, after \in Accounts \cup {NoAccount} :
            OwnerChanges(e, before, after) \in Seq(Change)
        BY <1>3, OwnerChangesAre
    <2> QED BY <1>3, <2>1, <2>2
<1>8. \A s : /\ Names(M, s) <=> w /\ s = Member(a) /\ Usable(t.login.status) # Usable(login.status)
             /\ Leaves(M, s) <=> /\ w /\ s = Member(a)
                                 /\ Usable(t.login.status) # Usable(login.status)
                                 /\ Usable(login.status)
    <2>1. CASE w BY <1>4, <2>1, MembershipChangesAre
    <2>2. CASE ~w BY <2>2, NoChange
    <2> QED BY <2>1, <2>2
<1>9. \A s : /\ Names(O, s) <=> /\ t.row.account # a
                                /\ \/ t.row.account # NoAccount /\ s = Owner(e, t.row.account)
                                   \/ a # NoAccount /\ s = Owner(e, a)
             /\ Leaves(O, s) <=> t.row.account # a /\ a # NoAccount /\ s = Owner(e, a)
    <2>1. ASSUME NEW s, NEW before \in Accounts \cup {NoAccount},
                 NEW after \in Accounts \cup {NoAccount}
          PROVE  LET cs == OwnerChanges(e, before, after)
                 IN  /\ Names(cs, s) <=>
                          /\ before # after
                          /\ \/ before # NoAccount /\ s = Owner(e, before)
                             \/ after # NoAccount /\ s = Owner(e, after)
                     /\ Leaves(cs, s) <=> before # after /\ after # NoAccount /\ s = Owner(e, after)
        <3>1. e \in Employees BY <1>3
        <3> HIDE DEF e
        <3> QED BY ONLY <2>1, <3>1, OwnerChangesAre
    <2>2. t.row.account \in Accounts \cup {NoAccount} /\ a \in Accounts \cup {NoAccount} BY <1>3
    <2> QED BY ONLY <2>1, <2>2
<1>10. w \in BOOLEAN BY DEF WritesAccount
<1> HIDE DEF next, login, M, O, w
<1>11. RelInv' /\ \E cs \in Seq(Change) : ApplyChanges(cs)
    <2>1. M \o O \in Seq(Change) BY <1>7, ConcatProperties
    <2> QED BY <1>1, <2>1, ChangesInv
<1>12. local' = Changed(M \o O) BY <1>1 DEF ApplyChanges
<1>13. /\ emp' \in [Employees -> Employee] /\ emp'[e] = next
       /\ \A f \in Employees : f # e => emp'[f] = emp[f]
    BY <1>1, <1>2, <1>3, <1>6
<1>14. /\ acct' \in [Accounts -> Account] /\ (w => acct'[a] = login)
       /\ \A b \in Accounts : b # a => acct'[b] = acct[b]
       /\ ~w => acct' = acct
    BY <1>1, <1>2, <1>4, <1>6
<1>15. /\ tx' \in [Admins -> Tx] /\ tx'[p].step = "idle"
       /\ \A q \in Admins : q # p =>
            /\ tx'[q].step = tx[q].step /\ tx'[q].kind = tx[q].kind /\ tx'[q].e = tx[q].e
            /\ tx'[q].row = tx[q].row /\ tx'[q].account = tx[q].account
            /\ tx'[q].login = tx[q].login
            /\ tx'[q].newest => tx[q].newest
            /\ w /\ tx[q].step = "write" /\ tx[q].account = a => ~tx'[q].newest
    <2>1. \A q \in Admins : q # p =>
            tx'[q] = IF w /\ tx[q].step = "write" /\ tx[q].account = a
                     THEN [tx[q] EXCEPT !.newest = FALSE] ELSE tx[q]
        BY <1>1 DEF Closed
    <2>2. tx'[p] = Idle0 BY <1>1 DEF Closed
    <2>3. Idle0 \in Tx /\ Idle0.step = "idle" BY IdleIs
    <2>4. ASSUME NEW q \in Admins, q # p
          PROVE  /\ tx'[q] \in Tx
                 /\ tx'[q].step = tx[q].step /\ tx'[q].kind = tx[q].kind /\ tx'[q].e = tx[q].e
                 /\ tx'[q].row = tx[q].row /\ tx'[q].account = tx[q].account
                 /\ tx'[q].login = tx[q].login
                 /\ tx'[q].newest => tx[q].newest
                 /\ w /\ tx[q].step = "write" /\ tx[q].account = a => ~tx'[q].newest
        <3>1. tx[q] \in Tx BY <1>2
        <3>2. CASE w /\ tx[q].step = "write" /\ tx[q].account = a
            <4>1. tx'[q] = [tx[q] EXCEPT !.newest = FALSE] BY <2>1, <2>4, <3>2
            <4> QED BY <3>1, <4>1
        <3>3. CASE ~(w /\ tx[q].step = "write" /\ tx[q].account = a)
            BY <2>1, <2>4, <3>1, <3>3
        <3> QED BY <3>2, <3>3
    <2>5. \E S : tx' = [q \in Admins |-> S[q]]
        <3>1. tx' = [q \in Admins |-> tx'[q]] BY <1>1 DEF Closed
        <3> QED BY <3>1
    <2> HIDE DEF t
    <2>6. tx' \in [Admins -> Tx] BY <2>2, <2>3, <2>4, <2>5
    <2> QED BY <2>2, <2>3, <2>4, <2>6
<1>16. StaffTypeOK' BY <1>1, <1>2, <1>3, <1>13, <1>14, <1>15 DEF StaffTypeOK
<1>17. KnownRequests' BY <1>15 DEF StaffInv, KnownRequests
<1>18. ReadFresh'
    <2>1. SUFFICES ASSUME NEW q \in Admins, tx'[q].step = "write", tx'[q].newest,
                          tx'[q].account # NoAccount
                   PROVE  tx'[q].login = acct'[tx'[q].account]
        BY DEF ReadFresh
    <2>2. q # p BY <1>15, <2>1
    <2>3. tx[q].login = acct[tx[q].account] BY <1>15, <2>1, <2>2 DEF StaffInv, ReadFresh
    <2>4. tx[q].account \in Accounts BY <1>2, <1>15, <2>1, <2>2
    <2>5. acct'[tx[q].account] = acct[tx[q].account] BY <1>10, <1>14, <1>15, <2>1, <2>2, <2>4
    <2> QED BY <1>15, <2>2, <2>3, <2>5
<1>19. MembershipFollowsAccount'
    <2>1. SUFFICES ASSUME NEW b \in Accounts
                   PROVE  Member(b) \in local' <=> Usable(acct'[b].status)
        BY DEF MembershipFollowsAccount
    <2>2. Member(b) \in local <=> Usable(acct[b].status)
        BY DEF StaffInv, MembershipFollowsAccount
    <2>3. ~Names(O, Member(b)) /\ ~Leaves(O, Member(b)) BY <1>3, <1>9, TuplesDiffer
    <2>4. Member(b) \in local' <=> \/ Leaves(M, Member(b))
                                   \/ ~Names(M, Member(b)) /\ Member(b) \in local
        BY <1>7, <1>12, <2>3, ChangedBy, TuplesDiffer
    <2>5. CASE w /\ b = a BY <1>4, <1>8, <1>14, <2>2, <2>4, <2>5 DEF Usable
    <2>6. CASE ~(w /\ b = a)
        <3>1. acct'[b] = acct[b] BY <1>10, <1>14, <2>6
        <3>2. ~Names(M, Member(b)) /\ ~Leaves(M, Member(b)) BY <1>4, <1>8, <2>6, TuplesDiffer
        <3> QED BY <2>2, <2>4, <3>1, <3>2
    <2> QED BY <2>5, <2>6
<1>20. LinksAgree'
    <2>1. SUFFICES ASSUME NEW f \in Employees, f \notin crossed'
                   PROVE  /\ emp'[f].account # NoAccount =>
                                acct'[emp'[f].account].employee = f
                          /\ \A b \in Accounts : Owner(f, b) \in local' <=> emp'[f].account = b
        BY DEF LinksAgree
    <2>2. /\ emp[f].account # NoAccount => acct[emp[f].account].employee = f
          /\ \A b \in Accounts : Owner(f, b) \in local <=> emp[f].account = b
          /\ emp[f].account \in Accounts \cup {NoAccount}
        BY <1>1, <1>2, <2>1 DEF StaffInv, LinksAgree, Employee
    <2>3. \A b \in Accounts : ~Names(M, Owner(f, b)) /\ ~Leaves(M, Owner(f, b))
        BY <1>4, <1>8, TuplesDiffer
    <2>4. \A b \in Accounts :
            Owner(f, b) \in local' <=> \/ Leaves(O, Owner(f, b))
                                       \/ ~Names(O, Owner(f, b)) /\ Owner(f, b) \in local
        BY <1>7, <1>12, <2>3, ChangedBy, TuplesDiffer
    <2>5. CASE f = e
        <3>1. emp[f] = t.row /\ emp'[f].account = a BY <1>1, <1>6, <1>13, <2>1, <2>5
        <3>2. ASSUME NEW b \in Accounts PROVE Owner(f, b) \in local' <=> a = b
            <4>1. Leaves(O, Owner(f, b)) <=> t.row.account # a /\ a = b
                BY <1>3, <1>9, <2>5, TuplesDiffer, EmploymentAssumption
            <4>2. Names(O, Owner(f, b)) <=> t.row.account # a /\ (t.row.account = b \/ a = b)
                BY <1>3, <1>9, <2>5, TuplesDiffer, EmploymentAssumption
            <4> QED BY <2>2, <2>4, <3>1, <4>1, <4>2
        <3>3. ASSUME a # NoAccount PROVE acct'[a].employee = f
            <4>1. CASE w /\ k \notin Keeping BY <1>6, <1>14, <2>5, <4>1
            <4>2. CASE w /\ k \in Keeping
                BY <1>3, <1>4, <1>6, <1>14, <2>2, <2>5, <3>1, <3>3, <4>2
            <4>3. CASE ~w
                BY <1>3, <1>5, <1>14, <2>2, <2>5, <3>1, <3>3, <4>3 DEF Keeping
            <4> QED BY <1>10, <4>1, <4>2, <4>3
        <3> QED BY <3>1, <3>2, <3>3
    <2>6. CASE f # e
        <3>1. emp'[f] = emp[f] BY <1>13, <2>6
        <3>2. \A b \in Accounts : ~Names(O, Owner(f, b)) /\ ~Leaves(O, Owner(f, b))
            BY <1>3, <1>9, <2>6, TuplesDiffer
        <3>3. emp[f].account # NoAccount => emp[f].account # a
            BY <1>1, <2>6 DEF AccountFree
        <3>4. emp[f].account # NoAccount => acct'[emp[f].account] = acct[emp[f].account]
            BY <1>14, <2>2, <3>3
        <3> QED BY <2>2, <2>4, <3>1, <3>2, <3>4
    <2> QED BY <2>5, <2>6
<1> QED BY <1>11, <1>16, <1>17, <1>18, <1>19, <1>20 DEF StaffInv

-----------------------------------------------------------------------------
\* The other steps

LEMMA StaffStep ==
    ASSUME RelInv, StaffInv, Staff
    PROVE  RelInv' /\ StaffInv'
<1>1. PICK p \in Admins : Request(p, Kinds) BY DEF Staff
<1>2. CASE Commit(p) BY <1>2, CommitInv
<1>3. CASE Open(p, Kinds) BY <1>3, OpenInv, RelStutter DEF Open
<1>4. CASE ReadAccount(p) BY <1>4, ReadAccountInv, RelStutter DEF ReadAccount
<1>5. CASE Rollback(p) BY <1>5, RollbackInv, RelStutter DEF Rollback
<1> QED BY <1>1, <1>2, <1>3, <1>4, <1>5 DEF Request

\* Tuples of others are no tuples of employees or accounts.
LEMMA OtherTuplesInv ==
    ASSUME RelInv, StaffInv, OtherTuples
    PROVE  RelInv' /\ StaffInv'
<1>1. PICK op \in {"write", "delete"}, s \in Tuples \ StaffTuples :
        ApplyChanges(<<[op |-> op, tuple |-> s]>>)
    BY DEF OtherTuples
<1> DEFINE cs == <<[op |-> op, tuple |-> s]>>
<1>2. cs \in Seq(Change) BY <1>1, OneChange
<1>3. RelInv' BY <1>1, <1>2, ChangesInv
<1>4. local' = Changed(cs) /\ UNCHANGED <<emp, acct, tx, crossed>>
    BY <1>1 DEF ApplyChanges, OtherTuples, staffVars
<1>5. ASSUME NEW t \in StaffTuples PROVE t \in local' <=> t \in local
    <2>1. t \in Tuples /\ t # s BY <1>1, EmploymentAssumption
    <2>2. ~Names(cs, t) /\ ~Leaves(cs, t) BY <1>1, <2>1, OneChange
    <2> HIDE DEF cs
    <2> QED BY <1>4, <2>1, <2>2 DEF Changed, Names
<1>6. StaffTypeOK' /\ KnownRequests' /\ ReadFresh'
    BY <1>4 DEF StaffInv, StaffTypeOK, KnownRequests, ReadFresh
<1>7. MembershipFollowsAccount' BY <1>4, <1>5, TuplesDiffer DEF StaffInv, MembershipFollowsAccount
<1>8. LinksAgree' BY <1>4, <1>5, TuplesDiffer DEF StaffInv, LinksAgree
<1> QED BY <1>3, <1>6, <1>7, <1>8 DEF StaffInv

LEMMA StaffStutter ==
    ASSUME StaffInv, UNCHANGED <<local, emp, acct, tx, crossed>>
    PROVE  StaffInv'
BY DEF StaffInv, StaffTypeOK, KnownRequests, ReadFresh, MembershipFollowsAccount, LinksAgree

LEMMA DeliveryInv ==
    ASSUME RelInv, StaffInv, Delivery
    PROVE  RelInv' /\ StaffInv'
<1>1. RelInv' BY DispatcherInv, ConsumerInv DEF Delivery, Pipeline
<1>2. UNCHANGED local
    BY DEF Delivery, Pipeline, TakeRow, RowDone, RowFails, Receive, Work, AckDuplicate, Consume,
           ConsumeFails, ConsumerStops, AckWaitExpires, tupleVars
<1> QED BY <1>1, <1>2, StaffStutter DEF Delivery, staffVars

LEMMA StaffInitInv ==
    ASSUME EmpInit
    PROVE  RelInv /\ StaffInv
<1> USE DEF EmpInit, StaffInit
<1>1. RelInv BY RelInitInv
<1>2. StaffTypeOK BY IdleIs DEF StaffTypeOK
<1>3. KnownRequests /\ ReadFresh BY IdleIs DEF KnownRequests, ReadFresh
<1>4. local = {} BY DEF RelInit
<1>5. MembershipFollowsAccount BY <1>4 DEF MembershipFollowsAccount, NoLogin, Usable
<1>6. LinksAgree BY <1>4, EmploymentAssumption DEF LinksAgree, NoRow
<1> QED BY <1>1, <1>2, <1>3, <1>5, <1>6 DEF StaffInv

-----------------------------------------------------------------------------

\* The invariants of both parts hold in every state of employees, accounts and
\* the delivery of their tuples.
THEOREM StaffInvariant == EmpSpec => [](RelInv /\ StaffInv)
<1>1. EmpInit => RelInv /\ StaffInv BY StaffInitInv
<1>2. RelInv /\ StaffInv /\ [EmpNext]_empVars => (RelInv /\ StaffInv)'
    <2> SUFFICES ASSUME RelInv, StaffInv, [EmpNext]_empVars PROVE RelInv' /\ StaffInv' OBVIOUS
    <2>1. CASE UNCHANGED empVars
        <3>1. UNCHANGED relVars /\ UNCHANGED <<local, emp, acct, tx, crossed>>
            BY <2>1 DEF empVars, relVars, tupleVars, pipeVars
        <3> QED BY <3>1, RelStutter, StaffStutter
    <2> QED BY <2>1, StaffStep, OtherTuplesInv, DeliveryInv DEF EmpNext
<1> QED BY <1>1, <1>2, PTL DEF EmpSpec

\* The changes of tuples that transactions of employees and accounts make, several
\* at a time, come into the same queue.
THEOREM StaffRowsQueued == EmpSpec => RowsAreQueued
<1>1. EmpInit => Queue!QueueInit BY DEF EmpInit, RelInit, Queue!QueueInit, Standing
<1>2. RelInv /\ StaffInv /\ [EmpNext]_empVars => QueueStep
    <2> SUFFICES ASSUME RelInv, [EmpNext]_empVars PROVE QueueStep OBVIOUS
    <2>1. CASE UNCHANGED empVars BY <2>1, QueueStutter DEF empVars, relVars, tupleVars, pipeVars
    <2>2. ASSUME NEW p \in Admins, Commit(p) PROVE QueueStep
        BY <2>2, ChangesSubmit DEF Commit
    <2>3. CASE Staff
        BY <2>2, <2>3, QueueStutter DEF Staff, Request, Open, ReadAccount, Rollback, relVars,
            pipeVars
    <2>4. CASE OtherTuples BY <2>4, ChangesSubmit DEF OtherTuples
    <2>5. CASE Delivery BY <2>5, DispatcherSteps, ConsumerSteps DEF Delivery, Pipeline
    <2> QED BY <2>1, <2>3, <2>4, <2>5 DEF EmpNext
<1> QED BY <1>1, <1>2, StaffInvariant, PTL DEF EmpSpec, RowsAreQueued, Queue!QueueSpec, QueueStep

\* The same agreement of OpenFGA and the database holds where the transactions on
\* employees make the changes, several of them at once.
THEOREM StaffFaithful == EmpSpec => []RemoteFollowsLocal
<1>1. EmpInit => Ordered BY OrderedInit DEF EmpInit
<1>2. RelInv /\ StaffInv /\ Ordered /\ [EmpNext]_empVars => Ordered'
    <2> SUFFICES ASSUME RelInv, StaffInv, Ordered, [EmpNext]_empVars PROVE Ordered' OBVIOUS
    <2>1. CASE UNCHANGED empVars BY <2>1, OrderedStutter DEF empVars
    <2>2. ASSUME NEW p \in Admins, Commit(p) PROVE Ordered'
        BY <2>2, CommitInv, ChangesOrdered
    <2>3. CASE Staff
        BY <2>2, <2>3, OrderedStutter DEF Staff, Request, Open, ReadAccount, Rollback
    <2>4. CASE OtherTuples
        <3>1. PICK op \in {"write", "delete"}, t \in Tuples \ StaffTuples :
                ApplyChanges(<<[op |-> op, tuple |-> t]>>)
            BY <2>4 DEF OtherTuples
        <3>2. <<[op |-> op, tuple |-> t]>> \in Seq(Change) BY DEF Change
        <3> QED BY <3>1, <3>2, ChangesOrdered
    <2>5. CASE Delivery BY <2>5, DispatcherOrdered, ConsumerOrdered DEF Delivery, Pipeline
    <2> QED BY <2>1, <2>3, <2>4, <2>5 DEF EmpNext
<1>3. RelInv /\ StaffInv /\ Ordered => RemoteFollowsLocal BY OrderedFollows
<1> QED BY <1>1, <1>2, <1>3, StaffInvariant, PTL DEF EmpSpec

\* Every row, and every row a request has read, keeps its type.
THEOREM StaffTypeCorrect == EmpSpec => []StaffTypeOK
<1>1. RelInv /\ StaffInv => StaffTypeOK BY DEF StaffInv
<1> QED BY <1>1, StaffInvariant, PTL

\* The tenant membership tuple of an account is there exactly as long as the
\* account is not disabled, however many requests read and write the account at
\* once: the version of the account keeps the changes of the tuple apart.
THEOREM MembershipKept == EmpSpec => []MembershipFollowsAccount
<1>1. RelInv /\ StaffInv => MembershipFollowsAccount BY DEF StaffInv
<1> QED BY <1>1, StaffInvariant, PTL

\* An employee's account names the employee, and the owner tuples are those of
\* that account and no other, unless two transactions wrote the employee's row
\* over each other.
THEOREM LinksKept == EmpSpec => []LinksAgree
<1>1. RelInv /\ StaffInv => LinksAgree BY DEF StaffInv
<1> QED BY <1>1, StaffInvariant, PTL

\* A disabled account is enabled by reinstatement or invitation only: nobody
\* writes back a status he had read before it was disabled.
THEOREM DisabledStaysSo == EmpSpec => DisabledStays
<1>1. ASSUME StaffInv, [EmpNext]_empVars, NEW a \in Accounts,
             acct[a].status = "disabled", acct'[a].status # "disabled"
      PROVE  \E p \in Admins : tx[p].kind \in {"reinstate", "invite"} /\ tx[p].account = a
    <2>1. acct' # acct BY <1>1
    <2>2. PICK p \in Admins : Commit(p)
        BY <1>1, <2>1
        DEF EmpNext, empVars, Staff, Request, Open, ReadAccount, Rollback, OtherTuples, Delivery,
            staffVars
    <2> DEFINE t == tx[p]
               login == NewLogin(t.kind, t.e, t.login)
    <2>3. /\ t.step = "write" /\ WritesAccount(p) /\ t.newest
          /\ acct' = [acct EXCEPT ![t.account] = login]
        BY <2>1, <2>2 DEF Commit, VersionMatches
    <2>4. acct \in [Accounts -> Account] /\ t.account \in Accounts \cup {NoAccount}
        BY <1>1 DEF StaffInv, StaffTypeOK
    <2>5. t.login = acct[t.account] /\ t.account \in Accounts
        BY <1>1, <2>3, <2>4 DEF StaffInv, ReadFresh, WritesAccount
    <2>6. t.kind \in Kinds /\ t.e \in Employees
        BY <1>1, <2>3 DEF StaffInv, StaffTypeOK, KnownRequests
    <2> HIDE DEF login
    <2>7. a = t.account /\ login.status # "disabled" BY <1>1, <2>3, <2>4, <2>5
    <2>8. NoRow \in Employee BY IdleIs
    <2>9. t.kind \in {"reinstate", "invite"}
        BY <1>1, <2>4, <2>5, <2>6, <2>7, <2>8, NewIs DEF login
    <2> QED BY <2>7, <2>9
<1>2. RelInv /\ StaffInv /\ [EmpNext]_empVars =>
        [\A a \in Accounts :
            acct[a].status = "disabled" /\ acct'[a].status # "disabled" =>
                \E p \in Admins : tx[p].kind \in {"reinstate", "invite"} /\ tx[p].account = a]_empVars
    BY <1>1
<1> QED BY <1>2, StaffInvariant, PTL DEF EmpSpec, DisabledStays
=============================================================================
