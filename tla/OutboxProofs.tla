---------------------------- MODULE OutboxProofs ----------------------------
(***************************************************************************)
(* Theorems about Outbox for any number of rows, workers and tokens, any   *)
(* batch size and any attempt limit.                                       *)
(*                                                                         *)
(* The invariant behind them is Fenced: a token in the table belongs to at *)
(* most one worker, and the count that a worker copied when it claimed a   *)
(* row still is the row's count for as long as the worker holds the row.   *)
(***************************************************************************)
EXTENDS Outbox, TLAPS

\* A working dispatcher has a token of its own, an idle one has none, and the
\* event in its hands is part of its batch.
WorkerShape ==
    \A w \in Workers :
        /\ wToken[w] = NoToken <=> batch[w] = {}
        /\ current[w] # NoEvent => current[w] \in batch[w]
        /\ result[w] = "ok" => current[w] \in delivered

TokensDistinct ==
    \A v, w \in Workers : wToken[v] = wToken[w] /\ wToken[v] # NoToken => v = w

CopyCurrent ==
    \A w \in Workers, e \in Events : Holds(w, e) => seen[w][e] = attempts[e]

LimitRespected == \A e \in Events : attempts[e] <= Limit(e)

SeenWithinLimit == \A w \in Workers, e \in Events : seen[w][e] <= Limit(e)

SucceededDelivered ==
    \A e \in Events : status[e] \in {"succeeded", "deleted"} => e \in delivered

AbsentUndelivered ==
    /\ \A e \in Events : status[e] = "absent" => e \notin delivered
    /\ \A w \in Workers, e \in Events : e \in batch[w] => status[e] # "absent"

\* Only the handler that may be unconfigured reports that it is.
OptionalResult ==
    \A w \in Workers : result[w] = "notConfigured" => Kind[current[w]] = "model_sync"

Fenced == WorkerShape /\ TokensDistinct /\ CopyCurrent

Safe ==
    /\ Fenced
    /\ LimitRespected
    /\ SeenWithinLimit
    /\ SucceededDelivered
    /\ AbsentUndelivered
    /\ OptionalResult

IInv == TypeOK /\ Safe

-----------------------------------------------------------------------------
\* What the small operators return.

LEMMA LimitType == \A e \in Events : Limit(e) \in {0, MaxAttempts} /\ Limit(e) \in Nat
BY OutboxAssumption DEF Limit

LEMMA NextAttemptType ==
    ASSUME attempts \in [Events -> Nat], NEW e \in Events
    PROVE  NextAttempt(e) \in Nat
BY LimitType DEF NextAttempt

\* A claim never takes a row over its limit.
LEMMA ClaimKeepsLimit ==
    ASSUME attempts \in [Events -> Nat], NEW e \in Events, Claimable(e)
    PROVE  NextAttempt(e) <= Limit(e)
BY LimitType DEF NextAttempt, Claimable, HasBudget

LEMMA ChargedType ==
    ASSUME NEW n \in Nat, NEW r
    PROVE  Charged(r, n) \in Nat /\ Charged(r, n) <= n
BY DEF Charged

\* Finalizing leaves a row in one of five statuses; it succeeds only with the
\* result of a handler that took effect.
LEMMA VerdictType ==
    ASSUME NEW e \in Events, NEW r \in Results, NEW n \in Nat
    PROVE  /\ Verdict(e, r, n) \in
                 {"pending", "succeeded", "failed", "parked", "dead_lettered"}
           /\ Verdict(e, r, n) = "succeeded" => r = "ok"
<1>1. CASE r = "ok"  BY <1>1 DEF Verdict
<1>2. CASE r \in {"permanent", "unsupported"}  BY <1>2 DEF Verdict
<1>3. CASE r = "notConfigured"  BY <1>3 DEF Verdict
<1>4. CASE r = "transient" /\ Limit(e) > 0 /\ n >= Limit(e)  BY <1>4 DEF Verdict
<1>5. CASE r \in {"none", "transient"} /\ ~(r = "transient" /\ Limit(e) > 0 /\ n >= Limit(e))
  BY <1>5 DEF Verdict
<1>6. QED  BY <1>1, <1>2, <1>3, <1>4, <1>5 DEF Results

LEMMA OutcomesType ==
    \A e \in Events :
        /\ Outcomes(Kind[e]) \subseteq Results
        /\ "notConfigured" \in Outcomes(Kind[e]) => Kind[e] = "model_sync"
<1>1. SUFFICES ASSUME NEW k \in Kinds
               PROVE  /\ Outcomes(k) \subseteq Results
                      /\ "notConfigured" \in Outcomes(k) => k = "model_sync"
  BY OutboxAssumption
<1>2. k = "workflow_start" \/ k = "model_sync" \/ k = "relationship" \/ k = "unsupported"
  BY DEF Kinds
<1>3. QED  BY <1>2 DEF Outcomes, Results

-----------------------------------------------------------------------------
\* Type correctness

LEMMA InitTypeOK == Init => TypeOK
BY OutboxAssumption DEF Init, TypeOK, Statuses, Results

LEMMA GoOnType ==
    ASSUME TypeOK, NEW w \in Workers, NEW B \in SUBSET Events, GoOn(w, B)
    PROVE  /\ batch' \in [Workers -> SUBSET Events]
           /\ wToken' \in [Workers -> Tokens \cup {NoToken}]
           /\ seen' \in [Workers -> [Events -> Nat]]
           /\ current' \in [Workers -> Events \cup {NoEvent}]
           /\ result' \in [Workers -> Results]
<1>1. seen' \in [Workers -> [Events -> Nat]]
  <2>1. [e \in Events |-> IF e \in B THEN seen[w][e] ELSE 0] \in [Events -> Nat]
    BY DEF TypeOK
  <2>2. QED  BY <2>1 DEF GoOn, TypeOK
<1>2. QED  BY <1>1 DEF GoOn, TypeOK, Results

\* Dispatch, with the event and the result it picked.
Dispatched(w, e, r) ==
    /\ e \in batch[w]
    /\ current' = [current EXCEPT ![w] = e]
    /\ result' = [result EXCEPT ![w] = r]
    /\ delivered' \in {delivered, delivered \cup {e}}
    /\ r = "ok" => e \in delivered'
    /\ r = "notConfigured" => Kind[e] = "model_sync"
    /\ UNCHANGED <<rowVars, batch, wToken, seen, retries>>

LEMMA DispatchCase ==
    ASSUME TypeOK, NEW w \in Workers, Dispatch(w)
    PROVE  \E e \in Events, r \in Results : Dispatched(w, e, r)
<1>1. PICK e \in batch[w] : \E r \in Outcomes(Kind[e]) :
        /\ current' = [current EXCEPT ![w] = e]
        /\ result' = [result EXCEPT ![w] = r]
        /\ delivered' \in
             CASE r = "ok" -> {delivered \cup {e}}
               [] r = "transient" -> {delivered, delivered \cup {e}}
               [] OTHER -> {delivered}
  BY DEF Dispatch
<1>2. e \in Events  BY DEF TypeOK
<1>3. PICK r \in Outcomes(Kind[e]) :
        /\ current' = [current EXCEPT ![w] = e]
        /\ result' = [result EXCEPT ![w] = r]
        /\ delivered' \in
             CASE r = "ok" -> {delivered \cup {e}}
               [] r = "transient" -> {delivered, delivered \cup {e}}
               [] OTHER -> {delivered}
  BY <1>1
<1>4. r \in Results /\ (r = "notConfigured" => Kind[e] = "model_sync")
  BY <1>2, OutcomesType
<1>5. delivered' \in {delivered, delivered \cup {e}} /\ (r = "ok" => e \in delivered')
  <2>1. CASE r = "ok"  BY <1>3, <2>1
  <2>2. CASE r = "transient"  BY <1>3, <2>2
  <2>3. CASE r \notin {"ok", "transient"}  BY <1>3, <2>3
  <2>4. QED  BY <2>1, <2>2, <2>3
<1>6. UNCHANGED <<rowVars, batch, wToken, seen, retries>>  BY DEF Dispatch
<1>7. Dispatched(w, e, r)  BY <1>3, <1>4, <1>5, <1>6 DEF Dispatched
<1>8. QED  BY <1>2, <1>4, <1>7

LEMMA NextTypeOK == TypeOK /\ [Next]_vars => TypeOK'
<1> SUFFICES ASSUME TypeOK, [Next]_vars PROVE TypeOK'
  OBVIOUS
<1>1. ASSUME NEW e \in Events, AppendOutboxEvent(e) PROVE TypeOK'
  BY <1>1 DEF AppendOutboxEvent, TypeOK, Statuses, workerVars
<1>2. ASSUME NEW e \in Events, RetryOutboxEvent(e) PROVE TypeOK'
  BY <1>2, OutboxAssumption DEF RetryOutboxEvent, TypeOK, Statuses, workerVars
<1>3. ASSUME NEW e \in Events, DeleteSucceeded(e) PROVE TypeOK'
  BY <1>3 DEF DeleteSucceeded, TypeOK, Statuses, workerVars
<1>4. ASSUME NEW e \in Events, LeaseExpires(e) PROVE TypeOK'
  BY <1>4 DEF LeaseExpires, TypeOK, workerVars
<1>5. ASSUME NEW e \in Events, BackoffElapses(e) PROVE TypeOK'
  BY <1>5 DEF BackoffElapses, TypeOK, workerVars
<1>6. ASSUME NEW w \in Workers, ClaimOutboxEvents(w) PROVE TypeOK'
  <2>1. PICK t \in Tokens, B \in SUBSET {e \in Events : Claimable(e)} : ClaimedBy(w, B, t)
    BY <1>6 DEF ClaimOutboxEvents
  <2>2. \A e \in Events : NextAttempt(e) \in Nat  BY NextAttemptType DEF TypeOK
  <2>3. attempts' \in [Events -> Nat]  BY <2>1, <2>2 DEF ClaimedBy, TypeOK
  <2>4. seen' \in [Workers -> [Events -> Nat]]
    <3>1. [e \in Events |-> IF e \in B THEN NextAttempt(e) ELSE 0] \in [Events -> Nat]
      BY <2>2
    <3>2. QED  BY <3>1, <2>1 DEF ClaimedBy, TypeOK
  <2>5. /\ status' \in [Events -> Statuses]
        /\ token' \in [Events -> Tokens \cup {NoToken}]
        /\ leaseLive' \in [Events -> BOOLEAN]
        /\ batch' \in [Workers -> SUBSET Events]
        /\ wToken' \in [Workers -> Tokens \cup {NoToken}]
    BY <2>1 DEF ClaimedBy, TypeOK, Statuses
  <2>6. UNCHANGED <<due, current, result, delivered, retries>>
    BY <1>6 DEF ClaimOutboxEvents
  <2>7. QED  BY <2>3, <2>4, <2>5, <2>6 DEF TypeOK
<1>7. ASSUME NEW w \in Workers, Dispatch(w) PROVE TypeOK'
  <2>1. PICK e \in Events, r \in Results : Dispatched(w, e, r)
    BY <1>7, DispatchCase
  <2>2. delivered' \subseteq Events  BY <2>1 DEF Dispatched, TypeOK
  <2>3. QED  BY <2>1, <2>2 DEF Dispatched, TypeOK, rowVars
<1>8. ASSUME NEW w \in Workers, RecordResult(w) PROVE TypeOK'
  <2> DEFINE e == current[w]
             n == seen[w][e]
  <2>1. e \in Events  BY <1>8 DEF RecordResult, TypeOK
  <2>2. n \in Nat /\ result[w] \in Results  BY <2>1 DEF TypeOK
  <2>3. Verdict(e, result[w], n) \in Statuses
    BY <2>1, <2>2, VerdictType DEF Statuses
  <2>4. Charged(result[w], n) \in Nat  BY <2>2, ChargedType
  <2>5. FinalizeOutboxEvent(e, result[w], n)  BY <1>8 DEF RecordResult
  <2>6. /\ status' \in [Events -> Statuses]
        /\ attempts' \in [Events -> Nat]
        /\ token' \in [Events -> Tokens \cup {NoToken}]
        /\ leaseLive' \in [Events -> BOOLEAN]
        /\ due' \in [Events -> BOOLEAN]
    BY <2>1, <2>3, <2>4, <2>5 DEF FinalizeOutboxEvent, TypeOK
  <2>7. GoOn(w, batch[w] \ {e})  BY <1>8 DEF RecordResult
  <2>8. batch[w] \ {e} \in SUBSET Events  BY DEF TypeOK
  <2>9. UNCHANGED <<delivered, retries>>  BY <1>8 DEF RecordResult
  <2>10. QED  BY <2>6, <2>7, <2>8, <2>9, GoOnType DEF TypeOK
<1>9. ASSUME NEW w \in Workers, ClaimLost(w) \/ StopBatch(w) PROVE TypeOK'
  <2>1. GoOn(w, {}) /\ UNCHANGED <<rowVars, delivered, retries>>
    BY <1>9 DEF ClaimLost, StopBatch
  <2>2. QED  BY <2>1, GoOnType DEF TypeOK, rowVars
<1>10. CASE UNCHANGED vars  BY <1>10 DEF vars, TypeOK
<1>11. QED
  BY <1>1, <1>2, <1>3, <1>4, <1>5, <1>6, <1>7, <1>8, <1>9, <1>10
     DEF Next, RowNext, WorkerNext

\* Every reachable state has the types TypeOK declares.
THEOREM TypeCorrect == Spec => []TypeOK
<1>1. QED  BY InitTypeOK, NextTypeOK, PTL DEF Spec

-----------------------------------------------------------------------------
\* Fencing and the attempt budget

LEMMA InitSafe == Init => Safe
BY LimitType DEF Init, Safe, Fenced, WorkerShape, TokensDistinct, CopyCurrent, Holds,
    LimitRespected, SeenWithinLimit, SucceededDelivered, AbsentUndelivered, OptionalResult

\* A step on the rows that claims nothing, raises no count and gives no row a
\* processing status or a token keeps everything.
LEMMA RowStepSafe ==
    ASSUME TypeOK, Safe, NEW e \in Events, RowNext(e)
    PROVE  Safe'
<1>1. UNCHANGED <<workerVars, delivered>>
  BY DEF RowNext, AppendOutboxEvent, RetryOutboxEvent, DeleteSucceeded, LeaseExpires,
         BackoffElapses
<1>2. \A f \in Events : status'[f] = "processing" =>
        status[f] = "processing" /\ token'[f] = token[f] /\ attempts'[f] = attempts[f]
  BY DEF RowNext, AppendOutboxEvent, RetryOutboxEvent, DeleteSucceeded, LeaseExpires,
         BackoffElapses, TypeOK
<1>3. \A f \in Events : attempts'[f] \in {attempts[f], 0}
  BY DEF RowNext, AppendOutboxEvent, RetryOutboxEvent, DeleteSucceeded, LeaseExpires,
         BackoffElapses, TypeOK
<1>4. \A f \in Events : status'[f] \in {"succeeded", "deleted"} =>
        status[f] \in {"succeeded", "deleted"}
  BY DEF RowNext, AppendOutboxEvent, RetryOutboxEvent, DeleteSucceeded, LeaseExpires,
         BackoffElapses, TypeOK
<1>5. \A f \in Events : status'[f] = "absent" => status[f] = "absent"
  BY DEF RowNext, AppendOutboxEvent, RetryOutboxEvent, DeleteSucceeded, LeaseExpires,
         BackoffElapses, TypeOK
<1>6. Fenced'
  BY <1>1, <1>2 DEF Safe, Fenced, WorkerShape, TokensDistinct, CopyCurrent, Holds, workerVars
<1>7. LimitRespected' /\ SeenWithinLimit'
  <2>1. \A f \in Events : Limit(f)' = Limit(f)  BY DEF Limit
  <2>2. QED  BY <1>1, <1>3, <2>1, LimitType
             DEF Safe, LimitRespected, SeenWithinLimit, workerVars, Limit, TypeOK
<1>8. SucceededDelivered' /\ AbsentUndelivered'
  BY <1>1, <1>4, <1>5 DEF Safe, SucceededDelivered, AbsentUndelivered, workerVars
<1>9. OptionalResult'  BY <1>1 DEF Safe, OptionalResult, workerVars
<1>10. QED  BY <1>6, <1>7, <1>8, <1>9 DEF Safe

LEMMA ClaimSafe ==
    ASSUME TypeOK, Safe, NEW w \in Workers, ClaimOutboxEvents(w)
    PROVE  Safe'
<1>1. PICK t \in Tokens, B \in SUBSET {e \in Events : Claimable(e)} :
        FreshToken(t) /\ B # {} /\ ClaimedBy(w, B, t)
  BY DEF ClaimOutboxEvents
<1>2. batch[w] = {} /\ UNCHANGED <<due, current, result, delivered, retries>>
  BY DEF ClaimOutboxEvents
<1>3. t # NoToken  BY OutboxAssumption
<1>4. current[w] = NoEvent
  BY <1>2 DEF Safe, Fenced, WorkerShape, TypeOK
<1>5. WorkerShape'
  BY <1>1, <1>2, <1>3, <1>4 DEF ClaimedBy, Safe, Fenced, WorkerShape, TypeOK
<1>6. TokensDistinct'
  BY <1>1 DEF ClaimedBy, FreshToken, Safe, Fenced, TokensDistinct, TypeOK
<1>7. CopyCurrent'
  <2> SUFFICES ASSUME NEW v \in Workers, NEW e \in Events, Holds(v, e)'
               PROVE  seen'[v][e] = attempts'[e]
    BY DEF CopyCurrent
  <2>1. CASE v = w
    <3>1. e \in B  BY <1>1, <2>1 DEF Holds, ClaimedBy, TypeOK
    <3>2. seen'[w] = [f \in Events |-> IF f \in B THEN NextAttempt(f) ELSE 0]
      BY <1>1 DEF ClaimedBy, TypeOK
    <3>3. attempts'[e] = NextAttempt(e)  BY <1>1, <3>1 DEF ClaimedBy
    <3>4. QED  BY <2>1, <3>1, <3>2, <3>3
  <2>2. CASE v # w
    <3>1. e \notin B
      BY <1>1, <2>2 DEF Holds, ClaimedBy, FreshToken, TypeOK
    <3>2. Holds(v, e)  BY <1>1, <2>2, <3>1 DEF Holds, ClaimedBy, TypeOK
    <3>3. seen'[v] = seen[v] /\ attempts'[e] = attempts[e]
      BY <1>1, <2>2, <3>1 DEF ClaimedBy, TypeOK
    <3>4. QED  BY <3>2, <3>3 DEF Safe, Fenced, CopyCurrent
  <2>3. QED  BY <2>1, <2>2
<1>8. LimitRespected' /\ SeenWithinLimit'
  <2>1. \A e \in B : NextAttempt(e) <= Limit(e)  BY <1>1, ClaimKeepsLimit DEF TypeOK
  <2>2. \A e \in Events : attempts'[e] = IF e \in B THEN NextAttempt(e) ELSE attempts[e]
    BY <1>1 DEF ClaimedBy
  <2>3. \A v \in Workers, e \in Events :
          seen'[v][e] \in {seen[v][e], 0} \/ (e \in B /\ seen'[v][e] = NextAttempt(e))
    BY <1>1 DEF ClaimedBy, TypeOK
  <2>4. QED  BY <2>1, <2>2, <2>3, LimitType
             DEF Safe, LimitRespected, SeenWithinLimit, Limit
<1>9. SucceededDelivered' /\ AbsentUndelivered'
  <2>1. \A e \in Events : status'[e] = IF e \in B THEN "processing" ELSE status[e]
    BY <1>1 DEF ClaimedBy
  <2>2. \A v \in Workers : batch'[v] = IF v = w THEN B ELSE batch[v]
    BY <1>1 DEF ClaimedBy, TypeOK
  <2>3. QED  BY <1>2, <2>1, <2>2 DEF Safe, SucceededDelivered, AbsentUndelivered
<1>10. OptionalResult'  BY <1>2 DEF Safe, OptionalResult
<1>11. QED  BY <1>5, <1>6, <1>7, <1>8, <1>9, <1>10 DEF Safe, Fenced

LEMMA DispatchSafe ==
    ASSUME TypeOK, Safe, NEW w \in Workers, Dispatch(w)
    PROVE  Safe'
<1>1. PICK e \in Events, r \in Results : Dispatched(w, e, r)  BY DispatchCase
<1>2. delivered \subseteq delivered' /\ delivered' \subseteq delivered \cup {e}
  BY <1>1 DEF Dispatched
<1>3. status[e] # "absent"  BY <1>1 DEF Dispatched, Safe, AbsentUndelivered
<1>4. UNCHANGED <<status, attempts, token, batch, wToken, seen>>
  BY <1>1 DEF Dispatched, rowVars
<1>5. WorkerShape'
  BY <1>1, <1>2, <1>4 DEF Dispatched, Safe, Fenced, WorkerShape, TypeOK
<1>6. TokensDistinct' /\ CopyCurrent'
  BY <1>4 DEF Safe, Fenced, TokensDistinct, CopyCurrent, Holds
<1>7. LimitRespected' /\ SeenWithinLimit'
  BY <1>4 DEF Safe, LimitRespected, SeenWithinLimit, Limit
<1>8. SucceededDelivered' /\ AbsentUndelivered'
  BY <1>2, <1>3, <1>4 DEF Safe, SucceededDelivered, AbsentUndelivered
<1>9. OptionalResult'  BY <1>1 DEF Dispatched, Safe, OptionalResult, TypeOK
<1>10. QED  BY <1>5, <1>6, <1>7, <1>8, <1>9 DEF Safe, Fenced

\* A worker that goes on with part of its batch, or with nothing, holds no more
\* than before.
LEMMA GoOnKeeps ==
    ASSUME TypeOK, Safe, NEW w \in Workers, NEW B \in SUBSET batch[w], GoOn(w, B),
           delivered' = delivered
    PROVE  /\ WorkerShape' /\ TokensDistinct' /\ SeenWithinLimit' /\ OptionalResult'
           /\ \A v \in Workers : batch'[v] \subseteq batch[v]
           /\ \A v \in Workers : batch'[v] # {} => wToken'[v] = wToken[v]
           /\ \A v \in Workers, e \in Events : e \in batch'[v] => seen'[v][e] = seen[v][e]
<1>1. \A v \in Workers :
        /\ batch'[v] = IF v = w THEN B ELSE batch[v]
        /\ wToken'[v] = IF v = w /\ B = {} THEN NoToken ELSE wToken[v]
        /\ current'[v] = IF v = w THEN NoEvent ELSE current[v]
        /\ result'[v] = IF v = w THEN "none" ELSE result[v]
  BY DEF GoOn, TypeOK
<1>2. \A v \in Workers, e \in Events :
        seen'[v][e] = IF v = w /\ e \notin B THEN 0 ELSE seen[v][e]
  BY DEF GoOn, TypeOK
<1>3. WorkerShape'  BY <1>1, OutboxAssumption DEF Safe, Fenced, WorkerShape, TypeOK
<1>4. TokensDistinct'  BY <1>1 DEF Safe, Fenced, TokensDistinct
<1>5. SeenWithinLimit'
  <2>1. \A v \in Workers, e \in Events : seen'[v][e] \in {0, seen[v][e]}  BY <1>2
  <2>2. QED  BY <2>1, LimitType DEF Safe, SeenWithinLimit, Limit
<1>6. OptionalResult'  BY <1>1 DEF Safe, OptionalResult
<1>7. QED
  BY <1>1, <1>2, <1>3, <1>4, <1>5, <1>6, OutboxAssumption DEF Safe, Fenced, WorkerShape

LEMMA RecordSafe ==
    ASSUME TypeOK, Safe, NEW w \in Workers, RecordResult(w)
    PROVE  Safe'
<1> DEFINE e == current[w]
           n == seen[w][e]
           r == result[w]
<1>1. /\ e \in Events /\ Holds(w, e) /\ FinalizeOutboxEvent(e, r, n)
      /\ GoOn(w, batch[w] \ {e}) /\ UNCHANGED <<delivered, retries>>
  BY DEF RecordResult, TypeOK
<1>2. n \in Nat /\ r \in Results  BY <1>1 DEF TypeOK
<1>3. /\ WorkerShape' /\ TokensDistinct' /\ SeenWithinLimit' /\ OptionalResult'
      /\ \A v \in Workers : batch'[v] \subseteq batch[v]
      /\ \A v \in Workers : batch'[v] # {} => wToken'[v] = wToken[v]
      /\ \A v \in Workers, f \in Events : f \in batch'[v] => seen'[v][f] = seen[v][f]
  BY <1>1, GoOnKeeps
<1>4. /\ status'[e] \in {"pending", "succeeded", "failed", "parked", "dead_lettered"}
      /\ status'[e] = "succeeded" => r = "ok"
  BY <1>1, <1>2, VerdictType DEF FinalizeOutboxEvent, TypeOK
<1>5. \A f \in Events \ {e} :
        status'[f] = status[f] /\ attempts'[f] = attempts[f] /\ token'[f] = token[f]
  BY <1>1 DEF FinalizeOutboxEvent, TypeOK
<1>6. CopyCurrent'
  <2> SUFFICES ASSUME NEW v \in Workers, NEW f \in Events, Holds(v, f)'
               PROVE  seen'[v][f] = attempts'[f]
    BY DEF CopyCurrent
  <2>1. f # e  BY <1>4 DEF Holds
  <2>2. Holds(v, f)  BY <2>1, <1>3, <1>5 DEF Holds
  <2>3. QED  BY <2>1, <2>2, <1>3, <1>5 DEF Safe, Fenced, CopyCurrent, Holds
<1>7. LimitRespected'
  <2>1. attempts'[e] = Charged(r, n)  BY <1>1 DEF FinalizeOutboxEvent, TypeOK
  <2>2. Charged(r, n) \in Nat /\ Charged(r, n) <= n  BY <1>2, ChargedType
  <2>3. n <= Limit(e)  BY <1>1 DEF Safe, SeenWithinLimit
  <2>4. attempts'[e] <= Limit(e)  BY <1>1, <1>2, <2>1, <2>2, <2>3, LimitType
  <2>5. QED  BY <2>4, <1>5 DEF Safe, LimitRespected, Limit
<1>8. SucceededDelivered'
  <2>1. r = "ok" => e \in delivered  BY DEF Safe, Fenced, WorkerShape
  <2>2. QED  BY <2>1, <1>1, <1>4, <1>5 DEF Safe, SucceededDelivered
<1>9. AbsentUndelivered'
  BY <1>1, <1>3, <1>4, <1>5 DEF Safe, AbsentUndelivered
<1>10. QED  BY <1>3, <1>6, <1>7, <1>8, <1>9 DEF Safe, Fenced

LEMMA DropSafe ==
    ASSUME TypeOK, Safe, NEW w \in Workers, ClaimLost(w) \/ StopBatch(w)
    PROVE  Safe'
<1>1. GoOn(w, {}) /\ UNCHANGED <<rowVars, delivered, retries>>
  BY DEF ClaimLost, StopBatch
<1>2. /\ WorkerShape' /\ TokensDistinct' /\ SeenWithinLimit' /\ OptionalResult'
      /\ \A v \in Workers : batch'[v] \subseteq batch[v]
      /\ \A v \in Workers : batch'[v] # {} => wToken'[v] = wToken[v]
      /\ \A v \in Workers, f \in Events : f \in batch'[v] => seen'[v][f] = seen[v][f]
  BY <1>1, GoOnKeeps
<1>3. CopyCurrent'
  BY <1>1, <1>2 DEF Safe, Fenced, CopyCurrent, Holds, rowVars
<1>4. LimitRespected' /\ SucceededDelivered' /\ AbsentUndelivered'
  BY <1>1, <1>2 DEF Safe, LimitRespected, SucceededDelivered, AbsentUndelivered, rowVars, Limit
<1>5. QED  BY <1>2, <1>3, <1>4 DEF Safe, Fenced

LEMMA NextSafe == TypeOK /\ Safe /\ [Next]_vars => Safe'
<1> SUFFICES ASSUME TypeOK, Safe, [Next]_vars PROVE Safe'
  OBVIOUS
<1>1. ASSUME NEW e \in Events, RowNext(e) PROVE Safe'  BY <1>1, RowStepSafe
<1>2. ASSUME NEW w \in Workers, WorkerNext(w) PROVE Safe'
  BY <1>2, ClaimSafe, DispatchSafe, RecordSafe, DropSafe DEF WorkerNext
<1>3. CASE UNCHANGED vars
  BY <1>3 DEF vars, Safe, Fenced, WorkerShape, TokensDistinct, CopyCurrent, Holds,
     LimitRespected, SeenWithinLimit, SucceededDelivered, AbsentUndelivered, OptionalResult, Limit
<1>4. QED  BY <1>1, <1>2, <1>3 DEF Next

LEMMA Inductive == Spec => []IInv
<1>1. Init => IInv  BY InitTypeOK, InitSafe DEF IInv
<1>2. IInv /\ [Next]_vars => IInv'  BY NextTypeOK, NextSafe DEF IInv
<1>3. QED  BY <1>1, <1>2, PTL DEF Spec

\* However late the workers before it finish, at most one worker can write the
\* result of a claimed row.
THEOREM Fencing == Spec => []ClaimExclusive
<1>1. IInv => ClaimExclusive
  BY OutboxAssumption
     DEF IInv, Safe, Fenced, WorkerShape, TokensDistinct, ClaimExclusive, Holds, TypeOK
<1>2. QED  BY <1>1, Inductive, PTL

\* No row is claimed more often than its limit between two operator retries.
THEOREM BudgetBounded == Spec => []AttemptsWithinLimit
<1>1. IInv => AttemptsWithinLimit
  BY LimitType, OutboxAssumption DEF IInv, Safe, LimitRespected, AttemptsWithinLimit, TypeOK
<1>2. QED  BY <1>1, Inductive, PTL

-----------------------------------------------------------------------------
\* What a step does to the budget and to the queue

LEMMA StepSpendsBudget ==
    ASSUME IInv, [Next]_vars, NEW e \in Events, attempts'[e] < attempts[e]
    PROVE  \/ Kind[e] = "model_sync"
           \/ status[e] \in {"failed", "parked", "dead_lettered"} /\ status'[e] = "pending"
<1> USE DEF IInv
<1>1. attempts[e] \in Nat /\ attempts'[e] \in Nat  BY NextTypeOK DEF TypeOK
<1>2. ASSUME NEW f \in Events, RowNext(f)
      PROVE  \/ attempts'[e] = attempts[e]
             \/ status[e] \in {"failed", "parked", "dead_lettered"} /\ status'[e] = "pending"
  BY <1>2 DEF RowNext, AppendOutboxEvent, RetryOutboxEvent, DeleteSucceeded,
     LeaseExpires, BackoffElapses, TypeOK
<1>3. ASSUME NEW w \in Workers, ClaimOutboxEvents(w) PROVE attempts'[e] >= attempts[e]
  <2>1. PICK t \in Tokens, B \in SUBSET {f \in Events : Claimable(f)} : ClaimedBy(w, B, t)
    BY <1>3 DEF ClaimOutboxEvents
  <2>2. attempts'[e] \in {attempts[e], NextAttempt(e)}  BY <2>1 DEF ClaimedBy
  <2>3. NextAttempt(e) >= attempts[e]
    BY <1>1, LimitType DEF NextAttempt, Safe, LimitRespected
  <2>4. QED  BY <1>1, <2>2, <2>3
<1>4. ASSUME NEW w \in Workers, RecordResult(w) PROVE
        attempts'[e] >= attempts[e] \/ Kind[e] = "model_sync"
  <2> DEFINE c == current[w]
             r == result[w]
             n == seen[w][c]
  <2>1. c \in Events /\ Holds(w, c) /\ FinalizeOutboxEvent(c, r, n)
    BY <1>4 DEF RecordResult, TypeOK
  <2>2. n = attempts[c]  BY <2>1 DEF Safe, Fenced, CopyCurrent
  <2>3. CASE e # c  BY <2>1, <2>3, <1>1 DEF FinalizeOutboxEvent, TypeOK
  <2>4. CASE e = c /\ r # "notConfigured"
    BY <2>1, <2>2, <2>4, <1>1 DEF FinalizeOutboxEvent, Charged, TypeOK
  <2>5. CASE e = c /\ r = "notConfigured"
    BY <2>1, <2>5 DEF Safe, OptionalResult
  <2>6. QED  BY <2>3, <2>4, <2>5
<1>5. ASSUME NEW w \in Workers, Dispatch(w) \/ ClaimLost(w) \/ StopBatch(w)
      PROVE  attempts'[e] = attempts[e]
  BY <1>5 DEF Dispatch, ClaimLost, StopBatch, rowVars
<1>6. CASE UNCHANGED vars  BY <1>6, <1>1 DEF vars
<1>7. QED  BY <1>1, <1>2, <1>3, <1>4, <1>5, <1>6 DEF Next, WorkerNext

\* Only an operator or an unconfigured handler gives a row attempts back.
THEOREM BudgetSpent == Spec => BudgetOnlySpent
<1>1. IInv /\ [Next]_vars =>
        [\A e \in Events :
            attempts'[e] < attempts[e] =>
                \/ Kind[e] = "model_sync"
                \/ status[e] \in {"failed", "parked", "dead_lettered"} /\ status'[e] = "pending"]_vars
  BY StepSpendsBudget
<1>2. QED  BY <1>1, Inductive, PTL DEF Spec, BudgetOnlySpent

-----------------------------------------------------------------------------
\* The refinement

LEMMA JobOfType == \A s \in Statuses : JobOf(s) \in Queue!JobStates
BY DEF Statuses, JobOf, Queue!JobStates

LEMMA InitRefines == Init => Queue!QueueInit
BY DEF Init, Queue!QueueInit, JobOf

\* A step that moves one row, and delivers nothing, moves its job the same way.
LEMMA RowMove ==
    ASSUME TypeOK, NEW e \in Events, NEW s \in Statuses,
           status' = [status EXCEPT ![e] = s]
    PROVE  [f \in Events |-> JobOf(status[f])]'
             = [[f \in Events |-> JobOf(status[f])] EXCEPT ![e] = JobOf(s)]
BY DEF TypeOK

LEMMA StepRefines == IInv /\ [Next]_vars => [Queue!QueueNext]_(Queue!qvars)
<1> SUFFICES ASSUME IInv, [Next]_vars PROVE [Queue!QueueNext]_(Queue!qvars)
  OBVIOUS
<1> USE DEF IInv
<1> DEFINE job == [f \in Events |-> JobOf(status[f])]
<1>1. ASSUME NEW e \in Events, AppendOutboxEvent(e) PROVE Queue!Submit({e})
  <2>1. job' = [job EXCEPT ![e] = "todo"]
    BY <1>1, RowMove DEF AppendOutboxEvent, Statuses, JobOf
  <2>2. job[e] = "absent"  BY <1>1 DEF AppendOutboxEvent, JobOf
  <2>3. job' = [f \in Events |-> IF f \in {e} THEN "todo" ELSE job[f]]  BY <2>1
  <2>4. QED  BY <1>1, <2>2, <2>3 DEF AppendOutboxEvent, Queue!Submit
<1>2. ASSUME NEW e \in Events, RetryOutboxEvent(e)
      PROVE  Queue!Rearm(e) \/ UNCHANGED Queue!qvars
  <2>1. job' = [job EXCEPT ![e] = "todo"]
    BY <1>2, RowMove DEF RetryOutboxEvent, Statuses, JobOf
  <2>2. job[e] \in {"todo", "givenUp"}  BY <1>2 DEF RetryOutboxEvent, JobOf
  <2>3. UNCHANGED delivered  BY <1>2 DEF RetryOutboxEvent
  <2>4. QED  BY <2>1, <2>2, <2>3 DEF Queue!Rearm, Queue!Move, Queue!qvars
<1>3. ASSUME NEW e \in Events, DeleteSucceeded(e) PROVE Queue!Forget(e)
  <2>1. job' = [job EXCEPT ![e] = "gone"]
    BY <1>3, RowMove DEF DeleteSucceeded, Statuses, JobOf
  <2>2. job[e] = "done"  BY <1>3 DEF DeleteSucceeded, JobOf
  <2>3. QED  BY <1>3, <2>1, <2>2 DEF DeleteSucceeded, Queue!Forget, Queue!Move
<1>4. ASSUME NEW e \in Events, LeaseExpires(e) \/ BackoffElapses(e)
      PROVE  UNCHANGED Queue!qvars
  BY <1>4 DEF LeaseExpires, BackoffElapses, Queue!qvars
<1>5. ASSUME NEW w \in Workers, ClaimOutboxEvents(w) PROVE UNCHANGED Queue!qvars
  <2>1. PICK t \in Tokens, B \in SUBSET {f \in Events : Claimable(f)} : ClaimedBy(w, B, t)
    BY <1>5 DEF ClaimOutboxEvents
  <2>2. ASSUME NEW f \in Events PROVE JobOf(status'[f]) = JobOf(status[f])
    <3>1. CASE f \in B
      <4>1. status[f] \in {"pending", "failed", "processing"}  BY <3>1 DEF Claimable
      <4>2. status'[f] = "processing"  BY <2>1, <3>1 DEF ClaimedBy
      <4>3. QED  BY <4>1, <4>2 DEF JobOf
    <3>2. CASE f \notin B  BY <2>1, <3>2 DEF ClaimedBy
    <3>3. QED  BY <3>1, <3>2
  <2>3. UNCHANGED delivered  BY <1>5 DEF ClaimOutboxEvents
  <2>4. QED  BY <2>2, <2>3 DEF Queue!qvars
<1>6. ASSUME NEW w \in Workers, Dispatch(w)
      PROVE  (\E e \in Events : Queue!Deliver(e)) \/ UNCHANGED Queue!qvars
  <2>1. PICK e \in Events, r \in Results : Dispatched(w, e, r)  BY <1>6, DispatchCase
  <2>2. UNCHANGED job  BY <2>1 DEF Dispatched, rowVars
  <2>3. CASE e \in delivered
    BY <2>1, <2>2, <2>3 DEF Dispatched, Queue!qvars
  <2>4. CASE e \notin delivered
    <3>1. status[e] \notin {"absent", "succeeded", "deleted"}
      BY <2>1, <2>4 DEF Dispatched, Safe, AbsentUndelivered, SucceededDelivered
    <3>2. job[e] \in {"todo", "givenUp"}  BY <3>1 DEF JobOf, TypeOK, Statuses
    <3>3. QED  BY <2>1, <2>2, <3>2 DEF Dispatched, Queue!Deliver, Queue!qvars
  <2>5. QED  BY <2>3, <2>4
<1>7. ASSUME NEW w \in Workers, RecordResult(w)
      PROVE  (\E e \in Events : Queue!Finish(e) \/ Queue!GiveUp(e)) \/ UNCHANGED Queue!qvars
  <2> DEFINE e == current[w]
             n == seen[w][e]
             r == result[w]
             s == Verdict(e, r, n)
  <2>1. e \in Events /\ Holds(w, e) /\ FinalizeOutboxEvent(e, r, n) /\ UNCHANGED delivered
    BY <1>7 DEF RecordResult, TypeOK
  <2>2. n \in Nat /\ r \in Results  BY <2>1 DEF TypeOK
  <2>3. /\ s \in {"pending", "succeeded", "failed", "parked", "dead_lettered"}
        /\ s = "succeeded" => r = "ok"
    BY <2>1, <2>2, VerdictType
  <2>4. job' = [job EXCEPT ![e] = JobOf(s)]
    <3>1. s \in Statuses  BY <2>3 DEF Statuses
    <3>2. status' = [status EXCEPT ![e] = s]  BY <2>1 DEF FinalizeOutboxEvent
    <3> HIDE DEF s, e
    <3>3. QED  BY <2>1, <3>1, <3>2, RowMove
  <2>5. job[e] = "todo"  BY <2>1 DEF Holds, JobOf
  <2>6. CASE s = "succeeded"
    <3>1. e \in delivered  BY <2>3, <2>6 DEF Safe, Fenced, WorkerShape
    <3>2. JobOf(s) = "done"  BY <2>6 DEF JobOf
    <3>3. delivered' = delivered \cup {e}  BY <2>1, <3>1
    <3>4. QED  BY <2>1, <2>4, <2>5, <3>2, <3>3 DEF Queue!Finish, Queue!Move
  <2>7. CASE s \in {"parked", "dead_lettered"}
    <3>1. JobOf(s) = "givenUp"  BY <2>7 DEF JobOf
    <3>2. QED  BY <2>1, <2>4, <2>5, <3>1 DEF Queue!GiveUp, Queue!Move
  <2>8. CASE s \in {"pending", "failed"}
    <3>1. JobOf(s) = "todo"  BY <2>8 DEF JobOf
    <3>2. job' = job  BY <2>4, <2>5, <3>1
    <3>3. QED  BY <2>1, <3>2 DEF Queue!qvars
  <2>9. QED  BY <2>3, <2>6, <2>7, <2>8
<1>8. ASSUME NEW w \in Workers, ClaimLost(w) \/ StopBatch(w) PROVE UNCHANGED Queue!qvars
  BY <1>8 DEF ClaimLost, StopBatch, rowVars, Queue!qvars
<1>9. CASE UNCHANGED vars  BY <1>9 DEF vars, Queue!qvars
<1>10. QED
  BY <1>1, <1>2, <1>3, <1>4, <1>5, <1>6, <1>7, <1>8, <1>9
     DEF Next, RowNext, WorkerNext, Queue!QueueNext

\* The outbox table, seen through JobOf, behaves as DurableQueue promises:
\* done only after delivery, and final unless an operator re-arms it.
THEOREM Refinement == Spec => ImplementsQueue
<1>1. QED
  BY InitRefines, StepRefines, Inductive, PTL DEF Spec, ImplementsQueue, Queue!QueueSpec
=============================================================================
