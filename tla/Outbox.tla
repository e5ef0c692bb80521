------------------------------- MODULE Outbox -------------------------------
(***************************************************************************)
(* The transactional outbox of one tenant: the outbox_events table with    *)
(* the SQL that appends, claims, finalizes, retries and cleans its rows    *)
(* (src/db/queries/core.sql), and the dispatcher processes that work on it *)
(* (src/internal/jobs/outbox_dispatcher.go).  Several API replicas run a   *)
(* dispatcher each.  A claim is a lease with a token: a worker whose lease *)
(* ran out may still be running when another one claims the row again.     *)
(*                                                                         *)
(* Time is abstract: a row keeps whether its lease still runs and whether  *)
(* its next attempt is due, and two actions let that time pass.            *)
(***************************************************************************)
EXTENDS Naturals, FiniteSets

CONSTANTS
    Events,         \* the rows that may be appended (their ids)
    Workers,        \* the dispatcher processes
    Tokens,         \* claim tokens; a claim takes one that is not in use
    NoToken,        \* claim_token = ''
    NoEvent,        \* a worker that is not in the middle of an event
    Kind,           \* Kind[e]: which handler event e is routed to
    MaxAttempts,    \* max_attempts of the rows that have a limit
    BatchSize,      \* how many rows one claim takes at most
    MaxRetries      \* bound: how often operators retry rows in all

Kinds == {"workflow_start", "model_sync", "relationship", "unsupported"}

ASSUME OutboxAssumption ==
    /\ NoToken \notin Tokens
    /\ NoEvent \notin Events
    /\ Kind \in [Events -> Kinds]
    /\ MaxAttempts \in Nat \ {0}
    /\ BatchSize \in Nat \ {0}
    /\ MaxRetries \in Nat

VARIABLES
    status, attempts, token, leaseLive, due,    \* the rows
    batch, wToken, seen, current, result,       \* the workers
    delivered,      \* events whose handler took effect
    retries         \* operator retries so far

rowVars == <<status, attempts, token, leaseLive, due>>
workerVars == <<batch, wToken, seen, current, result>>
vars == <<status, attempts, token, leaseLive, due,
          batch, wToken, seen, current, result, delivered, retries>>

Statuses == {"absent", "pending", "processing", "succeeded", "failed",
             "parked", "dead_lettered", "deleted"}

Results == {"none", "ok", "transient", "permanent", "notConfigured", "unsupported"}

TypeOK ==
    /\ status \in [Events -> Statuses]
    /\ attempts \in [Events -> Nat]
    /\ token \in [Events -> Tokens \cup {NoToken}]
    /\ leaseLive \in [Events -> BOOLEAN]
    /\ due \in [Events -> BOOLEAN]
    /\ batch \in [Workers -> SUBSET Events]
    /\ wToken \in [Workers -> Tokens \cup {NoToken}]
    /\ seen \in [Workers -> [Events -> Nat]]
    /\ current \in [Workers -> Events \cup {NoEvent}]
    /\ result \in [Workers -> Results]
    /\ delivered \subseteq Events
    /\ retries \in 0..MaxRetries

Init ==
    /\ status = [e \in Events |-> "absent"]
    /\ attempts = [e \in Events |-> 0]
    /\ token = [e \in Events |-> NoToken]
    /\ leaseLive = [e \in Events |-> FALSE]
    /\ due = [e \in Events |-> FALSE]
    /\ batch = [w \in Workers |-> {}]
    /\ wToken = [w \in Workers |-> NoToken]
    /\ seen = [w \in Workers |-> [e \in Events |-> 0]]
    /\ current = [w \in Workers |-> NoEvent]
    /\ result = [w \in Workers |-> "none"]
    /\ delivered = {}
    /\ retries = 0

-----------------------------------------------------------------------------
\* Rows

\* max_attempts of a row: workflow starts are appended with 0, "no limit".
Limit(e) == IF Kind[e] = "workflow_start" THEN 0 ELSE MaxAttempts

HasBudget(e) == Limit(e) = 0 \/ attempts[e] < Limit(e)

\* attempt_count after one more claim.  The count of a row without a limit is
\* read by nothing but the length of its back-off and is not kept here.
NextAttempt(e) == IF Limit(e) = 0 THEN 0 ELSE attempts[e] + 1

Claimable(e) ==
    /\ \/ status[e] \in {"pending", "failed"} /\ due[e]
       \/ status[e] = "processing" /\ ~leaseLive[e]
    /\ HasBudget(e)

\* A service transaction appends an event; it is due at once.  Appending an
\* idempotency key that is already there changes nothing.
AppendOutboxEvent(e) ==
    /\ status[e] = "absent"
    /\ status' = [status EXCEPT ![e] = "pending"]
    /\ due' = [due EXCEPT ![e] = TRUE]
    /\ UNCHANGED <<attempts, token, leaseLive, workerVars, delivered, retries>>

\* An operator sends a row that was given up, or that waits for its next
\* attempt, back to the queue with a fresh budget.
RetryOutboxEvent(e) ==
    /\ retries < MaxRetries
    /\ status[e] \in {"failed", "parked", "dead_lettered"}
    /\ status' = [status EXCEPT ![e] = "pending"]
    /\ attempts' = [attempts EXCEPT ![e] = 0]
    /\ due' = [due EXCEPT ![e] = TRUE]
    /\ token' = [token EXCEPT ![e] = NoToken]
    /\ leaseLive' = [leaseLive EXCEPT ![e] = FALSE]
    /\ retries' = retries + 1
    /\ UNCHANGED <<workerVars, delivered>>

\* The cleaner removes a succeeded row once it is past the retention time.
DeleteSucceeded(e) ==
    /\ status[e] = "succeeded"
    /\ status' = [status EXCEPT ![e] = "deleted"]
    /\ UNCHANGED <<attempts, token, leaseLive, due, workerVars, delivered, retries>>

\* The clock passes claim_expires_at, or next_attempt_at.
LeaseExpires(e) ==
    /\ status[e] = "processing" /\ leaseLive[e]
    /\ leaseLive' = [leaseLive EXCEPT ![e] = FALSE]
    /\ UNCHANGED <<status, attempts, token, due, workerVars, delivered, retries>>

BackoffElapses(e) ==
    /\ status[e] \in {"pending", "failed"} /\ ~due[e]
    /\ due' = [due EXCEPT ![e] = TRUE]
    /\ UNCHANGED <<status, attempts, token, leaseLive, workerVars, delivered, retries>>

-----------------------------------------------------------------------------
\* Workers.  The statement that claims returns its rows in no particular
\* order, so the part of a batch that is still to do is a set.

\* Mutant: the row's status alone decides, not its token.
Holds_NoFence(w, e) == e \in batch[w] /\ status[e] = "processing"

\* The lease is still this worker's: what the WHERE of FinalizeOutboxEvent asks.
Holds(w, e) ==
    /\ e \in batch[w]
    /\ status[e] = "processing"
    /\ token[e] = wToken[w]

\* Mutant: claim tokens are not unique.
FreshToken_Reused(t) == t \in Tokens

\* The id made for a claim occurs nowhere else.
FreshToken(t) ==
    /\ \A w \in Workers : wToken[w] # t
    /\ \A e \in Events : token[e] # t

ClaimedBy(w, B, t) ==
    /\ status' = [e \in Events |-> IF e \in B THEN "processing" ELSE status[e]]
    /\ attempts' = [e \in Events |-> IF e \in B THEN NextAttempt(e) ELSE attempts[e]]
    /\ token' = [e \in Events |-> IF e \in B THEN t ELSE token[e]]
    /\ leaseLive' = [e \in Events |-> IF e \in B THEN TRUE ELSE leaseLive[e]]
    /\ batch' = [batch EXCEPT ![w] = B]
    /\ wToken' = [wToken EXCEPT ![w] = t]
    /\ seen' = [seen EXCEPT ![w] = [e \in Events |-> IF e \in B THEN NextAttempt(e) ELSE 0]]

\* One statement: as many claimable rows as the limit allows, all with the new
\* token and a new lease; the worker keeps the rows it got back.
ClaimOutboxEvents(w) ==
    /\ batch[w] = {}
    /\ \E t \in Tokens, B \in SUBSET {e \in Events : Claimable(e)} :
        /\ FreshToken(t)
        /\ B # {}
        /\ Cardinality(B) <= BatchSize
        /\ Cardinality(B) = BatchSize \/ B = {e \in Events : Claimable(e)}
        /\ ClaimedBy(w, B, t)
    /\ UNCHANGED <<due, current, result, delivered, retries>>

\* What the handler of a kind can return.
Outcomes(kind) ==
    CASE kind = "workflow_start" -> {"ok", "transient", "permanent"}
      [] kind = "model_sync"     -> {"ok", "transient", "permanent", "notConfigured"}
      [] kind = "relationship"   -> {"ok", "transient", "permanent"}
      [] kind = "unsupported"    -> {"unsupported"}

\* The worker calls the handler of one row of its batch.  A call that fails for
\* a passing reason (a timeout) may have taken effect all the same.
Dispatch(w) ==
    /\ current[w] = NoEvent
    /\ \E e \in batch[w] : \E r \in Outcomes(Kind[e]) :
        /\ current' = [current EXCEPT ![w] = e]
        /\ result' = [result EXCEPT ![w] = r]
        /\ delivered' \in
             CASE r = "ok" -> {delivered \cup {e}}
               [] r = "transient" -> {delivered, delivered \cup {e}}
               [] OTHER -> {delivered}
    /\ UNCHANGED <<rowVars, batch, wToken, seen, retries>>

\* Mutants: a failed call counts as success; the limit is compared with > instead
\* of >=.
Verdict_SwallowsError(e, r, n) ==
    IF r \in {"ok", "transient"} THEN "succeeded" ELSE "parked"
Verdict_NeverDead(e, r, n) ==
    CASE r = "ok" -> "succeeded"
      [] r = "permanent" -> "parked"
      [] r = "transient" /\ n > Limit(e) -> "dead_lettered"
      [] OTHER -> "failed"

\* The status that processEvent gives a row after result r of attempt n.
Verdict(e, r, n) ==
    CASE r = "ok" -> "succeeded"
      [] r \in {"permanent", "unsupported"} -> "parked"
      [] r = "notConfigured" -> "pending"
      [] r = "transient" /\ Limit(e) > 0 /\ n >= Limit(e) -> "dead_lettered"
      [] OTHER -> "failed"

\* A missing runtime configuration gives the attempt back.
Charged(r, n) == IF r = "notConfigured" /\ n > 0 THEN n - 1 ELSE n

FinalizeOutboxEvent(e, r, n) ==
    /\ status' = [status EXCEPT ![e] = Verdict(e, r, n)]
    /\ attempts' = [attempts EXCEPT ![e] = Charged(r, n)]
    /\ due' = [due EXCEPT ![e] = (r \notin {"transient", "notConfigured"})]
    /\ token' = [token EXCEPT ![e] = NoToken]
    /\ leaseLive' = [leaseLive EXCEPT ![e] = FALSE]

\* The worker leaves event current[w] and goes on with the rows in B.
GoOn(w, B) ==
    /\ batch' = [batch EXCEPT ![w] = B]
    /\ wToken' = [wToken EXCEPT ![w] = IF B = {} THEN NoToken ELSE wToken[w]]
    /\ seen' = [seen EXCEPT ![w] = [e \in Events |-> IF e \in B THEN seen[w][e] ELSE 0]]
    /\ current' = [current EXCEPT ![w] = NoEvent]
    /\ result' = [result EXCEPT ![w] = "none"]

\* The result is written if the claim still is the worker's own.
RecordResult(w) ==
    /\ current[w] # NoEvent
    /\ Holds(w, current[w])
    /\ FinalizeOutboxEvent(current[w], result[w], seen[w][current[w]])
    /\ GoOn(w, batch[w] \ {current[w]})
    /\ UNCHANGED <<delivered, retries>>

\* Otherwise ErrOutboxClaimLost ends the whole batch: its other rows stay
\* leased until their leases run out.
ClaimLost(w) ==
    /\ current[w] # NoEvent
    /\ ~Holds(w, current[w])
    /\ GoOn(w, {})
    /\ UNCHANGED <<rowVars, delivered, retries>>

\* A crash, a shutdown or a database error while finalizing ends the batch too.
StopBatch(w) ==
    /\ batch[w] # {}
    /\ GoOn(w, {})
    /\ UNCHANGED <<rowVars, delivered, retries>>

-----------------------------------------------------------------------------
RowNext(e) ==
    \/ AppendOutboxEvent(e)
    \/ RetryOutboxEvent(e)
    \/ DeleteSucceeded(e)
    \/ LeaseExpires(e)
    \/ BackoffElapses(e)

WorkerNext(w) ==
    \/ ClaimOutboxEvents(w)
    \/ Dispatch(w)
    \/ RecordResult(w)
    \/ ClaimLost(w)
    \/ StopBatch(w)

Next == (\E e \in Events : RowNext(e)) \/ (\E w \in Workers : WorkerNext(w))

Spec == Init /\ [][Next]_vars

\* Time passes, the ticker of every dispatcher keeps firing, and a worker that
\* is not stopped goes on with its batch.
Fairness ==
    /\ \A e \in Events : WF_vars(LeaseExpires(e)) /\ WF_vars(BackoffElapses(e))
    /\ \A w \in Workers :
        /\ WF_vars(ClaimOutboxEvents(w))
        /\ WF_vars(Dispatch(w))
        /\ WF_vars(RecordResult(w) \/ ClaimLost(w))

FairSpec == Spec /\ Fairness

-----------------------------------------------------------------------------
\* Properties

\* At most one worker can still write the result of a claimed row, however
\* late the workers before it finish: the token fences them off.
ClaimExclusive ==
    \A e \in Events, v, w \in Workers : Holds(v, e) /\ Holds(w, e) => v = w

\* A row never gets part of its attempt budget back, except from an operator
\* or from a handler that is not configured: a worker that was overtaken
\* cannot write its older count over the newer one.
BudgetOnlySpent ==
    [][\A e \in Events :
        attempts'[e] < attempts[e] =>
            \/ Kind[e] = "model_sync"
            \/ status[e] \in {"failed", "parked", "dead_lettered"} /\ status'[e] = "pending"]_vars

\* A limited row is never claimed, hence never dispatched, more often than its
\* limit between two operator retries.
AttemptsWithinLimit == \A e \in Events : attempts[e] <= MaxAttempts

\* The row is leased for its last attempt and no worker is left to finish it.
Stranded(e) ==
    /\ status[e] = "processing"
    /\ ~HasBudget(e)
    /\ \A w \in Workers : ~Holds(w, e)

\* Every row of a handler that needs no configuration ends as succeeded or
\* where an operator can see it, or it is stranded by a worker that stopped
\* in its last attempt.
EventuallySettled ==
    \A e \in Events :
        Kind[e] \in {"relationship", "unsupported"} =>
            (status[e] \in {"pending", "failed", "processing"}
                ~> (status[e] \in {"succeeded", "parked", "dead_lettered", "deleted"} \/ Stranded(e)))

\* What the comment on ClaimOutboxEvents says: an expired lease is recovered.
ExpiredLeaseRecovered ==
    \A e \in Events :
        (status[e] = "processing" /\ ~leaseLive[e])
            ~> (status[e] # "processing" \/ leaseLive[e])

\* The table seen as the queue of DurableQueue.
JobOf(s) ==
    CASE s = "absent" -> "absent"
      [] s \in {"pending", "failed", "processing"} -> "todo"
      [] s = "succeeded" -> "done"
      [] s \in {"parked", "dead_lettered"} -> "givenUp"
      [] s = "deleted" -> "gone"

Queue == INSTANCE DurableQueue WITH job <- [e \in Events |-> JobOf(status[e])]

\* The outbox implements the queue: nothing counts as done before its handler
\* took effect, and what is done or given up is never taken back by a worker.
ImplementsQueue == Queue!QueueSpec
=============================================================================
