--------------------------- MODULE WorkflowStart ---------------------------
(***************************************************************************)
(* Delivery of one submitted workflow run to Temporal                      *)
(* (src/internal/service/workflow_temporal_service.go and the claim        *)
(* queries of src/db/queries/core.sql).  Submission commits the run with a *)
(* start that is pending and an outbox event.  Dispatchers handle the      *)
(* event, reconcilers look for runs that are left over; both go through    *)
(* the same handler, which claims the run, reads the form, asks Temporal   *)
(* for an execution and marks the run started.  The applicant may cancel   *)
(* while the start is pending.                                             *)
(*                                                                         *)
(* updated_at is the fencing token of a claim.  It is a token here, and    *)
(* whether it is older than the five-minute lease is a flag.  The row of   *)
(* the outbox event is only absent, to do or done: Outbox.tla is its model.*)
(***************************************************************************)
EXTENDS Naturals

CONSTANTS
    Workers,        \* the goroutines that may carry the start
    Reconcilers,    \* those of them that run the reconciler
    Tokens,         \* claim tokens; a claim takes one nobody uses
    NoToken,
    Submitted,      \* what a submission may leave the form as
    EventRecorded   \* whether the run names its start event from the beginning

ASSUME StartAssumption ==
    /\ Reconcilers \subseteq Workers
    /\ NoToken \notin Tokens
    /\ Submitted \subseteq {"in_review", "approved"}
    /\ EventRecorded \in BOOLEAN

VARIABLES
    start,      \* temporal_start_status
    claim,      \* updated_at of the last claim
    lease,      \* the last claim is not older than the lease
    eventID,    \* temporal_start_event_id is set
    event,      \* the outbox row
    form,       \* the form instance and its run
    exec,       \* the Temporal execution of the run: it loads its projection, then waits
    notified,   \* how often the current approvers were told of the start
    pc, tok     \* what a worker does next, and its copy of the claim token

run == <<start, claim, lease, eventID>>
vars == <<start, claim, lease, eventID, event, form, exec, notified, pc, tok>>

Steps == {"idle", "unclaim", "repair", "rewrite", "event", "read", "claim", "recheck",
          "form", "ensure", "mark", "abandon", "release", "defer", "deferred"}

TypeOK ==
    /\ start \in {"pending_start", "starting", "started", "abandoned"}
    /\ claim \in Tokens \cup {NoToken}
    /\ lease \in BOOLEAN
    /\ eventID \in BOOLEAN
    /\ event \in {"absent", "todo", "done"}
    /\ form \in {"in_review", "approved", "cancelled", "decided"}
    /\ exec \in {"none", "loading", "open", "closed"}
    /\ notified \in 0..1
    /\ pc \in [Workers -> Steps]
    /\ tok \in [Workers -> Tokens \cup {NoToken}]

Init ==
    /\ start = "pending_start"
    /\ claim = NoToken
    /\ lease = FALSE
    /\ eventID = EventRecorded
    /\ event \in IF EventRecorded THEN {"todo"} ELSE {"absent", "todo"}
    /\ form \in Submitted
    /\ exec = "none"
    /\ notified = 0
    /\ pc = [w \in Workers |-> "idle"]
    /\ tok = [w \in Workers |-> NoToken]

-----------------------------------------------------------------------------
\* The claim queries

Final == start \in {"started", "abandoned"}

Claimable_NoRecovery == start = "pending_start"

Claimable == start = "pending_start" \/ (start = "starting" /\ ~lease)

\* WHERE temporal_start_status = 'starting' AND updated_at = claimed_at
HoldsClaim_NoToken(w) == start = "starting"

HoldsClaim(w) == start = "starting" /\ claim = tok[w]

Free == Tokens \ ({claim} \cup {tok[w] : w \in Workers})

Take(w) ==
    /\ Claimable
    /\ \E t \in Free : claim' = t /\ tok' = [tok EXCEPT ![w] = t]
    /\ start' = "starting"
    /\ lease' = TRUE
    /\ UNCHANGED eventID

\* The row as the release leaves it; it is untouched when the claim is lost.
Return(w) ==
    IF HoldsClaim(w)
    THEN start' = "pending_start" /\ UNCHANGED <<claim, lease, eventID>>
    ELSE UNCHANGED run

Goto(w, step) == pc' = [pc EXCEPT ![w] = step]

Leave(w, step) == Goto(w, step) /\ tok' = [tok EXCEPT ![w] = NoToken]

\* An error keeps the outbox event for a later attempt; the reconciler defers
\* the run.  A dispatcher whose handler returned no error finishes the event.
Fail(w) ==
    /\ Leave(w, IF w \in Reconcilers THEN "defer" ELSE "idle")
    /\ UNCHANGED event

Succeed(w) ==
    /\ Leave(w, "idle")
    /\ event' = IF w \notin Reconcilers /\ event = "todo" THEN "done" ELSE event

-----------------------------------------------------------------------------
\* Where work comes from

Deliver(w) ==
    /\ w \notin Reconcilers /\ pc[w] = "idle" /\ event = "todo"
    /\ Goto(w, "read")
    /\ UNCHANGED <<run, event, form, exec, notified, tok>>

\* The reconciler lists claimable runs.  One that names no event is repaired
\* first, and a stale claim on it is released by the token that was listed.
ListPending(w) ==
    /\ w \in Reconcilers /\ pc[w] = "idle" /\ Claimable
    /\ \/ eventID /\ Goto(w, "event") /\ UNCHANGED tok
       \/ ~eventID /\ start = "pending_start" /\ Goto(w, "repair") /\ UNCHANGED tok
       \/ ~eventID /\ start = "starting" /\ Goto(w, "unclaim")
          /\ tok' = [tok EXCEPT ![w] = claim]
    /\ UNCHANGED <<run, event, form, exec, notified>>

Unclaim(w) ==
    /\ pc[w] = "unclaim"
    /\ Leave(w, IF HoldsClaim(w) THEN "repair" ELSE "idle")
    /\ Return(w)
    /\ UNCHANGED <<event, form, exec, notified>>

\* The repair reads the run and writes all of it back, in one transaction
\* that is READ COMMITTED and locks nothing.
RepairRead(w) ==
    /\ pc[w] = "repair"
    /\ Goto(w, IF start = "pending_start" THEN "rewrite" ELSE "idle")
    /\ UNCHANGED <<run, event, form, exec, notified, tok>>

RepairWrite(w) ==
    /\ pc[w] = "rewrite"
    /\ start' = "pending_start"
    /\ eventID' = TRUE
    /\ event' = IF event = "absent" THEN "todo" ELSE event
    /\ Goto(w, "event")
    /\ UNCHANGED <<claim, lease, form, exec, notified, tok>>

\* Cleanup deletes events that are done, so the row may have to be recreated.
RecreateEvent(w) ==
    /\ pc[w] = "event"
    /\ event' = IF event = "absent" THEN "todo" ELSE event
    /\ Goto(w, "read")
    /\ UNCHANGED <<run, form, exec, notified, tok>>

-----------------------------------------------------------------------------
\* The handler

ReadRun(w) ==
    /\ pc[w] = "read"
    /\ \/ Final /\ Succeed(w)
       \/ ~Final /\ Goto(w, "claim") /\ UNCHANGED <<event, tok>>
    /\ UNCHANGED <<run, form, exec, notified>>

Claim(w) ==
    /\ pc[w] = "claim"
    /\ Take(w)
    /\ Goto(w, "form")
    /\ UNCHANGED <<event, form, exec, notified>>

ClaimRefused(w) ==
    /\ pc[w] = "claim" /\ ~Claimable
    /\ Goto(w, "recheck")
    /\ UNCHANGED <<run, event, form, exec, notified, tok>>

Recheck(w) ==
    /\ pc[w] = "recheck"
    /\ IF Final THEN Succeed(w) ELSE Fail(w)
    /\ UNCHANGED <<run, form, exec, notified>>

AfterForm_Unchecked == "ensure"

AfterForm == IF form = "in_review" THEN "ensure" ELSE "abandon"

LoadForm(w) ==
    /\ pc[w] = "form"
    /\ Goto(w, AfterForm)
    /\ UNCHANGED <<run, event, form, exec, notified, tok>>

\* SignalWithStartWorkflow: an open execution is signalled, else one opens.
Ensured == IF exec \in {"none", "closed"} THEN "loading" ELSE exec

Ensure(w) ==
    /\ pc[w] = "ensure"
    /\ exec' = Ensured
    /\ Goto(w, "mark")
    /\ UNCHANGED <<run, event, form, notified, tok>>

\* The call fails before or after Temporal did what it was asked.
EnsureFails(w) ==
    /\ pc[w] = "ensure"
    /\ exec' \in {exec, Ensured}
    /\ Goto(w, "release")
    /\ UNCHANGED <<run, event, form, notified, tok>>

\* Approvers are told in the transaction that marks the run started, and only
\* of a stage that waits for them.
Mark(w) ==
    /\ pc[w] = "mark" /\ HoldsClaim(w)
    /\ start' = "started"
    /\ notified' = IF form = "in_review" THEN notified + 1 ELSE notified
    /\ Succeed(w)
    /\ UNCHANGED <<claim, lease, eventID, form, exec>>

MarkLost(w) ==
    /\ pc[w] = "mark" /\ ~HoldsClaim(w)
    /\ IF Final THEN Succeed(w)
       ELSE Goto(w, "release") /\ UNCHANGED <<event, tok>>
    /\ UNCHANGED <<run, form, exec, notified>>

Release(w) ==
    /\ pc[w] = "release"
    /\ Return(w)
    /\ Fail(w)
    /\ UNCHANGED <<form, exec, notified>>

AbandonClaimed(w) ==
    /\ pc[w] = "abandon"
    /\ IF HoldsClaim(w)
       THEN start' = "abandoned" /\ UNCHANGED <<claim, lease, eventID>> /\ Succeed(w)
       ELSE UNCHANGED run /\ Fail(w)
    /\ UNCHANGED <<form, exec, notified>>

\* A query fails.  After the claim was taken the handler releases it; when the
\* release or the abandonment is what failed, the claim stays until its lease
\* is over.  The reconciler skips a run it cannot prepare or defer.
QueryFails(w) ==
    /\ \/ pc[w] \in {"read", "claim", "recheck", "release", "abandon"} /\ Fail(w)
       \/ pc[w] \in {"form", "mark"} /\ Goto(w, "release") /\ UNCHANGED <<event, tok>>
       \/ pc[w] \in {"unclaim", "repair", "rewrite", "event", "defer", "deferred"}
          /\ Leave(w, "idle") /\ UNCHANGED event
    /\ UNCHANGED <<run, form, exec, notified>>

-----------------------------------------------------------------------------
\* The reconciler moves a run that failed to the end of its queue by claiming
\* and releasing it.

Defer(w) ==
    /\ pc[w] = "defer"
    /\ \/ Take(w) /\ Goto(w, "deferred")
       \/ ~Claimable /\ Goto(w, "idle") /\ UNCHANGED <<run, tok>>
    /\ UNCHANGED <<event, form, exec, notified>>

Deferred(w) ==
    /\ pc[w] = "deferred"
    /\ Return(w)
    /\ Leave(w, "idle")
    /\ UNCHANGED <<event, form, exec, notified>>

Crash(w) ==
    /\ pc[w] # "idle"
    /\ Leave(w, "idle")
    /\ UNCHANGED <<run, event, form, exec, notified>>

-----------------------------------------------------------------------------
\* Everybody else

LeaseExpires ==
    /\ start = "starting" /\ lease
    /\ lease' = FALSE
    /\ UNCHANGED <<start, claim, eventID, event, form, exec, notified, pc, tok>>

CleanupEvent ==
    /\ event = "done"
    /\ event' = "absent"
    /\ UNCHANGED <<run, form, exec, notified, pc, tok>>

\* The applicant cancels before the start was claimed, whatever the form is.
Cancellable == start = "pending_start"

CancelPending ==
    /\ Cancellable
    /\ start' = "abandoned"
    /\ form' = "cancelled"
    /\ UNCHANGED <<claim, lease, eventID, event, exec, notified, pc, tok>>

\* A review command or a withdrawal that the execution applies.
Decide ==
    /\ start = "started" /\ exec = "open" /\ form = "in_review"
    /\ form' = "decided"
    /\ exec' = "closed"
    /\ UNCHANGED <<run, event, notified, pc, tok>>

\* The execution loads its projection, and ends when there is nothing to do.
ExecutionLoads ==
    /\ exec = "loading"
    /\ exec' = IF form = "in_review" THEN "open" ELSE "closed"
    /\ UNCHANGED <<run, event, form, notified, pc, tok>>

\* An activity fails for good: its three attempts, or a reminder that is due
\* while the start is not marked yet or the run is over.
ExecutionFails ==
    /\ exec \in {"loading", "open"}
    /\ exec' = "closed"
    /\ UNCHANGED <<run, event, form, notified, pc, tok>>

Handle(w) ==
    \/ ReadRun(w) \/ Claim(w) \/ ClaimRefused(w) \/ Recheck(w) \/ LoadForm(w)
    \/ Ensure(w) \/ EnsureFails(w) \/ Mark(w) \/ MarkLost(w) \/ QueryFails(w)
    \/ Release(w) \/ AbandonClaimed(w)

Reconcile(w) ==
    \/ Unclaim(w) \/ RepairRead(w) \/ RepairWrite(w) \/ RecreateEvent(w)
    \/ Defer(w) \/ Deferred(w)

Next ==
    \/ \E w \in Workers :
        \/ Deliver(w) \/ ListPending(w) \/ Handle(w) \/ Reconcile(w) \/ Crash(w)
    \/ LeaseExpires \/ CleanupEvent \/ CancelPending
    \/ Decide \/ ExecutionLoads \/ ExecutionFails

Spec == Init /\ [][Next]_vars

\* Nobody stops for ever in the middle of a run, the ticker and the outbox come
\* back, leases run out, and every query that is repeated succeeds at last.  A
\* worker gets through to Temporal within its lease again and again.
Fairness ==
    /\ \A w \in Workers :
        /\ WF_vars(Deliver(w)) /\ WF_vars(ListPending(w))
        /\ WF_vars(Handle(w)) /\ WF_vars(Reconcile(w))
    /\ WF_vars(LeaseExpires)
    /\ SF_vars(\E w \in Workers : RecreateEvent(w))
    /\ SF_vars(\E w \in Workers : RepairRead(w))
    /\ SF_vars(\E w \in Workers : RepairWrite(w))
    /\ \A w \in Workers : SF_vars(ReadRun(w))
    /\ SF_vars(\E w \in Workers : Claim(w))
    /\ SF_vars(\E w \in Workers : HoldsClaim(w) /\ LoadForm(w))
    /\ SF_vars(\E w \in Workers : HoldsClaim(w) /\ AbandonClaimed(w))
    /\ SF_vars(\E w \in Workers : HoldsClaim(w) /\ Ensure(w))
    /\ SF_vars(\E w \in Workers : Mark(w))

FairSpec == Spec /\ Fairness

-----------------------------------------------------------------------------
\* Properties

\* The form a worker read before it called Temporal is still waiting for review
\* as long as the worker can still mark the run started.
FormStillInReview ==
    \A w \in Workers :
        HoldsClaim(w) /\ pc[w] \in {"ensure", "mark"} => form = "in_review"

\* A started run has, or had, an execution and its approvers were told once; an
\* abandoned one is over and nobody was told.
OutcomeAgrees ==
    /\ start = "started" => exec # "none" /\ notified = 1
    /\ start = "abandoned" => form \in {"approved", "cancelled"} /\ notified = 0

\* While a lease runs, only its holder moves the run out of starting: neither a
\* worker that was overtaken nor the applicant can.
LeaseFences ==
    [][start = "starting" /\ lease /\ start' # start =>
        \E w \in Workers : claim = tok[w] /\ pc'[w] # pc[w]]_vars

\* The run seen as the single decision of StartOnce.
Once == INSTANCE StartOnce WITH
    outcome <- IF Final THEN start ELSE "unresolved", told <- notified

\* The start is resolved once, and approvers hear of it once or never.
ImplementsStartOnce == Once!OnceSpec

\* And it does not stay pending for ever, whoever crashes.
ImplementsFairStartOnce == Once!FairOnceSpec

\* README.md:82, and the name of a test: cancelling a pending start never leaves
\* an execution that waits for a form nobody will review.  It may: see the run.
NoOrphanExecution == start = "abandoned" => exec # "open"
=============================================================================
