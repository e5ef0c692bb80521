------------------------ MODULE WorkflowStartProofs ------------------------
(***************************************************************************)
(* Theorems about WorkflowStart for any number of workers, reconcilers and *)
(* tokens.  A run names its start event from the beginning (EventRecorded) *)
(* wherever the theorem says so: the repair of a run that names none is    *)
(* what would break them.                                                  *)
(*                                                                         *)
(* The argument: a worker that can still write to the run holds a token no *)
(* other worker has, and what it read of the form before it called         *)
(* Temporal is still true, because only a started run is decided and only  *)
(* a pending one is cancelled.                                             *)
(***************************************************************************)
EXTENDS WorkflowStart, TLAPS

Holding == {"form", "ensure", "mark", "abandon", "release", "deferred"}

Repairing == {"unclaim", "repair", "rewrite"}

\* Nobody repairs a run that names its event.
NoRepair == eventID /\ \A w \in Workers : pc[w] \notin Repairing

\* A copy of the claim token exists between claim and release only, is held by
\* one worker, and a run that is starting carries a token.
TokensHeld ==
    /\ \A w \in Workers : tok[w] # NoToken => pc[w] \in Holding
    /\ \A v, w \in Workers : tok[v] = tok[w] /\ tok[v] # NoToken => v = w
    /\ start = "starting" => claim # NoToken

\* Until the start is resolved nobody was told of it and nobody decided on it.
Undecided == ~Final => form \in {"in_review", "approved"} /\ notified = 0

\* What the holder of the claim read, and what it has done, still stands.
Progress ==
    \A w \in Workers : HoldsClaim(w) =>
        /\ pc[w] \in {"ensure", "mark"} => form = "in_review"
        /\ pc[w] = "mark" => exec # "none"
        /\ pc[w] = "abandon" => form # "in_review"

IInv == TypeOK /\ NoRepair /\ TokensHeld /\ Undecided /\ Progress /\ OutcomeAgrees

-----------------------------------------------------------------------------
\* The steps of a worker fall into five kinds of change to the run.

\* The run is left alone; the worker moves on or leaves.
Walk(w) ==
    /\ UNCHANGED <<run, form, notified>>
    /\ exec' \in {exec, Ensured}
    /\ event' \in {event, "todo", "done"}
    /\ \E s \in Steps : pc' = [pc EXCEPT ![w] = s]
    /\ pc'[w] \notin Repairing
    /\ \/ tok' = [tok EXCEPT ![w] = NoToken] /\ pc'[w] \notin Holding
       \/ UNCHANGED tok /\ (pc[w] \in Holding => pc'[w] \in Holding)
    /\ pc'[w] = "ensure" => form = "in_review"
    /\ pc'[w] = "abandon" => form # "in_review"
    /\ pc'[w] = "mark" => pc[w] = "ensure" /\ exec' # "none"

Claims(w) ==
    /\ Take(w)
    /\ \E s \in {"form", "deferred"} : pc' = [pc EXCEPT ![w] = s]
    /\ UNCHANGED <<event, form, exec, notified>>

Releases(w) ==
    /\ HoldsClaim(w)
    /\ start' = "pending_start"
    /\ UNCHANGED <<claim, lease, eventID, form, exec, notified, event>>
    /\ tok' = [tok EXCEPT ![w] = NoToken]
    /\ \E s \in {"idle", "defer"} : pc' = [pc EXCEPT ![w] = s]
    /\ pc[w] \in Holding

Worker(w) == Walk(w) \/ Claims(w) \/ Releases(w) \/ Mark(w)
             \/ (AbandonClaimed(w) /\ HoldsClaim(w))

LEMMA WorkerSteps ==
    ASSUME IInv, NEW w \in Workers,
           Deliver(w) \/ ListPending(w) \/ Handle(w) \/ Reconcile(w) \/ Crash(w)
    PROVE  Worker(w)
<1>0. pc[w] \in Steps /\ tok[w] \in Tokens \cup {NoToken} /\ pc[w] \notin Repairing
  BY DEF IInv, TypeOK, NoRepair
<1>1. CASE Deliver(w)
  BY <1>0, <1>1 DEF Deliver, Goto, Worker, Walk, IInv, TypeOK, NoRepair, Repairing, Holding, Steps, run
<1>2. CASE ListPending(w)
  BY <1>0, <1>2 DEF ListPending, Goto, Worker, Walk, IInv, TypeOK, NoRepair, Repairing, Holding, Steps, run
<1>3. CASE ReadRun(w)
  BY <1>0, <1>3 DEF ReadRun, Goto, Succeed, Leave, Worker, Walk, IInv, TypeOK, NoRepair, Repairing, Holding, Steps, run
<1>4. CASE Claim(w)
  BY <1>0, <1>4 DEF Claim, Goto, Worker, Claims
<1>5. CASE ClaimRefused(w)
  BY <1>0, <1>5 DEF ClaimRefused, Goto, Worker, Walk, IInv, TypeOK, NoRepair, Repairing, Holding, Steps, run
<1>6. CASE Recheck(w)
  BY <1>0, <1>6 DEF Recheck, Goto, Succeed, Fail, Leave, Worker, Walk, IInv, TypeOK, NoRepair, Repairing, Holding, Steps, run
<1>7. CASE LoadForm(w)
  BY <1>0, <1>7 DEF LoadForm, Goto, AfterForm, Worker, Walk, IInv, TypeOK, NoRepair, Repairing, Holding, Steps, run
<1>8. CASE Ensure(w)
  BY <1>0, <1>8 DEF Ensure, Goto, Ensured, Worker, Walk, IInv, TypeOK, NoRepair, Repairing, Holding, Steps, run
<1>9. CASE EnsureFails(w)
  BY <1>0, <1>9 DEF EnsureFails, Goto, Ensured, Worker, Walk, IInv, TypeOK, NoRepair, Repairing, Holding, Steps, run
<1>10. CASE Mark(w)
  BY <1>10 DEF Worker
<1>11. CASE MarkLost(w)
  BY <1>0, <1>11 DEF MarkLost, Goto, Succeed, Leave, Worker, Walk, IInv, TypeOK, NoRepair, Repairing, Holding, Steps, run
<1>12. CASE QueryFails(w)
  BY <1>0, <1>12 DEF QueryFails, Goto, Fail, Leave, Worker, Walk, IInv, TypeOK, NoRepair, Repairing, Holding, Steps, run
<1>13. CASE Release(w)
  <2>1. CASE HoldsClaim(w)
    BY <1>0, <1>13, <2>1 DEF Release, Return, Fail, Leave, Goto, Worker, Releases, Holding
  <2>2. CASE ~HoldsClaim(w)
    BY <1>0, <1>13, <2>2 DEF Release, Return, Fail, Leave, Goto, Worker, Walk, IInv, TypeOK, Repairing, Holding, Steps, run
  <2>3. QED  BY <2>1, <2>2
<1>14. CASE AbandonClaimed(w)
  <2>1. CASE HoldsClaim(w)
    BY <1>14, <2>1 DEF Worker
  <2>2. CASE ~HoldsClaim(w)
    BY <1>0, <1>14, <2>2 DEF AbandonClaimed, Fail, Leave, Goto, Worker, Walk, IInv, TypeOK, Repairing, Holding, Steps, run
  <2>3. QED  BY <2>1, <2>2
<1>15. CASE Unclaim(w)
  BY <1>0, <1>15 DEF Unclaim, Repairing
<1>16. CASE RepairRead(w)
  BY <1>0, <1>16 DEF RepairRead, Repairing
<1>17. CASE RepairWrite(w)
  BY <1>0, <1>17 DEF RepairWrite, Repairing
<1>18. CASE RecreateEvent(w)
  BY <1>0, <1>18 DEF RecreateEvent, Goto, Worker, Walk, IInv, TypeOK, NoRepair, Repairing, Holding, Steps, run
<1>19. CASE Defer(w)
  <2>1. CASE Take(w) /\ Goto(w, "deferred")
    BY <1>0, <1>19, <2>1 DEF Defer, Goto, Worker, Claims
  <2>2. CASE ~Claimable /\ Goto(w, "idle") /\ UNCHANGED <<run, tok>>
    BY <1>0, <1>19, <2>2 DEF Defer, Goto, Worker, Walk, IInv, TypeOK, Repairing, TokensHeld, Holding, Steps, run
  <2>3. QED  BY <1>19, <2>1, <2>2 DEF Defer
<1>20. CASE Deferred(w)
  <2>1. CASE HoldsClaim(w)
    BY <1>0, <1>20, <2>1 DEF Deferred, Return, Leave, Goto, Worker, Releases, Holding
  <2>2. CASE ~HoldsClaim(w)
    BY <1>0, <1>20, <2>2 DEF Deferred, Return, Leave, Goto, Worker, Walk, IInv, TypeOK, Repairing, Holding, Steps, run
  <2>3. QED  BY <2>1, <2>2
<1>21. CASE Crash(w)
  BY <1>0, <1>21 DEF Crash, Goto, Leave, Worker, Walk, IInv, TypeOK, NoRepair, Repairing, Holding, Steps, run
<1>22. QED
  BY <1>1, <1>2, <1>3, <1>4, <1>5, <1>6, <1>7, <1>8, <1>9, <1>10, <1>11, <1>12, <1>13, <1>14, <1>15, <1>16, <1>17, <1>18, <1>19, <1>20, <1>21 DEF Handle, Reconcile

-----------------------------------------------------------------------------
\* The other steps

\* The start stays as it is, or a pending one is cancelled; a started run whose
\* execution waits is decided.
Others ==
    /\ UNCHANGED <<claim, eventID, pc, tok>>
    /\ lease' \in {lease, FALSE}
    /\ event' \in {event, "absent"}
    /\ \/ /\ UNCHANGED <<start, form, notified>>
          /\ exec' \in {exec, "open", "closed"} /\ (exec = "none" => UNCHANGED exec)
       \/ CancelPending
       \/ Decide

LEMMA OtherSteps ==
    ASSUME IInv,
           LeaseExpires \/ CleanupEvent \/ CancelPending \/ Decide
           \/ ExecutionLoads \/ ExecutionFails \/ UNCHANGED vars
    PROVE  Others
<1>1. CASE LeaseExpires \/ CleanupEvent
  BY <1>1 DEF LeaseExpires, CleanupEvent, run, Others
<1>2. CASE CancelPending
  BY <1>2 DEF CancelPending, Others
<1>3. CASE Decide
  BY <1>3 DEF Decide, run, Others
<1>4. CASE ExecutionLoads \/ ExecutionFails
  BY <1>4 DEF ExecutionLoads, ExecutionFails, run, Others
<1>5. CASE UNCHANGED vars
  BY <1>5 DEF vars, Others
<1>6. QED  BY <1>1, <1>2, <1>3, <1>4, <1>5

LEMMA StepKinds ==
    ASSUME IInv, [Next]_vars
    PROVE  (\E w \in Workers : Worker(w)) \/ Others
BY WorkerSteps, OtherSteps DEF Next

-----------------------------------------------------------------------------
\* The claim is held by one worker, before and after a step.

LEMMA HolderTyped ==
    ASSUME IInv, NEW w \in Workers, HoldsClaim(w)
    PROVE  tok[w] \in Tokens /\ tok[w] # NoToken /\ pc[w] \in Holding
BY StartAssumption DEF IInv, TypeOK, TokensHeld, HoldsClaim

LEMMA OneHolder ==
    ASSUME IInv, NEW v \in Workers, NEW w \in Workers, HoldsClaim(v), HoldsClaim(w)
    PROVE  v = w
BY HolderTyped DEF IInv, TokensHeld, HoldsClaim

\* A claim gives a token that is nobody's and not the run's.
LEMMA TakeFresh ==
    ASSUME IInv, NEW w \in Workers, Take(w)
    PROVE  \E t \in Tokens :
               /\ t # claim /\ t # NoToken /\ \A v \in Workers : tok[v] # t
               /\ claim' = t /\ tok' = [tok EXCEPT ![w] = t]
               /\ start' = "starting" /\ lease' = TRUE /\ eventID' = eventID
               /\ ~Final /\ Claimable
<1>1. PICK t \in Free : claim' = t /\ tok' = [tok EXCEPT ![w] = t]
  BY DEF Take
<1>2. t \in Tokens /\ t # claim /\ t # NoToken /\ \A v \in Workers : tok[v] # t
  BY <1>1, StartAssumption DEF Free
<1>3. ~Final
  BY DEF Take, Claimable, Final
<1>4. QED  BY <1>1, <1>2, <1>3 DEF Take

-----------------------------------------------------------------------------
\* The invariant is inductive.

LEMMA InitIInv ==
    ASSUME EventRecorded = TRUE, Init
    PROVE  IInv
<1>1. TypeOK
  <2>1. eventID = TRUE /\ event = "todo"
    BY DEF Init
  <2>2. form \in {"in_review", "approved"}
    BY StartAssumption DEF Init
  <2>3. /\ start = "pending_start" /\ claim = NoToken /\ lease = FALSE
        /\ exec = "none" /\ notified = 0
        /\ pc = [w \in Workers |-> "idle"] /\ tok = [w \in Workers |-> NoToken]
    BY DEF Init
  <2>4. eventID \in BOOLEAN /\ lease \in BOOLEAN
    BY <2>1, <2>3
  <2>5. pc \in [Workers -> Steps] /\ tok \in [Workers -> Tokens \cup {NoToken}]
    BY <2>3 DEF Steps
  <2>6. QED  BY <2>1, <2>2, <2>3, <2>4, <2>5 DEF TypeOK
<1>2. NoRepair /\ TokensHeld
  BY DEF Init, NoRepair, TokensHeld, Repairing
<1>3. Undecided /\ Progress /\ OutcomeAgrees
  BY StartAssumption DEF Init, Undecided, Progress, OutcomeAgrees, Final, HoldsClaim
<1>4. QED  BY <1>1, <1>2, <1>3 DEF IInv

LEMMA NextIInv ==
    ASSUME IInv, [Next]_vars
    PROVE  IInv'
<1>0. TypeOK /\ NoRepair /\ TokensHeld /\ Undecided /\ Progress /\ OutcomeAgrees
  BY DEF IInv
<1>1. ASSUME NEW w \in Workers, Walk(w)
      PROVE  IInv'
  <2>1. TypeOK'
    BY <1>0, <1>1 DEF Walk, TypeOK, run, Ensured, Steps
  <2>2. NoRepair'
    BY <1>0, <1>1 DEF Walk, NoRepair, run, TypeOK
  <2>3. TokensHeld'
    BY <1>0, <1>1 DEF Walk, TokensHeld, run, TypeOK
  <2>4. Undecided' /\ OutcomeAgrees'
    BY <1>0, <1>1 DEF Walk, Undecided, OutcomeAgrees, Final, run, Ensured
  <2>5. Progress'
    <3>1. SUFFICES ASSUME NEW v \in Workers, HoldsClaim(v)'
                   PROVE  (/\ pc[v] \in {"ensure", "mark"} => form = "in_review"
                           /\ pc[v] = "mark" => exec # "none"
                           /\ pc[v] = "abandon" => form # "in_review")'
      BY DEF Progress
    <3>2. start = "starting" /\ claim = tok'[v] /\ claim # NoToken
      BY <1>0, <1>1, <3>1 DEF Walk, HoldsClaim, run, TokensHeld
    <3>3. HoldsClaim(v)
      BY <1>0, <1>1, <3>2 DEF Walk, HoldsClaim, TypeOK
    <3>4. CASE v = w
      BY <1>0, <1>1, <3>3, <3>4 DEF Walk, Progress, TypeOK
    <3>5. CASE v # w
      BY <1>0, <1>1, <3>3, <3>5 DEF Walk, Progress, TypeOK, Ensured
    <3>6. QED  BY <3>4, <3>5
  <2>6. QED  BY <2>1, <2>2, <2>3, <2>4, <2>5 DEF IInv
<1>2. ASSUME NEW w \in Workers, Claims(w)
      PROVE  IInv'
  <2>1. PICK t \in Tokens :
               /\ t # claim /\ t # NoToken /\ \A v \in Workers : tok[v] # t
               /\ claim' = t /\ tok' = [tok EXCEPT ![w] = t]
               /\ start' = "starting" /\ lease' = TRUE /\ eventID' = eventID
               /\ ~Final
    BY <1>2, TakeFresh DEF Claims
  <2>2. pc'[w] \in {"form", "deferred"} /\ \A v \in Workers \ {w} : pc'[v] = pc[v]
    BY <1>0, <1>2 DEF Claims, TypeOK
  <2>3. TypeOK'
    BY <1>0, <1>2, <2>1 DEF Claims, TypeOK, Steps
  <2>4. NoRepair'
    BY <1>0, <2>1, <2>2 DEF NoRepair, Repairing
  <2>5. TokensHeld'
    BY <1>0, <2>1, <2>2 DEF TokensHeld, Holding, TypeOK
  <2>6. Undecided' /\ OutcomeAgrees'
    BY <1>0, <1>2, <2>1 DEF Claims, Undecided, OutcomeAgrees, Final
  <2>7. Progress'
    BY <1>0, <2>1, <2>2 DEF Progress, HoldsClaim, TypeOK
  <2>8. QED  BY <2>3, <2>4, <2>5, <2>6, <2>7 DEF IInv
<1>3. ASSUME NEW w \in Workers, Releases(w)
      PROVE  IInv'
  <2>1. TypeOK'
    BY <1>0, <1>3 DEF Releases, TypeOK, Steps
  <2>2. NoRepair' /\ TokensHeld'
    BY <1>0, <1>3 DEF Releases, NoRepair, TokensHeld, TypeOK, Repairing
  <2>3. Undecided' /\ OutcomeAgrees' /\ Progress'
    BY <1>0, <1>3 DEF Releases, Undecided, OutcomeAgrees, Progress, Final, HoldsClaim
  <2>4. QED  BY <2>1, <2>2, <2>3 DEF IInv
<1>4. ASSUME NEW w \in Workers, Mark(w)
      PROVE  IInv'
  <2>1. form = "in_review" /\ exec # "none" /\ notified = 0
    BY <1>0, <1>4 DEF Mark, Progress, Undecided, HoldsClaim, Final
  <2>2. start' = "started" /\ notified' = 1 /\ UNCHANGED <<claim, lease, eventID, form, exec>>
    BY <1>4, <2>1 DEF Mark
  <2>3. pc' = [pc EXCEPT ![w] = "idle"] /\ tok' = [tok EXCEPT ![w] = NoToken]
        /\ event' \in {event, "done"}
    BY <1>4 DEF Mark, Succeed, Leave, Goto
  <2>4. TypeOK'
    BY <1>0, <2>2, <2>3 DEF TypeOK, Steps
  <2>5. NoRepair' /\ TokensHeld'
    BY <1>0, <2>2, <2>3 DEF NoRepair, TokensHeld, TypeOK, Repairing
  <2>6. Undecided' /\ OutcomeAgrees' /\ Progress'
    BY <2>1, <2>2 DEF Undecided, OutcomeAgrees, Progress, Final, HoldsClaim
  <2>7. QED  BY <2>4, <2>5, <2>6 DEF IInv
<1>5. ASSUME NEW w \in Workers, AbandonClaimed(w), HoldsClaim(w)
      PROVE  IInv'
  <2>1. form = "approved" /\ notified = 0
    BY <1>0, <1>5 DEF AbandonClaimed, Progress, Undecided, HoldsClaim, Final
  <2>2. start' = "abandoned" /\ UNCHANGED <<claim, lease, eventID, form, exec, notified>>
    BY <1>5 DEF AbandonClaimed
  <2>3. pc' = [pc EXCEPT ![w] = "idle"] /\ tok' = [tok EXCEPT ![w] = NoToken]
        /\ event' \in {event, "done"}
    BY <1>5 DEF AbandonClaimed, Succeed, Leave, Goto
  <2>4. TypeOK'
    BY <1>0, <2>2, <2>3 DEF TypeOK, Steps
  <2>5. NoRepair' /\ TokensHeld'
    BY <1>0, <2>2, <2>3 DEF NoRepair, TokensHeld, TypeOK, Repairing
  <2>6. Undecided' /\ OutcomeAgrees' /\ Progress'
    BY <2>1, <2>2 DEF Undecided, OutcomeAgrees, Progress, Final, HoldsClaim
  <2>7. QED  BY <2>4, <2>5, <2>6 DEF IInv
<1>6. CASE Others
  <2>1. CASE UNCHANGED <<start, form, notified>> /\ exec' \in {exec, "open", "closed"}
             /\ (exec = "none" => UNCHANGED exec)
    <3>1. TypeOK' /\ NoRepair' /\ TokensHeld'
      BY <1>0, <1>6, <2>1 DEF Others, TypeOK, NoRepair, TokensHeld
    <3>2. Undecided' /\ OutcomeAgrees' /\ Progress'
      BY <1>0, <1>6, <2>1 DEF Others, Undecided, OutcomeAgrees, Progress, Final, HoldsClaim
    <3>3. QED  BY <3>1, <3>2 DEF IInv
  <2>2. CASE CancelPending
    <3>1. TypeOK' /\ NoRepair' /\ TokensHeld'
      BY <1>0, <1>6, <2>2 DEF CancelPending, Others, TypeOK, NoRepair, TokensHeld
    <3>2. Undecided' /\ OutcomeAgrees' /\ Progress'
      BY <1>0, <2>2 DEF CancelPending, Cancellable, Undecided, OutcomeAgrees, Progress,
                        Final, HoldsClaim
    <3>3. QED  BY <3>1, <3>2 DEF IInv
  <2>3. CASE Decide
    <3>1. TypeOK' /\ NoRepair' /\ TokensHeld'
      BY <1>0, <1>6, <2>3 DEF Decide, Others, TypeOK, NoRepair, TokensHeld, run
    <3>2. Undecided' /\ OutcomeAgrees' /\ Progress'
      BY <1>0, <2>3 DEF Decide, Undecided, OutcomeAgrees, Progress, Final, HoldsClaim, run
    <3>3. QED  BY <3>1, <3>2 DEF IInv
  <2>4. QED  BY <1>6, <2>1, <2>2, <2>3 DEF Others
<1>7. QED  BY <1>1, <1>2, <1>3, <1>4, <1>5, <1>6, StepKinds DEF Worker

\* A run that names its event keeps the invariant for ever.
LEMMA Invariance ==
    ASSUME EventRecorded = TRUE
    PROVE  Spec => []IInv
<1>1. Init => IInv  BY InitIInv
<1>2. IInv /\ [Next]_vars => IInv'  BY NextIInv
<1>3. QED  BY <1>1, <1>2, PTL DEF Spec

-----------------------------------------------------------------------------
\* Every reachable state is well typed, and approvers are told at most once.
THEOREM TypeCorrect ==
    ASSUME EventRecorded = TRUE
    PROVE  Spec => []TypeOK
<1>1. IInv => TypeOK  BY DEF IInv
<1>2. QED  BY <1>1, Invariance, PTL

\* What the handler read before it called Temporal holds until it can no longer
\* mark the run started.
THEOREM ReadStaysValid ==
    ASSUME EventRecorded = TRUE
    PROVE  Spec => []FormStillInReview
<1>1. IInv => FormStillInReview  BY DEF IInv, Progress, FormStillInReview
<1>2. QED  BY <1>1, Invariance, PTL

\* The resolved start agrees with the execution, the form and the notifications.
THEOREM OutcomesAgree ==
    ASSUME EventRecorded = TRUE
    PROVE  Spec => []OutcomeAgrees
<1>1. IInv => OutcomeAgrees  BY DEF IInv
<1>2. QED  BY <1>1, Invariance, PTL

\* Only the holder of the claim resolves or returns a leased start.
THEOREM Fencing ==
    ASSUME EventRecorded = TRUE
    PROVE  Spec => LeaseFences
<1>1. IInv /\ [Next]_vars =>
        [start = "starting" /\ lease /\ start' # start =>
            \E w \in Workers : claim = tok[w] /\ pc'[w] # pc[w]]_vars
  <2>1. SUFFICES ASSUME IInv, [Next]_vars, start = "starting", lease, start' # start
                 PROVE  \E w \in Workers : claim = tok[w] /\ pc'[w] # pc[w]
    OBVIOUS
  <2>2. ~Others
    BY <2>1 DEF Others, CancelPending, Cancellable, Decide, run
  <2>3. PICK w \in Workers : Worker(w)
    BY <2>1, <2>2, StepKinds
  <2>4. ~Walk(w) /\ ~Claims(w)
    BY <2>1 DEF Walk, run, Claims, Take, Claimable
  <2>5. HoldsClaim(w) /\ pc'[w] \in {"idle", "defer"}
    BY <2>1, <2>3, <2>4 DEF Worker, Releases, Mark, AbandonClaimed, Succeed, Leave, Goto, IInv, TypeOK
  <2>6. pc[w] \in Holding
    BY <2>1, <2>5, HolderTyped
  <2>7. QED  BY <2>5, <2>6 DEF HoldsClaim, Holding
<1>2. QED  BY <1>1, Invariance, PTL DEF Spec, LeaseFences

-----------------------------------------------------------------------------
\* The table and its workers implement StartOnce: a start is resolved once, and
\* approvers are told in the step that starts it.
LEMMA InitOnce == Init => Once!OnceInit
BY DEF Init, Once!OnceInit, Final

LEMMA StepOnce ==
    ASSUME IInv, [Next]_vars
    PROVE  [Once!OnceNext]_Once!svars
<1>0. TypeOK /\ Undecided /\ Progress
  BY DEF IInv
<1> USE DEF Once!OnceNext, Once!Start, Once!Abandon, Once!svars, Final
<1>1. ASSUME NEW w \in Workers, Walk(w)
      PROVE  UNCHANGED Once!svars
  BY <1>1 DEF Walk, run
<1>2. ASSUME NEW w \in Workers, Claims(w)
      PROVE  UNCHANGED Once!svars
  BY <1>2 DEF Claims, Take, Claimable
<1>3. ASSUME NEW w \in Workers, Releases(w)
      PROVE  UNCHANGED Once!svars
  BY <1>3 DEF Releases, HoldsClaim
<1>4. ASSUME NEW w \in Workers, Mark(w)
      PROVE  Once!Start
  BY <1>0, <1>4 DEF Mark, HoldsClaim, Progress, Undecided
<1>5. ASSUME NEW w \in Workers, AbandonClaimed(w), HoldsClaim(w)
      PROVE  Once!Abandon
  BY <1>5 DEF AbandonClaimed, HoldsClaim
<1>6. CASE Others
  BY <1>6 DEF Others, CancelPending, Cancellable, Decide, run
<1>7. QED  BY <1>1, <1>2, <1>3, <1>4, <1>5, <1>6, StepKinds DEF Worker

THEOREM Refinement ==
    ASSUME EventRecorded = TRUE
    PROVE  Spec => ImplementsStartOnce
<1>1. Init => Once!OnceInit  BY InitOnce
<1>2. IInv /\ [Next]_vars => [Once!OnceNext]_Once!svars  BY StepOnce
<1>3. QED  BY <1>1, <1>2, Invariance, PTL DEF Spec, ImplementsStartOnce, Once!OnceSpec
=============================================================================
