---------------------------- MODULE FormApproval ----------------------------
(***************************************************************************)
(* One form from draft to decision                                         *)
(* (src/internal/service/workflow_service.go, workflow_runtime_service.go, *)
(* workflow_temporal_service.go and the Temporal workflow of               *)
(* src/internal/platform/temporal/workflows/form_approval.go).  Editors    *)
(* update, submit and delete it; every submission makes a run; reviewers   *)
(* signal the Temporal execution of the run, whose activities, one signal  *)
(* after the other, write the decision to the run and the form.            *)
(*                                                                         *)
(* Automatic stages (notify, condition) complete in the transaction that   *)
(* reaches them, so a stage here is a stage with approvers and Follow says *)
(* which ones can be next, whatever the conditions between them decide.    *)
(* The delivery of the start is one step: WorkflowStart.tla is its model.  *)
(* The version of the form row is the set of editors that read it since it *)
(* was last written.                                                       *)
(***************************************************************************)
EXTENDS Naturals, Sequences, FiniteSets

CONSTANTS
    Accounts, Stages, End,
    First,          \* what a submission may reach first
    Follow,         \* what completing a stage may reach
    Assignees,      \* whom a stage resolves to
    All,            \* the stages that wait for all of them
    Distinct,       \* the stages that want somebody who has not approved yet
    Commands, By, Action,   \* commands: one idempotency key, account and action each
    Editors, Ops,   \* requests of editors, and what they may be
    Overlap,        \* whether an attempt that was given up can still commit
    MaxRuns, MaxQueue, MaxTries

Runs == 1..MaxRuns

ASSUME ApprovalAssumption ==
    /\ End \notin Stages
    /\ First \subseteq Stages \cup {End}
    /\ Follow \in [Stages -> SUBSET (Stages \cup {End})]
    /\ Assignees \in [Stages -> SUBSET Accounts]
    /\ All \subseteq Stages /\ Distinct \subseteq Stages
    /\ By \in [Commands -> Accounts]
    /\ Action \in [Commands -> {"approve", "reject", "return", "withdraw"}]
    /\ Ops \subseteq {"update", "submit", "delete"}
    /\ Overlap \in BOOLEAN
    /\ MaxRuns \in Nat /\ MaxQueue \in Nat /\ MaxTries \in Nat \ {0}

VARIABLES
    form,       \* status of the form instance; "none" once it is deleted
    current,    \* its latest run
    editing,    \* what each editor read the form for, and the status it read
    fresh,      \* the editors whose copy of the form is current
    run,        \* the runs with their stage instances, assignees and actions
    asked,      \* the run a command was accepted for and not yet signalled to
    exec,       \* the Temporal execution of each run
    work        \* attempts of the activity that applies a signal

vars == <<form, current, editing, fresh, run, asked, exec, work>>

Statuses == {"draft", "in_review", "returned", "approved", "rejected", "cancelled"}

StageInstances ==
    [stage : Stages, status : {"active", "completed", "rejected", "skipped"},
     who : [Accounts -> {"none", "pending", "approved", "rejected", "returned"}]]

\* One action of the log: on which stage instance, and from whose execution.
Entries == [cmd : Commands, on : Nat, via : Runs]

RunRecords ==
    [status : {"none", "running", "completed", "returned", "cancelled"},
     start : {"pending", "started", "abandoned"},
     at : Nat, stages : Seq(StageInstances), log : Seq(Entries)]

Execs ==
    [phase : {"none", "wait", "apply", "commit", "load", "reload", "closed"},
     queue : Seq(Commands), tries : 0..MaxTries,
     key : (0..MaxRuns) \X Nat, reminded : SUBSET (Runs \X Nat)]

Attempts == [via : Runs, cmd : Commands, run : 0..MaxRuns, on : Nat, live : BOOLEAN]

NoRun == [status |-> "none", start |-> "pending", at |-> 0, stages |-> <<>>, log |-> <<>>]

NoExec == [phase |-> "none", queue |-> <<>>, tries |-> 0,
           key |-> <<0, 0>>, reminded |-> {}]

Idle == [op |-> "idle", status |-> "draft"]

TypeOK ==
    /\ form \in Statuses \cup {"none"}
    /\ current \in 0..MaxRuns
    /\ editing \in [Editors -> [op : Ops \cup {"idle"}, status : {"draft", "returned"}]]
    /\ fresh \subseteq Editors
    /\ run \in [Runs -> RunRecords]
    /\ asked \in [Commands -> 0..MaxRuns]
    /\ exec \in [Runs -> Execs]
    /\ work \subseteq Attempts

Init ==
    /\ form = "draft"
    /\ current = 0
    /\ editing = [p \in Editors |-> Idle]
    /\ fresh = {}
    /\ run = [r \in Runs |-> NoRun]
    /\ asked = [c \in Commands |-> 0]
    /\ exec = [r \in Runs |-> NoExec]
    /\ work = {}

-----------------------------------------------------------------------------
\* What reaching the next stage does to a run

Range(f) == {f[x] : x \in DOMAIN f}

Approvals(log) == {e \in Range(log) : Action[e.cmd] = "approve"}

Resolved_Unfiltered(s, log) == Assignees[s]

Resolved(s, log) ==
    IF s \in Distinct THEN Assignees[s] \ {By[e.cmd] : e \in Approvals(log)} ELSE Assignees[s]

\* A stage that resolves to nobody is an error, and rolls back what reached it.
CanReach(next, log) == next # End => Resolved(next, log) # {}

Opened(s, log) ==
    [stage |-> s, status |-> "active",
     who |-> [a \in Accounts |-> IF a \in Resolved(s, log) THEN "pending" ELSE "none"]]

Reach(rr, next) ==
    IF next = End THEN [rr EXCEPT !.status = "completed", !.at = 0]
    ELSE [rr EXCEPT !.at = Len(rr.stages) + 1, !.stages = Append(@, Opened(next, rr.log))]

\* Every write of the form row outdates the copies that editors have.
Write(status) == form' = status /\ fresh' = {}

\* The latest run of the form; deleting the form deletes its runs.
HasRun == current \in Runs /\ run[current].status # "none"

-----------------------------------------------------------------------------
\* Editors

Editable == {"draft", "returned"}

Read(p, op) ==
    /\ editing[p] = Idle /\ form \in Editable
    /\ op = "delete" => form = "draft"
    /\ op = "submit" => current < MaxRuns
    /\ editing' = [editing EXCEPT ![p] = [op |-> op, status |-> form]]
    /\ fresh' = fresh \cup {p}
    /\ UNCHANGED <<form, current, run, asked, exec, work>>

Conflicts_Never(p) == FALSE

\* The version is compared by the upsert's update; without a row it inserts.
Conflicts(p) == form # "none" /\ p \notin fresh

Done(p) == editing' = [editing EXCEPT ![p] = Idle]

\* The request ends with an error and its transaction leaves nothing behind.
Refused(p) ==
    /\ \/ editing[p].op \in {"update", "submit"} /\ Conflicts(p)
       \/ editing[p].op = "submit" /\ \E s \in First : ~CanReach(s, <<>>)
    /\ Done(p)
    /\ UNCHANGED <<form, current, fresh, run, asked, exec, work>>

Update(p) ==
    /\ editing[p].op = "update" /\ ~Conflicts(p)
    /\ Write(editing[p].status)
    /\ Done(p)
    /\ UNCHANGED <<current, run, asked, exec, work>>

Submit(p) ==
    /\ editing[p].op = "submit" /\ ~Conflicts(p)
    /\ current < MaxRuns /\ current' = current + 1
    /\ \E s \in First :
        /\ CanReach(s, <<>>)
        /\ run' = [run EXCEPT ![current'] = Reach([NoRun EXCEPT !.status = "running"], s)]
        /\ Write(IF s = End THEN "approved" ELSE "in_review")
    /\ Done(p)
    /\ UNCHANGED <<asked, exec, work>>

\* The row is deleted by its id alone, and its runs with it.
Delete(p) ==
    /\ editing[p].op = "delete"
    /\ Write("none")
    /\ run' = [r \in Runs |-> NoRun]
    /\ Done(p)
    /\ UNCHANGED <<current, asked, exec, work>>

-----------------------------------------------------------------------------
\* The start of a run

Running(r) == r \in Runs /\ run[r].status = "running"

Deliver(r) ==
    /\ run[r].status # "none" /\ run[r].start = "pending"
    /\ IF r = current /\ Running(r)
       THEN /\ run' = [run EXCEPT ![r].start = "started"]
            /\ exec' = [exec EXCEPT ![r].phase = "reload"]
       ELSE /\ run' = [run EXCEPT ![r].start = "abandoned"]
            /\ UNCHANGED exec
    /\ UNCHANGED <<form, current, editing, fresh, asked, work>>

Skip(rr) ==
    [rr EXCEPT !.status = "cancelled", !.at = 0,
               !.stages = IF rr.at = 0 THEN @ ELSE [@ EXCEPT ![rr.at].status = "skipped"]]

CancelPending_FormOnly ==
    /\ HasRun /\ run[current].start = "pending"
    /\ run' = [run EXCEPT ![current].start = "abandoned"]
    /\ Write("cancelled")
    /\ UNCHANGED <<current, editing, asked, exec, work>>

CancelPending ==
    /\ HasRun /\ run[current].start = "pending"
    /\ run' = [run EXCEPT ![current] = [Skip(run[current]) EXCEPT !.start = "abandoned"]]
    /\ Write("cancelled")
    /\ UNCHANGED <<current, editing, asked, exec, work>>

-----------------------------------------------------------------------------
\* Reviewers and applicants

Started == HasRun /\ run[current].start = "started"

\* The latest run waits at a stage, as the readers of the form see it.
Active == Started /\ Running(current) /\ run[current].at # 0

Pending(r, i, a) == i \in DOMAIN run[r].stages /\ run[r].stages[i].who[a] = "pending"

HasReceipt_Never(r, c) == FALSE

HasReceipt(r, c) == \E e \in Range(run[r].log) : e.cmd = c

\* The command is checked against the form before it is signalled.
Request(c) ==
    /\ asked[c] = 0 /\ Started /\ ~HasReceipt(current, c)
    /\ Action[c] # "withdraw" => Active /\ Pending(current, run[current].at, By[c])
    /\ asked' = [asked EXCEPT ![c] = current]
    /\ UNCHANGED <<form, current, editing, fresh, run, exec, work>>

\* The signal goes to the execution of that run; one that is over takes none.
Signal(c) ==
    /\ asked[c] # 0
    /\ LET r == asked[c] IN
        \/ /\ exec[r].phase # "closed" /\ Len(exec[r].queue) < MaxQueue
           /\ exec' = [exec EXCEPT ![r].queue = Append(@, c)]
        \/ exec[r].phase = "closed" /\ UNCHANGED exec
    /\ asked' = [asked EXCEPT ![c] = 0]
    /\ UNCHANGED <<form, current, editing, fresh, run, work>>
-----------------------------------------------------------------------------
\* The activity that applies a signal.  The signal stays at the head of the
\* queue until the activity has ended.

Move(r, phase) == exec' = [exec EXCEPT ![r].phase = phase]

Settled(r) == [exec EXCEPT ![r].phase = "wait", ![r].queue = Tail(@)]

Settle(r) == exec' = Settled(r)

Receive(r) ==
    /\ exec[r].phase = "wait" /\ exec[r].queue # <<>>
    /\ exec' = [exec EXCEPT ![r].phase = "apply", ![r].tries = 0]
    /\ UNCHANGED <<form, current, editing, fresh, run, asked, work>>

OfCurrentRun_Unchecked(r) == TRUE

OfCurrentRun(r) == r = current

\* An attempt begins: is the signal for the latest run, and is it new?
Begin(r) ==
    /\ exec[r].phase = "apply"
    /\ LET c == Head(exec[r].queue) IN
        \/ /\ HasRun /\ (~OfCurrentRun(r) \/ HasReceipt(current, c))
           /\ Move(r, "load") /\ UNCHANGED work
        \/ ~HasRun /\ Settle(r) /\ UNCHANGED work
        \/ /\ HasRun /\ OfCurrentRun(r) /\ ~HasReceipt(current, c)
           /\ work' = work \cup {[via |-> r, cmd |-> c, run |-> 0, on |-> 0, live |-> TRUE]}
           /\ Move(r, "commit")
    /\ UNCHANGED <<form, current, editing, fresh, run, asked>>

Decision(x) == Action[x.cmd] # "withdraw"

\* A decision reads the latest run again, and the stage to lock from it.
Choose(x) ==
    /\ Decision(x) /\ x.run = 0
    /\ Started /\ ~HasReceipt(current, x.cmd) /\ run[current].at # 0
    /\ work' = (work \ {x}) \cup {[x EXCEPT !.run = current, !.on = run[current].at]}
    /\ UNCHANGED <<form, current, editing, fresh, run, asked, exec>>

\* The checks of the transaction, which holds the lock of the chosen stage.
Decidable(x) ==
    LET s == run[x.run].stages[x.on].stage IN
    /\ x.run # 0
    /\ x.run = current /\ Running(x.run) /\ run[x.run].at = x.on
    /\ Pending(x.run, x.on, By[x.cmd])
    /\ Action[x.cmd] = "approve" /\ s \in Distinct =>
           \A e \in Approvals(run[x.run].log) : By[e.cmd] = By[x.cmd] => e.on = x.on

\* The run with the action in its log.
Logged(r, x, i) == [run[r] EXCEPT !.log = Append(@, [cmd |-> x.cmd, on |-> i, via |-> x.via])]

Voted(x, vote) == [Logged(x.run, x, x.on) EXCEPT !.stages[x.on].who[By[x.cmd]] = vote]

Complete_First(s, who) == TRUE

Complete(s, who) == s \in All => \A a \in Accounts : who[a] \in {"none", "approved"}

Completes(x) ==
    LET i == Voted(x, "approved").stages[x.on] IN Complete(i.stage, i.who)

\* An approval that the stage waits for others after.
Approve(x) ==
    /\ Decidable(x) /\ Action[x.cmd] = "approve" /\ ~Completes(x)
    /\ run' = [run EXCEPT ![x.run] = Voted(x, "approved")]
    /\ UNCHANGED <<form, fresh>>

\* An approval that completes the stage moves the run on.
Advance(x) ==
    LET rr == [Voted(x, "approved") EXCEPT !.stages[x.on].status = "completed"] IN
    /\ Decidable(x) /\ Action[x.cmd] = "approve" /\ Completes(x)
    /\ \E next \in Follow[rr.stages[x.on].stage] :
        /\ CanReach(next, rr.log)
        /\ run' = [run EXCEPT ![x.run] = Reach(rr, next)]
        /\ IF next = End THEN Write("approved") ELSE UNCHANGED <<form, fresh>>

NobodyNext(x) ==
    /\ Decidable(x) /\ Action[x.cmd] = "approve" /\ Completes(x)
    /\ \E next \in Follow[run[x.run].stages[x.on].stage] :
        ~CanReach(next, Logged(x.run, x, x.on).log)

Decline(x) ==
    LET verdict == IF Action[x.cmd] = "reject" THEN "rejected" ELSE "returned"
        status == IF Action[x.cmd] = "reject" THEN "completed" ELSE "returned"
    IN  /\ Decidable(x) /\ Action[x.cmd] \in {"reject", "return"}
        /\ run' = [run EXCEPT ![x.run] =
                    [Voted(x, verdict) EXCEPT !.stages[x.on].status = "rejected",
                                              !.at = 0, !.status = status]]
        /\ Write(verdict)

\* A withdrawal reads the latest run in its transaction, whichever it is.
Withdraw(x) ==
    /\ ~Decision(x) /\ Active
    /\ run' = [run EXCEPT ![current] = Skip(Logged(current, x, run[current].at))]
    /\ Write("cancelled")

\* What it finds done already; the transaction of a decision looks again.
Repeated(x) ==
    /\ Decision(x) /\ HasRun
    /\ HasReceipt(IF x.run = 0 THEN current ELSE x.run, x.cmd)

\* Only the attempt the execution waits for moves the execution.
Report(x, next) ==
    /\ work' = work \ {x}
    /\ exec' = IF x.live THEN next ELSE exec

Reloading(r) == [exec EXCEPT ![r].phase = "load"]

Commit(x) ==
    /\ \/ ~Repeated(x) /\ (Approve(x) \/ Advance(x) \/ Decline(x) \/ Withdraw(x))
       \/ Repeated(x) /\ UNCHANGED <<form, fresh, run>>
    /\ Report(x, Reloading(x.via))
    /\ UNCHANGED <<current, editing, asked>>

Refusable(x) ==
    \/ Decision(x) /\ x.run = 0 /\ ~(Started /\ run[current].at # 0)
    \/ Decision(x) /\ x.run # 0 /\ (~Decidable(x) \/ NobodyNext(x))
    \/ ~Decision(x) /\ ~Active

\* A refusal is final for the signal, and the execution keeps what it knew.
Refuse(x) ==
    /\ ~Repeated(x) /\ Refusable(x)
    /\ Report(x, Settled(x.via))
    /\ UNCHANGED <<form, current, editing, fresh, run, asked>>

\* The attempt fails or runs out of time; after the last one the execution
\* fails.  With Overlap what it began may still commit.
Lose(x) ==
    /\ x.live
    /\ \/ work' = work \ {x}
       \/ Overlap /\ work' = (work \ {x}) \cup {[x EXCEPT !.live = FALSE]}
    /\ exec' = [exec EXCEPT ![x.via].tries = @ + 1,
                    ![x.via].phase = IF exec[x.via].tries + 1 = MaxTries THEN "closed" ELSE "apply"]
    /\ UNCHANGED <<form, current, editing, fresh, run, asked>>

Die(x) ==
    /\ ~x.live
    /\ work' = work \ {x}
    /\ UNCHANGED <<form, current, editing, fresh, run, asked, exec>>

-----------------------------------------------------------------------------
\* The execution

Over ==
    \/ form \in {"approved", "rejected", "returned", "cancelled"}
    \/ HasRun /\ run[current].status \in {"completed", "returned", "cancelled"}

\* It reads the form and the latest run, whichever run that is by now.
Load(r) ==
    /\ exec[r].phase \in {"load", "reload"}
    /\ LET applied == exec[r].phase = "load" IN
        \/ /\ form # "none" /\ ~Over
           /\ exec' = [exec EXCEPT ![r].phase = "wait", ![r].key = <<current, run[current].at>>,
                                   ![r].queue = IF applied THEN Tail(@) ELSE @]
        \/ form # "none" /\ Over /\ Move(r, "closed")
        \/ form = "none" /\ applied /\ Settle(r)
        \/ form = "none" /\ ~applied /\ Move(r, "closed")
    /\ UNCHANGED <<form, current, editing, fresh, run, asked, work>>

LoadFails(r) ==
    /\ exec[r].phase \in {"load", "reload"}
    /\ exec' = [exec EXCEPT ![r].tries = @ + 1,
                            ![r].phase = IF exec[r].tries + 1 = MaxTries THEN "closed"
                                         ELSE IF @ = "load" THEN "apply" ELSE @]
    /\ UNCHANGED <<form, current, editing, fresh, run, asked, work>>

\* Each stage instance the execution knows of is reminded once.  A reminder
\* for a form that waits for nobody is an error, and ends the execution.
Remind(r) ==
    /\ exec[r].phase = "wait"
    /\ exec[r].key[2] # 0 /\ exec[r].key \notin exec[r].reminded
    /\ Active
    /\ exec' = [exec EXCEPT ![r].phase = "reload", ![r].tries = 0,
                            ![r].reminded = @ \cup {exec[r].key}]
    /\ UNCHANGED <<form, current, editing, fresh, run, asked, work>>

ReminderFails(r) ==
    /\ exec[r].phase = "wait"
    /\ exec[r].key[2] # 0 /\ exec[r].key \notin exec[r].reminded
    /\ Move(r, "closed")
    /\ UNCHANGED <<form, current, editing, fresh, run, asked, work>>

-----------------------------------------------------------------------------
Edit(p) == Refused(p) \/ Update(p) \/ Submit(p) \/ Delete(p)

Attempt(x) == Choose(x) \/ Commit(x) \/ Refuse(x)

Execute(r) == Receive(r) \/ Begin(r) \/ Load(r)

Next ==
    \/ \E p \in Editors : Edit(p) \/ \E op \in Ops : Read(p, op)
    \/ \E r \in Runs : Deliver(r) \/ Execute(r) \/ LoadFails(r) \/ Remind(r) \/ ReminderFails(r)
    \/ CancelPending
    \/ \E c \in Commands : Request(c) \/ Signal(c)
    \/ \E x \in work : Attempt(x) \/ Lose(x) \/ Die(x)

Spec == Init /\ [][Next]_vars

\* Deliveries and executions go on, attempts end, and reviewers answer.
Fairness ==
    /\ \A r \in Runs : WF_vars(Deliver(r)) /\ WF_vars(Execute(r))
    /\ WF_vars(\E x \in work : x.live /\ Attempt(x))
    /\ \A c \in {d \in Commands : Action[d] = "approve"} : WF_vars(Request(c))
    /\ \A c \in Commands : WF_vars(Signal(c))

FairSpec == Spec /\ Fairness
-----------------------------------------------------------------------------
\* Properties

\* The form, its runs and their stages say the same: a form is in review while
\* its latest run is running, no older run is, and a running run has one active
\* stage, the one it is at.
Agreement ==
    /\ form = "in_review" <=> HasRun /\ Running(current)
    /\ \A r \in Runs :
        /\ Running(r) => r = current
        /\ Running(r) <=> run[r].at # 0
        /\ \A i \in DOMAIN run[r].stages : run[r].stages[i].status = "active" <=> i = run[r].at

ApprovedBy(r, i) == {By[e.cmd] : e \in {x \in Approvals(run[r].log) : x.on = i}}

\* A run went along its route and skipped no approver: each stage follows a
\* completed one, a completed stage has the approvals it asks for in the log,
\* and an approved form has a run that completed the last stage of a route.
ApprovedByRoute ==
    \A r \in Runs :
        LET stages == run[r].stages IN
        /\ \A i \in DOMAIN stages :
            /\ IF i = 1 THEN stages[i].stage \in First
               ELSE stages[i].stage \in Follow[stages[i-1].stage] /\ stages[i-1].status = "completed"
            /\ stages[i].status = "completed" =>
                IF stages[i].stage \in All
                THEN \A a \in Accounts : stages[i].who[a] # "none" => a \in ApprovedBy(r, i)
                ELSE ApprovedBy(r, i) # {}
        /\ r = current /\ form = "approved" =>
            IF stages = <<>> THEN End \in First
            ELSE LET last == stages[Len(stages)] IN
                 last.status = "completed" /\ End \in Follow[last.stage]

\* A stage that wants somebody new takes no approval from, and waits for no
\* approval of, somebody who approved an earlier stage of the run.
DistinctApprovers ==
    \A r \in Runs : \A i \in DOMAIN run[r].stages : \A j \in 1..(i-1) :
        run[r].stages[i].stage \in Distinct =>
            \A a \in ApprovedBy(r, j) : run[r].stages[i].who[a] = "none"

\* However often a command is signalled and its activity retried, a run has it
\* in its log once.
AppliedOnce ==
    \A r \in Runs : \A j, k \in DOMAIN run[r].log :
        run[r].log[j].cmd = run[r].log[k].cmd => j = k

\* workflow_temporal_service.go:616: a signal for an older submission never
\* changes the run of a later one.
Pinned == \A r \in Runs : \A e \in Range(run[r].log) : e.via = r

\* The form lives as FormLifecycle says.
Lifecycle == INSTANCE FormLifecycle WITH status <- form, round <- current

ImplementsLifecycle == Lifecycle!LifeSpec

\* When reviewers answer, a delivered review is decided, or its execution has
\* failed.
ReviewEnds ==
    (form = "in_review" /\ Started) ~> (form # "in_review" \/ exec[current].phase = "closed")

\* workflow_service.go:435: only a draft is deleted.  Others may be: see the run.
OnlyDraftsDeleted == [][form # "none" /\ form' = "none" => form = "draft"]_vars
=============================================================================
