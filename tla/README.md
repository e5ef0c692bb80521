# A verification of nexus-pro-api

nexus-pro-api is a multi-tenant HR backend in Go: HTTP services over PostgreSQL, a
transactional outbox, and background jobs that bring Temporal, OpenFGA, NATS, Keycloak,
LiteLLM and an upstream HR system (eHRMS) in line with the database. The modules of this
directory model the parts whose correctness depends on interleavings, leases, retries and
crashes. TLC checks them on small instances, TLAPS proves the most important results for
every instance, and `PROJECT.json` maps every definition to the lines it stands for.

Contents: 1 the system, 2 the plan, 3 the modules, 4 the runs, 5 fairness, 6 the proofs,
7 what the models found, 8 what is not modelled.

## 1. The system

| Component | State it keeps | Operations | Talks to |
|---|---|---|---|
| **Outbox and dispatcher** (`jobs/outbox_dispatcher.go`, `outbox_cleanup.go`, `db/queries/core.sql`) | `outbox_events`: status, attempt count, claim token, lease, next attempt | append (in the transaction of the change), claim, dispatch, finalize, operator retry, cleanup | every service that appends; the workflow start handler, model sync, NATS or OpenFGA |
| **Workflow start** (`service/workflow_temporal_service.go`, `jobs/workflow_start_reconciler.go`) | `workflow_runs.temporal_*`: start status, claim time, event id | create with its event, handle, claim, release, mark started, abandon, reconcile, repair | outbox, Temporal, form approval, notifications |
| **Form approval** (`service/workflow_service.go`, `workflow_runtime_service.go`, `workflow_temporal_service.go`, `platform/temporal/workflows/form_approval.go`) | `form_instances`, `workflow_runs`, stage instances, assignees, action log; the Temporal execution with its signal queue | update, submit, delete a draft; approve, reject, return, withdraw; cancel a pending start; remind | workflow start, leave / overtime / correction requests, notifications |
| **Leave ledger** (`service/workflow_leave_adapter.go`, `attendance_leave_*_service.go`, part of `ehrms_service.go`) | `leave_requests`, `leave_records`, `leave_balances`, the append-only `leave_balance_entries` | evaluate, reserve, release, consume, sync balances and records, match and unmatch, tombstone | form approval (reviews), eHRMS (sync) |
| **Relationship sync** (`service/relationship_tuples.go`, `jobs/openfga_consumer.go`, `natsbus`, `openfga`) | `authz_relationship_tuples`, messages of the stream, the tuples of OpenFGA, the consumer's set of processed events | change tuples, publish or write, consume, nak, give up | outbox, every service that changes authorization |
| **Employees and accounts** (`service/hr_service.go`, `hr_employee_*_service.go`, the employee part of `ehrms_service.go`) | `employees`, `accounts` with their versions, tuples | create, edit, suspend, resign, reinstate, delete, invite, sync | relationship sync, identity provisioning |
| **Identity provisioning** (`service/identity_provisioning.go`, `identity_service.go`, `platform/auth/keycloak_admin.go`) | `identity_provisioning_outbox`, `user_identities`, users of Keycloak | append, claim, ensure user, bind, record result, log in through Google | employees, Keycloak |
| **Organisation units and managers** (`service/hr_service.go`, `hr_manager_resolution.go`) | `org_units` with parent, path, closed flag, manager position | create, move, close, reopen, sync; resolve a manager | eHRMS, form approval |
| **Agent confirmations** (`service/agent_confirmation_service.go`, `external_tool_confirmation_service.go`) | `agent_confirmations`, the target that was shown | prepare, claim, check again, act, settle | agent chat, forms, external tools |
| **Model sync** (`jobs/litellm_model_sync.go`, `platform/llm/litellm_admin.go`) | `model_connections` and `model_connection_state`, deployments of LiteLLM | create, edit, delete, sync a model; handle its events; reconcile, sweep orphans | outbox, LiteLLM |
| **Agent definitions** (`service/agent/agent_admin_service.go`) | `agents` with draft, publication and next number; `agent_revisions` | create, save, roll back, publish, unpublish, delete; drop a model | models, agent chat (admission of a run) |
| **Agent chat sessions** (`service/agent/agent_chat_service.go`, `agent_session_service.go`) | `conversations` with their current segment, `conversation_messages`, `conversation_executions` | ask (recover dead runs, read the history, admit, run, complete or fail), clear the context, archive, restore | agent definitions and models, the agent runtime, confirmations |
| Authorization, IAM, HR fields, attendance, form design, agent knowledge, files, notifications, API, repositories, start-up | see `PROJECT.json` | | |

How they interact. A change and the event that announces it are one transaction; from there
on everything is at-least-once. The dispatcher claims rows with a lease and a token and calls
the handler of the row's type. For a submitted form that is the workflow start handler, which
claims the *run* with a lease of its own, because the reconciler goes through the same code
without the outbox. Reviewers do not write the database: a command is checked, signalled to
the Temporal execution of the run, and applied by an activity of that execution, in one
transaction that also writes the leave request of the form and its ledger entries.

What is hard here, and which property is about it, is the list of hazards in `PROJECT.json`.
In one paragraph: leases run out under workers that are only slow; calls to Temporal fail
after they took effect; activities are retried after their transaction committed; a form is
read, checked and written by requests that overlap; a form is returned and submitted again
while signals and executions of the earlier submission are still around; balances are read
before they are locked; an entry whose idempotency key exists is silently not written; a
grant of a tuple may overtake its revocation; a worker without a fencing token writes its
result over another's; a row without a version is written back stale; an action that was
confirmed takes effect and its answer is lost; an answer arrives after its context was cleared
or its run was taken for dead.

What makes each modelled component correct:

* Outbox: only the holder of the newest claim writes a row; budgets are kept; nothing is done
  before it was delivered; a row ends where its consumer or an operator finds it.
* Workflow start: one outcome per run, approvers told once or never, an outcome at last, and
  no outcome that contradicts the form or the execution.
* Form approval: form, run and stages agree; no stage is skipped, no approver counted twice;
  a command counts once and only for the submission it was given for; a review ends.
* Leave ledger: a form holds what its last submission took and nothing else, reservations
  stay within the balance, and eHRMS's copy of a leave is credited exactly once.
* Relationship sync: no committed change is lost without a trace, and where OpenFGA and the
  database disagree about a tuple, its last change is outstanding, unless the tuple was changed
  again before an earlier change of it was settled.
* Employees and accounts: an account that is disabled has no membership tuple and does not
  come back because somebody wrote an old copy; employee, account and owner tuples agree.
* Identity provisioning: a job that succeeded has bound its account, and where Keycloak and
  the database name different accounts an unfinished or failed job shows it.
* Organisation units: paths, parents and closed flags agree; a manager is another employee,
  from the unit or above it, in any tree.
* Agent confirmations: what reported success is not done again, and a form or a review takes
  effect once, whatever answers are lost.
* Model sync: LiteLLM and the record of the last sync end with what was last saved.
* Agent definitions: a revision never changes, a save replaces the draft its author has seen,
  and no publication is ahead of its draft.
* Agent chat sessions: nothing of one context reaches another, a run is completed exactly if
  its answer is there, a run at work is left alone, and a dead one does not block its session.

## 2. The plan

| # | Module | About | State |
|---|---|---|---|
| 1 | `Outbox`, `DurableQueue`, `OutboxProofs` | claims, leases, budgets; refinement of an abstract queue | modelled, checked, proved |
| 2 | `WorkflowStart`, `StartOnce`, `WorkflowStartProofs` | delivery of a submitted run; refinement of a single decision | modelled, checked, proved |
| 3 | `FormApproval`, `FormLifecycle`, `FormApprovalProofs` | drafts, runs, stages, signals, activities; refinement of the life of a form | modelled, checked, proved |
| 4 | `LeaveLedger`, `LeaveLedgerProofs` | reservations, reviews, eHRMS matching | modelled, checked, proved |
| 5 | `RelationshipSync`, `EmploymentProofs` | changes of tuples through outbox, NATS and the consumer | modelled, checked, proved |
| 6 | `Employment`, `EmploymentProofs` | employees, accounts, versions and the tuples that follow | modelled, checked, proved |
| 7 | `IdentityProvisioning`, `DirectoryProofs` | an outbox without fencing, the link of an identity | modelled, checked, proved |
| 8 | `OrgTree`, `DirectoryProofs` | crossing edits of a tree, managers from above | modelled, checked, proved |
| 9 | `AgentConfirmation`, `AgentProofs` | one-time execution | modelled, checked, proved |
| 10 | `AgentModels`, `ModelSync`, `AgentDefinitionsProofs` | events, reconciliation and orphan sweep against changing models | modelled, checked; typing proved |
| 11 | `AgentDefinitions`, `AgentDefinitionsProofs` | revisions, drafts and publications written back stale | modelled, checked, proved |
| 12 | `AgentSession`, `AgentProofs` | questions, dead runs and clears in a chat session | modelled, checked, proved |
| 13 | | attendance projections as operators; authorization decisions | open |

Composition. `Outbox` knows the workflow start handler as a row kind with its outcomes, and
`WorkflowStart` knows the outbox row as absent, to do or done: what one assumes of the other
is what `DurableQueue` states and `Outbox` is proved to implement. `FormApproval` takes the
delivery of a start as one step that happens once or is cancelled, which is `StartOnce`.
`LeaveLedger` takes the reviews of a form in the order `FormLifecycle` allows.
`RelationshipSync` takes the outbox row of a change as to do, done or dead, and is proved to
implement `DurableQueue` too; `Employment` extends it: every transaction on an employee hands
its tuple changes to `ApplyChanges`. `AgentModels` are the rows of the models, which `ModelSync`
carries to LiteLLM and `AgentDefinitions` binds agents to. Abstract
specifications are kept small (one or two variables) so that they say what a caller relies on.

## 3. The modules

### Outbox
One action per SQL statement (`AppendOutboxEvent`, `ClaimOutboxEvents`, `RetryOutboxEvent`,
`DeleteSucceeded`) and per step of a dispatcher (`Dispatch`, `RecordResult`, `ClaimLost`,
`StopBatch`). A worker keeps its batch, the token and the attempt counts it read, and the
result of the handler that ran: finalizing is a later step and is refused when the row's
token changed. Time is two facts, "the lease still runs" and "the next attempt is due",
and two actions let it pass. A crash, a shutdown and a database error while finalizing have
the same effect and are `StopBatch`. The handlers are external: `Outcomes` lists what each
may return, and a handler may take effect and still return an error.

### WorkflowStart
One run. A worker is a goroutine with a program counter through `HandleWorkflowStartEvent`
(read, claim, recheck, form, ensure, mark / abandon / release) and, for reconcilers, through
`ReconcilePendingWorkflowStarts` (list, repair of a run without an event id, recreate the
event, handle, defer). Each transaction is one step and everything between two transactions
may be interleaved, `Crash` included. `updated_at` is the fencing token of a claim and is one
here. The execution of Temporal is loading, open or closed. `Decide` is the review of
`FormApproval` in one step.

### FormApproval
One form with its runs. Editors are HTTP requests that read the form (`Read`) and write it
later (`Update`, `Submit`, `Delete`); the version of the row is the set of editors whose
copy is current. A command is accepted for the latest run (`Request`), signalled later
(`Signal`), received by the execution (`Receive`), and applied by attempts of an activity:
`Begin` checks the receipt and the run, `Choose` is the transaction on run, stage, assignees
and form, `Commit` ends it. Attempts are lost (`Lose`), retried up to `MaxTries`, and with
`Overlap` an attempt that was given up can still commit. Automatic stages complete in the
transaction that reaches them, so a route is `First`, `Follow` and the approvers of a stage.
`Load`, `Remind` and their failures are what an execution does besides signals.

### LeaveLedger
One annual balance. `Evaluate` is the reading before the lock, `Submit` the rest of the
submission under the lock of the balance row; reviews append entries; `SyncRecord` and
`Tombstone` are one row of the sync each, with `reconcileEHRMSLeaveRecord` in them. Entries
are a set of records with the idempotency key as in the code, and `Appended` drops an entry
whose key exists. With `Stable`, eHRMS sends a record as it first sent it until it drops it
for good; without, it edits records and brings them back.

### RelationshipSync
A transaction changes `local` and appends to `log` (`ApplyChanges`). A dispatcher takes a row
that is to do (`TakeRow`) and its handler returns success (`RowDone`) or not (`RowFails`, with
or without effect). With `stream`, handling publishes one message per event; a consumer
receives it, skips it as a duplicate, or writes, remembers and acknowledges it, each of which
may fail; `AckWaitExpires` hands it out again up to `MaxDeliver` times. `effect` is, per tuple,
the event written last, so an old event written late shows. Nothing in the code keeps two
changes of one tuple in order while both are under way, and there the older one may win. The
history variable `overlapped` has the tuples that were changed while somebody could still write
an earlier change (`Unsettled`: its row is to do, or dead and may be retried by an operator, its
message waits or is out, or a call for it has not returned) or twice in one transaction.
`RemoteFollowsLocal` is about all others: a change that is repeated, lost, handed back or
taken for a duplicate must not undo or hide one made after it was settled.

### Employment
The operations of `Kinds` are one transaction each and share their shape: the employee is
read (`Open`), the account is read (`ReadAccount`), and both are written with the tuples that
follow (`Commit`) or nothing is (`Rollback`). The account's version is `newest`: another
transaction that wrote the account since makes it false. The employee row has no version,
and a commit over a newer row is noted in `crossed`.

### IdentityProvisioning
A worker claims a job by a lease without a token and goes call by call through `EnsureUser`
(look up, update, create, verify), the check of the link and its write, and records the
result by the id of the row alone. `CreateUser` that is refused because somebody else made the
user goes on with that user and leaves the attributes alone; `VerifyUser` then asks whose it is.
`KeycloakFails` covers a call that fails and a lost answer.
`BeginLogin` and `EndLogin` are a login through Google, which checks and writes the same link.
`raced` notes a link that was overwritten after it had been checked.

### OrgTree
An edit reads the unit, its parent and the list (`BeginCreate`, `BeginUpdate`) and writes the
unit and the rows below it (`Write`); `Synchronise` writes the departments of eHRMS with their
paths. `uneven` notes that edits crossed, or that a department moved away from above a local
unit. `Inherits`, `Manages` and `ManagerOf` are the resolution of a manager as recursive
functions over the tree of any state.

### AgentConfirmation
A record says which version of its target was shown. A request claims it
(`TakeConfirmation`), looks at the target again (`CheckTarget`), acts (`Succeeds`,
`AnswerLost`, `NoEffect`) and settles it (`Settle`), or is lost with its server (`Lost`), which
leaves the record in execution. `effects` counts what the action did, `known` that it reported
success.

### AgentModels and ModelSync
`UpsertModel` and `ArchiveModel` are the two statements that write a model; every request
leaves an event with it (`Saved`, `DeleteModel`). A *worker* is whoever syncs one model: the
handler of an event (`TakeUpsert`), an administrator (`SyncByAdmin`) or the pass of a replica
(`SyncListed`). It has read the row, calls LiteLLM (`CallLiteLLM`, which may fail with or
without effect) and puts the result on record (`Report`) as it was when it read. Pending
events are counts, so they are handled in any order, come again, or are given up (`Settled`).
A pass lists tenant after tenant, syncs what it listed, and sweeps in every `SweepEvery`-th
pass (`EndOfSync`, `SweepOrphan`).

### AgentDefinitions
One agent. A request reads it (`Reads`) and writes the whole row later: a save or rollback
claims the draft it has read (`Claimable`, `Claimed`) and inserts a revision, a publication or
unpublication claims nothing. `Inserted` is the net effect of the insert in the upsert and of
the snapshot that follows it. A revision remembers the checksum of its model (`pins`) and the
draft it replaced (`base`). Deleting an agent, and deleting a model, is a check and a write
with other transactions in between.

### AgentSession
One session. A request opens it (`Open`, with the limit its model has now), fails the runs it
takes for dead (`RecoverStale`), counts the active ones and reads the history, each in a
transaction of its own, and admits its question under the row lock (`Admit`). Nothing is kept
of a request that is refused, so it may come again. The run is started without a lock
(`Start`), and its end is written under the lock (`CompleteChat`, `FailChat`) or, if that
fails, without (`FailRun`). A clear counts the active runs and writes the new segment in one
transaction, which is two steps here (`BeginClear`, `EndClear`) because the writes without a
lock may fall between them. `age` is the time since `updated_at`; `Overwritten` sets it back. A
transaction that ends reports how it ended: a commit whose answer is lost is not modelled.

### Abstract specifications
`DurableQueue` (a job is to do, done, given up; done only after delivery; the jobs of one
transaction are there together), which `Outbox` and `RelationshipSync` implement, `StartOnce` (one
decision, one notification with it, and it is taken), `FormLifecycle` (a form is edited
and submitted only while it is with the applicant, a round is decided once).

## 4. The runs

| Run | Instance | Shows |
|---|---|---|
| `outbox` | 2 dispatchers, 4 tokens, limit 2, 1 operator retry, fair; a behaviour has a limited row and one of a type nobody handles, or one row without a limit, or one whose handler may be unconfigured | one writer per claim, overtaken workers give no attempts back, `DurableQueue`, every row settles |
| `outbox_stranded` | no operator retry, fair | *violated*: an expired lease is recovered (section 7) |
| `start_resolve` | 1 dispatcher, 1 reconciler, 3 tokens, forms in review and already approved, fair | outcomes agree, leases fence, `StartOnce` with its liveness |
| `start_legacy` | the run names no event at first | what a worker has read of the form stays true, with the repair against a dispatcher |
| `start_orphan` | as `start_resolve` | *violated*: no orphan execution (section 7) |
| `approval_review` | 3 stages (any of two; all of those who have not approved; one of them again), 3 commands, an editor that submits and one that deletes, overlapping attempts, 2 tries, fair | agreement, the route, distinct approvers, each command once, the review ends |
| `approval_resubmit` | 1 stage, 2 editors that update and submit, 2 runs; the first may be returned, the second rejected, either approved or withdrawn | signals stay with their run, `FormLifecycle` |
| `approval_deleted` | 2 editors that submit and delete | *violated*: only drafts are deleted |
| `workforce` | one of six machines per behaviour, below | the safety of the components that share no table with the others |
| `progress` | one of three machines: one tuple that is written and deleted, directly or through the stream, 2 deliveries; one provisioning job with 2 workers, of which the second does not stop, 2 tries, a login of another account where nobody is linked; one chat session with 2 requests, of which the first comes under the longer of the limits 1 and 3 and may be lost, 1 clear; fair | every change and every job ends, done or visibly given up; a question comes to an end though another server stopped; transcripts are sound, runs at work are spared |
| `agents` | `models`: 1 model, 2 configurations, 1 handler, 1 replica that sweeps in every second pass, 3 requests (updates one after the other, a sync by hand of what failed), 1 fault, fair passes; or `agents`: 1 agent, 2 requests, of which the second saves and publishes, 2 models, 3 revisions, 2 changes of models | typing; routes and records end as they were last saved; revisions stay, saves follow their draft, no publication ahead of its draft |
| `definitions_unchanged` | 1 agent, 2 requests, 1 model, 2 revisions | *violated*: a save succeeds (section 7) |

The six machines of `workforce` touch no table in common, so a behaviour runs one of them and
the others rest; the variable `part` says which. `progress` and `agents` are put together in the
same way, of three and two machines; those of `agents` share the rows of the models, which each
changes by its own actions (the second only disables, enables and archives them: a change of the
configuration is the same change of the pinned checksum).

| Part | Instance | Shows |
|---|---|---|
| `staff` | 2 employees, 1 account, 2 requests; the second begins while the first is under way, and both do what changes an account or a link; nothing follows a row written back over a newer one | membership follows the account, links agree, a disabled account stays disabled |
| `tuples` | a tuple that is written and deleted; 2 dispatchers, or the stream with 1 dispatcher and 2 consumers, 2 deliveries, a memory of 1 event | nothing is forgotten, OpenFGA follows the database where changes do not overlap, the rows are a `DurableQueue` |
| `identity` | 2 jobs of 2 employees and accounts for one address, 2 workers, 2 tries, a Google login; with the first job the lease may run out, a worker may stop and Keycloak may fail, the second is done in one attempt; nothing follows a race for the link | a success holds, a disagreement is visible |
| `org` | 3 units, one of them eHRMS's, 3 people, 2 edits; an edit that is overtaken moves a unit in an open tree, and the tree is not followed past a crossing; the second unit keeps its chief | the tree is sound, managers come from above |
| `leave` | 2 forms, 2 eHRMS records, a short and a long leave, `Stable`, 2 submissions of the first form and then 1 of the second for the long leave, snapshots 0 and 2; the second record stays | each form's total, credits, matching, reservations within the balance |
| `agent` | 1 confirmation of each kind, 2 requests, 2 changes of the target, 2 effects | done once, success not repeated |

Why these bounds are enough to see something. Two workers and one row more than a worker
needs are the least with which a lease runs out under one worker while the other claims the
row, and with which a batch is abandoned with a row in it; a third token lets a claim be
overtaken twice. One row of each kind of handler covers the branches of the verdict. Two
runs are the least with which a signal is old; two editors with which a copy is stale; three
stages with which a decision leads to a stage of each sort and past it. (No route of
`approval_review` leads to a stage with nobody left: there every approval is refused, and the
review ends only by a rejection, a return or a withdrawal, which nobody is bound to make.) Two forms and two
records are the least with which a match is ambiguous or taken, two cycles with which a key
could be used again, and the snapshots 0 and 2 let none and one of the leaves fit.
Two requests are the least that cross; two changes of a tuple are the least of which one
undoes the other, and with a memory of one event the second consumer forgets the first;
three units are the least in which two moves make a loop with a unit below it; a second try
is a retry, and a second effect of a confirmed action is the one that must not happen.
Three requests on one model are a creation, and an edit that is crossed by a deletion or by
another edit; the models share nothing but the loop of a pass, whose listing and syncing are
steps apart with one model as with many. Two requests on one agent are the least that cross,
and three revisions let a draft go back and be continued under a number that was not used.
Two requests in a session are the one that dies or is slow and the one that takes it for dead;
the limits 1 and 3 differ by more than the grace of 1, so a lowered limit can hit a run at
work; two segments are the least with something from before a clear.
The bounds are constants: `MaxRetries` and `MaxAttempts` (`Outbox`), `MaxRuns`, `MaxQueue` and
`MaxTries` (`FormApproval`; the code retries three times, one retry is enough to overlap),
`MaxCycles` (`LeaveLedger`), `MaxChanges`, `MaxDeliver` and `MaxProcessed`
(`RelationshipSync`), `MaxTries` (`IdentityProvisioning`), `MaxRequests` and `MaxFaults`
(`ModelSync`), `MaxRevision` and `MaxModelChanges` (`AgentDefinitions`), `MaxVersion` and `MaxEffects`
(`AgentConfirmation`), `MaxSegment` (`AgentSession`), and the size of `Tokens` (a claim takes one that is not in use).

The MC modules cut the instances further, by conjuncts of their next-state relations that
say which of several alike actors goes first and what each of them does; every cut is in the
table and commented where it is made. None takes away a step that a fairness condition is
about. What a cut leaves out is not left open: the invariants and the action properties of
these runs are theorems (section 6), proved for every value of the constants and without the
cuts, so what the runs are for is to show that each is about something: every action fires,
and each property has a mutant of the code, in `PROJECT.json`, that violates it under the
same configuration. Only what section 6 lists as model-checked rests on the instances.

Deadlock is not checked: in every model the form, the rows, the jobs or the bounded changes
reach an end where nothing is left to do. `approval_resubmit`, which has no liveness property,
takes the two editors for symmetric: they have the same operations.

## 5. Fairness

* Outbox: time passes (`LeaseExpires`, `BackoffElapses`); the ticker of each dispatcher fires
  for ever (`ClaimOutboxEvents`); a worker that is not stopped goes on with its batch
  (`Dispatch`, `RecordResult` or `ClaimLost`). Nothing forces a crash, a retry or a handler's
  success. `EventuallySettled` therefore speaks of rows with a limit and excepts `Stranded`
  rows; rows without a limit may be retried for ever.
* Workflow start: the same for workers, tickers and leases (weak), and strong fairness for
  what is tried again and again and may be disturbed each time: a query the reconciler
  repeats succeeds at last, and some worker gets from its claim to the mark within its lease
  again and again. Without the latter Temporal could fail for ever and nothing would resolve
  the run, which is what the code says too.
* Form approval: deliveries and executions go on, an attempt in progress ends, commands that
  were accepted are signalled, and approvers send their commands. Rejecting, returning and
  withdrawing are not fair, nor is anything an editor does. An activity may fail for good and
  close the execution; `ReviewEnds` excepts that (section 8).
* Relationship sync: dispatchers tick and consumers receive, the ack wait ends, a consumer
  that has a message works on it (weak); a handler that is called again and again succeeds
  now and then (strong). A dispatcher may still give a row up, and `ChangesEnd` counts that.
  (`DeliveriesEnd` of the runs is `ChangesEnd` and `JobsEnd`.)
* Identity provisioning: leases end and tickers fire (weak). A stage of a job that workers
  keep coming to is passed at last, with success or not (strong): a lost lease sends a worker
  back any number of times, and without this the job could be taken over for ever. Keycloak
  may fail every time; the job then ends as failed.
* Model sync: the ticker of a replica goes on and its pass with it (`PassStep`, weak). Nothing
  is assumed of the handlers of the events, which may give every event up; faults are
  bounded, as anything that ends for good is in a statement about the end.
* Agent chat sessions: a request goes on, and a user whose question was refused sends it again
  (weak, on all steps of a request together); time passes for an active run, and a clear that
  has begun ends. Nothing forces a server to stop, or a session to be cleared or archived;
  clears are bounded, and `ChatsEnd` excepts a session that is archived again and again. That
  the runtime ends at its limit is an assumption (it is given a context with that deadline).
* Ledger, agents, employees, organisation, confirmations: no liveness, no fairness. What they do is
  asked for by users; a confirmation whose server stopped stays in execution.

## 6. The proofs

All theorems hold for every value of the constants under the assumptions the modules name
(`OutboxAssumption`, `StartAssumption`, `ApprovalAssumption`, `LeaveAssumption`,
`SyncAssumption`, `IdpAssumption`, `ConfirmationAssumption`, `ModelsAssumption`,
`DefinitionsAssumption`, `SessionAssumption`, `OrgAssumption`,
`EmploymentAssumption`); TLC evaluates these in the runs.
TLAPS checks about 11,900 obligations. In each module typing comes first, then one lemma per
kind of step for the strengthened invariant. Where typing, a refinement without its liveness
(`ImplementsStartOnce`) or an invariant is proved and a run checks more, the run does not repeat it
(`AttemptsWithinLimit` and the typing of `Outbox` and of the six machines of `workforce` are
proved only).

**`OutboxProofs`** — `TypeCorrect`, `Fencing` (`ClaimExclusive`), `BudgetBounded`
(`AttemptsWithinLimit`), `BudgetSpent` (`BudgetOnlySpent`), `Refinement` (`ImplementsQueue`).
`ClaimExclusive` is not inductive: nothing in it keeps a new claim from taking a token some
worker still has. The invariant `IInv` adds `Fenced` (two workers never have the same token;
a worker in the middle of an event has it in its batch; a worker that holds a row has read
the attempt count the row has), the limits of the rows and of the copies, and that a row
succeeded, and a worker has the result "ok", only for events delivered. Each kind of step has
a lemma for typing and one for the rest. The refinement goes by the kinds of steps: a claim
and a lost claim stutter, finalizing moves one job.

**`WorkflowStartProofs`** — `TypeCorrect`, `ReadStaysValid` (`FormStillInReview`),
`OutcomesAgree`, `Fencing` (`LeaseFences`), `Refinement` (`ImplementsStartOnce`), all for runs
that name their event (`EventRecorded = TRUE`, which every submission of this version
writes). The sixteen steps of a worker fall into five kinds (`Walk`, `Claims`, `Releases`,
`Mark`, and abandoning under the claim), so the invariant is proved kind by kind. It adds to
the properties that tokens are held by one worker each and only while it is past its claim
(`TokensHeld`), that a start that is not final has told nobody and has a form nobody decided
(`Undecided`), and that a holder past the reading of the form has read what is still true
(`Progress`): the applicant can cancel only a start that is pending, and a claim makes it
not pending.

**`FormApprovalProofs`** — `TypeCorrect`, `FormAndRunsAgree` (`Agreement`), `RouteFollowed`
(`ApprovedByRoute`), `ApproversDiffer` (`DistinctApprovers`), `CommandsOnce` (`AppliedOnce`),
`Refinement` (`ImplementsLifecycle`, where drafts are not deleted and no route is empty) and
`SignalsStay` (`Pinned`, where attempts do not overlap). The invariant has three parts.
`FormInv` is about the rows: each run is sound by itself (`SoundRun`: its stages, assignees and
verdict belong together) and only the latest may be in review. `Executing` ties an execution
to the runs it may still work on, and `Working` an attempt to what it has read: a receipt that
was seen is still there, and a chosen result fits the run while nobody has changed it. The
refinement adds that a run in review is undecided; `SignalsStay` adds that without overlap an
attempt that was given up has ended, so its execution has moved on before the applicant can
submit again.

**`LeaveLedgerProofs`** — `TypeCorrect`, `MatchesAgree` (`ReconAgrees`), `HoldsWhatItAsked`
(`LedgerAgrees`), `ReservesWhatIsThere` (`ReservesWithinBalance`), all also for an eHRMS that
edits its records, and `CreditsWhatIsMatched` (`CreditMatches`) for one that neither edits a
record nor brings one back (`Stable`). The first invariant keeps that what a request was told is
what its record says (`ToldSo`), that a matched record is matched once (`MatchedOnce`), and that
a record only names requests that were submitted (`AppliedClosed`). For the minutes a form
holds, `Posted` adds that the key of an entry belongs to a cycle there has been (`Known`) and
that a submission still waiting has no consumption or release yet in its cycle (`Unreviewed`):
without it a review's entry could meet its own key, add nothing, and leave the sum wrong.
For the credits, `Credited` adds that a record that is matched is like its form and has its entry
(`MatchPosted`), and that a record that lost its match is given up for good, being deleted or
fitting two forms (`Undone`), so no entry is written a second time under its key.
The sum of a set of entries is a fold over a set; the lemmas before them (`SumsExist`,
`SumsUnique`, `TotalStep`, `TotalAdd`, `TotalRemove`) show that it is what one expects.

**`EmploymentProofs`** — of the delivery: `DeliveryTypeCorrect`, `Delivered`
(`NothingForgotten`), `Faithful` (`RemoteFollowsLocal`). A row leaves the state to do
only for done or dead (`OfTheLog`); a row that is done was written or handed over to the stream
(`HandedOver`); a message is acknowledged only for an event that was written, because a
consumer remembers only such events (`Acknowledged`). `Faithful` needs an invariant about order:
of a tuple that is not overlapped only the last change can be unsettled, and once that was
written it is what was written last (`Ordered`). Each step of the pipeline keeps it because
nobody takes up what was settled (`PipelineOrdered`), a transaction because a change that meets
an unsettled one marks its tuple (`ChangesOrdered`). Then both sides have the same
(`ToldInOrder`): the tuples of the database are what the log read from its beginning leaves of
them (`LogTellsRows`), which a transaction of several changes keeps because of what a log leaves
when another is put behind it (`LeavesConcat`), and OpenFGA has what the last write it was told
left (`LastWritten`). `StaffFaithful` is the same for the transactions on employees.
`RowsQueued` (`RowsAreQueued`) is the refinement of `DurableQueue`: a change counts as delivered
when it was written or its message is in the stream, so `HandedOver` is what makes a repeated
call for a done row a stutter (`CallReturns`), and the changes of a transaction, of any number,
are submitted in one step (`ChangesSubmit`). `StaffRowsQueued` is the same for the transactions
on employees. Of the transactions: `StaffTypeCorrect`, `MembershipKept` (`MembershipFollowsAccount`), `LinksKept`
(`LinksAgree`), `DisabledStaysSo` (`DisabledStays`). What a request read of an account is so
as long as its version is the newest (`ReadFresh`), and a request that keeps the employee's
account has the account of the row it read (`KnownRequests`); what the changes of a transaction
leave of each tuple is computed change by change (`MembershipChangesAre`, `OwnerChangesAre`).

**`DirectoryProofs`** — of the units: `UnitsTypeCorrect`, `TreeKept` (`TreeSound`),
`ManagerFromAbove` (`ManagedFromAbove`). The invariant says
what an edit that was not overtaken has read (`Current`), and of a tree without crossings
that every path is `Rooted`: it ends in its unit, goes over its parent, begins with the stored
paths of the units on it (`Shaped`), and none of them is closed unless the unit is
(`ClosedUnder`). `TreeSound` speaks of a path and its parent's only; that a whole branch keeps its
paths when its top is moved needs the prefixes. A write is proved by where a unit
is: the unit itself (`UnitShaped`), one that is not below it (`OtherShaped`), one that is and is
carried along (`CarriedShaped`); then the closed flags (`WriteClosed`). For a sync, the paths
eHRMS gives are well-formed all the way down because the shortest that were not would have a parent
with a shorter one (`UpstreamUpright`). `ManagedFromAbove` holds of every tree, whatever shape it
is in: both functions that look for a manager are *climbs*, which stop at a unit or go on to another with
the unit added to those seen (`InheritsClimbs`, `ManagesClimbs`). That a climb is defined at all
(`ClimbsExist`) and says what it stopped at (`ClimbFinds`) goes by the least set of units not yet
seen; that it stops at a unit some chain of parents leads to, by the units such a chain reaches
being closed under climbing (`UphillClosed`); and that a chain no longer than the number of
units does, by the shortest one meeting no unit twice (`ShortChain`). Of the identities: `TypeCorrect`, `SuccessHolds` (`SucceededHolds`),
`DisagreementSeen` (`DisagreementVisible`). The steps of a worker are tied to the row they are
about although the worker may have lost it: what it saw of the link holds or the address is
raced (`LinkSeen`), a worker about to record a success has bound its account
(`AboutToSucceed`), a worker past the creation finds a user, his own or the one that was there
before (`UserThere`), and whom Keycloak names was named by a job (`OwnerNamed`). A success says
nothing of the attributes in Keycloak (section 7).

**`AgentProofs`** — of confirmations: `TypeCorrect`, `DoneOnce` (`TargetOnce`), `SuccessFinal`
(`NotReplayed`). At most one request is past the claim of a record (`Claimed`); an action that
reported success is about to be settled as completed or failed, or is in no request and not
pending (`Concluded`); a target that was acted on is closed (`TargetClosed`). Of sessions:
`ChatTypeCorrect`, `TranscriptsKept` (`TranscriptsSound`) and `LiveSpared` (`LiveRunsSpared`). What a
request has read lies between the segment it opened and the current one (`HistoryRead`), which
are the same when it is admitted; from then on its run, its question and its history have that
segment (`QuestionKept`) and an answer has the segment of a question (`Answering`). Answer,
status and the end of the request are one fact (`Told`), which a second writer of the run
cannot undo because the recovery only touches active runs. A run at work is no older than its
limit (`WithinLimit`), since starting it sets its age back, so only a shorter limit overtakes it.

**`AgentDefinitionsProofs`** — `TypeCorrect` (`DefTypeOK`), `PublishedBehind`
(`PublishedNotAhead`), `RevisionsStay` (`RevisionsImmutable`), `DraftsKept`
(`NoDraftOverwritten`). That no publication is ahead of its draft rests on what stale requests
still hold (`ReadOnce`: a publication they read was not ahead of the draft they read, and
both were numbers given out before), and that a revision stays on `NumbersFresh`: nothing is
stored from the next number on, so an insert never meets a number that is taken. `BothTyped`
(`TypeOK` of `MCAgents`) adds the syncs of the models (`SyncTyped`) on the rows both share.

Induction over data is done by a least counterexample: the library has it as a theorem about
well-founded relations (`WFMin`), which can be cited where its induction rule cannot, because
that one takes an operator as a parameter. The finite sets it is used on are assumed finite:
the forms (`LeaveAssumption`) and the units (`OrgAssumption`), which are rows of a table.

Every invariant and every action property of the runs that pass is a theorem. Only
model-checked is liveness (`EventuallySettled`, `ImplementsFairStartOnce`, `ReviewEnds`,
`DeliveriesEnd`, `QuestionsEnd`, and `ModelsConverge`, which is `RoutesConverge` and
`RecordsConverge` of `ModelSync`).
Liveness under fairness and ENABLED are out of the prover's reach. No module declares a
RECURSIVE operator.

## 7. What the models found

Four runs end in a violation on purpose; each is a step-by-step account of something the
code does and a comment or a message of it says it does not.

* `outbox_stranded`: the attempt count is raised by the claim, and an expired lease is
  reclaimed only below the limit. A worker that stops during the last attempt leaves the
  row in `processing` for ever; operators cannot retry it either.
* `start_orphan`: a call to Temporal that took effect and returned an error releases the
  claim. The applicant may then cancel the pending start, and an open execution stays behind.
* `approval_deleted`: deleting checks that the form is a draft and deletes by id. A
  submission that commits in between is deleted with its run.
* `definitions_unchanged`: for a save that changes nothing the claim returns the next number
  instead of the draft's, and the upsert inserts the draft's id a second time.

Steps the models take that deserve a look although no run is kept for them:

* An attempt of an activity that was given up may still commit (`Overlap = TRUE`). If it
  returned the form and the applicant submitted it again, the retry finds the new run, which
  the comment at `workflow_temporal_service.go:616` rules out; `Pinned` holds without overlap.
* A leave that was submitted without a balance is credited when eHRMS knows of it.
* A sweep compares LiteLLM with the list its pass took before it synchronised the models: the
  route of a model created since is deleted, until the next pass.
* The message for a model that changed says to publish again (`agent_service.go:304`), but
  the checksum is pinned by a save; publishing again pins nothing.
* A save writes back the publication it has read, over one made or withdrawn meanwhile; an
  unpublication writes back the draft it has read, over one saved meanwhile.
* The check of a deletion, of an agent or of a model, and the archiving are two statements
  without a lock: the agent may be published, or bound to the model, in between.
* A run that another request failed as dead may start, work and complete all the same: neither
  its start nor its completion looks at the status. While it is revived, the session is busy.
* Lowering a model's limit lets the next request fail a run that is at work and inside its own
  limit, which the comment at `repository/postgres/agent_sessions.go:247` excludes.
* A run revived between the count and the write of a clear is left in the old segment, where
  nothing finds it: the session is busy until the run is old enough to be failed.
* The history is read before the lock, and an exchange completed in between is missing in it.
* A creation that Keycloak refuses with 409 counts as done with the user there is
  (`keycloak_admin.go:475`), and that job does not write the attributes. If a Google login made
  that user between the lookup and the creation, the event succeeds and the user stays without
  `tenant_id` and `account_id`, which `ops/docs/keycloak.md:151` says a provisioning writes.

And, with no text of the repository against them: a form that was approved at its submission may be cancelled before its start is
delivered, and its leave reservation is never consumed; an execution of a returned run
follows the next run of the form; an approval that was slower than another one may count for
the next stage; an update may bring a deleted draft back; with `Stable = FALSE` a leave
record that is edited or dropped and sent again loses or keeps a credit it should not; a grant
that was not settled when its revocation was made, and is written after it, leaves the tuple in
OpenFGA; an employee
row is written back over a newer one; two moves that each were right make a loop of units,
and a department that eHRMS moves leaves the paths of local units below it behind; a link
that appears between check and write is overwritten, and the job it belonged to stays
succeeded; an external tool may act twice when its first answer was lost; a confirmation whose
server stopped stays in execution.

## 8. What is not modelled

* Outbox: tenants (they share only the loop), the payloads, the order of a claim (`ORDER BY`
  is a preference, any batch of claimable rows is taken).
* Workflow start: runs of the mode without the outbox; the backfill of `cmd/tenantctl`, a
  manual tool that starts executions for runs left behind (it skips pending, starting and
  abandoned runs).
* Form approval: creating and duplicating drafts (a fresh row), form payloads and
  permissions of the actor, notifications, the conditions of automatic stages (any outcome
  is possible), version numbers that repeat after a row was deleted and inserted again.
* Leave ledger: overtime credits, the sync modes `create` and `update`, rows the sync skips or
  fails, records that arrive before their balance, resubmission for another year or type.
  The lock order is a premise: a submission locks the balance row before it reads it again,
  and the foreign key of an entry waits for that lock.
* Relationship sync: the stream's memory of message ids ends after 24 hours, longer than any
  retry modelled; the record of a dead letter in the audit log.
* Employees: onboarding and probation (they count as active), fields, positions, manager
  tuples, the workbook import.
* Identity provisioning: passwords, the resolution of tokens to accounts, batches of more than
  one row (the rows behind one that cannot be written wait for their leases, as after a crash).
* Organisation units: managers set by hand, positions, visibility in the chart.
* Agent confirmations: what an internal action does (one effect), the items of a batch of
  reviews (one target).
* Model sync: credentials, the test of a model, the alias of a deployment (it follows from the
  model's id), the calls with which a registration looks before it writes.
* Agent definitions: the members of a team (content of a revision, with checksums of their
  own), visibility, external tools and knowledge bases and their administration; which
  deployment answers a run that was admitted while LiteLLM is behind the row.
* Agent chat sessions: titles, artifacts, attachments and memories, the streaming of an answer,
  usage figures, the 12 messages a history is cut to, the runs of the older interface.
* The components without a module, with the reason, are in `PROJECT.json`. More than half of the
  repository's lines are not control: the generated query code and the in-memory store of the
  tests repeat each statement, and row mapping, decoding of requests and rendering of answers
  make up most of the services. The models reach them through the statement or the handler
  they belong to.

## 9. Running it

    tlc -workers 2 -config Outbox_all.cfg MCOutbox.tla
    tlapm OutboxProofs.tla

with the community modules on the path. A `.cfg` is named after the module it configures and
the run it belongs to.
