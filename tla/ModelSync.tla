----------------------------- MODULE ModelSync -----------------------------
(***************************************************************************)
(* The LiteLLM routes of the agent models (src/internal/jobs/              *)
(* litellm_model_sync.go).  Every change of a model leaves an event; its   *)
(* handler, an administrator and the periodic pass of every replica read a *)
(* model, call LiteLLM and put the result on record, each in steps that    *)
(* the others and further changes come between.  Events may be handled in  *)
(* any order, again, or not at all; calls may fail after they took effect. *)
(***************************************************************************)
EXTENDS AgentModels, Naturals, FiniteSets

CONSTANTS
    Tenants,        \* tenants, in the pass listed one after the other
    Owner,          \* the tenant of each model
    Handlers,       \* dispatchers and requests that sync a single model
    Passes,         \* replicas, each with its periodic pass
    SweepEvery,     \* every how many passes the orphans are swept
    NoRoute,        \* LiteLLM has no deployment
    MaxRequests,    \* bound: requests of administrators
    MaxFaults       \* bound: calls and statements that fail

ASSUME ModelSyncAssumption ==
    /\ Owner \in [Models -> Tenants] /\ SweepEvery \in Nat \ {0} /\ NoRoute \notin Configs
    /\ Handlers \cap Passes = {} /\ MaxRequests \in Nat /\ MaxFaults \in Nat

VARIABLES
    told,       \* model_connection_state: the result of the last sync, and of what
    route,      \* LiteLLM: the configuration deployed for a model
    upserts,    \* pending agent.model.upsert events
    deletes,    \* pending agent.model.delete events
    updates,    \* UpdateModel requests that have read the row and not yet written it
    task,       \* the model a handler or a pass is syncing
    pass,       \* the pass of a replica
    changes, faults

syncVars == <<connection, told, route, upserts, deletes, updates, task, pass, changes, faults>>

Workers == Handlers \cup Passes
NoHash == [status |-> "none", config |-> CHOOSE c \in Configs : TRUE]
Hashes == Readings \cup {NoHash}

\* What a worker knows of a model: the row, and of what the last sync was.
Snapshots == [model : Models, seen : Readings, old : Hashes]

Task == [step : {"idle", "call", "report"}, of : Snapshots, ok : BOOLEAN, event : BOOLEAN]
Pass == [step : {"idle", "sync", "sweep"}, left : SUBSET Tenants, todo : SUBSET Snapshots,
         local : SUBSET Models, orphans : SUBSET Models, tick : 0..SweepEvery - 1]

SyncTypeOK ==
    /\ connection \in [Models -> Rows]
    /\ told \in [Models -> [status : {"pending", "synced", "failed"}, hash : Hashes]]
    /\ route \in [Models -> Configs \cup {NoRoute}]
    /\ upserts \in [Models -> Nat] /\ deletes \in [Models -> Nat]
    /\ updates \subseteq [model : Models, row : Readings, hash : Hashes]
    /\ task \in [Workers -> Task]
    /\ pass \in [Passes -> Pass]
    /\ changes \in 0..MaxRequests /\ faults \in 0..MaxFaults

NoReading == [status |-> "disabled", config |-> CHOOSE c \in Configs : TRUE]
NoTask == [step |-> "idle", ok |-> FALSE, event |-> FALSE,
          of |-> [model |-> CHOOSE m \in Models : TRUE, seen |-> NoReading, old |-> NoHash]]
NoPass(tick) == [step |-> "idle", left |-> {}, todo |-> {}, local |-> {}, orphans |-> {}, tick |-> tick]

SyncInit ==
    /\ ModelsInit
    /\ told = [m \in Models |-> [status |-> "pending", hash |-> NoHash]]
    /\ route = [m \in Models |-> NoRoute]
    /\ upserts = [m \in Models |-> 0] /\ deletes = [m \in Models |-> 0]
    /\ updates = {}
    /\ task = [w \in Workers |-> NoTask]
    /\ pass = [p \in Passes |-> NoPass(0)]
    /\ changes = 0 /\ faults = 0

Asked == changes < MaxRequests /\ changes' = changes + 1
Fails == faults < MaxFaults /\ faults' = faults + 1

-----------------------------------------------------------------------------
\* Administrators

\* The row and its event are written in one transaction.
Saved(m, row, hash) ==
    /\ UpsertModel(m, row)
    /\ told' = [told EXCEPT ![m] = [status |-> "pending", hash |-> hash]]
    /\ upserts' = [upserts EXCEPT ![m] = @ + 1]

CreateModel(m) ==
    /\ ~Stored(m) /\ Asked
    /\ \E row \in Readings : Saved(m, row, NoHash)
    /\ UNCHANGED <<route, deletes, updates, task, pass, faults>>

\* UpdateModel reads the row, which may be archived, outside the transaction
\* that writes every column.
ReadForUpdate(m) ==
    /\ Stored(m) /\ Asked
    /\ \E row \in Readings :
        updates' = updates \cup {[model |-> m, row |-> row, hash |-> told[m].hash]}
    /\ UNCHANGED <<connection, told, route, upserts, deletes, task, pass, faults>>

WriteUpdate(u) ==
    /\ Saved(u.model, u.row, u.hash)
    /\ updates' = updates \ {u}
    /\ UNCHANGED <<route, deletes, task, pass, changes, faults>>

\* No agent uses the model.
DeleteModel(m) ==
    /\ Stored(m) /\ Asked
    /\ ArchiveModel(m)
    /\ deletes' = [deletes EXCEPT ![m] = @ + 1]
    /\ UNCHANGED <<told, route, upserts, updates, task, pass, faults>>

-----------------------------------------------------------------------------
\* One model: read, call, put on record

Snapshot(m) == [model |-> m, seen |-> Reading(m), old |-> told[m].hash]

Started(w, snapshot, event) ==
    task' = [task EXCEPT ![w] = [step |-> "call", of |-> snapshot, ok |-> FALSE, event |-> event]]

TakeUpsert(w) ==
    /\ task[w].step = "idle"
    /\ \E m \in Models :
        /\ upserts[m] > 0 /\ upserts' = [upserts EXCEPT ![m] = @ - 1]
        /\ Started(w, Snapshot(m), TRUE)
    /\ UNCHANGED <<connection, told, route, deletes, updates, pass, changes, faults>>

SyncByAdmin(w) ==
    /\ task[w].step = "idle" /\ Asked
    /\ \E m \in Models : Stored(m) /\ Started(w, Snapshot(m), FALSE)
    /\ UNCHANGED <<connection, told, route, upserts, deletes, updates, pass, faults>>

\* Mutant: a model that was disabled is not registered again, and stays where it is.
Deployed_Kept(seen, at) == IF seen.status = "disabled" THEN at ELSE seen.config

\* The route of a model that reads so.
Deployed(seen, at) == IF seen.status = "disabled" THEN NoRoute ELSE seen.config

Reached(w) == route' = [route EXCEPT ![task[w].of.model] = Deployed(task[w].of.seen, @)]

CallLiteLLM(w) ==
    /\ task[w].step = "call"
    /\ \/ Reached(w) /\ task' = [task EXCEPT ![w].step = "report", ![w].ok = TRUE] /\ UNCHANGED faults
       \/ Fails /\ (Reached(w) \/ UNCHANGED route) /\ task' = [task EXCEPT ![w].step = "report"]
    /\ UNCHANGED <<connection, told, upserts, deletes, updates, pass, changes>>

\* What UpdateAgentModelSyncResult writes, whatever the row says by now.
Attempted(j) == IF j.ok THEN [status |-> "synced", hash |-> j.of.seen]
                     ELSE [status |-> "failed", hash |-> j.of.old]

\* An event whose handling failed is pending again, or was tried once too often.
Settled(w, ok) ==
    /\ task' = [task EXCEPT ![w] = NoTask]
    /\ \/ ~ok /\ task[w].event /\ upserts' = [upserts EXCEPT ![task[w].of.model] = @ + 1]
       \/ UNCHANGED upserts

Report(w) ==
    /\ task[w].step = "report"
    /\ told' = [told EXCEPT ![task[w].of.model] = Attempted(task[w])]
    /\ Settled(w, task[w].ok)
    /\ UNCHANGED <<connection, route, deletes, updates, pass, changes, faults>>

\* The result is not stored, or the process stops.
LoseTask(w) ==
    /\ task[w].step # "idle" /\ Fails
    /\ Settled(w, FALSE)
    /\ UNCHANGED <<connection, told, route, deletes, updates, pass, changes>>

\* The handler of a delete event does not look at the row.
HandleDelete(m) ==
    /\ deletes[m] > 0
    /\ \/ /\ route' = [route EXCEPT ![m] = NoRoute]
          /\ deletes' = [deletes EXCEPT ![m] = @ - 1] /\ UNCHANGED faults
       \/ /\ Fails
          /\ \/ route' = [route EXCEPT ![m] = NoRoute] /\ UNCHANGED deletes
             \/ deletes' = [deletes EXCEPT ![m] = @ - 1] /\ UNCHANGED route
    /\ UNCHANGED <<connection, told, upserts, updates, task, pass, changes>>

-----------------------------------------------------------------------------
\* The periodic pass

BeginPass(p) ==
    /\ pass[p].step = "idle"
    /\ pass' = [pass EXCEPT ![p] = [NoPass(@.tick) EXCEPT !.step = "sync", !.left = Tenants]]
    /\ UNCHANGED <<connection, told, route, upserts, deletes, updates, task, changes, faults>>

\* ListAgentModels: what is archived is not listed.
Listed(t) == {m \in Models : Owner[m] = t /\ connection[m].status \in {"active", "disabled"}}

\* A tenant whose models cannot be listed is left out, and the pass goes on.
ListTenant(p) ==
    /\ pass[p].step = "sync" /\ pass[p].todo = {} /\ task[p].step = "idle"
    /\ \E t \in pass[p].left :
        \/ /\ pass' = [pass EXCEPT ![p].left = @ \ {t}, ![p].local = @ \cup Listed(t),
                                   ![p].todo = {Snapshot(m) : m \in Listed(t)}]
           /\ UNCHANGED faults
        \/ Fails /\ pass' = [pass EXCEPT ![p].left = @ \ {t}]
    /\ UNCHANGED <<connection, told, route, upserts, deletes, updates, task, changes>>

\* Each model is synced as it was listed.
SyncListed(p) ==
    /\ pass[p].step = "sync" /\ task[p].step = "idle"
    /\ \E snapshot \in pass[p].todo :
        /\ Started(p, snapshot, FALSE)
        /\ pass' = [pass EXCEPT ![p].todo = @ \ {snapshot}]
    /\ UNCHANGED <<connection, told, route, upserts, deletes, updates, changes, faults>>

\* Mutant: the count of the passes is not taken modulo the sweeps.
NextTick_Unbounded(p) == NoPass(pass[p].tick + 1)

\* The ticker's next pass.
NextTick(p) == NoPass((pass[p].tick + 1) % SweepEvery)

\* Deployments of this system that no listed model accounts for.
Orphans(local) == {m \in Models : route[m] # NoRoute} \ local

Sweeps(p) == pass[p].tick = 0

EndOfSync(p) ==
    /\ pass[p].step = "sync" /\ pass[p].left = {} /\ pass[p].todo = {} /\ task[p].step = "idle"
    /\ \/ /\ Sweeps(p)
          /\ pass' = [pass EXCEPT ![p].step = "sweep", ![p].orphans = Orphans(pass[p].local)]
          /\ UNCHANGED faults
       \/ ~Sweeps(p) /\ pass' = [pass EXCEPT ![p] = NextTick(p)] /\ UNCHANGED faults
       \/ Sweeps(p) /\ Fails /\ pass' = [pass EXCEPT ![p] = NextTick(p)]
    /\ UNCHANGED <<connection, told, route, upserts, deletes, updates, task, changes>>

SweepOrphan(p, m) ==
    /\ pass[p].step = "sweep" /\ m \in pass[p].orphans
    /\ pass' = [pass EXCEPT ![p].orphans = @ \ {m}]
    /\ \/ route' = [route EXCEPT ![m] = NoRoute] /\ UNCHANGED faults
       \/ Fails /\ UNCHANGED route
    /\ UNCHANGED <<connection, told, upserts, deletes, updates, task, changes>>

EndPass(p) ==
    /\ pass[p].step = "sweep" /\ pass[p].orphans = {}
    /\ pass' = [pass EXCEPT ![p] = NextTick(p)]
    /\ UNCHANGED <<connection, told, route, upserts, deletes, updates, task, changes, faults>>

\* The process of a replica starts again, with its first pass.
Restart(p) ==
    /\ pass[p].step # "idle" /\ Fails
    /\ pass' = [pass EXCEPT ![p] = NoPass(0)]
    /\ task' = [task EXCEPT ![p] = NoTask]
    /\ UNCHANGED <<connection, told, route, upserts, deletes, updates, changes>>

-----------------------------------------------------------------------------
PassStep(p) ==
    \/ BeginPass(p) \/ ListTenant(p) \/ SyncListed(p) \/ EndOfSync(p) \/ EndPass(p)
    \/ CallLiteLLM(p) \/ Report(p)
    \/ \E m \in Models : SweepOrphan(p, m)

SyncNext ==
    \/ \E m \in Models : CreateModel(m) \/ ReadForUpdate(m) \/ DeleteModel(m) \/ HandleDelete(m)
    \/ \E u \in updates : WriteUpdate(u)
    \/ \E w \in Handlers : TakeUpsert(w) \/ SyncByAdmin(w) \/ CallLiteLLM(w) \/ Report(w)
    \/ \E w \in Workers : LoseTask(w)
    \/ \E p \in Passes : PassStep(p) \/ Restart(p)

\* A replica's ticker goes on; nothing is assumed of the events.
SyncFairness == \A p \in Passes : WF_syncVars(PassStep(p))

-----------------------------------------------------------------------------
\* Properties

Wanted(m) == IF connection[m].status = "active" THEN connection[m].config ELSE NoRoute

\* When administrators and faults are over, LiteLLM ends with the routes of
\* the active models as they were last saved and with no other: whatever late
\* handlers, stale passes, lost or given-up events and deletes that arrive
\* after a model came back have done in between (Reconcile, sweepOrphanModels).
RoutesConverge == <>[](\A m \in Models : route[m] = Wanted(m))

\* And every model that is not deleted ends on record as synced with the
\* configuration it has, although every result is written unconditionally
\* (UpdateAgentModelSyncResult).
RecordsConverge ==
    <>[](\A m \in Models : connection[m].status \in {"active", "disabled"} =>
            told[m] = [status |-> "synced", hash |-> Reading(m)])

=============================================================================
