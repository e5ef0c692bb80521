------------------------------ MODULE MCAgents ------------------------------
(***************************************************************************)
(* The models and the agents that use them, for one tenant: part says      *)
(* whether a behaviour takes the models to LiteLLM or changes the agents   *)
(* and, under them, the models.  The other machine rests.                  *)
(***************************************************************************)
EXTENDS ModelSync, AgentDefinitions

CONSTANTS m1, t1, c1, r1, r2

VARIABLE part

agentVars == <<agent, revisions, request, modelChanges>>
routeVars == <<told, route, upserts, deletes, updates, task, pass, changes, faults>>
allVars == <<connection, agentVars, routeVars, part>>

OneOwner == [m \in Models |-> t1]

Init == part \in {"models", "agents"} /\ SyncInit /\ DefInit

\* One model is created, active; a model that is disabled has the configuration
\* it was created with, and updates come one after the other.  An administrator
\* syncs a model whose last sync failed.
Routed ==
    /\ SyncNext
    /\ \A m \in Models \ {m1} : connection'[m] = connection[m]
    /\ ~Stored(m1) => connection'[m1] \in {connection[m1], [status |-> "active", config |-> c1]}
    /\ \A u \in updates' : u.row.status = "disabled" => u.row.config = c1
    /\ Cardinality(updates') <= 1
    /\ \A w \in Handlers :
        task[w].step = "idle" /\ task'[w].step = "call" /\ ~task'[w].event
            => told[m1].status = "failed"
    /\ UNCHANGED agentVars

\* The models of the agents have one configuration, and may be disabled.  The
\* first model is stored first, and of two idle requests the first begins.  The
\* second saves and publishes.
Edited ==
    /\ DefNext
    /\ \A m \in Models : connection'[m].config = connection[m].config
    /\ ~Stored(m1) => \A m \in Models \ {m1} : connection'[m] = connection[m]
    /\ request[r1].kind = "idle" /\ request[r2].kind = "idle" => request'[r2].kind = "idle"
    /\ request'[r2].kind \in {"idle", "save", "publish"}
    /\ UNCHANGED routeVars

Next ==
    /\ \/ part = "models" /\ Routed
       \/ part = "agents" /\ Edited
    /\ UNCHANGED part

\* The passes belong to their part.
Spec == Init /\ [][Next]_allVars

FairSpec == Spec /\ \A p \in Passes : WF_syncVars(part = "models" /\ PassStep(p))

TypeOK == SyncTypeOK /\ DefTypeOK

\* RoutesConverge and RecordsConverge of ModelSync, where the models are taken
\* to LiteLLM: its deployments and what is on record of them end as the rows
\* were last saved (LiteLLMModelSyncer.Reconcile).
ModelsConverge == part = "models" => RoutesConverge /\ RecordsConverge
=============================================================================
