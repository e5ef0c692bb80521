-------------------------- MODULE AgentDefinitions --------------------------
(***************************************************************************)
(* An agent definition, its draft and its published revision               *)
(* (src/internal/service/agent/agent_admin_service.go and its statements   *)
(* in agent_admin.sql.go).  A request reads the agent first and writes the *)
(* whole row in a later transaction; only saves and rollbacks claim the    *)
(* draft they were based on.  Editors, publishers and those who change the *)
(* models come between the two.  One agent: a statement touches one.       *)
(***************************************************************************)
EXTENDS AgentModels, Integers, FiniteSets

CONSTANTS
    Contents,           \* what else a revision holds: prompts, tools, members
    Requests,           \* requests in flight
    MaxRevision,        \* bound: the highest revision number
    MaxModelChanges     \* bound: saves and deletions of models

ASSUME DefinitionsAssumption ==
    Contents # {} /\ MaxRevision \in Nat \ {0} /\ MaxModelChanges \in Nat

VARIABLES
    agent,      \* agents: its life, draft and published revision (0: none), next number
    revisions,  \* agent_revisions, by number
    request,    \* what each request has read and will write
    modelChanges

defVars == <<connection, agent, revisions, request, modelChanges>>

Numbers == 1..MaxRevision
Designs == [model : Models, content : Contents]
\* pins: the checksum of the model when it was saved; base: the draft it replaced.
Revisions == [stored : BOOLEAN, design : Designs, pins : Readings, base : 0..MaxRevision]
Kinds == {"idle", "save", "rollback", "publish", "unpublish", "delete", "dropModel"}

DefTypeOK ==
    /\ connection \in [Models -> Rows]
    /\ agent \in [life : {"none", "active", "archived"}, draft : 0..MaxRevision,
                  published : 0..MaxRevision, next : 1..MaxRevision + 1]
    /\ revisions \in [Numbers -> Revisions]
    /\ request \in [Requests -> [kind : Kinds, draft : 0..MaxRevision, published : 0..MaxRevision,
                                 design : Designs, broken : BOOLEAN]]
    /\ modelChanges \in 0..MaxModelChanges

NoDesign == [model |-> CHOOSE m \in Models : TRUE, content |-> CHOOSE c \in Contents : TRUE]
NoRevision == [stored |-> FALSE, design |-> NoDesign, base |-> 0,
               pins |-> [status |-> "disabled", config |-> CHOOSE c \in Configs : TRUE]]
NoRequest(broken) == [kind |-> "idle", draft |-> 0, published |-> 0, design |-> NoDesign, broken |-> broken]

DefInit ==
    /\ ModelsInit
    /\ agent = [life |-> "none", draft |-> 0, published |-> 0, next |-> 1]
    /\ revisions = [n \in Numbers |-> NoRevision]
    /\ request = [r \in Requests |-> NoRequest(FALSE)]
    /\ modelChanges = 0

Known == agent.life # "none"
Larger(a, b) == IF a < b THEN b ELSE a

-----------------------------------------------------------------------------
\* The statements

\* UpsertAgentDefinition and the pointers of its follow-up: the agent is active,
\* whatever it was.
Upserted(draft, published) ==
    agent' = [life |-> "active", draft |-> draft, published |-> published,
              next |-> Larger(agent.next, draft + 1)]

\* InsertAgentDefinitionVersion after the insert of the upsert: a number that is
\* taken keeps its revision, but for the checksum of one that is not published.
Inserted(n, design, published) ==
    revisions' = [revisions EXCEPT ![n] =
        IF ~@.stored THEN [stored |-> TRUE, design |-> design, pins |-> Reading(design.model), base |-> agent.draft]
        ELSE IF published # n THEN [@ EXCEPT !.pins = Reading(design.model)]
        ELSE @]

\* Mutant: the draft is not compared with the one that was read.
Claimable_Any(draft) == agent.life = "active"

\* ClaimAgentDefinitionRevision: the draft is the one the request has read.
Claimable(draft) == agent.life = "active" /\ agent.draft = draft

\* Mutant: a new revision takes the number after the one that was read.
Claimed_Follows(draft) == draft + 1

\* The number it returns, whether a revision is to be created or not.
Claimed(draft) == agent.next

-----------------------------------------------------------------------------
\* Definitions

CreateDefinition ==
    /\ ~Known
    /\ \E design \in Designs :
        /\ Stored(design.model)
        /\ Upserted(1, 0) /\ Inserted(1, design, 0)
    /\ UNCHANGED <<connection, request, modelChanges>>

Reads(r, kind, design) ==
    /\ request[r].kind = "idle" /\ Known
    /\ request' = [request EXCEPT ![r] = [kind |-> kind, draft |-> agent.draft, design |-> design,
                                          published |-> agent.published, broken |-> FALSE]]
    /\ UNCHANGED <<connection, agent, revisions, modelChanges>>

\* A published revision after the draft is refused.
ReadForSave(r) ==
    /\ agent.published <= agent.draft
    /\ \E design \in Designs : Stored(design.model) /\ Reads(r, "save", design)

ReadForRollback(r) ==
    /\ agent.published <= agent.draft
    /\ \E n \in Numbers : revisions[n].stored /\ Reads(r, "rollback", revisions[n].design)

ReadForPublish(r) == Reads(r, "publish", NoDesign)
ReadForUnpublish(r) == Reads(r, "unpublish", NoDesign)

\* The answer: done or refused, or broken by a statement.
Ends(r, broken) == request' = [request EXCEPT ![r] = NoRequest(broken)]

\* A rollback always makes a revision, a save only of what is not in its draft.
Creates(r) ==
    request[r].kind = "rollback" \/ request[r].design # revisions[request[r].draft].design

Saves(r) ==
    \/ /\ ~Claimable(request[r].draft) /\ Ends(r, FALSE)
       /\ UNCHANGED <<agent, revisions>>
    \/ /\ Claimable(request[r].draft) /\ Creates(r)
       /\ LET n == Claimed(request[r].draft)
          IN  /\ n <= MaxRevision
              /\ Upserted(n, request[r].published)
              /\ Inserted(n, request[r].design, request[r].published)
       /\ Ends(r, FALSE)
    \/ \* Nothing to create: the number returned is not that of the draft, whose id
       \* the upsert inserts again.
       /\ Claimable(request[r].draft) /\ ~Creates(r)
       /\ Ends(r, Claimed(request[r].draft) # request[r].draft)
       /\ UNCHANGED <<agent, revisions>>

WriteSave(r) ==
    /\ request[r].kind \in {"save", "rollback"} /\ Saves(r)
    /\ UNCHANGED <<connection, modelChanges>>

WritePublish(r) ==
    /\ request[r].kind = "publish"
    /\ Upserted(request[r].draft, request[r].draft)
    /\ Ends(r, FALSE)
    /\ UNCHANGED <<connection, revisions, modelChanges>>

\* Mutant: an unpublication stores the draft it has read and leaves the publication.
WriteUnpublish_DraftOnly(r) ==
    /\ request[r].kind = "unpublish"
    /\ Upserted(request[r].draft, agent.published)
    /\ Ends(r, FALSE)
    /\ UNCHANGED <<connection, revisions, modelChanges>>

WriteUnpublish(r) ==
    /\ request[r].kind = "unpublish"
    /\ Upserted(request[r].draft, 0)
    /\ Ends(r, FALSE)
    /\ UNCHANGED <<connection, revisions, modelChanges>>

\* Read and written in one transaction, in two statements.
ReadForDelete(r) == agent.published = 0 /\ Reads(r, "delete", NoDesign)

WriteDelete(r) ==
    /\ request[r].kind = "delete"
    /\ agent' = [agent EXCEPT !.life = "archived"]
    /\ Ends(r, FALSE)
    /\ UNCHANGED <<connection, revisions, modelChanges>>

-----------------------------------------------------------------------------
\* The models

ModelChanged == modelChanges < MaxModelChanges /\ modelChanges' = modelChanges + 1

WriteModel(m) ==
    /\ ModelChanged
    /\ \E row \in Readings : UpsertModel(m, row)
    /\ UNCHANGED <<agent, revisions, request>>

\* ListAgentDefinitionRefsByModel: the revisions an active agent points at.
Uses(m) ==
    /\ agent.life = "active"
    /\ \E n \in {agent.draft, agent.published} \ {0} : revisions[n].design.model = m

\* The transaction looks for agents first and archives the model then.
ReadForDropModel(r, m) ==
    /\ request[r].kind = "idle" /\ Stored(m) /\ ~Uses(m)
    /\ request' = [request EXCEPT ![r] = [NoRequest(FALSE) EXCEPT !.kind = "dropModel", !.design.model = m]]
    /\ UNCHANGED <<connection, agent, revisions, modelChanges>>

WriteDropModel(r) ==
    /\ request[r].kind = "dropModel" /\ ModelChanged
    /\ ArchiveModel(request[r].design.model)
    /\ Ends(r, FALSE)
    /\ UNCHANGED <<agent, revisions>>

-----------------------------------------------------------------------------
DefNext ==
    \/ CreateDefinition
    \/ \E r \in Requests :
        \/ ReadForSave(r) \/ ReadForRollback(r) \/ WriteSave(r)
        \/ ReadForPublish(r) \/ WritePublish(r) \/ ReadForUnpublish(r) \/ WriteUnpublish(r)
        \/ ReadForDelete(r) \/ WriteDelete(r)
        \/ \E m \in Models : ReadForDropModel(r, m)
        \/ WriteDropModel(r)
    \/ \E m \in Models : WriteModel(m)

DefSpec == DefInit /\ [][DefNext]_defVars

-----------------------------------------------------------------------------
\* Properties

\* A revision is what it was when it was saved, pinned checksum included: what is
\* published, audited or rolled back to never changes under its number, although
\* both statements of a save write over a number that is taken
\* (UpsertAgentDefinition, InsertAgentDefinitionVersion, DeleteModel's comment).
RevisionsImmutable ==
    [][\A n \in Numbers : revisions[n].stored => revisions'[n] = revisions[n]]_defVars

\* Of two saves that started from one draft only the first is stored, or the
\* draft went back in between: a save replaces the draft its author has seen
\* (UpdateDefinition, RollbackDefinition).
NoDraftOverwritten ==
    [][\A r \in Requests : request[r].kind \in {"save", "rollback"} /\ agent' # agent /\ request'[r] # request[r]
        => /\ revisions'[agent'.draft].base = request[r].draft
           /\ revisions'[agent'.draft].design = request[r].design]_defVars

\* No agent is published at a revision after its draft, which every further save
\* and rollback would be refused for (normalizeAgentDefinition), whatever stale
\* publications and unpublications have written.
PublishedNotAhead == agent.published <= agent.draft

\* "Verifies the draft version, and reserves the next number when one is needed"
\* (internal/repository/postgres/store.go:3358): a save that changes nothing is no error.
SavesSucceed == \A r \in Requests : ~request[r].broken

=============================================================================
