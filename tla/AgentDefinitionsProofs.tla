----------------------- MODULE AgentDefinitionsProofs -----------------------
(***************************************************************************)
(* The revisions of an agent, for any number of requests, models and       *)
(* contents: typing, PublishedNotAhead, RevisionsImmutable and             *)
(* NoDraftOverwritten of AgentDefinitions, from one inductive invariant.   *)
(* Then the typing of the syncs that take the models to LiteLLM, and of    *)
(* both machines on the same models.                                       *)
(***************************************************************************)
EXTENDS MCAgents, TLAPS

\* Numbers are given out once: nothing is stored from the next one on.
NumbersFresh == \A n \in Numbers : n >= agent.next => ~revisions[n].stored

\* An agent that exists has a draft, and its numbers start after it.
DraftBehind ==
    /\ agent.life = "none" => agent.next = 1 /\ agent.draft = 0
    /\ agent.life # "none" => agent.draft > 0 /\ agent.draft < agent.next

\* What a request has read was so once.
ReadOnce ==
    \A r \in Requests :
        request[r].kind \in {"save", "rollback", "publish", "unpublish", "delete"} =>
            /\ agent.life # "none"
            /\ request[r].draft > 0 /\ request[r].draft < agent.next
            /\ request[r].published <= request[r].draft

DInv == DefTypeOK /\ NumbersFresh /\ DraftBehind /\ ReadOnce /\ PublishedNotAhead

-----------------------------------------------------------------------------
\* Typing of the parts

Agents == [life : {"none", "active", "archived"}, draft : 0..MaxRevision,
           published : 0..MaxRevision, next : 1..MaxRevision + 1]
Asking == [kind : Kinds, draft : 0..MaxRevision, published : 0..MaxRevision,
           design : Designs, broken : BOOLEAN]

LEMMA NothingTyped ==
    /\ NoDesign \in Designs
    /\ NoRevision \in Revisions /\ ~NoRevision.stored
    /\ \A broken \in BOOLEAN : NoRequest(broken) \in Asking /\ NoRequest(broken).kind = "idle"
    /\ ModelsInit => connection \in [Models -> Rows]
<1>1. NoDesign \in Designs BY ModelsAssumption, DefinitionsAssumption DEF NoDesign, Designs
<1>2. (CHOOSE c \in Configs : TRUE) \in Configs BY ModelsAssumption
<1>3. 0 \in 0..MaxRevision BY DefinitionsAssumption
<1>4. NoRevision \in Revisions /\ ~NoRevision.stored
    BY <1>1, <1>2, <1>3 DEF NoRevision, Revisions, Readings
<1>5. \A broken \in BOOLEAN : NoRequest(broken) \in Asking /\ NoRequest(broken).kind = "idle"
    BY <1>1, <1>3 DEF NoRequest, Asking, Kinds
<1>6. ModelsInit => connection \in [Models -> Rows] BY <1>2 DEF ModelsInit, Rows
<1> QED BY <1>1, <1>4, <1>5, <1>6

LEMMA ReadingTyped ==
    ASSUME connection \in [Models -> Rows], NEW m \in Models
    PROVE  Reading(m) \in Readings
BY DEF Reading, Rows, Readings

LEMMA ModelTyped ==
    ASSUME connection \in [Models -> Rows], NEW m \in Models
    PROVE  /\ \A row \in Readings : UpsertModel(m, row) => connection' \in [Models -> Rows]
           /\ ArchiveModel(m) => connection' \in [Models -> Rows]
<1>1. \A row \in Readings : row \in Rows BY DEF Readings, Rows
<1>2. [connection[m] EXCEPT !.status = "archived"] \in Rows BY DEF Rows
<1> QED BY <1>1, <1>2 DEF UpsertModel, ArchiveModel

\* A number that is free takes the revision of the save.
LEMMA InsertedFree ==
    ASSUME DefTypeOK, NEW n \in Numbers, NEW design \in Designs, NEW published, ~revisions[n].stored,
           Inserted(n, design, published)
    PROVE  /\ revisions' \in [Numbers -> Revisions]
           /\ revisions'[n].design = design /\ revisions'[n].base = agent.draft
           /\ \A k \in Numbers : k # n => revisions'[k] = revisions[k]
<1> DEFINE new == [stored |-> TRUE, design |-> design, pins |-> Reading(design.model), base |-> agent.draft]
<1>1. Reading(design.model) \in Readings BY ReadingTyped DEF DefTypeOK, Designs
<1>2. new \in Revisions BY <1>1 DEF Revisions, DefTypeOK
<1>3. revisions \in [Numbers -> Revisions] BY DEF DefTypeOK
<1>4. revisions' = [revisions EXCEPT ![n] = new] BY DEF Inserted
<1> HIDE DEF new
<1>5. revisions'[n] = new BY <1>3, <1>4
<1>6. new.design = design /\ new.base = agent.draft BY DEF new
<1> QED BY <1>2, <1>3, <1>4, <1>5, <1>6

\* The row after an upsert.
LEMMA UpsertedTyped ==
    ASSUME DefTypeOK, NEW draft \in 1..MaxRevision, NEW published \in 0..MaxRevision,
           Upserted(draft, published)
    PROVE  /\ agent' \in Agents
           /\ agent'.life = "active" /\ agent'.draft = draft /\ agent'.published = published
           /\ agent'.next >= agent.next /\ agent'.next > draft
           /\ agent.next <= draft + 1 => agent'.next = draft + 1
           /\ agent.next > draft => agent'.next = agent.next
<1>1. agent.next \in 1..MaxRevision + 1 /\ MaxRevision \in Nat \ {0}
    BY DefinitionsAssumption DEF DefTypeOK
<1> DEFINE next == Larger(agent.next, draft + 1)
<1>2. /\ next \in 1..MaxRevision + 1 /\ next >= agent.next /\ next > draft
      /\ agent.next <= draft + 1 => next = draft + 1
      /\ agent.next > draft => next = agent.next
    BY <1>1 DEF Larger
<1>3. agent' = [life |-> "active", draft |-> draft, published |-> published, next |-> next]
    BY DEF Upserted
<1> HIDE DEF next
<1>4. draft \in 0..MaxRevision BY <1>1
<1> QED BY <1>2, <1>3, <1>4 DEF Agents

-----------------------------------------------------------------------------
\* The steps

\* A request that reads an agent remembers what is so now.
LEMMA ReadsInv ==
    ASSUME DInv, NEW r \in Requests, NEW kind \in Kinds, NEW design \in Designs, Reads(r, kind, design)
    PROVE  DInv'
<1> DEFINE new == [kind |-> kind, draft |-> agent.draft, design |-> design,
                   published |-> agent.published, broken |-> FALSE]
<1>1. /\ request' = [request EXCEPT ![r] = new]
      /\ UNCHANGED <<connection, agent, revisions, modelChanges>> /\ agent.life # "none"
    BY DEF Reads, Known
<1>2. new \in Asking BY DEF Asking, DInv, DefTypeOK
<1>3. request \in [Requests -> Asking] BY DEF DInv, DefTypeOK, Asking
<1>4. new.draft = agent.draft /\ new.published = agent.published OBVIOUS
<1> HIDE DEF new
<1>5. request' \in [Requests -> Asking] /\ request'[r] = new
      /\ \A x \in Requests : x # r => request'[x] = request[x]
    BY <1>1, <1>2, <1>3
<1>6. DefTypeOK' BY <1>1, <1>5 DEF DInv, DefTypeOK, Asking
<1>7. ReadOnce' BY <1>1, <1>4, <1>5 DEF DInv, ReadOnce, DraftBehind, PublishedNotAhead
<1> QED BY <1>1, <1>6, <1>7 DEF DInv, NumbersFresh, DraftBehind, PublishedNotAhead

\* A request that ends asks for nothing any more.
LEMMA EndsTyped ==
    ASSUME DInv, NEW r \in Requests, NEW broken \in BOOLEAN, Ends(r, broken)
    PROVE  /\ request' \in [Requests -> Asking]
           /\ \A x \in Requests : request'[x] = request[x] \/ request'[x].kind = "idle"
<1>1. NoRequest(broken) \in Asking /\ NoRequest(broken).kind = "idle" BY NothingTyped
<1>2. request \in [Requests -> Asking] BY DEF DInv, DefTypeOK, Asking
<1> QED BY <1>1, <1>2 DEF Ends

\* What remains of the invariant when requests end and the numbers grow.
LEMMA StillRead ==
    ASSUME DInv, agent'.life # "none", agent'.next >= agent.next, agent'.next \in Nat,
           \A x \in Requests : request'[x] = request[x] \/ request'[x].kind = "idle"
    PROVE  ReadOnce'
<1>1. SUFFICES ASSUME NEW x \in Requests,
                      request'[x].kind \in {"save", "rollback", "publish", "unpublish", "delete"}
               PROVE  /\ request'[x].draft > 0 /\ request'[x].draft < agent'.next
                      /\ request'[x].published <= request'[x].draft
    BY DEF ReadOnce
<1>2. request'[x] = request[x] BY <1>1
<1>3. agent.next \in Nat /\ request[x].draft \in Nat
    BY DefinitionsAssumption DEF DInv, DefTypeOK
<1> QED BY <1>1, <1>2, <1>3 DEF DInv, ReadOnce

LEMMA CreateInv ==
    ASSUME DInv, CreateDefinition
    PROVE  DInv'
<1>1. PICK design \in Designs : /\ Upserted(1, 0) /\ Inserted(1, design, 0)
                            /\ UNCHANGED <<connection, request, modelChanges>>
    BY DEF CreateDefinition
<1>2. agent.life = "none" /\ agent.next = 1 BY DEF CreateDefinition, Known, DInv, DraftBehind
<1>3. 1 \in Numbers /\ 1 \in 1..MaxRevision /\ 0 \in 0..MaxRevision
    BY DefinitionsAssumption DEF Numbers
<1>4. ~revisions[1].stored BY <1>2, <1>3 DEF DInv, NumbersFresh
<1>5. /\ revisions' \in [Numbers -> Revisions]
      /\ \A k \in Numbers : k # 1 => revisions'[k] = revisions[k]
    BY <1>1, <1>3, <1>4, InsertedFree DEF DInv
<1>6. /\ agent' \in Agents /\ agent'.life = "active" /\ agent'.draft = 1 /\ agent'.published = 0
      /\ agent'.next = 2
    BY <1>1, <1>2, <1>3, UpsertedTyped DEF DInv
<1>7. DefTypeOK' BY <1>1, <1>5, <1>6 DEF DInv, DefTypeOK, Agents
<1>8. NumbersFresh' BY <1>2, <1>5, <1>6 DEF DInv, NumbersFresh, Numbers
<1>9. ReadOnce' BY <1>1, <1>2 DEF DInv, ReadOnce
<1> QED BY <1>6, <1>7, <1>8, <1>9 DEF DInv, DraftBehind, PublishedNotAhead

\* A save that creates a revision takes a free number.
LEMMA SavedAs ==
    ASSUME DInv, NEW r \in Requests, request[r].kind \in {"save", "rollback"}, WriteSave(r),
           agent' # agent
    PROVE  /\ agent.next \in Numbers /\ ~revisions[agent.next].stored
           /\ agent.draft = request[r].draft
           /\ Upserted(agent.next, request[r].published)
           /\ Inserted(agent.next, request[r].design, request[r].published)
           /\ Ends(r, FALSE)
<1>1. /\ Claimable(request[r].draft) /\ Ends(r, FALSE) /\ agent.next <= MaxRevision
      /\ Upserted(agent.next, request[r].published)
      /\ Inserted(agent.next, request[r].design, request[r].published)
    BY DEF WriteSave, Saves, Claimed
<1>2. agent.next \in Numbers BY <1>1, DefinitionsAssumption DEF DInv, DefTypeOK, Numbers
<1>3. ~revisions[agent.next].stored BY <1>2 DEF DInv, NumbersFresh, Numbers
<1> QED BY <1>1, <1>2, <1>3 DEF Claimable

LEMMA SaveInv ==
    ASSUME DInv, NEW r \in Requests, WriteSave(r)
    PROVE  DInv'
<1>1. /\ request[r].kind \in {"save", "rollback"}
      /\ UNCHANGED <<connection, modelChanges>>
      /\ \E broken \in BOOLEAN : Ends(r, broken)
    BY DEF WriteSave, Saves
<1>2. /\ request' \in [Requests -> Asking]
      /\ \A x \in Requests : request'[x] = request[x] \/ request'[x].kind = "idle"
    BY <1>1, EndsTyped
<1>3. agent.next \in Nat /\ agent.life # "none"
    BY <1>1, DefinitionsAssumption DEF DInv, DefTypeOK, ReadOnce
<1>4. CASE agent' = agent
    <2>1. revisions' = revisions
        <3>1. agent.draft > 0 /\ agent.draft < agent.next
            BY <1>3 DEF DInv, DraftBehind
        <3>2. agent.draft \in Nat BY DefinitionsAssumption DEF DInv, DefTypeOK
        <3>3. Upserted(agent.next, request[r].published) => agent'.draft = agent.next
            BY DEF Upserted
        <3>4. ~Upserted(agent.next, request[r].published)
            BY <1>3, <1>4, <3>1, <3>2, <3>3
        <3> QED BY <3>4 DEF WriteSave, Saves, Claimed
    <2>2. DefTypeOK' BY <1>1, <1>2, <1>4, <2>1 DEF DInv, DefTypeOK, Asking
    <2>3. ReadOnce' BY <1>2, <1>3, <1>4, StillRead
    <2> QED BY <1>4, <2>1, <2>2, <2>3 DEF DInv, NumbersFresh, DraftBehind, PublishedNotAhead
<1>5. CASE agent' # agent
    <2> DEFINE n == agent.next
    <2>1. /\ n \in Numbers /\ ~revisions[n].stored /\ Upserted(n, request[r].published)
          /\ Inserted(n, request[r].design, request[r].published)
        BY <1>1, <1>5, SavedAs
    <2>2. /\ request[r].published \in 0..MaxRevision /\ request[r].design \in Designs
          /\ request[r].draft \in 0..MaxRevision
        BY DEF DInv, DefTypeOK
    <2>3. /\ revisions' \in [Numbers -> Revisions]
          /\ \A k \in Numbers : k # n => revisions'[k] = revisions[k]
        BY <2>1, <2>2, InsertedFree DEF DInv
    <2>4. /\ agent' \in Agents /\ agent'.life = "active" /\ agent'.draft = n
          /\ agent'.published = request[r].published /\ agent'.next = n + 1
        BY <1>3, <2>1, <2>2, UpsertedTyped DEF DInv, Numbers
    <2>5. request[r].published <= request[r].draft /\ request[r].draft < n
        BY <1>1 DEF DInv, ReadOnce
    <2>6. DefTypeOK' BY <1>1, <1>2, <2>3, <2>4 DEF DInv, DefTypeOK, Agents, Asking
    <2>7. NumbersFresh' BY <1>3, <2>3, <2>4 DEF DInv, NumbersFresh, Numbers
    <2>8. ReadOnce' BY <1>2, <1>3, <2>4, StillRead
    <2>9. PublishedNotAhead' BY <1>3, <2>2, <2>4, <2>5 DEF PublishedNotAhead
    <2> QED BY <1>3, <2>1, <2>4, <2>6, <2>7, <2>8, <2>9 DEF DInv, DraftBehind, Numbers
<1> QED BY <1>4, <1>5

\* A publication or unpublication sets the draft it has read.
LEMMA PointerInv ==
    ASSUME DInv, NEW r \in Requests, request[r].kind \in {"publish", "unpublish"},
           NEW published \in {0, request[r].draft}, Upserted(request[r].draft, published),
           Ends(r, FALSE), UNCHANGED <<connection, revisions, modelChanges>>
    PROVE  DInv'
<1>1. /\ request[r].draft > 0 /\ request[r].draft < agent.next
      /\ request[r].draft \in 0..MaxRevision /\ agent.next \in Nat /\ MaxRevision \in Nat
    BY DefinitionsAssumption DEF DInv, DefTypeOK, ReadOnce
<1>2. request[r].draft \in 1..MaxRevision /\ published \in 0..MaxRevision BY <1>1
<1>3. /\ agent' \in Agents /\ agent'.life = "active" /\ agent'.draft = request[r].draft
      /\ agent'.published = published /\ agent'.next = agent.next
    BY <1>1, <1>2, UpsertedTyped DEF DInv
<1>4. /\ request' \in [Requests -> Asking]
      /\ \A x \in Requests : request'[x] = request[x] \/ request'[x].kind = "idle"
    BY EndsTyped
<1>5. DefTypeOK' BY <1>3, <1>4 DEF DInv, DefTypeOK, Agents, Asking
<1>6. ReadOnce' BY <1>1, <1>3, <1>4, StillRead
<1> QED BY <1>1, <1>2, <1>3, <1>5, <1>6 DEF DInv, NumbersFresh, DraftBehind, PublishedNotAhead

LEMMA DeleteInv ==
    ASSUME DInv, NEW r \in Requests, WriteDelete(r)
    PROVE  DInv'
<1>1. agent.life # "none" BY DEF WriteDelete, DInv, ReadOnce
<1>2. agent' = [agent EXCEPT !.life = "archived"] /\ Ends(r, FALSE)
      /\ UNCHANGED <<connection, revisions, modelChanges>>
    BY DEF WriteDelete
<1>3. agent \in Agents BY DEF DInv, DefTypeOK, Agents
<1>4. /\ agent' \in Agents /\ agent'.life = "archived" /\ agent'.draft = agent.draft
      /\ agent'.published = agent.published /\ agent'.next = agent.next
    BY <1>2, <1>3 DEF Agents
<1>5. /\ request' \in [Requests -> Asking]
      /\ \A x \in Requests : request'[x] = request[x] \/ request'[x].kind = "idle"
    BY <1>2, EndsTyped
<1>6. agent.next \in Nat BY DefinitionsAssumption DEF DInv, DefTypeOK
<1>7. DefTypeOK' BY <1>2, <1>4, <1>5 DEF DInv, DefTypeOK, Agents, Asking
<1>8. ReadOnce' BY <1>1, <1>4, <1>5, <1>6, StillRead
<1>9. NumbersFresh' BY <1>2, <1>4 DEF DInv, NumbersFresh
<1>10. DraftBehind' BY <1>1, <1>4, SMT DEF DInv, DraftBehind
<1>11. PublishedNotAhead' BY <1>4 DEF DInv, PublishedNotAhead
<1> QED BY <1>7, <1>8, <1>9, <1>10, <1>11 DEF DInv

\* The models are none of the agent's numbers.
LEMMA ModelsInv ==
    ASSUME DInv, UNCHANGED <<agent, revisions>>, connection' \in [Models -> Rows],
           request' \in [Requests -> Asking], modelChanges' \in 0..MaxModelChanges,
           \A x \in Requests : \/ request'[x] = request[x]
                               \/ request'[x].kind \in {"idle", "dropModel"}
    PROVE  DInv'
<1>1. DefTypeOK' BY DEF DInv, DefTypeOK, Asking
<1>2. ReadOnce' BY DEF DInv, ReadOnce
<1> QED BY <1>1, <1>2 DEF DInv, NumbersFresh, DraftBehind, PublishedNotAhead

THEOREM Inductive ==
    /\ DefInit => DInv
    /\ DInv /\ [DefNext]_defVars => DInv'
<1>1. DefInit => DInv
    <2> SUFFICES ASSUME DefInit PROVE DInv OBVIOUS
    <2>1. MaxRevision \in Nat \ {0} BY DefinitionsAssumption
    <2>2. DefTypeOK
        <3>1. connection \in [Models -> Rows] BY NothingTyped DEF DefInit
        <3>2. revisions \in [Numbers -> Revisions] BY NothingTyped DEF DefInit
        <3>3. request \in [Requests -> Asking] BY NothingTyped DEF DefInit
        <3>4. agent \in Agents BY <2>1 DEF DefInit, Agents
        <3>5. modelChanges \in 0..MaxModelChanges BY DefinitionsAssumption DEF DefInit
        <3> QED BY <3>1, <3>2, <3>3, <3>4, <3>5 DEF DefTypeOK, Asking, Agents
    <2>3. NumbersFresh BY NothingTyped DEF DefInit, NumbersFresh
    <2>4. ReadOnce
        <3>1. \A r \in Requests : request[r].kind = "idle" BY NothingTyped DEF DefInit
        <3> QED BY <3>1 DEF ReadOnce
    <2> QED BY <2>2, <2>3, <2>4 DEF DefInit, DInv, DraftBehind, PublishedNotAhead
<1>2. ASSUME DInv, [DefNext]_defVars PROVE DInv'
    <2>1. CASE UNCHANGED defVars
        BY <1>2, <2>1 DEF defVars, DInv, DefTypeOK, NumbersFresh, DraftBehind, ReadOnce,
                          PublishedNotAhead
    <2>2. CASE CreateDefinition BY <1>2, <2>2, CreateInv
    <2>3. ASSUME NEW r \in Requests, ReadForSave(r) \/ ReadForRollback(r) \/ ReadForPublish(r)
                                      \/ ReadForUnpublish(r) \/ ReadForDelete(r)
          PROVE  DInv'
        <3>1. NoDesign \in Designs BY NothingTyped
        <3>2. \A n \in Numbers : revisions[n].design \in Designs
            BY <1>2 DEF DInv, DefTypeOK, Revisions
        <3>3. \E kind \in Kinds, design \in Designs : Reads(r, kind, design)
            BY <2>3, <3>1, <3>2
            DEF ReadForSave, ReadForRollback, ReadForPublish, ReadForUnpublish, ReadForDelete, Kinds
        <3> QED BY <1>2, <3>3, ReadsInv
    <2>4. ASSUME NEW r \in Requests, WriteSave(r) PROVE DInv' BY <1>2, <2>4, SaveInv
    <2>5. ASSUME NEW r \in Requests, WritePublish(r) PROVE DInv'
        BY <1>2, <2>5, PointerInv DEF WritePublish
    <2>6. ASSUME NEW r \in Requests, WriteUnpublish(r) PROVE DInv'
        BY <1>2, <2>6, PointerInv DEF WriteUnpublish
    <2>7. ASSUME NEW r \in Requests, WriteDelete(r) PROVE DInv' BY <1>2, <2>7, DeleteInv
    <2>8. ASSUME NEW r \in Requests, NEW m \in Models, ReadForDropModel(r, m) PROVE DInv'
        <3> DEFINE new == [NoRequest(FALSE) EXCEPT !.kind = "dropModel", !.design.model = m]
        <3>1. NoRequest(FALSE) \in Asking BY NothingTyped
        <3>2. [NoRequest(FALSE).design EXCEPT !.model = m] \in Designs BY <3>1 DEF Asking, Designs
        <3>3. new \in Asking /\ new.kind = "dropModel" BY <3>1, <3>2 DEF Asking, Kinds
        <3>4. /\ request' = [request EXCEPT ![r] = new]
              /\ UNCHANGED <<connection, agent, revisions, modelChanges>>
            BY <2>8 DEF ReadForDropModel
        <3>5. request \in [Requests -> Asking] BY <1>2 DEF DInv, DefTypeOK, Asking
        <3> HIDE DEF new
        <3>6. /\ request' \in [Requests -> Asking]
              /\ \A x \in Requests : request'[x] = request[x] \/ request'[x].kind = "dropModel"
            BY <3>3, <3>4, <3>5
        <3> QED BY <1>2, <3>4, <3>6, ModelsInv DEF DInv, DefTypeOK
    <2>9. ASSUME NEW r \in Requests, WriteDropModel(r) PROVE DInv'
        <3>1. /\ ArchiveModel(request[r].design.model) /\ Ends(r, FALSE)
              /\ UNCHANGED <<agent, revisions>> /\ modelChanges' = modelChanges + 1
              /\ modelChanges < MaxModelChanges
            BY <2>9 DEF WriteDropModel, ModelChanged
        <3>2. request[r].design.model \in Models BY <1>2 DEF DInv, DefTypeOK, Designs
        <3>3. connection' \in [Models -> Rows] BY <1>2, <3>1, <3>2, ModelTyped DEF DInv, DefTypeOK
        <3>4. modelChanges' \in 0..MaxModelChanges
            BY <1>2, <3>1, DefinitionsAssumption DEF DInv, DefTypeOK
        <3>5. /\ request' \in [Requests -> Asking]
              /\ \A x \in Requests : request'[x] = request[x] \/ request'[x].kind = "idle"
            BY <1>2, <3>1, EndsTyped
        <3> QED BY <1>2, <3>1, <3>3, <3>4, <3>5, ModelsInv
    <2>10. ASSUME NEW m \in Models, WriteModel(m) PROVE DInv'
        <3>1. /\ \E row \in Readings : UpsertModel(m, row)
              /\ UNCHANGED <<agent, revisions, request>> /\ modelChanges' = modelChanges + 1
              /\ modelChanges < MaxModelChanges
            BY <2>10 DEF WriteModel, ModelChanged
        <3>2. connection' \in [Models -> Rows] BY <1>2, <3>1, ModelTyped DEF DInv, DefTypeOK
        <3>3. modelChanges' \in 0..MaxModelChanges
            BY <1>2, <3>1, DefinitionsAssumption DEF DInv, DefTypeOK
        <3> QED BY <1>2, <3>1, <3>2, <3>3, ModelsInv DEF DInv, DefTypeOK, Asking
    <2> QED BY <1>2, <2>1, <2>2, <2>3, <2>4, <2>5, <2>6, <2>7, <2>8, <2>9, <2>10 DEF DefNext
<1> QED BY <1>1, <1>2

-----------------------------------------------------------------------------
\* Theorems

\* The invariant that the results below follow from.
THEOREM Invariant == DefSpec => []DInv
BY Inductive, PTL DEF DefSpec

\* Every reachable state is well-typed.
THEOREM TypeCorrect == DefSpec => []DefTypeOK
<1>1. DInv => DefTypeOK BY DEF DInv
<1> QED BY <1>1, Invariant, PTL

\* No publication points past the draft, whatever stale requests have written:
\* saves are never refused for it.
THEOREM PublishedBehind == DefSpec => []PublishedNotAhead
<1>1. DInv => PublishedNotAhead BY DEF DInv
<1> QED BY <1>1, Invariant, PTL

\* A stored revision never changes, although both statements of a save write
\* over a number that is taken: no number is ever given out twice.
THEOREM RevisionsStay == DefSpec => RevisionsImmutable
<1>1. ASSUME DInv, [DefNext]_defVars
      PROVE  [\A n \in Numbers : revisions[n].stored => revisions'[n] = revisions[n]]_defVars
    <2>1. SUFFICES ASSUME DefNext, NEW n \in Numbers, revisions[n].stored
                   PROVE  revisions'[n] = revisions[n]
        BY <1>1
    <2>2. CASE revisions' = revisions BY <2>2
    <2>3. CASE CreateDefinition
        <3>1. PICK design \in Designs : Inserted(1, design, 0) BY <2>3 DEF CreateDefinition
        <3>2. 1 \in Numbers /\ agent.next = 1 /\ n >= 1
            BY <1>1, <2>3, DefinitionsAssumption
            DEF Numbers, CreateDefinition, Known, DInv, DraftBehind
        <3>3. FALSE BY <1>1, <2>1, <3>2 DEF DInv, NumbersFresh
        <3> QED BY <3>3
    <2>4. ASSUME NEW r \in Requests, WriteSave(r) PROVE revisions'[n] = revisions[n]
        <3>1. CASE agent' = agent
            <4>1. request[r].kind \in {"save", "rollback"} BY <2>4 DEF WriteSave
            <4>2. agent.draft # agent.next
                BY <1>1, <4>1, DefinitionsAssumption DEF DInv, ReadOnce, DraftBehind, DefTypeOK
            <4>3. ~Upserted(agent.next, request[r].published)
                <5>1. Upserted(agent.next, request[r].published) => agent'.draft = agent.next
                    BY DEF Upserted
                <5> QED BY <3>1, <4>2, <5>1
            <4> QED BY <2>4, <4>3 DEF WriteSave, Saves, Claimed
        <3>2. CASE agent' # agent
            <4>1. /\ agent.next \in Numbers /\ ~revisions[agent.next].stored
                  /\ Inserted(agent.next, request[r].design, request[r].published)
                BY <1>1, <2>4, <3>2, SavedAs DEF WriteSave
            <4>2. request[r].design \in Designs BY <1>1 DEF DInv, DefTypeOK
            <4> QED BY <1>1, <2>1, <4>1, <4>2, InsertedFree DEF DInv
        <3> QED BY <3>1, <3>2
    <2> QED BY <2>1, <2>2, <2>3, <2>4
        DEF DefNext, ReadForSave, ReadForRollback, ReadForPublish, ReadForUnpublish, ReadForDelete,
            Reads, WritePublish, WriteUnpublish, WriteDelete, ReadForDropModel, WriteDropModel,
            WriteModel
<1> QED BY <1>1, Invariant, PTL DEF DefSpec, RevisionsImmutable

\* What a save stores as the new draft is what its author wrote, and replaces the
\* draft the author has seen.
THEOREM DraftsKept == DefSpec => NoDraftOverwritten
<1>1. ASSUME DInv, [DefNext]_defVars
      PROVE  [\A r \in Requests :
                request[r].kind \in {"save", "rollback"} /\ agent' # agent /\ request'[r] # request[r]
                => /\ revisions'[agent'.draft].base = request[r].draft
                   /\ revisions'[agent'.draft].design = request[r].design]_defVars
    <2>1. SUFFICES ASSUME DefNext, NEW r \in Requests, request[r].kind \in {"save", "rollback"},
                          agent' # agent, request'[r] # request[r]
                   PROVE  /\ revisions'[agent'.draft].base = request[r].draft
                          /\ revisions'[agent'.draft].design = request[r].design
        BY <1>1
    <2>2. \A x \in Requests, broken \in BOOLEAN : Ends(x, broken) => x = r
        BY <2>1 DEF Ends
    <2>3. WriteSave(r)
        <3>1. \A x \in Requests : WriteSave(x) => x = r
            BY <2>2 DEF WriteSave, Saves
        <3>2. \A x \in Requests : ~WritePublish(x) /\ ~WriteUnpublish(x) /\ ~WriteDelete(x)
            BY <2>1, <2>2 DEF WritePublish, WriteUnpublish, WriteDelete
        <3> QED BY <2>1, <3>1, <3>2
            DEF DefNext, CreateDefinition, ReadForSave, ReadForRollback, ReadForPublish,
                ReadForUnpublish, ReadForDelete, Reads, ReadForDropModel, WriteDropModel, WriteModel
    <2>4. /\ agent.next \in Numbers /\ ~revisions[agent.next].stored
          /\ agent.draft = request[r].draft
          /\ Upserted(agent.next, request[r].published)
          /\ Inserted(agent.next, request[r].design, request[r].published)
        BY <1>1, <2>1, <2>3, SavedAs
    <2>5. request[r].design \in Designs BY <1>1 DEF DInv, DefTypeOK
    <2>6. /\ revisions'[agent.next].design = request[r].design
          /\ revisions'[agent.next].base = agent.draft
        BY <1>1, <2>4, <2>5, InsertedFree DEF DInv
    <2>7. agent'.draft = agent.next BY <2>4 DEF Upserted
    <2> QED BY <2>4, <2>6, <2>7
<1> QED BY <1>1, Invariant, PTL DEF DefSpec, NoDraftOverwritten

-----------------------------------------------------------------------------
\* The syncs of the models are well-typed

Ticks == 0..SweepEvery - 1
Told == [status : {"pending", "synced", "failed"}, hash : Hashes]

\* The values that stand for nothing are of their types.
LEMMA RestingTyped ==
    /\ NoHash \in Hashes /\ NoTask \in Task /\ 0 \in Ticks
    /\ \A k \in Ticks : NoPass(k) \in Pass /\ NoPass(k).tick = k
<1>1. (CHOOSE c \in Configs : TRUE) \in Configs /\ (CHOOSE m \in Models : TRUE) \in Models
    BY ModelsAssumption
<1>2. NoHash \in Hashes BY DEF Hashes
<1>3. NoReading \in Readings BY <1>1 DEF NoReading, Readings
<1>4. NoTask \in Task BY <1>1, <1>2, <1>3 DEF NoTask, Task, Snapshots
<1>5. 0 \in Ticks BY ModelSyncAssumption DEF Ticks
<1>6. \A k \in Ticks : NoPass(k) \in Pass /\ NoPass(k).tick = k BY DEF NoPass, Pass, Ticks
<1> QED BY <1>2, <1>4, <1>5, <1>6

LEMMA SnapshotTyped ==
    ASSUME SyncTypeOK, NEW m \in Models
    PROVE  Snapshot(m) \in Snapshots
<1>1. connection[m] \in Rows /\ told[m] \in Told BY DEF SyncTypeOK, Told
<1>2. Reading(m) \in Readings BY <1>1 DEF Reading, Rows, Readings
<1>3. told[m].hash \in Hashes BY <1>1 DEF Told
<1> QED BY <1>2, <1>3 DEF Snapshot, Snapshots

LEMMA CountedTyped ==
    /\ SyncTypeOK /\ Asked => changes' \in 0..MaxRequests
    /\ SyncTypeOK /\ Fails => faults' \in 0..MaxFaults
BY ModelSyncAssumption DEF SyncTypeOK, Asked, Fails

\* A worker takes up a model, or lays it down.
LEMMA TaskTyped ==
    ASSUME SyncTypeOK, NEW w \in Workers
    PROVE  /\ \A s \in Snapshots, event \in BOOLEAN :
                Started(w, s, event) => task' \in [Workers -> Task]
           /\ \A ok \in BOOLEAN :
                Settled(w, ok) => task' \in [Workers -> Task] /\ upserts' \in [Models -> Nat]
<1>1. task \in [Workers -> Task] /\ upserts \in [Models -> Nat] BY DEF SyncTypeOK
<1>2. ASSUME NEW s \in Snapshots, NEW event \in BOOLEAN, Started(w, s, event)
      PROVE  task' \in [Workers -> Task]
    <2>1. [step |-> "call", of |-> s, ok |-> FALSE, event |-> event] \in Task BY DEF Task
    <2> QED BY <1>1, <1>2, <2>1 DEF Started
<1>3. ASSUME NEW ok \in BOOLEAN, Settled(w, ok)
      PROVE  task' \in [Workers -> Task] /\ upserts' \in [Models -> Nat]
    <2>1. task' \in [Workers -> Task] BY <1>1, <1>3, RestingTyped DEF Settled
    <2>2. \A m \in Models : upserts[m] + 1 \in Nat BY <1>1
    <2>3. upserts' \in [Models -> Nat] BY <1>1, <1>3, <2>2 DEF Settled
    <2> QED BY <2>1, <2>3
<1> QED BY <1>2, <1>3

\* What the steps of administrators leave.
LEMMA RequestTyped ==
    ASSUME SyncTypeOK
    PROVE  /\ \A m \in Models :
                CreateModel(m) \/ ReadForUpdate(m) \/ DeleteModel(m) => SyncTypeOK'
           /\ \A u \in updates : WriteUpdate(u) => SyncTypeOK'
<1>1. ASSUME NEW m \in Models, NEW row \in Readings, NEW hash \in Hashes, Saved(m, row, hash)
      PROVE  /\ connection' \in [Models -> Rows] /\ told' \in [Models -> Told]
             /\ upserts' \in [Models -> Nat]
    <2>1. row \in Rows BY DEF Readings, Rows
    <2>2. [status |-> "pending", hash |-> hash] \in Told BY DEF Told
    <2>3. \A n \in Models : upserts[n] + 1 \in Nat BY DEF SyncTypeOK
    <2>4. connection' \in [Models -> Rows] BY <1>1, <2>1 DEF SyncTypeOK, Saved, UpsertModel
    <2>5. told' \in [Models -> Told] BY <1>1, <2>2 DEF SyncTypeOK, Saved, Told
    <2>6. upserts' \in [Models -> Nat] BY <1>1, <2>3 DEF SyncTypeOK, Saved
    <2> QED BY <2>4, <2>5, <2>6
<1>2. ASSUME NEW m \in Models, CreateModel(m) PROVE SyncTypeOK'
    <2>1. /\ connection' \in [Models -> Rows] /\ told' \in [Models -> Told]
          /\ upserts' \in [Models -> Nat]
        BY <1>1, <1>2, RestingTyped DEF CreateModel
    <2>2. changes' \in 0..MaxRequests BY <1>2, CountedTyped DEF CreateModel
    <2> QED BY <1>2, <2>1, <2>2 DEF CreateModel, SyncTypeOK, Told
<1>3. ASSUME NEW m \in Models, ReadForUpdate(m) PROVE SyncTypeOK'
    <2>1. told[m].hash \in Hashes BY DEF SyncTypeOK
    <2>2. updates' \subseteq [model : Models, row : Readings, hash : Hashes]
        BY <1>3, <2>1 DEF ReadForUpdate, SyncTypeOK
    <2>3. changes' \in 0..MaxRequests BY <1>3, CountedTyped DEF ReadForUpdate
    <2> QED BY <1>3, <2>2, <2>3 DEF ReadForUpdate, SyncTypeOK
<1>4. ASSUME NEW m \in Models, DeleteModel(m) PROVE SyncTypeOK'
    <2>1. [connection[m] EXCEPT !.status = "archived"] \in Rows BY DEF SyncTypeOK, Rows
    <2>2. connection' \in [Models -> Rows] BY <1>4, <2>1 DEF DeleteModel, ArchiveModel, SyncTypeOK
    <2>3. \A n \in Models : deletes[n] + 1 \in Nat BY DEF SyncTypeOK
    <2>4. deletes' \in [Models -> Nat] BY <1>4, <2>3 DEF DeleteModel, SyncTypeOK
    <2>5. changes' \in 0..MaxRequests BY <1>4, CountedTyped DEF DeleteModel
    <2> QED BY <1>4, <2>2, <2>4, <2>5 DEF DeleteModel, SyncTypeOK
<1>5. ASSUME NEW u \in updates, WriteUpdate(u) PROVE SyncTypeOK'
    <2>1. u.model \in Models /\ u.row \in Readings /\ u.hash \in Hashes BY DEF SyncTypeOK
    <2>2. /\ connection' \in [Models -> Rows] /\ told' \in [Models -> Told]
          /\ upserts' \in [Models -> Nat]
        BY <1>1, <1>5, <2>1 DEF WriteUpdate
    <2>3. updates' \subseteq updates BY <1>5 DEF WriteUpdate
    <2> QED BY <1>5, <2>2, <2>3 DEF WriteUpdate, SyncTypeOK, Told
<1> QED BY <1>2, <1>3, <1>4, <1>5

\* What the sync of one model leaves.
LEMMA TaskStepTyped ==
    ASSUME SyncTypeOK, NEW w \in Workers,
           TakeUpsert(w) \/ SyncByAdmin(w) \/ CallLiteLLM(w) \/ Report(w) \/ LoseTask(w)
    PROVE  SyncTypeOK'
<1>1. task[w] \in Task /\ task[w].of \in Snapshots BY DEF SyncTypeOK, Task
<1>2. CASE TakeUpsert(w)
    <2>1. PICK m \in Models : /\ upserts[m] > 0 /\ upserts' = [upserts EXCEPT ![m] = @ - 1]
                              /\ Started(w, Snapshot(m), TRUE)
        BY <1>2 DEF TakeUpsert
    <2>2. task' \in [Workers -> Task] BY <2>1, SnapshotTyped, TaskTyped
    <2>3. upserts \in [Models -> Nat] BY DEF SyncTypeOK
    <2>4. upserts[m] - 1 \in Nat BY <2>1, <2>3
    <2>5. upserts' \in [Models -> Nat] BY <2>1, <2>3, <2>4
    <2> QED BY <1>2, <2>2, <2>5 DEF TakeUpsert, SyncTypeOK
<1>3. CASE SyncByAdmin(w)
    <2>1. task' \in [Workers -> Task] BY <1>3, SnapshotTyped, TaskTyped DEF SyncByAdmin
    <2>2. changes' \in 0..MaxRequests BY <1>3, CountedTyped DEF SyncByAdmin
    <2> QED BY <1>3, <2>1, <2>2 DEF SyncByAdmin, SyncTypeOK
<1>4. CASE CallLiteLLM(w)
    <2>1. Reached(w) => route' \in [Models -> Configs \cup {NoRoute}]
        <3>1. task[w].of.model \in Models /\ task[w].of.seen \in Readings BY <1>1 DEF Snapshots
        <3>2. \A at : Deployed(task[w].of.seen, at) \in Configs \cup {NoRoute}
            BY <3>1 DEF Deployed, Readings
        <3>3. route \in [Models -> Configs \cup {NoRoute}] BY DEF SyncTypeOK
        <3> DEFINE m == task[w].of.model
                   at == Deployed(task[w].of.seen, route[m])
        <3>4. Reached(w) => route' = [route EXCEPT ![m] = at] BY DEF Reached
        <3>5. at \in Configs \cup {NoRoute} BY <3>2
        <3> HIDE DEF at, m
        <3> QED BY <3>3, <3>4, <3>5
    <2>2. route' \in [Models -> Configs \cup {NoRoute}]
        BY <1>4, <2>1 DEF CallLiteLLM, SyncTypeOK
    <2>3. /\ [task[w] EXCEPT !.step = "report", !.ok = TRUE] \in Task
          /\ [task[w] EXCEPT !.step = "report"] \in Task
        BY <1>1 DEF Task
    <2>4. task' \in [Workers -> Task]
        <3>1. \/ task' = [task EXCEPT ![w] = [task[w] EXCEPT !.step = "report", !.ok = TRUE]]
              \/ task' = [task EXCEPT ![w] = [task[w] EXCEPT !.step = "report"]]
            BY <1>4 DEF CallLiteLLM, SyncTypeOK, Task
        <3> QED BY <2>3, <3>1 DEF SyncTypeOK
    <2>5. faults' \in 0..MaxFaults BY <1>4, CountedTyped DEF CallLiteLLM, SyncTypeOK
    <2> QED BY <1>4, <2>2, <2>4, <2>5 DEF CallLiteLLM, SyncTypeOK
<1>5. CASE Report(w)
    <2>1. Attempted(task[w]) \in Told
        BY <1>1 DEF Attempted, Told, Task, Snapshots, Hashes
    <2>2. told' \in [Models -> Told] BY <1>5, <2>1 DEF Report, SyncTypeOK, Told
    <2>3. task[w].ok \in BOOLEAN BY <1>1 DEF Task
    <2>4. task' \in [Workers -> Task] /\ upserts' \in [Models -> Nat]
        BY <1>5, <2>3, TaskTyped DEF Report
    <2> QED BY <1>5, <2>2, <2>4 DEF Report, SyncTypeOK, Told
<1>6. CASE LoseTask(w)
    <2>1. task' \in [Workers -> Task] /\ upserts' \in [Models -> Nat]
        BY <1>6, TaskTyped DEF LoseTask
    <2>2. faults' \in 0..MaxFaults BY <1>6, CountedTyped DEF LoseTask
    <2> QED BY <1>6, <2>1, <2>2 DEF LoseTask, SyncTypeOK
<1> QED BY <1>2, <1>3, <1>4, <1>5, <1>6

LEMMA HandleDeleteTyped ==
    ASSUME SyncTypeOK, NEW m \in Models, HandleDelete(m)
    PROVE  SyncTypeOK'
<1>1. deletes \in [Models -> Nat] /\ deletes[m] > 0 BY DEF SyncTypeOK, HandleDelete
<1>2. deletes[m] - 1 \in Nat BY <1>1
<1>3. deletes' \in [Models -> Nat] BY <1>1, <1>2 DEF HandleDelete
<1>4. route' \in [Models -> Configs \cup {NoRoute}] BY DEF HandleDelete, SyncTypeOK
<1>5. faults' \in 0..MaxFaults BY CountedTyped DEF HandleDelete, SyncTypeOK
<1> QED BY <1>3, <1>4, <1>5 DEF HandleDelete, SyncTypeOK

\* What the periodic pass leaves.
LEMMA PassTyped ==
    ASSUME SyncTypeOK, NEW p \in Passes, PassStep(p) \/ Restart(p)
    PROVE  SyncTypeOK'
<1>1. p \in Workers /\ pass \in [Passes -> Pass] /\ pass[p] \in Pass BY DEF Workers, SyncTypeOK
<1>2. NextTick(p) \in Pass
    <2>1. pass[p].tick \in Nat /\ SweepEvery \in Nat \ {0} BY <1>1, ModelSyncAssumption DEF Pass
    <2>2. (pass[p].tick + 1) % SweepEvery \in Ticks BY <2>1 DEF Ticks
    <2> QED BY <2>2, RestingTyped DEF NextTick
<1>3. ASSUME NEW q \in Pass, pass' = [pass EXCEPT ![p] = q] PROVE pass' \in [Passes -> Pass]
    BY <1>1, <1>3
<1>4. CASE BeginPass(p)
    <2>1. pass[p].tick \in Ticks BY <1>1 DEF Pass, Ticks
    <2>2. [NoPass(pass[p].tick) EXCEPT !.step = "sync", !.left = Tenants] \in Pass
        BY <2>1 DEF Pass, NoPass, Ticks
    <2>3. pass' \in [Passes -> Pass] BY <1>1, <1>4, <2>2 DEF BeginPass
    <2> QED BY <1>4, <2>3 DEF BeginPass, SyncTypeOK
<1>5. CASE ListTenant(p)
    <2>1. PICK t \in pass[p].left :
            \/ /\ pass' = [pass EXCEPT ![p].left = @ \ {t}, ![p].local = @ \cup Listed(t),
                                       ![p].todo = {Snapshot(m) : m \in Listed(t)}]
               /\ UNCHANGED faults
            \/ Fails /\ pass' = [pass EXCEPT ![p].left = @ \ {t}]
        BY <1>5 DEF ListTenant
    <2>2. Listed(t) \subseteq Models BY DEF Listed
    <2> DEFINE S == {Snapshot(m) : m \in Listed(t)}
    <2>3. S \in SUBSET Snapshots BY <2>2, SnapshotTyped
    <2> HIDE DEF S
    <2>4. /\ [pass[p] EXCEPT !.left = @ \ {t}, !.local = @ \cup Listed(t), !.todo = S] \in Pass
          /\ [pass[p] EXCEPT !.left = @ \ {t}] \in Pass
        BY <1>1, <2>2, <2>3 DEF Pass
    <2>5. \/ pass' = [pass EXCEPT ![p] = [pass[p] EXCEPT !.left = @ \ {t}, !.local = @ \cup Listed(t),
                                                         !.todo = S]]
          \/ pass' = [pass EXCEPT ![p] = [pass[p] EXCEPT !.left = @ \ {t}]]
        BY <1>1, <2>1 DEF S
    <2>6. pass' \in [Passes -> Pass] BY <1>1, <2>4, <2>5
    <2>7. faults' \in 0..MaxFaults BY <2>1, CountedTyped DEF SyncTypeOK
    <2> QED BY <1>5, <2>6, <2>7 DEF ListTenant, SyncTypeOK
<1>6. CASE SyncListed(p)
    <2>1. PICK s \in pass[p].todo :
            Started(p, s, FALSE) /\ pass' = [pass EXCEPT ![p].todo = @ \ {s}]
        BY <1>6 DEF SyncListed
    <2>2. s \in Snapshots BY <1>1 DEF Pass
    <2>3. task' \in [Workers -> Task] BY <1>1, <2>1, <2>2, TaskTyped
    <2>4. [pass[p] EXCEPT !.todo = @ \ {s}] \in Pass BY <1>1 DEF Pass
    <2>5. pass' \in [Passes -> Pass] BY <1>1, <2>1, <2>4
    <2> QED BY <1>6, <2>3, <2>5 DEF SyncListed, SyncTypeOK
<1>7. CASE EndOfSync(p)
    <2>1. Orphans(pass[p].local) \subseteq Models BY DEF Orphans
    <2>2. [pass[p] EXCEPT !.step = "sweep", !.orphans = Orphans(pass[p].local)] \in Pass
        BY <1>1, <2>1 DEF Pass
    <2>3. \/ pass' = [pass EXCEPT ![p] = [pass[p] EXCEPT !.step = "sweep",
                                                         !.orphans = Orphans(pass[p].local)]]
          \/ pass' = [pass EXCEPT ![p] = NextTick(p)]
        BY <1>1, <1>7 DEF EndOfSync
    <2>4. pass' \in [Passes -> Pass] BY <1>1, <1>2, <2>2, <2>3
    <2>5. faults' \in 0..MaxFaults BY <1>7, CountedTyped DEF EndOfSync, SyncTypeOK
    <2> QED BY <1>7, <2>4, <2>5 DEF EndOfSync, SyncTypeOK
<1>8. CASE EndPass(p)
    <2>1. pass' \in [Passes -> Pass] BY <1>1, <1>2, <1>8 DEF EndPass
    <2> QED BY <1>8, <2>1 DEF EndPass, SyncTypeOK
<1>9. CASE CallLiteLLM(p) \/ Report(p) BY <1>1, <1>9, TaskStepTyped
<1>10. ASSUME NEW m \in Models, SweepOrphan(p, m) PROVE SyncTypeOK'
    <2>1. [pass[p] EXCEPT !.orphans = @ \ {m}] \in Pass BY <1>1 DEF Pass
    <2>2. pass' \in [Passes -> Pass] BY <1>1, <1>10, <2>1 DEF SweepOrphan
    <2>3. route' \in [Models -> Configs \cup {NoRoute}] BY <1>10 DEF SweepOrphan, SyncTypeOK
    <2>4. faults' \in 0..MaxFaults BY <1>10, CountedTyped DEF SweepOrphan, SyncTypeOK
    <2> QED BY <1>10, <2>2, <2>3, <2>4 DEF SweepOrphan, SyncTypeOK
<1>11. CASE Restart(p)
    <2>1. pass' \in [Passes -> Pass] BY <1>1, <1>11, RestingTyped DEF Restart
    <2>2. task' \in [Workers -> Task] BY <1>11, RestingTyped DEF Restart, SyncTypeOK
    <2>3. faults' \in 0..MaxFaults BY <1>11, CountedTyped DEF Restart
    <2> QED BY <1>11, <2>1, <2>2, <2>3 DEF Restart, SyncTypeOK
<1> QED BY <1>4, <1>5, <1>6, <1>7, <1>8, <1>9, <1>10, <1>11 DEF PassStep

LEMMA SyncTyped == SyncTypeOK /\ SyncNext => SyncTypeOK'
<1> SUFFICES ASSUME SyncTypeOK, SyncNext PROVE SyncTypeOK' OBVIOUS
<1>1. Handlers \subseteq Workers BY DEF Workers
<1> QED BY <1>1, RequestTyped, HandleDeleteTyped, TaskStepTyped, PassTyped DEF SyncNext

-----------------------------------------------------------------------------
\* Both on the same models

LEMMA SyncInitTyped == SyncInit => SyncTypeOK
<1> SUFFICES ASSUME SyncInit PROVE SyncTypeOK OBVIOUS
<1>1. connection \in [Models -> Rows] BY NothingTyped DEF SyncInit
<1>2. task \in [Workers -> Task] /\ pass \in [Passes -> Pass] BY RestingTyped DEF SyncInit
<1>3. told \in [Models -> Told] BY RestingTyped DEF SyncInit, Told
<1>4. changes \in 0..MaxRequests /\ faults \in 0..MaxFaults BY ModelSyncAssumption DEF SyncInit
<1> QED BY <1>1, <1>2, <1>3, <1>4 DEF SyncInit, SyncTypeOK, Told

\* The rows of the models and the syncs of LiteLLM, the definitions of an agent and
\* the requests on both stay of their types, on the same models, whichever machine
\* moves.
THEOREM BothTyped == Spec => []TypeOK
<1> DEFINE Both == SyncTypeOK /\ DInv
<1>1. Init => Both BY SyncInitTyped, Inductive DEF Init
<1>2. ASSUME Both, [Next]_allVars PROVE Both'
    <2>1. CASE Routed
        <3>1. SyncTypeOK' BY <1>2, <2>1, SyncTyped DEF Routed
        <3>2. connection' \in [Models -> Rows] BY <3>1 DEF SyncTypeOK
        <3>3. UNCHANGED <<agent, revisions, request, modelChanges>> BY <2>1 DEF Routed, agentVars
        <3>4. DInv' BY <1>2, <3>2, <3>3, ModelsInv DEF DInv, DefTypeOK, Asking
        <3> QED BY <3>1, <3>4
    <2>2. CASE Edited
        <3>1. DInv' BY <1>2, <2>2, Inductive DEF Edited
        <3>2. connection' \in [Models -> Rows] BY <3>1 DEF DInv, DefTypeOK
        <3>3. UNCHANGED routeVars BY <2>2 DEF Edited
        <3>4. SyncTypeOK' BY <1>2, <3>2, <3>3 DEF SyncTypeOK, routeVars
        <3> QED BY <3>1, <3>4
    <2>3. CASE UNCHANGED allVars
        <3>1. UNCHANGED <<connection, agent, revisions, request, modelChanges>> /\ UNCHANGED routeVars
            BY <2>3 DEF allVars, agentVars
        <3>2. SyncTypeOK' BY <1>2, <3>1 DEF SyncTypeOK, routeVars
        <3>3. DInv' BY <1>2, <3>1, Inductive DEF defVars
        <3> QED BY <3>2, <3>3
    <2> QED BY <1>2, <2>1, <2>2, <2>3 DEF Next
<1>3. Both => TypeOK BY DEF TypeOK, DInv
<1> HIDE DEF Both
<1> QED BY <1>1, <1>2, <1>3, PTL DEF Spec
=============================================================================
