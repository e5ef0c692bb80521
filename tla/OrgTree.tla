------------------------------- MODULE OrgTree -------------------------------
(***************************************************************************)
(* Organisation units and who manages an employee                          *)
(* (src/internal/service/hr_service.go, ehrms_service.go,                  *)
(* hr_manager_resolution.go).  A unit keeps its parent and, for queries,   *)
(* the path from the root; an edit reads the unit, its parent and the      *)
(* list, then writes the unit and the rows below it.  Nothing locks the    *)
(* rows in between, so two edits may cross.                                *)
(***************************************************************************)
EXTENDS Naturals, Sequences, FiniteSets

CONSTANTS
    OrgUnits, NoUnit,
    Departments,    \* the units that eHRMS knows
    Positions, NoPosition,
    People,         \* employees, by employee number
    Place,          \* Place[e]: unit and position of employee e
    NoManager,
    Editors         \* requests of administrators

ASSUME OrgAssumption ==
    /\ IsFiniteSet(OrgUnits) /\ NoUnit \notin OrgUnits /\ Departments \subseteq OrgUnits
    /\ NoPosition \notin Positions
    /\ People \subseteq Nat /\ NoManager \notin People
    /\ Place \in [People -> [unit : OrgUnits, position : Positions]]

VARIABLES
    unit,       \* org_units
    edit,       \* what each request has read
    uneven      \* two edits crossed, or eHRMS moved a unit from under a local one

orgVars == <<unit, edit, uneven>>

NoRecord == [here |-> FALSE, parent |-> NoUnit, path |-> << >>, closed |-> FALSE,
             chief |-> NoPosition]
NoEdit == [step |-> "idle", u |-> NoUnit, before |-> NoRecord, next |-> NoRecord,
           newest |-> TRUE]

OrgTypeOK ==
    /\ unit \in [OrgUnits -> [here : BOOLEAN, parent : OrgUnits \cup {NoUnit},
            path : Seq(OrgUnits), closed : BOOLEAN, chief : Positions \cup {NoPosition}]]
    /\ \A p \in Editors : edit[p].step \in {"idle", "write"} /\ edit[p].newest \in BOOLEAN
    /\ uneven \in BOOLEAN

OrgInit ==
    /\ unit = [u \in OrgUnits |-> NoRecord]
    /\ edit = [p \in Editors |-> NoEdit]
    /\ uneven = FALSE

-----------------------------------------------------------------------------
\* Edits

On(path, u) == \E i \in DOMAIN path : path[i] = u

WouldCycle(u, parent) == parent # NoUnit /\ On(unit[parent].path, u)

PathUnder(u, parent) == IF parent = NoUnit THEN <<u>> ELSE Append(unit[parent].path, u)

\* orgUnitHasClosedAncestor
ClosedAbove(u, path) == \E v \in OrgUnits \ {u} : On(path, v) /\ unit[v].closed

Reads(p, u, next) ==
    edit' = [edit EXCEPT ![p] = [step |-> "write", u |-> u, before |-> unit[u],
                                 next |-> next, newest |-> TRUE]]

Parents(u) == {NoUnit} \cup {v \in OrgUnits \ {u} : unit[v].here}

BeginCreate(p) ==
    /\ edit[p].step = "idle"
    /\ \E u \in OrgUnits, c \in Positions \cup {NoPosition} : \E parent \in Parents(u) :
        LET path == PathUnder(u, parent) IN
        /\ ~unit[u].here
        /\ Reads(p, u, [here |-> TRUE, parent |-> parent, path |-> path,
                        closed |-> parent # NoUnit /\ ClosedAbove(u, path), chief |-> c])
    /\ UNCHANGED <<unit, uneven>>

\* wish says what the request asks of the closed flag.
BeginUpdate(p) ==
    /\ edit[p].step = "idle"
    /\ \E u \in OrgUnits, c \in Positions \cup {NoPosition}, wish \in {"keep", "close", "open"} :
       \E parent \in Parents(u) :
        LET moved == parent # unit[u].parent
            path == IF moved THEN PathUnder(u, parent) ELSE unit[u].path
            under == ClosedAbove(u, path)
        IN
        /\ unit[u].here
        /\ moved => ~WouldCycle(u, parent)
        /\ ~(under /\ wish = "open")
        /\ Reads(p, u, [here |-> TRUE, parent |-> parent, path |-> path, chief |-> c,
                        closed |-> \/ under
                                   \/ wish = "close"
                                   \/ wish = "keep" /\ unit[u].closed])
    /\ UNCHANGED <<unit, uneven>>

Below(path, prefix) ==
    Len(path) >= Len(prefix) /\ SubSeq(path, 1, Len(prefix)) = prefix

\* Mutant: the units below keep the path they had.
Carried_Not(v, before, next) == v.path

\* The path of row v after the unit on top of it moved.
Carried(v, before, next) ==
    IF Below(v.path, before.path)
    THEN next.path \o SubSeq(v.path, Len(before.path) + 1, Len(v.path))
    ELSE v.path

\* updateOrgUnitDescendantPaths, then closeOrgUnitDescendants
Descendants(rows, u, before, next) ==
    LET moved == before.here /\ before.parent # next.parent
        path == [v \in OrgUnits |-> IF moved /\ v # u THEN Carried(rows[v], before, next)
                                    ELSE rows[v].path]
    IN  [v \in OrgUnits |->
            [rows[v] EXCEPT !.path = path[v],
                            !.closed = \/ @
                                       \/ /\ before.here /\ next.closed
                                          /\ rows[v].here /\ Below(path[v], next.path)]]

Overtaken(p) ==
    [q \in Editors |->
        IF q = p THEN NoEdit
        ELSE IF edit[q].step = "write" THEN [edit[q] EXCEPT !.newest = FALSE] ELSE edit[q]]

Write(p) ==
    LET t == edit[p] IN
    /\ t.step = "write"
    /\ t.before.here \/ ~unit[t.u].here     \* ids of new units are new
    /\ unit' = Descendants([unit EXCEPT ![t.u] = t.next], t.u, t.before, t.next)
    /\ uneven' = (uneven \/ ~t.newest)
    /\ edit' = Overtaken(p)

Forget(p) ==
    /\ edit[p].step # "idle"
    /\ edit' = [edit EXCEPT ![p] = NoEdit]
    /\ UNCHANGED <<unit, uneven>>

\* EHRMSOrgUnitsFromDepartments: what eHRMS says of its open departments; the
\* parent of an open one is open.
Upstream(rows) ==
    \A u \in DOMAIN rows :
        /\ rows[u].parent \in DOMAIN rows \cup {NoUnit}
        /\ rows[u].path = IF rows[u].parent = NoUnit THEN <<u>>
                          ELSE Append(rows[rows[u].parent].path, u)

\* UpsertEHRMSOrgUnits: open departments get the places eHRMS gives them, closed
\* ones are left out, and the units below a department keep their paths.
Synchronise ==
    \E open \in SUBSET Departments :
    \E rows \in [open -> [here : {TRUE}, closed : {FALSE}, parent : open \cup {NoUnit},
                          path : UNION {[1..n -> open] : n \in 1..Cardinality(open)},
                          chief : Positions \cup {NoPosition}]] :
        /\ Upstream(rows)
        /\ unit' = [u \in OrgUnits |-> IF u \in open THEN rows[u] ELSE unit[u]]
        /\ uneven' = (uneven \/ \E v \in OrgUnits \ open, u \in open :
                                    On(unit[v].path, u) /\ unit[u].path # rows[u].path)
        /\ edit' = [p \in Editors |-> IF edit[p].step = "idle" THEN edit[p]
                                      ELSE [edit[p] EXCEPT !.newest = FALSE]]

OrgEdit(p) == BeginCreate(p) \/ BeginUpdate(p) \/ Write(p) \/ Forget(p)

OrgNext == (\E p \in Editors : OrgEdit(p)) \/ Synchronise

OrgSpec == OrgInit /\ [][OrgNext]_orgVars

-----------------------------------------------------------------------------
\* Who manages an employee

\* inheritManagerPosition: for a unit, the one at it or above it that says which
\* position manages; the units seen end a loop.
Inherits[seen \in SUBSET OrgUnits] ==
    [u \in OrgUnits \cup {NoUnit} |->
        IF u = NoUnit \/ u \in seen THEN NoUnit
        ELSE IF ~unit[u].here THEN NoUnit
        ELSE IF unit[u].chief # NoPosition THEN u
        ELSE Inherits[seen \cup {u}][unit[u].parent]]

Holders(u) == {e \in People : Place[e] = [unit |-> u, position |-> unit[u].chief]}
Least(S) == CHOOSE e \in S : \A f \in S : e <= f

\* Mutant: whoever holds the position manages himself as well.
Skips_Nobody(h, e) == FALSE

Skips(h, e) == h = e

\* resolvePositionManager, for an employee and a unit to begin at
Manages(e) ==
    LET climb[seen \in SUBSET OrgUnits] ==
            [u \in OrgUnits \cup {NoUnit} |->
                LET d == Inherits[{}][u] IN
                IF u \in seen \/ d = NoUnit THEN NoManager
                ELSE IF Holders(d) = {} THEN NoManager
                ELSE IF Skips(Least(Holders(d)), e) THEN climb[seen \cup {u}][unit[d].parent]
                ELSE Least(Holders(d))]
    IN  climb[{}]

ManagerOf(e) == Manages(e)[Place[e].unit]

-----------------------------------------------------------------------------
\* Properties

Above(u) == {unit[u].path[i] : i \in DOMAIN unit[u].path} \ {u}

\* As long as edits do not cross, the paths are those of the parents, the tree
\* has no cycle, and no unit below a closed one is open.
TreeSound ==
    ~uneven => \A u \in OrgUnits : unit[u].here =>
        /\ unit[u].path = IF unit[u].parent = NoUnit THEN <<u>>
                          ELSE Append(unit[unit[u].parent].path, u)
        /\ \A v \in Above(u) : unit[v].here /\ (unit[v].closed => unit[u].closed)

\* An employee's manager is somebody else, and is the first holder of the manager
\* position of the employee's unit or one above it: also in a tree that crossed
\* edits have bent into a loop.
ManagedFromAbove ==
    \A e \in People : ManagerOf(e) # NoManager =>
        /\ ManagerOf(e) # e
        /\ \E n \in 1..Cardinality(OrgUnits) : \E up \in [1..n -> OrgUnits] :
            /\ up[1] = Place[e].unit
            /\ \A i \in 2..n : up[i] = unit[up[i - 1]].parent
            /\ Holders(up[n]) # {} /\ ManagerOf(e) = Least(Holders(up[n]))
=============================================================================
