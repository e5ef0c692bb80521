--------------------------- MODULE DirectoryProofs ---------------------------
(***************************************************************************)
(* The directory of the organisation: its units and the identities its     *)
(* accounts log in with.                                                   *)
(*                                                                         *)
(* Of the units, for any number of them, of requests and of departments:   *)
(* TreeSound of OrgTree.  The invariant says what an edit that nobody      *)
(* overtook has read, and that every path is well-formed.  And             *)
(* ManagedFromAbove, in any tree, by what a climb along parents finds.     *)
(*                                                                         *)
(* Of a succeeded provisioning event, for any number of accounts,          *)
(* addresses, events and workers: SucceededHolds and DisagreementVisible   *)
(* of IdentityProvisioning, from one inductive invariant.                  *)
(***************************************************************************)
EXTENDS OrgTree, IdentityProvisioning, FiniteSetTheorems, SequenceTheorems,
        WellFoundedInduction, TLAPS

-----------------------------------------------------------------------------
\* Units: the invariant

Rows == [here : BOOLEAN, parent : OrgUnits \cup {NoUnit}, path : Seq(OrgUnits),
         closed : BOOLEAN, chief : Positions \cup {NoPosition}]

Reading == [step : {"idle", "write"}, u : OrgUnits \cup {NoUnit}, before : Rows, next : Rows,
            newest : BOOLEAN]

OrgTyped ==
    /\ unit \in [OrgUnits -> Rows]
    /\ edit \in [Editors -> Reading]
    /\ \A p \in Editors : edit[p].step = "write" => edit[p].u \in OrgUnits
    /\ uneven \in BOOLEAN

\* The path of a unit ends in it, goes over its parent, and begins with the paths of
\* the units on it; they are there, and closed only if the unit is.
Shaped(v) ==
    LET s == unit[v].path IN
    /\ Len(s) > 0 /\ s[Len(s)] = v
    /\ unit[v].parent = IF Len(s) = 1 THEN NoUnit ELSE s[Len(s) - 1]
    /\ \A i \in 1..Len(s) :
        /\ unit[s[i]].here /\ Len(unit[s[i]].path) = i
        /\ \A k \in 1..i : unit[s[i]].path[k] = s[k]

ClosedUnder(v) ==
    \A i \in DOMAIN unit[v].path : unit[unit[v].path[i]].closed => unit[v].closed

Rooted(v) == Shaped(v) /\ ClosedUnder(v)

\* What an edit has read, and what it makes of it, while nobody has written since.
Current(p) ==
    LET t == edit[p] IN
    /\ t.before = unit[t.u]
    /\ t.next.here /\ t.next.parent \in Parents(t.u)
    /\ t.next.path = IF t.before.here /\ t.next.parent = t.before.parent THEN t.before.path
                     ELSE PathUnder(t.u, t.next.parent)
    /\ t.before.here /\ t.next.parent # t.before.parent => ~WouldCycle(t.u, t.next.parent)
    /\ ClosedAbove(t.u, t.next.path) => t.next.closed

AllCurrent == \A p \in Editors : edit[p].step = "write" /\ edit[p].newest => Current(p)

AllRooted == ~uneven => \A v \in OrgUnits : unit[v].here => Rooted(v)

OrgInv == OrgTyped /\ AllCurrent /\ AllRooted

-----------------------------------------------------------------------------
\* Paths

\* A path is below another if it begins with it.
LEMMA BelowIs ==
    ASSUME NEW s \in Seq(OrgUnits), NEW t \in Seq(OrgUnits)
    PROVE  Below(s, t) <=> Len(s) >= Len(t) /\ \A k \in 1..Len(t) : s[k] = t[k]
<1>1. Len(s) \in Nat /\ Len(t) \in Nat OBVIOUS
<1>2. ASSUME Len(s) >= Len(t)
      PROVE  SubSeq(s, 1, Len(t)) = t <=> \A k \in 1..Len(t) : s[k] = t[k]
    <2> DEFINE b == SubSeq(s, 1, Len(t))
    <2>1. \A i \in 1..Len(t) : s[i] \in OrgUnits BY <1>1, <1>2, ElementOfSeq
    <2>2. b \in Seq(OrgUnits) /\ Len(b) = Len(t) /\ \A i \in 1..Len(t) : b[i] = s[i]
        BY <1>1, <2>1, SubSeqProperties
    <2> HIDE DEF b
    <2>3. (\A i \in 1..Len(t) : b[i] = t[i]) => b = t BY <2>2, SeqEqual
    <2>4. b = t <=> \A k \in 1..Len(t) : s[k] = t[k] BY <2>2, <2>3
    <2> QED BY <2>4 DEF b
<1> QED BY <1>2 DEF Below

\* What path s becomes when path b on top of it becomes a: a, and what s had after b.
CarriedOf(c, s, b, a) ==
    /\ c \in Seq(OrgUnits)
    /\ ~Below(s, b) => c = s
    /\ Below(s, b) => /\ Len(c) = Len(a) + (Len(s) - Len(b))
                      /\ \A k \in 1..Len(a) : c[k] = a[k]
                      /\ \A k \in Len(a) + 1..Len(c) : c[k] = s[k - Len(a) + Len(b)]

LEMMA CarriedIs ==
    ASSUME NEW v \in Rows, NEW before \in Rows, NEW next \in Rows
    PROVE  CarriedOf(Carried(v, before, next), v.path, before.path, next.path)
<1> DEFINE s == v.path
           b == before.path
           a == next.path
           r == SubSeq(s, Len(b) + 1, Len(s))
<1>1. s \in Seq(OrgUnits) /\ b \in Seq(OrgUnits) /\ a \in Seq(OrgUnits) BY DEF Rows
<1> HIDE DEF s, b, a
<1>2. Len(s) \in Nat /\ Len(b) \in Nat /\ Len(a) \in Nat BY <1>1
<1>3. CASE ~Below(s, b) BY <1>1, <1>3 DEF Carried, CarriedOf, s, b, a
<1>4. CASE Below(s, b)
    <2>1. Len(s) >= Len(b) BY <1>4 DEF Below
    <2>2. \A i \in Len(b) + 1..Len(s) : s[i] \in OrgUnits BY <1>1, <1>2, ElementOfSeq
    <2>3. /\ r \in Seq(OrgUnits) /\ Len(r) = Len(s) - Len(b)
          /\ \A i \in 1..Len(s) - Len(b) : r[i] = s[i + Len(b)]
        <3>1. /\ r \in Seq(OrgUnits)
              /\ Len(r) = IF Len(b) + 1 <= Len(s) THEN Len(s) - (Len(b) + 1) + 1 ELSE 0
              /\ \A i \in 1..Len(s) - (Len(b) + 1) + 1 : r[i] = s[Len(b) + 1 + i - 1]
            BY <1>2, <2>2, SubSeqProperties
        <3> HIDE DEF r
        <3>2. Len(r) = Len(s) - Len(b) BY <1>2, <2>1, <3>1
        <3>3. ASSUME NEW i \in 1..Len(s) - Len(b) PROVE r[i] = s[i + Len(b)]
            <4>1. i \in 1..Len(s) - (Len(b) + 1) + 1 /\ Len(b) + 1 + i - 1 = i + Len(b) BY <1>2
            <4> QED BY <3>1, <4>1
        <3> QED BY <3>1, <3>2, <3>3
    <2>4. Carried(v, before, next) = a \o r BY <1>4 DEF Carried, s, b, a
    <2> HIDE DEF r
    <2> DEFINE c == a \o r
    <2>5. /\ c \in Seq(OrgUnits) /\ Len(c) = Len(a) + Len(r)
          /\ \A i \in 1..Len(a) + Len(r) : c[i] = IF i <= Len(a) THEN a[i] ELSE r[i - Len(a)]
        <3>1. a \in Seq(OrgUnits) /\ r \in Seq(OrgUnits) BY <1>1, <2>3
        <3> QED BY ONLY <3>1, ConcatProperties
    <2> HIDE DEF c
    <2>6. ASSUME NEW k \in 1..Len(a) PROVE c[k] = a[k]
        <3>1. k \in 1..Len(a) + Len(r) /\ k <= Len(a) BY <1>2, <2>1, <2>3
        <3> QED BY <2>5, <3>1
    <2>7. \A k \in Len(a) + 1..Len(c) : c[k] = s[k - Len(a) + Len(b)]
        <3>1. SUFFICES ASSUME NEW k \in Len(a) + 1..Len(c) PROVE c[k] = s[k - Len(a) + Len(b)]
            OBVIOUS
        <3>2. k - Len(a) \in 1..Len(s) - Len(b) /\ k \in 1..Len(a) + Len(r) /\ ~(k <= Len(a))
            BY <1>2, <2>1, <2>3, <2>5
        <3> QED BY <2>3, <2>5, <3>2
    <2>8. Len(c) = Len(a) + (Len(s) - Len(b)) BY <2>3, <2>5
    <2>9. CarriedOf(c, s, b, a) BY <1>4, <2>5, <2>6, <2>7, <2>8 DEF CarriedOf
    <2> QED BY <2>4, <2>9 DEF c, s, b, a
<1> QED BY <1>3, <1>4 DEF s, b

\* The path of a unit under its parent.
LEMMA PathUnderIs ==
    ASSUME OrgTyped, NEW u \in OrgUnits, NEW parent \in OrgUnits \cup {NoUnit}
    PROVE  LET c == PathUnder(u, parent)
               s == unit[parent].path
           IN  /\ c \in Seq(OrgUnits)
               /\ parent = NoUnit => Len(c) = 1 /\ c[1] = u
               /\ parent # NoUnit =>
                    /\ Len(c) = Len(s) + 1 /\ c[Len(s) + 1] = u
                    /\ \A k \in 1..Len(s) : c[k] = s[k]
<1>1. CASE parent = NoUnit
    <2>1. PathUnder(u, parent) = <<u>> BY <1>1 DEF PathUnder
    <2> QED BY <1>1, <2>1
<1>2. CASE parent # NoUnit
    <2>1. unit[parent].path \in Seq(OrgUnits) BY <1>2 DEF OrgTyped, Rows
    <2>2. PathUnder(u, parent) = Append(unit[parent].path, u) BY <1>2 DEF PathUnder
    <2> QED BY <1>2, <2>1, <2>2, AppendProperties
<1> QED BY <1>1, <1>2

\* Row v after a write, by what was written over the row of u.
After(new, rows, u, before, next, v) ==
    /\ new.here = rows[v].here /\ new.parent = rows[v].parent
    /\ new.path = IF before.here /\ before.parent # next.parent /\ v # u
                  THEN Carried(rows[v], before, next) ELSE rows[v].path
    /\ new.closed <=> \/ rows[v].closed
                      \/ /\ before.here /\ next.closed
                         /\ rows[v].here /\ Below(new.path, next.path)

LEMMA DescendantsAre ==
    ASSUME NEW rows \in [OrgUnits -> Rows], NEW u, NEW before \in Rows, NEW next \in Rows
    PROVE  /\ Descendants(rows, u, before, next) \in [OrgUnits -> Rows]
           /\ \A v \in OrgUnits :
                After(Descendants(rows, u, before, next)[v], rows, u, before, next, v)
<1> DEFINE moved == before.here /\ before.parent # next.parent
           path == [w \in OrgUnits |-> IF moved /\ w # u THEN Carried(rows[w], before, next)
                                       ELSE rows[w].path]
           closed(w) == \/ rows[w].closed
                        \/ /\ before.here /\ next.closed
                           /\ rows[w].here /\ Below(path[w], next.path)
           new(w) == [rows[w] EXCEPT !.path = path[w], !.closed = closed(w)]
<1>1. Descendants(rows, u, before, next) = [w \in OrgUnits |-> new(w)]
    BY DEF Descendants
<1>2. \A w \in OrgUnits : path[w] \in Seq(OrgUnits)
    BY CarriedIs DEF Rows, CarriedOf
<1>3. \A w \in OrgUnits : closed(w) \in BOOLEAN BY DEF Rows
<1>4. \A v \in OrgUnits : path[v] =
        IF moved /\ v # u THEN Carried(rows[v], before, next) ELSE rows[v].path
    OBVIOUS
<1> HIDE DEF path
<1>5. \A v \in OrgUnits : closed(v) <=>
        \/ rows[v].closed
        \/ /\ before.here /\ next.closed
           /\ rows[v].here /\ Below(path[v], next.path)
    OBVIOUS
<1> HIDE DEF closed
<1>6. ASSUME NEW w \in OrgUnits
      PROVE  /\ new(w) \in Rows /\ new(w).here = rows[w].here
             /\ new(w).parent = rows[w].parent
             /\ new(w).path = path[w] /\ new(w).closed = closed(w)
    BY <1>2, <1>3 DEF Rows
<1> HIDE DEF new
<1>7. /\ Descendants(rows, u, before, next) \in [OrgUnits -> Rows]
      /\ \A v \in OrgUnits : Descendants(rows, u, before, next)[v] = new(v)
    BY <1>1, <1>6
<1>8. \A v \in OrgUnits : After(new(v), rows, u, before, next, v)
    BY <1>4, <1>5, <1>6 DEF After
<1> QED BY <1>7, <1>8

-----------------------------------------------------------------------------
\* What edits read

LEMMA NoRecordTyped == NoRecord \in Rows /\ NoEdit \in Reading /\ NoEdit.step = "idle"
<1>1. NoRecord \in Rows
    <2>1. << >> \in Seq(OrgUnits) BY EmptySeq
    <2> QED BY <2>1 DEF NoRecord, Rows
<1> QED BY <1>1 DEF NoEdit, Reading

\* A request that begins has read the units as they are.
LEMMA ReadsCurrent ==
    ASSUME OrgInv, NEW p \in Editors, NEW u \in OrgUnits, NEW next \in Rows, Reads(p, u, next),
           UNCHANGED <<unit, uneven>>,
           next.here, next.parent \in Parents(u),
           next.path = IF unit[u].here /\ next.parent = unit[u].parent THEN unit[u].path
                       ELSE PathUnder(u, next.parent),
           unit[u].here /\ next.parent # unit[u].parent => ~WouldCycle(u, next.parent),
           ClosedAbove(u, next.path) => next.closed
    PROVE  OrgInv'
<1> DEFINE t == [step |-> "write", u |-> u, before |-> unit[u], next |-> next, newest |-> TRUE]
<1>1. unit[u] \in Rows BY DEF OrgInv, OrgTyped
<1>2. /\ t \in Reading /\ t.u = u /\ t.before = unit[u] /\ t.next = next
      /\ t.newest /\ t.step = "write"
    BY <1>1 DEF Reading
<1>3. edit' = [edit EXCEPT ![p] = t] BY DEF Reads
<1> HIDE DEF t
<1>4. edit'[p] = t /\ \A q \in Editors : q # p => edit'[q] = edit[q]
    BY <1>3 DEF OrgInv, OrgTyped
<1>5. OrgTyped' BY <1>2, <1>3, <1>4 DEF OrgInv, OrgTyped
<1>6. ASSUME NEW q \in Editors, edit'[q].step = "write" /\ edit'[q].newest PROVE Current(q)'
    <2>1. CASE q = p
        BY <1>2, <1>4, <2>1 DEF Current, Parents, PathUnder, WouldCycle, ClosedAbove
    <2>2. CASE q # p
        BY <1>4, <1>6, <2>2
        DEF OrgInv, AllCurrent, Current, Parents, PathUnder, WouldCycle, ClosedAbove
    <2> QED BY <2>1, <2>2
<1>7. AllRooted' BY DEF OrgInv, AllRooted, Rooted, Shaped, ClosedUnder
<1> QED BY <1>5, <1>6, <1>7 DEF OrgInv, AllCurrent

LEMMA BeginInv ==
    ASSUME OrgInv, NEW p \in Editors, BeginCreate(p) \/ BeginUpdate(p)
    PROVE  OrgInv'
<1>1. \A v \in OrgUnits : unit[v] \in Rows BY DEF OrgInv, OrgTyped
<1>2. \A u \in OrgUnits : Parents(u) \subseteq OrgUnits \cup {NoUnit} BY DEF Parents
<1>3. \A u, path : ClosedAbove(u, path) \in BOOLEAN BY DEF ClosedAbove
<1>4. \A u \in OrgUnits : \A parent \in Parents(u) : PathUnder(u, parent) \in Seq(OrgUnits)
    BY <1>2, PathUnderIs DEF OrgInv
<1>5. CASE BeginCreate(p)
    <2>0. PICK u \in OrgUnits, c \in Positions \cup {NoPosition} :
            \E parent \in Parents(u) :
            LET path == PathUnder(u, parent) IN
            /\ ~unit[u].here
            /\ Reads(p, u, [here |-> TRUE, parent |-> parent, path |-> path,
                            closed |-> parent # NoUnit /\ ClosedAbove(u, path), chief |-> c])
            /\ UNCHANGED <<unit, uneven>>
        BY <1>5 DEF BeginCreate
    <2>1. PICK parent \in Parents(u) :
            /\ ~unit[u].here
            /\ Reads(p, u, [here |-> TRUE, parent |-> parent, path |-> PathUnder(u, parent),
                            closed |-> parent # NoUnit /\ ClosedAbove(u, PathUnder(u, parent)),
                            chief |-> c])
            /\ UNCHANGED <<unit, uneven>>
        BY <2>0
    <2> DEFINE path == PathUnder(u, parent)
               closed == parent # NoUnit /\ ClosedAbove(u, path)
               next == [here |-> TRUE, parent |-> parent, path |-> path, closed |-> closed,
                        chief |-> c]
    <2>2. ClosedAbove(u, path) => closed
        <3>1. CASE parent = NoUnit
            <4>1. path = <<u>> BY <3>1 DEF PathUnder
            <4>2. \A v : On(path, v) => v = u BY <4>1 DEF On
            <4> QED BY <4>2 DEF ClosedAbove
        <3> QED BY <3>1
    <2>3. path \in Seq(OrgUnits) /\ closed \in BOOLEAN BY <1>3, <1>4
    <2>4. path = PathUnder(u, parent) OBVIOUS
    <2> HIDE DEF path, closed
    <2>5. next \in Rows BY <1>2, <2>1, <2>3 DEF Rows
    <2>6. /\ next.here /\ next.parent = parent /\ next.path = path /\ next.closed = closed
          /\ Reads(p, u, next)
        BY <2>1 DEF path, closed
    <2> HIDE DEF next
    <2> QED BY <2>1, <2>2, <2>4, <2>5, <2>6, ReadsCurrent
<1>6. CASE BeginUpdate(p)
    <2> DEFINE Path(u, parent) ==
                   IF parent # unit[u].parent THEN PathUnder(u, parent) ELSE unit[u].path
               Closed(u, parent, wish) == \/ ClosedAbove(u, Path(u, parent))
                                          \/ wish = "close"
                                          \/ wish = "keep" /\ unit[u].closed
               Next(u, parent, c, wish) ==
                   [here |-> TRUE, parent |-> parent, path |-> Path(u, parent), chief |-> c,
                    closed |-> Closed(u, parent, wish)]
    <2>0. UNCHANGED <<unit, uneven>> BY <1>6 DEF BeginUpdate
    <2>1. PICK u \in OrgUnits, c \in Positions \cup {NoPosition},
               wish \in {"keep", "close", "open"} : \E parent \in Parents(u) :
            LET moved == parent # unit[u].parent
                path == IF moved THEN PathUnder(u, parent) ELSE unit[u].path
                under == ClosedAbove(u, path)
            IN
            /\ unit[u].here
            /\ moved => ~WouldCycle(u, parent)
            /\ ~(under /\ wish = "open")
            /\ Reads(p, u, [here |-> TRUE, parent |-> parent, path |-> path, chief |-> c,
                            closed |-> \/ under
                                       \/ wish = "close"
                                       \/ wish = "keep" /\ unit[u].closed])
        BY <1>6 DEF BeginUpdate
    <2>2. PICK parent \in Parents(u) :
            LET moved == parent # unit[u].parent
                path == IF moved THEN PathUnder(u, parent) ELSE unit[u].path
                under == ClosedAbove(u, path)
            IN
            /\ unit[u].here
            /\ moved => ~WouldCycle(u, parent)
            /\ ~(under /\ wish = "open")
            /\ Reads(p, u, [here |-> TRUE, parent |-> parent, path |-> path, chief |-> c,
                            closed |-> \/ under
                                       \/ wish = "close"
                                       \/ wish = "keep" /\ unit[u].closed])
        BY <2>1
    <2>3. /\ unit[u].here
          /\ parent # unit[u].parent => ~WouldCycle(u, parent)
          /\ Reads(p, u, Next(u, parent, c, wish))
        BY <2>2
    <2> DEFINE path == Path(u, parent)
               closed == Closed(u, parent, wish)
               next == Next(u, parent, c, wish)
    <2>4. ClosedAbove(u, path) => closed OBVIOUS
    <2>5. path \in Seq(OrgUnits) /\ closed \in BOOLEAN BY <1>1, <1>3, <1>4 DEF Rows
    <2>6. path = IF parent = unit[u].parent THEN unit[u].path ELSE PathUnder(u, parent)
        OBVIOUS
    <2> HIDE DEF Path, Closed
    <2>7. next \in Rows BY <1>2, <2>5 DEF Rows, Next
    <2>8. next.here /\ next.parent = parent /\ next.path = path /\ next.closed = closed
        BY DEF Next
    <2> HIDE DEF path, closed
    <2>9. Reads(p, u, next) BY <2>3
    <2> HIDE DEF next
    <2> QED BY <2>0, <2>3, <2>4, <2>6, <2>7, <2>8, <2>9, ReadsCurrent
<1> QED BY <1>5, <1>6

LEMMA ForgetInv ==
    ASSUME OrgInv, NEW p \in Editors, Forget(p)
    PROVE  OrgInv'
<1>1. edit' = [edit EXCEPT ![p] = NoEdit] /\ UNCHANGED <<unit, uneven>> BY DEF Forget
<1>2. \A q \in Editors : edit'[q] = IF q = p THEN NoEdit ELSE edit[q]
    BY <1>1 DEF OrgInv, OrgTyped
<1>3. OrgTyped' BY <1>1, <1>2, NoRecordTyped DEF OrgInv, OrgTyped
<1>4. AllCurrent'
    BY <1>1, <1>2, NoRecordTyped
    DEF OrgInv, AllCurrent, Current, Parents, PathUnder, WouldCycle, ClosedAbove
<1>5. AllRooted' BY <1>1 DEF OrgInv, AllRooted, Rooted, Shaped, ClosedUnder
<1> QED BY <1>3, <1>4, <1>5 DEF OrgInv

-----------------------------------------------------------------------------
\* Writes

\* The rows after a write: the unit gets what the edit made of it; rows below a unit
\* that moved are carried along, and rows below one that is closed are closed.
LEMMA WriteIs ==
    ASSUME OrgInv, NEW p \in Editors, Write(p)
    PROVE  LET t == edit[p]
               moved == t.before.here /\ t.before.parent # t.next.parent
           IN  /\ t \in Reading /\ t.u \in OrgUnits
               /\ unit' \in [OrgUnits -> Rows]
               /\ unit'[t.u].here = t.next.here /\ unit'[t.u].parent = t.next.parent
               /\ unit'[t.u].path = t.next.path /\ (unit'[t.u].closed <=> t.next.closed)
               /\ \A v \in OrgUnits : v # t.u =>
                    /\ unit'[v].here = unit[v].here /\ unit'[v].parent = unit[v].parent
                    /\ unit'[v].path = IF moved THEN Carried(unit[v], t.before, t.next)
                                       ELSE unit[v].path
                    /\ unit'[v].closed <=>
                        \/ unit[v].closed
                        \/ /\ t.before.here /\ t.next.closed
                           /\ unit[v].here /\ Below(unit'[v].path, t.next.path)
<1> DEFINE t == edit[p]
           rows == [unit EXCEPT ![t.u] = t.next]
<1>1. t \in Reading /\ t.u \in OrgUnits BY DEF OrgInv, OrgTyped, Write
<1>2. t.before \in Rows /\ t.next \in Rows BY <1>1 DEF Reading
<1>3. unit' = Descendants(rows, t.u, t.before, t.next) BY DEF Write
<1> HIDE DEF t
<1>4. /\ rows \in [OrgUnits -> Rows] /\ rows[t.u] = t.next
      /\ \A v \in OrgUnits : v # t.u => rows[v] = unit[v]
    BY <1>1, <1>2 DEF OrgInv, OrgTyped
<1> HIDE DEF rows
<1>5. /\ unit' \in [OrgUnits -> Rows]
      /\ \A v \in OrgUnits : After(unit'[v], rows, t.u, t.before, t.next, v)
    BY <1>2, <1>3, <1>4, DescendantsAre
<1>6. unit' \in [OrgUnits -> Rows] BY <1>5
<1>7. /\ unit'[t.u].here = t.next.here /\ unit'[t.u].parent = t.next.parent
      /\ unit'[t.u].path = t.next.path /\ (unit'[t.u].closed <=> t.next.closed)
    BY <1>1, <1>4, <1>5 DEF After
<1>8. ASSUME NEW v \in OrgUnits, v # t.u
      PROVE  /\ unit'[v].here = unit[v].here /\ unit'[v].parent = unit[v].parent
             /\ unit'[v].path = IF t.before.here /\ t.before.parent # t.next.parent
                                THEN Carried(unit[v], t.before, t.next) ELSE unit[v].path
             /\ unit'[v].closed <=>
                    \/ unit[v].closed
                    \/ /\ t.before.here /\ t.next.closed
                       /\ unit[v].here /\ Below(unit'[v].path, t.next.path)
    BY <1>4, <1>5, <1>8 DEF After
<1> QED BY <1>1, <1>6, <1>7, <1>8 DEF t

\* Every unit on a path that is well-formed is there, and begins it.
LEMMA ShapedOn ==
    ASSUME NEW v \in OrgUnits, unit[v] \in Rows, Shaped(v), NEW w, On(unit[v].path, w)
    PROVE  \E i \in 1..Len(unit[v].path) :
            /\ unit[v].path[i] = w /\ w \in OrgUnits
            /\ unit[w].here /\ Len(unit[w].path) = i
            /\ \A k \in 1..i : unit[w].path[k] = unit[v].path[k]
<1>1. unit[v].path \in Seq(OrgUnits) BY DEF Rows
<1>2. DOMAIN unit[v].path = 1..Len(unit[v].path) BY <1>1, LenProperties
<1>3. PICK i \in 1..Len(unit[v].path) : unit[v].path[i] = w BY <1>2 DEF On
<1>4. w \in OrgUnits BY <1>1, <1>3, ElementOfSeq
<1> QED BY <1>3, <1>4 DEF Shaped

\* A write that nobody overtook, in a tree without crossings: u is the unit, b what
\* it was and a what it becomes.
WriteOf(u, b, a) ==
    /\ u \in OrgUnits /\ b = unit[u] /\ a \in Rows /\ a.here /\ a.parent \in Parents(u)
    /\ a.path = IF b.here /\ a.parent = b.parent THEN b.path ELSE PathUnder(u, a.parent)
    /\ b.here /\ a.parent # b.parent => ~WouldCycle(u, a.parent)
    /\ ClosedAbove(u, a.path) => a.closed
    /\ unit' \in [OrgUnits -> Rows]
    /\ unit'[u].here = a.here /\ unit'[u].parent = a.parent
    /\ unit'[u].path = a.path /\ (unit'[u].closed <=> a.closed)
    /\ \A v \in OrgUnits : v # u =>
        /\ unit'[v].here = unit[v].here /\ unit'[v].parent = unit[v].parent
        /\ unit'[v].path = IF b.here /\ b.parent # a.parent THEN Carried(unit[v], b, a)
                           ELSE unit[v].path
        /\ unit'[v].closed <=>
            \/ unit[v].closed
            \/ b.here /\ a.closed /\ unit[v].here /\ Below(unit'[v].path, a.path)

LEMMA WriteIsOf ==
    ASSUME OrgInv, NEW p \in Editors, Write(p), ~uneven'
    PROVE  /\ \A v \in OrgUnits : unit[v].here => Rooted(v)
           /\ \E u, b, a : WriteOf(u, b, a)
<1>1. ~uneven /\ edit[p].newest /\ edit[p].step = "write" BY DEF Write
<1>2. Current(p) BY <1>1 DEF OrgInv, AllCurrent
<1>3. edit[p].u \in OrgUnits /\ edit[p].next \in Rows
    BY <1>1 DEF OrgInv, OrgTyped, Reading
<1>4. WriteOf(edit[p].u, edit[p].before, edit[p].next)
    BY <1>2, <1>3, WriteIs DEF Current, WriteOf
<1>5. \A v \in OrgUnits : unit[v].here => Rooted(v) BY <1>1 DEF OrgInv, AllRooted
<1> QED BY <1>4, <1>5

\* The paths of units that are not below u stay.
LEMMA PathKept ==
    ASSUME OrgTyped, NEW u, NEW b, NEW a, WriteOf(u, b, a), b.here => Shaped(u),
           NEW q \in OrgUnits, Shaped(q), ~On(unit[q].path, u)
    PROVE  \A i \in 1..Len(unit[q].path) :
            LET w == unit[q].path[i] IN
            /\ w \in OrgUnits /\ w # u
            /\ unit'[w].here /\ unit'[w].path = unit[w].path /\ unit'[w].parent = unit[w].parent
<1> DEFINE s == unit[q].path
<1>1. /\ s \in Seq(OrgUnits) /\ DOMAIN s = 1..Len(s) /\ Len(s) \in Nat
      /\ \A v \in OrgUnits : unit[v] \in Rows /\ unit[v].path \in Seq(OrgUnits)
    BY DEF OrgTyped, Rows
<1>2. SUFFICES ASSUME NEW i \in 1..Len(s)
               PROVE  /\ s[i] \in OrgUnits /\ s[i] # u
                      /\ unit'[s[i]].here /\ unit'[s[i]].path = unit[s[i]].path
                      /\ unit'[s[i]].parent = unit[s[i]].parent
    OBVIOUS
<1> DEFINE w == s[i]
<1>3. w \in OrgUnits /\ w # u BY <1>1, ElementOfSeq DEF On
<1>4. unit[w].here /\ Len(unit[w].path) = i /\ \A k \in 1..i : unit[w].path[k] = s[k]
    BY DEF Shaped
<1>5. ASSUME b.here PROVE ~Below(unit[w].path, b.path)
    <2>1. b = unit[u] /\ u \in OrgUnits BY DEF WriteOf
    <2>2. b.path \in Seq(OrgUnits) /\ Len(b.path) \in Nat BY <1>1, <2>1
    <2>3. Len(b.path) > 0 /\ b.path[Len(b.path)] = u BY <1>5, <2>1 DEF Shaped
    <2>4. ASSUME Len(b.path) <= i, unit[w].path[Len(b.path)] = u PROVE FALSE
        <3>1. Len(b.path) \in 1..i /\ Len(b.path) \in 1..Len(s) BY <1>1, <2>2, <2>3, <2>4
        <3>2. s[Len(b.path)] = u BY <1>4, <2>4, <3>1
        <3> QED BY <1>1, <3>1, <3>2 DEF On
    <2>5. Below(unit[w].path, b.path) =>
            Len(unit[w].path) >= Len(b.path) /\ \A k \in 1..Len(b.path) : unit[w].path[k] = b.path[k]
        BY <1>1, <1>3, <2>2, BelowIs
    <2>6. Len(b.path) \in 1..Len(b.path) BY <2>2, <2>3
    <2> QED BY <1>4, <2>3, <2>4, <2>5, <2>6
<1>6. b \in Rows /\ a \in Rows BY <1>1 DEF WriteOf
<1>7. b.here => Carried(unit[w], b, a) = unit[w].path
    <2>1. unit[w] \in Rows BY <1>1, <1>3
    <2>2. CarriedOf(Carried(unit[w], b, a), unit[w].path, b.path, a.path)
        BY ONLY <1>6, <2>1, CarriedIs
    <2> QED BY <1>5, <2>2 DEF CarriedOf
<1> QED BY <1>3, <1>4, <1>7 DEF WriteOf

\* A unit that is not below u keeps a well-formed path.
LEMMA OtherShaped ==
    ASSUME OrgTyped, NEW u, NEW b, NEW a, WriteOf(u, b, a), b.here => Shaped(u),
           NEW v \in OrgUnits, Shaped(v), ~On(unit[v].path, u)
    PROVE  Shaped(v)' /\ unit'[v].path = unit[v].path
<1>1. unit[v].path \in Seq(OrgUnits) /\ Len(unit[v].path) \in Nat BY DEF OrgTyped, Rows
<1>2. Len(unit[v].path) \in 1..Len(unit[v].path) /\ unit[v].path[Len(unit[v].path)] = v
    BY <1>1 DEF Shaped
<1>3. \A i \in 1..Len(unit[v].path) :
        LET w == unit[v].path[i] IN
        unit'[w].here /\ unit'[w].path = unit[w].path /\ unit'[w].parent = unit[w].parent
    BY PathKept
<1>4. unit'[v].path = unit[v].path /\ unit'[v].parent = unit[v].parent BY <1>2, <1>3
<1>5. ASSUME NEW i \in 1..Len(unit[v].path)
      PROVE  LET w == unit[v].path[i] IN
             /\ unit'[w].here /\ Len(unit'[w].path) = i
             /\ \A k \in 1..i : unit'[w].path[k] = unit[v].path[k]
    BY <1>3, SMTT(30) DEF Shaped
<1> QED BY <1>4, <1>5, SMTT(30) DEF Shaped

\* So does the unit itself, under a parent that is not below it.
LEMMA UnitShaped ==
    ASSUME OrgTyped, NEW u, NEW b, NEW a, WriteOf(u, b, a),
           \A v \in OrgUnits : unit[v].here => Shaped(v),
           ~(b.here /\ a.parent = b.parent)
    PROVE  Shaped(u)'
<1> DEFINE q == a.parent
           s == unit[q].path
           c == a.path
<1>1. u \in OrgUnits /\ b = unit[u] /\ c = PathUnder(u, q) /\ unit'[u].path = c
      /\ unit'[u].parent = q /\ unit'[u].here /\ q \in Parents(u)
    BY DEF WriteOf
<1>2. q \in OrgUnits \cup {NoUnit} /\ (q # NoUnit => q # u /\ unit[q].here)
    BY <1>1 DEF Parents
<1>3. /\ q = NoUnit => Len(c) = 1 /\ c[1] = u
      /\ q # NoUnit => /\ Len(c) = Len(s) + 1 /\ c[Len(s) + 1] = u
                       /\ \A k \in 1..Len(s) : c[k] = s[k]
    <2> HIDE DEF q, c
    <2> DEFINE d == PathUnder(u, q)
    <2>1. /\ q = NoUnit => Len(d) = 1 /\ d[1] = u
          /\ q # NoUnit => /\ Len(d) = Len(s) + 1 /\ d[Len(s) + 1] = u
                           /\ \A k \in 1..Len(s) : d[k] = s[k]
        BY <1>1, <1>2, PathUnderIs
    <2> QED BY <1>1, <2>1
<1>4. CASE q = NoUnit
    <2> HIDE DEF q, c
    <2>1. Len(c) = 1 /\ c[1] = u BY <1>3, <1>4
    <2>2. ASSUME NEW i \in 1..Len(c)
          PROVE  /\ unit'[c[i]].here /\ Len(unit'[c[i]].path) = i
                 /\ \A k \in 1..i : unit'[c[i]].path[k] = c[k]
        <3>1. i = 1 BY <2>1
        <3> QED BY <1>1, <2>1, <3>1
    <2>3. Len(c) > 0 /\ c[Len(c)] = u BY <2>1
    <2> QED BY <1>1, <1>4, <2>1, <2>2, <2>3 DEF Shaped
<1>5. CASE q # NoUnit
    <2>1. Shaped(q) /\ s \in Seq(OrgUnits) /\ Len(s) \in Nat /\ DOMAIN s = 1..Len(s)
        BY <1>2, <1>5 DEF OrgTyped, Rows
    <2>2. ~On(s, u)
        <3>1. CASE b.here
            <4>1. ~WouldCycle(u, q) BY <3>1 DEF WriteOf
            <4> QED BY <1>5, <4>1 DEF WouldCycle
        <3>2. CASE ~b.here
            <4>1. \A i \in 1..Len(s) : unit[s[i]].here BY <2>1 DEF Shaped
            <4> QED BY <1>1, <2>1, <3>2, <4>1 DEF On
        <3> QED BY <3>1, <3>2
    <2>3. b.here => Shaped(u) BY <1>1
    <2>4. \A i \in 1..Len(s) : unit'[s[i]].here /\ unit'[s[i]].path = unit[s[i]].path
        BY <1>2, <1>5, <2>1, <2>2, <2>3, PathKept
    <2>5. Len(s) > 0 /\ s[Len(s)] = q
          /\ \A i \in 1..Len(s) : /\ Len(unit[s[i]].path) = i
                                  /\ \A k \in 1..i : unit[s[i]].path[k] = s[k]
        BY <2>1 DEF Shaped
    <2> HIDE DEF s, c, q
    <2>6. Len(c) = Len(s) + 1 /\ c[Len(c)] = u /\ Len(c) # 1 /\ Len(c) > 0 /\ c[Len(c) - 1] = q
        BY <1>3, <1>5, <2>1, <2>5
    <2>7. ASSUME NEW i \in 1..Len(c)
          PROVE  /\ unit'[c[i]].here /\ Len(unit'[c[i]].path) = i
                 /\ \A k \in 1..i : unit'[c[i]].path[k] = c[k]
        <3>1. CASE i = Len(c) BY <1>1, <2>6, <3>1
        <3>2. CASE i # Len(c)
            <4>1. i \in 1..Len(s) /\ \A k \in 1..i : k \in 1..Len(s) BY <2>1, <2>6, <3>2
            <4>2. c[i] = s[i] /\ \A k \in 1..i : c[k] = s[k] BY <1>3, <1>5, <4>1
            <4> QED BY <2>4, <2>5, <4>1, <4>2
        <3> QED BY <3>1, <3>2
    <2> QED BY <1>1, <2>6, <2>7 DEF Shaped
<1> QED BY <1>4, <1>5

\* A unit below one that moved is carried along.
LEMMA CarriedShaped ==
    ASSUME OrgTyped, NEW u, NEW b, NEW a, WriteOf(u, b, a),
           \A v \in OrgUnits : unit[v].here => Shaped(v),
           b.here, a.parent # b.parent,
           NEW v \in OrgUnits, v # u, unit[v].here, On(unit[v].path, u)
    PROVE  /\ Shaped(v)' /\ Below(unit'[v].path, a.path)
           /\ \A i \in 1..Len(unit'[v].path) :
                On(unit[v].path, unit'[v].path[i]) \/ On(a.path, unit'[v].path[i])
<1> DEFINE s == unit[v].path
           c == unit'[v].path
           m == Len(b.path)
           n == Len(a.path)
<1>1. /\ u \in OrgUnits /\ b = unit[u] /\ b \in Rows /\ a \in Rows
      /\ unit'[u].path = a.path /\ unit'[u].here
    BY DEF WriteOf, OrgTyped
<1>2. /\ s \in Seq(OrgUnits) /\ DOMAIN s = 1..Len(s) /\ Len(s) \in Nat
      /\ b.path \in Seq(OrgUnits) /\ m \in Nat
      /\ a.path \in Seq(OrgUnits) /\ DOMAIN a.path = 1..n /\ n \in Nat
    BY <1>1 DEF OrgTyped, Rows
<1>0. m \in Nat /\ n \in Nat /\ Len(s) \in Nat BY <1>2
<1>3. Shaped(v) OBVIOUS
<1>4. /\ Len(s) > 0 /\ s[Len(s)] = v
      /\ unit[v].parent = (IF Len(s) = 1 THEN NoUnit ELSE s[Len(s) - 1])
      /\ \A j \in 1..Len(s) : /\ unit[s[j]].here /\ Len(unit[s[j]].path) = j
                              /\ \A k \in 1..j : unit[s[j]].path[k] = s[k]
    BY <1>3 DEF Shaped
<1>5. PICK x \in 1..Len(s) : s[x] = u BY <1>2 DEF On
<1>6. m = x /\ m \in 1..Len(s) /\ s[m] = u /\ \A k \in 1..m : b.path[k] = s[k]
    BY <1>1, <1>4, <1>5
<1>7. m < Len(s) BY <1>2, <1>4, <1>6
<1>8. Shaped(u)' BY UnitShaped
<1>9. /\ n > 0 /\ a.path[n] = u
      /\ \A i \in 1..n : /\ unit'[a.path[i]].here /\ Len(unit'[a.path[i]].path) = i
                         /\ \A k \in 1..i : unit'[a.path[i]].path[k] = a.path[k]
    BY <1>1, <1>8 DEF Shaped
<1>10. ASSUME NEW w \in OrgUnits, w # u PROVE unit'[w].path = Carried(unit[w], b, a)
    BY <1>10 DEF WriteOf
<1>11. ASSUME NEW j \in 1..Len(s), j >= m, s[j] # u
       PROVE  LET d == unit'[s[j]].path IN
              /\ unit'[s[j]].here /\ d \in Seq(OrgUnits)
              /\ Len(d) = n + (j - m)
              /\ \A k \in 1..n : d[k] = a.path[k]
              /\ \A k \in n + 1..n + (j - m) : d[k] = s[k - n + m]
    <2>0. j \in Nat /\ j >= m BY <1>2, <1>11
    <2> DEFINE w == s[j]
    <2>1. w \in OrgUnits BY <1>2, ElementOfSeq
    <2> HIDE DEF w
    <2>2. unit[w].here /\ Len(unit[w].path) = j /\ \A k \in 1..j : unit[w].path[k] = s[k]
        BY <1>4 DEF w
    <2>3. unit[w] \in Rows /\ unit[w].path \in Seq(OrgUnits) BY <2>1 DEF OrgTyped, Rows
    <2>4. Below(unit[w].path, b.path)
        <3>1. \A k \in 1..m : unit[w].path[k] = b.path[k] BY <1>2, <1>6, <1>11, <2>2
        <3> QED BY <1>2, <1>11, <2>2, <2>3, <3>1, BelowIs
    <2> DEFINE d == Carried(unit[w], b, a)
    <2>5. /\ d \in Seq(OrgUnits) /\ Len(d) = n + (Len(unit[w].path) - m)
          /\ \A k \in 1..n : d[k] = a.path[k]
          /\ \A k \in n + 1..Len(d) : d[k] = unit[w].path[k - n + m]
        <3>1. CarriedOf(d, unit[w].path, b.path, a.path) BY <1>1, <2>3, CarriedIs
        <3> QED BY <2>4, <3>1 DEF CarriedOf
    <2>6. unit'[w].path = d /\ unit'[w].here
        <3>1. w # u BY <1>11 DEF w
        <3> QED BY <1>10, <2>1, <2>2, <3>1 DEF WriteOf
    <2> HIDE DEF d
    <2>7. Len(d) = n + (j - m) BY <2>2, <2>5
    <2>8. ASSUME NEW k \in n + 1..n + (j - m) PROVE d[k] = s[k - n + m]
        <3>0. k \in Int /\ k >= n + 1 /\ k <= n + (j - m) BY <1>0, <2>0
        <3>1. k - n + m \in 1..j BY ONLY <1>0, <2>0, <3>0
        <3> QED BY <2>2, <2>5, <2>7, <3>1
    <2> QED BY <2>5, <2>6, <2>7, <2>8 DEF w
<1> HIDE DEF s, m, n
<1>12. /\ unit'[v].here /\ c \in Seq(OrgUnits) /\ Len(c) = n + (Len(s) - m)
       /\ \A k \in 1..n : c[k] = a.path[k]
       /\ \A k \in n + 1..n + (Len(s) - m) : c[k] = s[k - n + m]
    <2>1. Len(s) \in 1..Len(s) /\ Len(s) >= m /\ s[Len(s)] # u BY <1>2, <1>4, <1>7
    <2> QED BY <1>4, <1>11, <2>1
<1> HIDE DEF c
<1>16. /\ m \in Nat /\ n \in Nat /\ Len(s) \in Nat /\ Len(c) \in Nat /\ m < Len(s) /\ n > 0
       /\ Len(c) = n + (Len(s) - m)
    BY <1>0, <1>7, <1>9, <1>12
<1>13. ASSUME NEW i \in 1..Len(c)
       PROVE  /\ unit'[c[i]].here /\ Len(unit'[c[i]].path) = i
              /\ \A k \in 1..i : unit'[c[i]].path[k] = c[k]
              /\ On(s, c[i]) \/ On(a.path, c[i])
    <2>1. CASE i \in 1..n
        <3>1. c[i] = a.path[i] /\ \A k \in 1..i : c[k] = a.path[k] BY <1>2, <1>12, <2>1
        <3>2. On(a.path, c[i]) BY <1>2, <2>1, <3>1 DEF On
        <3> QED BY <1>9, <2>1, <3>1, <3>2
    <2>2. CASE i \notin 1..n
        <3> DEFINE j == i - n + m
        <3>1. i \in n + 1..n + (Len(s) - m) /\ j \in 1..Len(s) /\ j > m
            BY <1>2, <1>7, <1>12, <2>2
        <3>2. c[i] = s[j] BY <1>12, <3>1
        <3>3. s[j] # u BY <1>1, <1>2, <1>4, <3>1 DEF m
        <3>4. n + (j - m) = i BY <1>2
        <3> HIDE DEF j
        <3> DEFINE d == unit'[s[j]].path
        <3>5. /\ unit'[s[j]].here /\ Len(d) = i
              /\ \A k \in 1..n : d[k] = a.path[k]
              /\ \A k \in n + 1..i : d[k] = s[k - n + m]
            <4>1. j >= m BY <1>2, <3>1
            <4> QED BY <1>11, <3>1, <3>3, <3>4, <4>1
        <3> HIDE DEF d
        <3>6. ASSUME NEW k \in 1..i PROVE d[k] = c[k]
            <4>1. CASE k \in 1..n BY <1>12, <3>5, <4>1
            <4>2. CASE k \notin 1..n
                <5>1. k \in n + 1..i /\ k \in n + 1..n + (Len(s) - m) BY <1>2, <3>1, <4>2
                <5> QED BY <1>12, <3>5, <5>1
            <4> QED BY <4>1, <4>2
        <3>7. On(s, c[i]) BY <1>2, <3>1, <3>2 DEF On
        <3> QED BY <3>2, <3>5, <3>6, <3>7 DEF d
    <2> QED BY <2>1, <2>2
<1>14. /\ Len(c) > 0 /\ c[Len(c)] = v
       /\ unit'[v].parent = (IF Len(c) = 1 THEN NoUnit ELSE c[Len(c) - 1])
    <2>1. unit'[v].parent = s[Len(s) - 1]
        <3>1. unit'[v].parent = unit[v].parent BY DEF WriteOf
        <3> QED BY <1>2, <1>4, <1>6, <1>7, <3>1
    <2>2. Len(c) \in n + 1..n + (Len(s) - m) /\ Len(c) - n + m = Len(s) /\ Len(c) # 1
        BY ONLY <1>16
    <2>3. c[Len(c)] = v BY <1>4, <1>12, <2>2
    <2>4. c[Len(c) - 1] = s[Len(s) - 1]
        <3>1. CASE Len(s) - 1 = m
            <4>1. Len(c) - 1 = n /\ n \in 1..n BY ONLY <1>16, <3>1
            <4> QED BY <1>6, <1>9, <1>12, <3>1, <4>1
        <3>2. CASE Len(s) - 1 # m
            <4>1. /\ Len(c) - 1 \in n + 1..n + (Len(s) - m)
                  /\ (Len(c) - 1) - n + m = Len(s) - 1
                BY ONLY <1>16, <3>2
            <4> QED BY <1>12, <4>1
        <3> QED BY <3>1, <3>2
    <2> QED BY <1>2, <2>1, <2>2, <2>3, <2>4
<1>15. Below(c, a.path)
    <2>1. Len(c) >= n BY ONLY <1>16
    <2>2. c \in Seq(OrgUnits) /\ a.path \in Seq(OrgUnits) BY <1>2, <1>12
    <2> QED BY <1>12, <2>1, <2>2, BelowIs DEF n
<1> QED BY <1>12, <1>13, <1>14, <1>15 DEF Shaped, c, s

\* A unit that is not below u keeps its path, and one that is below it was there before.
LEMMA PathOf ==
    ASSUME OrgTyped, NEW u, NEW b, NEW a, WriteOf(u, b, a),
           \A v \in OrgUnits : unit[v].here => Shaped(v),
           NEW v \in OrgUnits, v # u, unit[v].here
    PROVE  \/ unit'[v].path = unit[v].path
           \/ b.here /\ a.parent # b.parent /\ On(unit[v].path, u)
<1>1. unit[v].path \in Seq(OrgUnits) /\ DOMAIN unit[v].path = 1..Len(unit[v].path)
      /\ Shaped(v) /\ unit[v] \in Rows
    BY DEF OrgTyped, Rows
<1>2. CASE ~(b.here /\ a.parent # b.parent) BY <1>2 DEF WriteOf
<1>3. CASE b.here /\ a.parent # b.parent /\ ~On(unit[v].path, u)
    <2>1. b.here => Shaped(u) BY DEF WriteOf
    <2> QED BY <1>1, <1>3, <2>1, OtherShaped
<1> QED BY <1>2, <1>3

\* Every path is well-formed after a write.
LEMMA WriteShaped ==
    ASSUME OrgTyped, NEW u, NEW b, NEW a, WriteOf(u, b, a),
           \A v \in OrgUnits : unit[v].here => Shaped(v),
           NEW v \in OrgUnits, unit'[v].here
    PROVE  Shaped(v)'
<1>1. CASE b.here /\ a.parent = b.parent
    <2>1. \A w \in OrgUnits : /\ unit'[w].path = unit[w].path /\ unit'[w].parent = unit[w].parent
                              /\ unit[w].here => unit'[w].here
        BY <1>1 DEF WriteOf
    <2>2. Shaped(v) /\ unit[v].path \in Seq(OrgUnits) BY <1>1 DEF WriteOf, OrgTyped, Rows
    <2> DEFINE s == unit[v].path
    <2>3. ASSUME NEW i \in 1..Len(s)
          PROVE  /\ unit'[s[i]].here /\ Len(unit'[s[i]].path) = i
                 /\ \A k \in 1..i : unit'[s[i]].path[k] = s[k]
        <3>1. s[i] \in OrgUnits BY <2>2, ElementOfSeq
        <3>2. /\ unit[s[i]].here /\ Len(unit[s[i]].path) = i
              /\ \A k \in 1..i : unit[s[i]].path[k] = s[k]
            BY <2>2 DEF Shaped
        <3> QED BY <2>1, <3>1, <3>2
    <2>4. /\ Len(s) > 0 /\ s[Len(s)] = v
          /\ unit[v].parent = (IF Len(s) = 1 THEN NoUnit ELSE s[Len(s) - 1])
        BY <2>2 DEF Shaped
    <2>5. unit'[v].path = s /\ unit'[v].parent = unit[v].parent BY <2>1
    <2> HIDE DEF s
    <2> QED BY <2>3, <2>4, <2>5 DEF Shaped
<1>2. CASE ~(b.here /\ a.parent = b.parent)
    <2>1. CASE v = u BY <1>2, <2>1, UnitShaped
    <2>2. CASE v # u
        <3>1. unit[v].here /\ Shaped(v) /\ unit[v] \in Rows BY <2>2 DEF WriteOf, OrgTyped
        <3>2. CASE On(unit[v].path, u)
            <4>1. unit[u].here BY <3>1, <3>2, ShapedOn
            <4>2. b.here /\ a.parent # b.parent BY <1>2, <4>1 DEF WriteOf
            <4> QED BY <2>2, <3>1, <3>2, <4>2, CarriedShaped
        <3>3. CASE ~On(unit[v].path, u)
            <4>1. b.here => Shaped(u) BY DEF WriteOf
            <4> QED BY <3>1, <3>3, <4>1, OtherShaped
        <3> QED BY <3>2, <3>3
    <2> QED BY <2>1, <2>2
<1> QED BY <1>1, <1>2

\* A unit below a closed one is closed after a write.
LEMMA WriteClosed ==
    ASSUME OrgTyped, NEW u, NEW b, NEW a, WriteOf(u, b, a),
           \A v \in OrgUnits : unit[v].here => Rooted(v),
           NEW v \in OrgUnits, unit'[v].here
    PROVE  ClosedUnder(v)'
<1> DEFINE c == unit'[v].path
<1>1. \A x \in OrgUnits : unit[x].here => Shaped(x) BY DEF Rooted
<1>2. Shaped(v)' BY <1>1, WriteShaped
<1>3. /\ c \in Seq(OrgUnits) /\ DOMAIN c = 1..Len(c) /\ Len(c) \in Nat
      /\ a.path \in Seq(OrgUnits) /\ DOMAIN a.path = 1..Len(a.path) /\ Len(a.path) \in Nat
    BY DEF WriteOf, Rows
<1>4. SUFFICES ASSUME NEW i \in 1..Len(c), unit'[c[i]].closed
               PROVE  unit'[v].closed
    BY <1>3 DEF ClosedUnder
<1> DEFINE w == c[i]
<1>5. w \in OrgUnits BY <1>3, ElementOfSeq
<1> HIDE DEF w
<1>6. /\ unit'[w].here /\ Len(unit'[w].path) = i
      /\ \A k \in 1..i : unit'[w].path[k] = c[k]
    BY <1>2 DEF Shaped, w
<1>7. unit'[w].path \in Seq(OrgUnits) BY <1>5 DEF WriteOf, Rows
<1>8. ASSUME Below(unit'[w].path, a.path) PROVE Below(c, a.path)
    <2>1. i >= Len(a.path) /\ \A k \in 1..Len(a.path) : unit'[w].path[k] = a.path[k]
        BY <1>3, <1>6, <1>7, <1>8, BelowIs
    <2>2. Len(c) >= Len(a.path) BY <1>3, <2>1
    <2>3. \A k \in 1..Len(a.path) : k \in 1..i BY <1>3, <2>1
    <2>4. \A k \in 1..Len(a.path) : c[k] = a.path[k] BY <1>6, <2>1, <2>3
    <2> QED BY <1>3, <2>2, <2>4, BelowIs
<1>9. ASSUME v # u, b.here, a.closed, Below(c, a.path) PROVE unit'[v].closed
    BY <1>9 DEF WriteOf
<1>10. CASE w = u
    <2>1. CASE v = u BY <1>4, <1>10, <2>1 DEF w
    <2>2. CASE v # u
        <3>1. unit[v].here /\ unit[v] \in Rows /\ Shaped(v)
            BY <1>1, <2>2 DEF WriteOf, OrgTyped
        <3>2. b.here
            <4>1. CASE c = unit[v].path
                <5>1. On(unit[v].path, u) BY <1>3, <1>4, <1>10, <4>1 DEF On, w
                <5>2. unit[u].here BY <3>1, <5>1, ShapedOn
                <5> QED BY <5>2 DEF WriteOf
            <4>2. CASE c # unit[v].path BY <1>1, <2>2, <3>1, <4>2, PathOf
            <4> QED BY <4>1, <4>2
        <3>3. a.closed /\ unit'[u].path = a.path BY <1>4, <1>10 DEF WriteOf, w
        <3>4. Below(a.path, a.path) BY <1>3, BelowIs
        <3> QED BY <1>8, <1>9, <1>10, <2>2, <3>2, <3>3, <3>4
    <2> QED BY <2>1, <2>2
<1>11. CASE w # u
    <2>1. \/ unit[w].closed
          \/ b.here /\ a.closed /\ Below(unit'[w].path, a.path)
        BY <1>4, <1>5, <1>11 DEF WriteOf, w
    <2>2. CASE b.here /\ a.closed /\ Below(unit'[w].path, a.path)
        <3>1. CASE v = u BY <2>2, <3>1 DEF WriteOf
        <3>2. CASE v # u BY <1>8, <1>9, <2>2, <3>2
        <3> QED BY <3>1, <3>2
    <2>3. CASE unit[w].closed
        <3>0. ASSUME On(a.path, w) PROVE a.closed
            <4>1. ClosedAbove(u, a.path) BY <1>5, <1>11, <2>3, <3>0 DEF ClosedAbove
            <4> QED BY <4>1 DEF WriteOf
        <3>1. CASE v = u
            <4>1. unit'[u].path = a.path /\ (unit'[u].closed <=> a.closed) BY DEF WriteOf
            <4>2. On(a.path, w) BY <1>3, <3>1, <4>1 DEF On, w
            <4> QED BY <3>0, <3>1, <4>1, <4>2
        <3>2. CASE v # u
            <4>1. unit[v].here /\ unit[v] \in Rows /\ Shaped(v) /\ ClosedUnder(v)
                BY <3>2 DEF WriteOf, OrgTyped, Rooted
            <4>2. ASSUME On(unit[v].path, w) PROVE unit'[v].closed
                <5>1. unit[v].closed BY <2>3, <4>1, <4>2 DEF On, ClosedUnder
                <5> QED BY <3>2, <5>1 DEF WriteOf
            <4>3. CASE c = unit[v].path
                <5>1. On(unit[v].path, w) BY <1>3, <4>3 DEF On, w
                <5> QED BY <4>2, <5>1
            <4>4. CASE c # unit[v].path
                <5>1. b.here /\ a.parent # b.parent /\ On(unit[v].path, u)
                    BY <1>1, <3>2, <4>1, <4>4, PathOf
                <5>2. Below(c, a.path) /\ (On(unit[v].path, w) \/ On(a.path, w))
                    BY <1>1, <3>2, <4>1, <5>1, CarriedShaped DEF w
                <5> QED BY <1>9, <3>0, <3>2, <4>2, <5>1, <5>2
            <4> QED BY <4>3, <4>4
        <3> QED BY <3>1, <3>2
    <2> QED BY <2>1, <2>2, <2>3
<1> QED BY <1>10, <1>11

\* A write keeps the invariant: what the others had read is no longer new.
LEMMA WriteInv ==
    ASSUME OrgInv, NEW p \in Editors, Write(p)
    PROVE  OrgInv'
<1>1. /\ edit[p].step = "write" /\ edit[p].u \in OrgUnits
      /\ edit[p].before \in Rows /\ edit[p].next \in Rows
      /\ edit' = Overtaken(p)
      /\ unit' = Descendants([unit EXCEPT ![edit[p].u] = edit[p].next], edit[p].u,
                             edit[p].before, edit[p].next)
      /\ uneven' = (uneven \/ ~edit[p].newest)
    BY DEF Write, OrgInv, OrgTyped, Reading
<1>2. unit' \in [OrgUnits -> Rows]
    <2>1. [unit EXCEPT ![edit[p].u] = edit[p].next] \in [OrgUnits -> Rows]
        BY <1>1 DEF OrgInv, OrgTyped
    <2> QED BY <1>1, <2>1, DescendantsAre
<1>3. \A q \in Editors :
        /\ edit'[q] \in Reading /\ (edit'[q].step = "write" => edit'[q].u \in OrgUnits)
        /\ edit'[q].step = "write" => ~edit'[q].newest
    <2>1. SUFFICES ASSUME NEW q \in Editors
                   PROVE  /\ edit'[q] \in Reading
                          /\ edit'[q].step = "write" => edit'[q].u \in OrgUnits
                          /\ edit'[q].step = "write" => ~edit'[q].newest
        OBVIOUS
    <2>2. edit[q] \in Reading /\ (edit[q].step = "write" => edit[q].u \in OrgUnits)
        BY DEF OrgInv, OrgTyped
    <2>3. CASE q = p
        <3>1. edit'[q] = NoEdit BY <1>1, <2>3 DEF Overtaken
        <3> QED BY <3>1, NoRecordTyped
    <2>4. CASE q # p /\ edit[q].step = "write"
        <3>1. edit'[q] = [edit[q] EXCEPT !.newest = FALSE] BY <1>1, <2>4 DEF Overtaken
        <3> QED BY <2>2, <2>4, <3>1 DEF Reading
    <2>5. CASE q # p /\ edit[q].step # "write"
        <3>1. edit'[q] = edit[q] BY <1>1, <2>5 DEF Overtaken
        <3> QED BY <2>2, <2>5, <3>1
    <2> QED BY <2>3, <2>4, <2>5
<1>4. OrgTyped'
    <2>1. edit' \in [Editors -> Reading] BY <1>1, <1>3 DEF Overtaken
    <2> QED BY <1>1, <1>2, <1>3, <2>1 DEF OrgInv, OrgTyped
<1>5. AllCurrent' BY <1>3 DEF AllCurrent
<1>6. ASSUME ~uneven', NEW v \in OrgUnits, unit'[v].here PROVE Rooted(v)'
    <2>1. /\ \A x \in OrgUnits : unit[x].here => Rooted(x)
          /\ \E u, b, a : WriteOf(u, b, a)
        BY <1>6, WriteIsOf
    <2>2. PICK u, b, a : WriteOf(u, b, a) BY <2>1
    <2>3. Shaped(v)' BY <1>6, <2>1, <2>2, WriteShaped DEF Rooted, OrgInv
    <2>4. ClosedUnder(v)' BY <1>6, <2>1, <2>2, WriteClosed DEF OrgInv
    <2> QED BY <2>3, <2>4 DEF Rooted
<1> QED BY <1>4, <1>5, <1>6 DEF OrgInv, AllRooted

-----------------------------------------------------------------------------
\* What eHRMS says

LEMMA LeastOf ==
    ASSUME NEW T, T \subseteq Nat, T # {}
    PROVE  \E n \in T : \A m \in T : n <= m
<1>1. PICK n \in T : \A m \in T : <<m, n>> \notin OpToRel(<, Nat)
    BY NatLessThanWellFounded, WFMin, Zenon
<1>2. \A m \in T : m \in Nat /\ n \in Nat /\ ~(m < n) BY <1>1 DEF OpToRel
<1> QED BY <1>2

\* The path of a department, by the rows of the departments alone.
Upright(rows, x) ==
    LET s == rows[x].path IN
    /\ Len(s) > 0 /\ s[Len(s)] = x
    /\ rows[x].parent = IF Len(s) = 1 THEN NoUnit ELSE s[Len(s) - 1]
    /\ \A i \in 1..Len(s) :
        /\ Len(rows[s[i]].path) = i
        /\ \A k \in 1..i : rows[s[i]].path[k] = s[k]

\* Paths that end under the path of the parent are well-formed all the way: the
\* shortest that was not would have a parent with a shorter one.
LEMMA UpstreamUpright ==
    ASSUME NEW open, NEW rows, DOMAIN rows = open, Upstream(rows),
           \A x \in open : rows[x].path \in Seq(open)
    PROVE  \A x \in open : Upright(rows, x)
<1> DEFINE T == {Len(rows[x].path) : x \in {y \in open : ~Upright(rows, y)}}
<1>1. SUFFICES ASSUME T # {} PROVE FALSE OBVIOUS
<1>2. T \subseteq Nat OBVIOUS
<1>3. PICK n \in T : \A m \in T : n <= m
    <2> HIDE DEF T
    <2> QED BY <1>1, <1>2, LeastOf
<1>4. PICK x \in open : ~Upright(rows, x) /\ n = Len(rows[x].path) OBVIOUS
<1>5. \A y \in open : Upright(rows, y) \/ Len(rows[x].path) <= Len(rows[y].path) BY <1>3, <1>4
<1> HIDE DEF T
<1> DEFINE s == rows[x].path
           p == rows[x].parent
           q == rows[p].path
<1>6. p \in open \cup {NoUnit} /\ s = (IF p = NoUnit THEN <<x>> ELSE Append(q, x))
    BY DEF Upstream
<1>7. CASE p = NoUnit
    <2>1. Len(s) = 1 /\ s[1] = x BY <1>6, <1>7
    <2>2. \A i \in 1..Len(s) : /\ Len(rows[s[i]].path) = i
                               /\ \A k \in 1..i : rows[s[i]].path[k] = s[k]
        BY <2>1
    <2> QED BY <1>4, <1>7, <2>1, <2>2 DEF Upright
<1>8. CASE p # NoUnit
    <2>1. p \in open /\ q \in Seq(open) /\ Len(q) \in Nat BY <1>6, <1>8
    <2>2. s = Append(q, x) BY <1>6, <1>8
    <2>3. Len(s) = Len(q) + 1 /\ s[Len(q) + 1] = x /\ \A k \in 1..Len(q) : s[k] = q[k]
        <3> HIDE DEF s, q
        <3> QED BY <2>1, <2>2, AppendProperties
    <2>4. Upright(rows, p) BY <1>5, <2>1, <2>3
    <2>5. /\ Len(q) > 0 /\ q[Len(q)] = p
          /\ \A i \in 1..Len(q) : /\ Len(rows[q[i]].path) = i
                                  /\ \A k \in 1..i : rows[q[i]].path[k] = q[k]
        BY <2>4 DEF Upright
    <2> DEFINE r(i) == rows[s[i]].path
    <2>6. ASSUME NEW i \in 1..Len(s)
          PROVE  Len(r(i)) = i /\ \A k \in 1..i : r(i)[k] = s[k]
        <3>1. CASE i = Len(q) + 1 BY <2>3, <3>1
        <3>2. CASE i # Len(q) + 1
            <4>1. i \in 1..Len(q) /\ \A k \in 1..i : k \in 1..Len(q) BY <2>1, <2>3, <3>2
            <4>2. s[i] = q[i] BY <2>3, <4>1
            <4> QED BY <2>3, <2>5, <4>1, <4>2
        <3> QED BY <3>1, <3>2
    <2>7. Len(s) > 0 /\ Len(s) # 1 /\ s[Len(s)] = x /\ s[Len(s) - 1] = p
        <3>1. Len(q) \in Nat /\ Len(q) > 0 /\ Len(s) = Len(q) + 1 BY <2>1, <2>3, <2>5
        <3>2. Len(s) > 0 /\ Len(s) # 1 /\ Len(s) - 1 = Len(q) /\ Len(q) \in 1..Len(q)
            BY ONLY <3>1
        <3> QED BY <2>3, <2>5, <3>1, <3>2
    <2> QED BY <1>4, <2>6, <2>7 DEF Upright
<1> QED BY <1>7, <1>8

\* The rows eHRMS can send.
Sent(open) ==
    [open -> [here : {TRUE}, closed : {FALSE}, parent : open \cup {NoUnit},
              path : UNION {[1..n -> open] : n \in 1..Cardinality(open)},
              chief : Positions \cup {NoPosition}]]

LEMMA SentTyped ==
    ASSUME NEW open, open \subseteq OrgUnits, NEW rows \in Sent(open), NEW x \in open
    PROVE  /\ rows[x] \in Rows /\ rows[x].here /\ ~rows[x].closed
           /\ rows[x].path \in Seq(open) /\ rows[x].path \in Seq(OrgUnits)
<1>1. Cardinality(open) \in Nat
    BY OrgAssumption, FS_Subset, FS_CardinalityType
<1>2. PICK n \in 1..Cardinality(open) : rows[x].path \in [1..n -> open]
    <2> DEFINE U == UNION {[1..n -> open] : n \in 1..Cardinality(open)}
    <2>1. rows \in [open -> [here : {TRUE}, closed : {FALSE}, parent : open \cup {NoUnit},
                            path : U, chief : Positions \cup {NoPosition}]]
        BY DEF Sent
    <2>2. rows[x].path \in U
        <3> HIDE DEF U
        <3> QED BY <2>1
    <2> QED BY <2>2
<1>3. n \in Nat BY <1>1
<1>4. rows[x].path \in Seq(open) BY <1>2, <1>3
<1>5. rows[x].path \in Seq(OrgUnits) BY <1>2, <1>3
<1> QED BY <1>4, <1>5 DEF Sent, Rows

\* What eHRMS sends keeps the invariant: it says nothing of units below those it
\* moves, unless the tree is uneven.
LEMMA SynchroniseInv ==
    ASSUME OrgInv, Synchronise
    PROVE  OrgInv'
<1>1. PICK open \in SUBSET Departments :
        \E rows \in Sent(open) :
            /\ Upstream(rows)
            /\ unit' = [u \in OrgUnits |-> IF u \in open THEN rows[u] ELSE unit[u]]
            /\ uneven' = (uneven \/ \E v \in OrgUnits \ open, u \in open :
                                        On(unit[v].path, u) /\ unit[u].path # rows[u].path)
            /\ edit' = [p \in Editors |-> IF edit[p].step = "idle" THEN edit[p]
                                          ELSE [edit[p] EXCEPT !.newest = FALSE]]
    BY DEF Synchronise, Sent
<1>2. PICK rows \in Sent(open) :
            /\ Upstream(rows)
            /\ unit' = [u \in OrgUnits |-> IF u \in open THEN rows[u] ELSE unit[u]]
            /\ uneven' = (uneven \/ \E v \in OrgUnits \ open, u \in open :
                                        On(unit[v].path, u) /\ unit[u].path # rows[u].path)
            /\ edit' = [p \in Editors |-> IF edit[p].step = "idle" THEN edit[p]
                                          ELSE [edit[p] EXCEPT !.newest = FALSE]]
    BY <1>1
<1>3. open \subseteq OrgUnits BY OrgAssumption
<1>4. \A x \in open : /\ rows[x] \in Rows /\ rows[x].here /\ ~rows[x].closed
                      /\ rows[x].path \in Seq(open)
    BY <1>3, SentTyped
<1>5. \A v \in OrgUnits : unit'[v] = IF v \in open THEN rows[v] ELSE unit[v] BY <1>2
<1>6. \A q \in Editors :
        /\ edit'[q] \in Reading /\ (edit'[q].step = "write" => edit'[q].u \in OrgUnits)
        /\ edit'[q].step = "write" => ~edit'[q].newest
    <2>1. SUFFICES ASSUME NEW q \in Editors
                   PROVE  /\ edit'[q] \in Reading
                          /\ edit'[q].step = "write" => edit'[q].u \in OrgUnits
                          /\ edit'[q].step = "write" => ~edit'[q].newest
        OBVIOUS
    <2>2. edit[q] \in Reading /\ (edit[q].step = "write" => edit[q].u \in OrgUnits)
        BY DEF OrgInv, OrgTyped
    <2>3. CASE edit[q].step = "idle"
        <3>1. edit'[q] = edit[q] BY <1>2, <2>3
        <3> QED BY <2>2, <2>3, <3>1
    <2>4. CASE edit[q].step # "idle"
        <3>1. edit'[q] = [edit[q] EXCEPT !.newest = FALSE] BY <1>2, <2>4
        <3> QED BY <2>2, <3>1 DEF Reading
    <2> QED BY <2>3, <2>4
<1>7. OrgTyped'
    <2>1. unit' \in [OrgUnits -> Rows] BY <1>2, <1>4 DEF OrgInv, OrgTyped
    <2>2. edit' \in [Editors -> Reading] BY <1>2, <1>6
    <2>3. uneven' \in BOOLEAN BY <1>2 DEF OrgInv, OrgTyped
    <2> QED BY <1>6, <2>1, <2>2, <2>3 DEF OrgTyped
<1>8. AllCurrent' BY <1>6 DEF AllCurrent
<1>9. ASSUME ~uneven', NEW v \in OrgUnits, unit'[v].here PROVE Rooted(v)'
    <2> DEFINE s == unit'[v].path
    <2>1. CASE v \in open
        <3>1. Upright(rows, v)
            <4>1. DOMAIN rows = open BY DEF Sent
            <4> QED BY <1>2, <1>4, <2>1, <4>1, UpstreamUpright
        <3>2. unit'[v] = rows[v] /\ s \in Seq(open) /\ DOMAIN s = 1..Len(s)
            BY <1>4, <1>5, <2>1
        <3>3. ASSUME NEW i \in 1..Len(s)
              PROVE  /\ unit'[s[i]] = rows[s[i]] /\ unit'[s[i]].here /\ ~unit'[s[i]].closed
            <4>1. s[i] \in open BY <3>2, ElementOfSeq
            <4> QED BY <1>3, <1>4, <1>5, <4>1
        <3>4. ClosedUnder(v)' BY <3>2, <3>3 DEF ClosedUnder
        <3>5. /\ Len(s) > 0 /\ s[Len(s)] = v
              /\ unit'[v].parent = (IF Len(s) = 1 THEN NoUnit ELSE s[Len(s) - 1])
              /\ \A i \in 1..Len(s) :
                    /\ Len(rows[s[i]].path) = i
                    /\ \A k \in 1..i : rows[s[i]].path[k] = s[k]
            BY <3>1, <3>2 DEF Upright
        <3>6. Shaped(v)' BY <3>3, <3>5, SMTT(30) DEF Shaped
        <3> QED BY <3>4, <3>6 DEF Rooted
    <2>2. CASE v \notin open
        <3>1. unit'[v] = unit[v] /\ unit[v] \in Rows /\ Rooted(v)
            BY <1>2, <1>5, <1>9, <2>2 DEF OrgInv, AllRooted, OrgTyped
        <3>2. s = unit[v].path /\ s \in Seq(OrgUnits) /\ DOMAIN s = 1..Len(s)
            BY <3>1 DEF Rows
        <3>3. /\ Len(s) > 0 /\ s[Len(s)] = v
              /\ unit'[v].parent = (IF Len(s) = 1 THEN NoUnit ELSE s[Len(s) - 1])
              /\ \A i \in 1..Len(s) :
                    /\ unit[s[i]].here /\ Len(unit[s[i]].path) = i
                    /\ \A k \in 1..i : unit[s[i]].path[k] = s[k]
              /\ \A i \in 1..Len(s) : unit[s[i]].closed => unit[v].closed
            BY <3>1, <3>2 DEF Rooted, Shaped, ClosedUnder
        <3>4. ASSUME NEW i \in 1..Len(s)
              PROVE  /\ unit'[s[i]].here /\ unit'[s[i]].path = unit[s[i]].path
                     /\ unit'[s[i]].closed => unit[s[i]].closed
            <4>1. s[i] \in OrgUnits BY <3>2, ElementOfSeq
            <4>2. CASE s[i] \in open
                <5>1. On(unit[v].path, s[i]) BY <3>2 DEF On
                <5>2. unit[s[i]].path = rows[s[i]].path BY <1>2, <1>9, <2>2, <4>2, <5>1
                <5> QED BY <1>4, <1>5, <4>1, <4>2, <5>2
            <4>3. CASE s[i] \notin open BY <1>5, <3>3, <4>1, <4>3
            <4> QED BY <4>2, <4>3
        <3>5. ClosedUnder(v)' BY <3>1, <3>2, <3>3, <3>4 DEF ClosedUnder
        <3>6. ASSUME NEW i \in 1..Len(s)
              PROVE  /\ unit'[s[i]].here /\ Len(unit'[s[i]].path) = i
                     /\ \A k \in 1..i : unit'[s[i]].path[k] = s[k]
            BY <3>3, <3>4, SMTT(30)
        <3> HIDE DEF s
        <3>7. Shaped(v)' BY <3>3, <3>6 DEF Shaped, s
        <3> QED BY <3>5, <3>7 DEF Rooted
    <2> QED BY <2>1, <2>2
<1> QED BY <1>7, <1>8, <1>9 DEF OrgInv, AllRooted

-----------------------------------------------------------------------------
\* Units: climbing a tree that may have a loop

\* A non-empty set of sets of units has a least member.
LEMMA LeastUnits ==
    ASSUME NEW F, F \subseteq SUBSET OrgUnits, F # {}
    PROVE  \E T \in F : \A U \in F : U \subseteq T => U = T
<1>0. IsFiniteSet(OrgUnits) BY OrgAssumption
<1>1. FiniteSubsetsOf(OrgUnits) = SUBSET OrgUnits BY <1>0, FS_Subset DEF FiniteSubsetsOf
<1>2. IsWellFoundedOn(StrictSubsetOrdering(OrgUnits), FiniteSubsetsOf(OrgUnits))
    BY <1>0, FS_StrictSubsetOrderingWellFounded
<1>3. PICK T \in F : \A U \in F : <<U, T>> \notin StrictSubsetOrdering(OrgUnits)
    BY <1>1, <1>2, WFMin
<1>4. \A U \in F : U \in SUBSET OrgUnits /\ T \in SUBSET OrgUnits OBVIOUS
<1> QED BY <1>3, <1>4 DEF StrictSubsetOrdering

MaybeUnits == OrgUnits \cup {NoUnit}

\* The rules w of a climb: it stops at a unit where w.stop, with what w.found says,
\* or goes on with w.up, until it is past the root or meets a unit it has seen, and
\* then has found w.none.

Step(w, g, s, u) ==
    IF u = NoUnit \/ u \in s THEN w.none
    ELSE IF w.stop[u] THEN w.found[u]
    ELSE g[s \cup {u}][w.up[u]]

\* What may have been seen when only units of V are left.
Seen(V) == {s \in SUBSET OrgUnits : OrgUnits \ s \subseteq V}

Climbs(w, V, g) == g = [s \in Seen(V) |-> [u \in MaybeUnits |-> Step(w, g, s, u)]]

LEMMA ClimbIs ==
    ASSUME NEW w, NEW V, NEW g, Climbs(w, V, g), NEW s \in Seen(V), NEW u \in MaybeUnits
    PROVE  g[s][u] = Step(w, g, s, u)
BY DEF Climbs

LEMMA SeenMore ==
    ASSUME NEW V, NEW s \in Seen(V), NEW u \in OrgUnits, u \notin s
    PROVE  /\ s \cup {u} \in Seen(V) /\ s \cup {u} \in Seen(V \ {u}) /\ u \in V
           /\ OrgUnits \ (s \cup {u}) \subseteq OrgUnits \ s
           /\ OrgUnits \ (s \cup {u}) # OrgUnits \ s
BY DEF Seen

\* Two climbs by the same rules agree where both are defined.
LEMMA ClimbsAgree ==
    ASSUME NEW w, w.up \in [MaybeUnits -> MaybeUnits],
           NEW V, NEW g, Climbs(w, V, g), NEW W, NEW h, Climbs(w, W, h),
           NEW s, s \in Seen(V), s \in Seen(W), NEW u \in MaybeUnits
    PROVE  g[s][u] = h[s][u]
<1> DEFINE F == {OrgUnits \ t : t \in {r \in Seen(V) : r \in Seen(W) /\
                                        \E x \in MaybeUnits : g[r][x] # h[r][x]}}
<1> SUFFICES ASSUME F # {} PROVE FALSE OBVIOUS
<1>1. PICK T \in F : \A U \in F : U \subseteq T => U = T
    <2>1. F \subseteq SUBSET OrgUnits OBVIOUS
    <2> HIDE DEF F
    <2> QED BY <2>1, LeastUnits
<1>2. PICK t \in Seen(V) : /\ t \in Seen(W) /\ T = OrgUnits \ t
                           /\ \E x \in MaybeUnits : g[t][x] # h[t][x]
    OBVIOUS
<1>3. PICK x \in MaybeUnits : g[t][x] # h[t][x] BY <1>2
<1>4. g[t][x] = Step(w, g, t, x) /\ h[t][x] = Step(w, h, t, x) BY <1>2, ClimbIs
<1>5. x # NoUnit /\ x \notin t /\ g[t \cup {x}][w.up[x]] # h[t \cup {x}][w.up[x]]
    BY <1>3, <1>4 DEF Step
<1> DEFINE r == t \cup {x}
<1>6. x \in OrgUnits /\ w.up[x] \in MaybeUnits BY <1>5 DEF MaybeUnits
<1>7. /\ r \in Seen(V) /\ r \in Seen(W)
      /\ OrgUnits \ r \subseteq T /\ OrgUnits \ r # T
    BY <1>2, <1>5, <1>6, SeenMore
<1> HIDE DEF r
<1>8. OrgUnits \ r \in F BY <1>5, <1>6, <1>7 DEF r
<1> QED BY <1>1, <1>7, <1>8

\* There is a climb by any rules.
LEMMA ClimbsExist ==
    ASSUME NEW w, w.up \in [MaybeUnits -> MaybeUnits]
    PROVE  \E g : Climbs(w, OrgUnits, g)
<1> DEFINE F == {V \in SUBSET OrgUnits : ~\E g : Climbs(w, V, g)}
<1> SUFFICES ASSUME F # {} PROVE FALSE OBVIOUS
<1>1. PICK V \in F : \A U \in F : U \subseteq V => U = V
    <2>1. F \subseteq SUBSET OrgUnits OBVIOUS
    <2> HIDE DEF F
    <2> QED BY <2>1, LeastUnits
<1> DEFINE C(W) == CHOOSE g : Climbs(w, W, g)
           G == [s \in Seen(V) |-> [u \in MaybeUnits |-> Step(w, C(V \ {u}), s, u)]]
<1>2. ASSUME NEW u \in V PROVE Climbs(w, V \ {u}, C(V \ {u}))
    <2>1. V \ {u} \in SUBSET OrgUnits /\ V \ {u} \subseteq V /\ V \ {u} # V BY <1>1
    <2> QED BY <1>1, <2>1
<1>3. \A s \in Seen(V), u \in MaybeUnits : G[s][u] = Step(w, C(V \ {u}), s, u) OBVIOUS
<1>4. G = [s \in Seen(V) |-> [u \in MaybeUnits |-> Step(w, C(V \ {u}), s, u)]] OBVIOUS
<1> HIDE DEF F, C, G
<1>5. ASSUME NEW s \in Seen(V), NEW u \in MaybeUnits
      PROVE  Step(w, C(V \ {u}), s, u) = Step(w, G, s, u)
    <2>1. CASE u = NoUnit \/ u \in s \/ w.stop[u] BY <2>1 DEF Step
    <2>2. CASE ~(u = NoUnit \/ u \in s \/ w.stop[u])
        <3> DEFINE r == s \cup {u}
                   x == w.up[u]
        <3>1. u \in OrgUnits /\ x \in MaybeUnits BY <2>2 DEF MaybeUnits
        <3>2. r \in Seen(V) /\ r \in Seen(V \ {u}) /\ u \in V BY <2>2, <3>1, SeenMore
        <3> HIDE DEF r, x
        <3>3. C(V \ {u})[r][x] = Step(w, C(V \ {u}), r, x) BY <1>2, <3>1, <3>2, ClimbIs
        <3>4. G[r][x] = Step(w, C(V \ {x}), r, x) BY <1>3, <3>1, <3>2
        <3>5. Step(w, C(V \ {u}), r, x) = Step(w, C(V \ {x}), r, x)
            <4>1. CASE x = NoUnit \/ x \in r \/ w.stop[x] BY <4>1 DEF Step
            <4>2. CASE ~(x = NoUnit \/ x \in r \/ w.stop[x])
                <5> DEFINE q == r \cup {x}
                <5>1. x \in OrgUnits /\ w.up[x] \in MaybeUnits BY <3>1, <4>2 DEF MaybeUnits
                <5>2. x \in V /\ x # u BY <3>2, <4>2, <5>1, SeenMore DEF r
                <5>3. q \in Seen(V \ {x}) BY <3>2, <4>2, <5>1, SeenMore
                <5>4. q \in Seen(V \ {u}) BY <3>2, <5>1 DEF q, Seen
                <5> HIDE DEF q
                <5>5. C(V \ {u})[q][w.up[x]] = C(V \ {x})[q][w.up[x]]
                    BY <1>2, <3>2, <5>1, <5>2, <5>3, <5>4, ClimbsAgree
                <5> QED BY <4>2, <5>5 DEF Step, q
            <4> QED BY <4>1, <4>2
        <3>6. C(V \ {u})[r][x] = G[r][x] BY <3>3, <3>4, <3>5
        <3> QED BY <2>2, <3>6 DEF Step, r, x
    <2> QED BY <2>1, <2>2
<1>6. [s \in Seen(V) |-> [u \in MaybeUnits |-> Step(w, C(V \ {u}), s, u)]]
        = [s \in Seen(V) |-> [u \in MaybeUnits |-> Step(w, G, s, u)]]
    BY <1>5
<1>7. Climbs(w, V, G) BY <1>4, <1>6 DEF Climbs
<1> QED BY <1>1, <1>7 DEF F

\* The climb ended without a find, or with what it found in P.
Found(w, P, y) ==
    y = w.none \/ \E x \in P : x # NoUnit /\ w.stop[x] /\ y = w.found[x]

Closed(w, P) ==
    P \subseteq MaybeUnits /\ \A x \in P : x # NoUnit /\ ~w.stop[x] => w.up[x] \in P

\* What a climb finds, it finds in any set that has its beginning and the way up from
\* wherever it does not stop.
LEMMA ClimbFinds ==
    ASSUME NEW w, w.up \in [MaybeUnits -> MaybeUnits], NEW g, Climbs(w, OrgUnits, g),
           NEW P, Closed(w, P), NEW s \in SUBSET OrgUnits, NEW u \in P
    PROVE  Found(w, P, g[s][u])
<1> USE DEF Found, Closed
<1> DEFINE Fails(t, y) == /\ g[t][y] # w.none
                          /\ \A x \in P : x # NoUnit /\ w.stop[x] => g[t][y] # w.found[x]
           F == {OrgUnits \ t : t \in {r \in SUBSET OrgUnits : \E y \in P : Fails(r, y)}}
<1>0. Seen(OrgUnits) = SUBSET OrgUnits BY DEF Seen
<1> SUFFICES ASSUME Fails(s, u) PROVE FALSE OBVIOUS
<1>10. F # {}
    <2>1. \E y \in P : Fails(s, y) OBVIOUS
    <2> HIDE DEF Fails
    <2> QED BY <2>1
<1>1. PICK T \in F : \A U \in F : U \subseteq T => U = T
    <2>1. F \subseteq SUBSET OrgUnits OBVIOUS
    <2> HIDE DEF F
    <2> QED BY <1>10, <2>1, LeastUnits
<1>2. PICK t \in SUBSET OrgUnits : T = OrgUnits \ t /\ \E y \in P : Fails(t, y)
    <2> HIDE DEF Fails
    <2> QED OBVIOUS
<1>3. PICK y \in P : Fails(t, y) BY <1>2
<1>4. y \in MaybeUnits /\ g[t][y] = Step(w, g, t, y) BY <1>0, ClimbIs
<1>5. y # NoUnit /\ y \notin t /\ ~w.stop[y] /\ g[t][y] = g[t \cup {y}][w.up[y]]
    BY <1>3, <1>4 DEF Step
<1> DEFINE r == t \cup {y}
<1>6. y \in OrgUnits /\ w.up[y] \in P BY <1>4, <1>5 DEF MaybeUnits
<1>7. r \in SUBSET OrgUnits /\ OrgUnits \ r \subseteq T /\ OrgUnits \ r # T
    BY <1>0, <1>2, <1>5, <1>6, SeenMore
<1>8. Fails(r, w.up[y]) BY <1>3, <1>5
<1> HIDE DEF r, Fails
<1>9. OrgUnits \ r \in F BY <1>6, <1>7, <1>8
<1> QED BY <1>1, <1>7, <1>9

\* inheritManagerPosition as a climb.
Inheriting ==
    [up |-> [u \in MaybeUnits |-> IF u = NoUnit THEN NoUnit ELSE unit[u].parent],
     stop |-> [u \in MaybeUnits |-> u # NoUnit /\ (~unit[u].here \/ unit[u].chief # NoPosition)],
     found |-> [u \in MaybeUnits |-> IF u = NoUnit THEN NoUnit
                                 ELSE IF unit[u].here THEN u ELSE NoUnit],
     none |-> NoUnit]

\* The definition of Inherits, of any function.
InheritsBy(g) ==
    g = [seen \in SUBSET OrgUnits |->
            [u \in OrgUnits \cup {NoUnit} |->
                IF u = NoUnit \/ u \in seen THEN NoUnit
                ELSE IF ~unit[u].here THEN NoUnit
                ELSE IF unit[u].chief # NoPosition THEN u
                ELSE g[seen \cup {u}][unit[u].parent]]]

LEMMA InheritsClimbs ==
    ASSUME \A u \in OrgUnits : unit[u] \in Rows
    PROVE  /\ Inheriting.up \in [MaybeUnits -> MaybeUnits]
           /\ Climbs(Inheriting, OrgUnits, Inherits)
<1> DEFINE w == Inheriting
           Inh(g, s, u) == IF u = NoUnit \/ u \in s THEN NoUnit
                           ELSE IF ~unit[u].here THEN NoUnit
                           ELSE IF unit[u].chief # NoPosition THEN u
                           ELSE g[s \cup {u}][unit[u].parent]
<1>1. /\ w.none = NoUnit
      /\ \A u \in MaybeUnits :
            /\ w.up[u] = IF u = NoUnit THEN NoUnit ELSE unit[u].parent
            /\ w.stop[u] <=> u # NoUnit /\ (~unit[u].here \/ unit[u].chief # NoPosition)
            /\ w.found[u] = IF u = NoUnit THEN NoUnit
                            ELSE IF unit[u].here THEN u ELSE NoUnit
    BY DEF Inheriting
<1>2. w.up \in [MaybeUnits -> MaybeUnits]
    <2>1. \A u \in MaybeUnits : (IF u = NoUnit THEN NoUnit ELSE unit[u].parent) \in MaybeUnits
        BY DEF MaybeUnits, Rows
    <2>2. w.up = [u \in MaybeUnits |-> IF u = NoUnit THEN NoUnit ELSE unit[u].parent]
        BY DEF Inheriting
    <2> QED BY <2>1, <2>2
<1> HIDE DEF w
<1>3. ASSUME NEW g, NEW s \in SUBSET OrgUnits, NEW u \in MaybeUnits
      PROVE  Step(w, g, s, u) = Inh(g, s, u)
    BY <1>1 DEF Step
<1>4. Seen(OrgUnits) = SUBSET OrgUnits BY DEF Seen
<1>5. ASSUME NEW g PROVE Climbs(w, OrgUnits, g) <=> InheritsBy(g)
    <2>1. [s \in SUBSET OrgUnits |-> [u \in MaybeUnits |-> Step(w, g, s, u)]]
            = [s \in SUBSET OrgUnits |-> [u \in MaybeUnits |-> Inh(g, s, u)]]
        <3> HIDE DEF Inh
        <3>1. \A s \in SUBSET OrgUnits : \A u \in MaybeUnits : Step(w, g, s, u) = Inh(g, s, u)
            BY <1>3
        <3>2. \A s \in SUBSET OrgUnits :
                [u \in MaybeUnits |-> Step(w, g, s, u)] = [u \in MaybeUnits |-> Inh(g, s, u)]
            BY <3>1
        <3> QED BY <3>2
    <2>2. InheritsBy(g) <=> g = [s \in SUBSET OrgUnits |-> [u \in MaybeUnits |-> Inh(g, s, u)]]
        BY DEF InheritsBy, MaybeUnits
    <2> HIDE DEF Inh
    <2> QED BY <1>4, <2>1, <2>2 DEF Climbs
<1>6. \E g : InheritsBy(g) BY <1>2, <1>5, ClimbsExist
<1>7. Inherits = CHOOSE g : InheritsBy(g) BY DEF Inherits, InheritsBy
<1>8. InheritsBy(Inherits) BY <1>6, <1>7
<1> QED BY <1>2, <1>5, <1>8 DEF w

\* resolvePositionManager as a climb.
Managing(e) ==
    [up |-> [u \in MaybeUnits |-> IF Inherits[{}][u] = NoUnit THEN NoUnit
                              ELSE unit[Inherits[{}][u]].parent],
     stop |-> [u \in MaybeUnits |-> LET d == Inherits[{}][u] IN
                                d = NoUnit \/ Holders(d) = {} \/ ~Skips(Least(Holders(d)), e)],
     found |-> [u \in MaybeUnits |-> LET d == Inherits[{}][u] IN
                                 IF d = NoUnit THEN NoManager
                                 ELSE IF Holders(d) = {} THEN NoManager ELSE Least(Holders(d))],
     none |-> NoManager]

ManagesBy(e, g) ==
    g = [seen \in SUBSET OrgUnits |->
            [u \in OrgUnits \cup {NoUnit} |->
                LET d == Inherits[{}][u] IN
                IF u \in seen \/ d = NoUnit THEN NoManager
                ELSE IF Holders(d) = {} THEN NoManager
                ELSE IF Skips(Least(Holders(d)), e) THEN g[seen \cup {u}][unit[d].parent]
                ELSE Least(Holders(d))]]

LEMMA ManagesClimbs ==
    ASSUME \A u \in OrgUnits : unit[u] \in Rows, NEW e,
           \A u \in MaybeUnits : Inherits[{}][u] \in MaybeUnits, Inherits[{}][NoUnit] = NoUnit
    PROVE  /\ Managing(e).up \in [MaybeUnits -> MaybeUnits]
           /\ \E g : Climbs(Managing(e), OrgUnits, g) /\ Manages(e) = g[{}]
<1> DEFINE w == Managing(e)
           D(u) == Inherits[{}][u]
           Man(g, s, u) == IF u \in s \/ D(u) = NoUnit THEN NoManager
                           ELSE IF Holders(D(u)) = {} THEN NoManager
                           ELSE IF Skips(Least(Holders(D(u))), e) THEN g[s \cup {u}][unit[D(u)].parent]
                           ELSE Least(Holders(D(u)))
<1>1. /\ w.none = NoManager
      /\ \A u \in MaybeUnits :
            /\ w.up[u] = IF D(u) = NoUnit THEN NoUnit ELSE unit[D(u)].parent
            /\ w.stop[u] <=>
                D(u) = NoUnit \/ Holders(D(u)) = {} \/ ~Skips(Least(Holders(D(u))), e)
            /\ w.found[u] = IF D(u) = NoUnit THEN NoManager
                            ELSE IF Holders(D(u)) = {} THEN NoManager ELSE Least(Holders(D(u)))
    BY DEF Managing
<1>2. w.up \in [MaybeUnits -> MaybeUnits]
    <2>1. \A u \in MaybeUnits : (IF D(u) = NoUnit THEN NoUnit ELSE unit[D(u)].parent) \in MaybeUnits
        <3> HIDE DEF D
        <3>1. \A u \in MaybeUnits : D(u) \in MaybeUnits BY DEF D
        <3> QED BY <3>1 DEF MaybeUnits, Rows
    <2>2. w.up = [u \in MaybeUnits |-> IF D(u) = NoUnit THEN NoUnit ELSE unit[D(u)].parent]
        BY DEF Managing
    <2> QED BY <2>1, <2>2
<1>3. D(NoUnit) = NoUnit OBVIOUS
<1> HIDE DEF w, D
<1>4. ASSUME NEW g, NEW s \in SUBSET OrgUnits, NEW u \in MaybeUnits
      PROVE  Step(w, g, s, u) = Man(g, s, u)
    BY <1>1, <1>3 DEF Step
<1>5. Seen(OrgUnits) = SUBSET OrgUnits BY DEF Seen
<1>6. ASSUME NEW g PROVE Climbs(w, OrgUnits, g) <=> ManagesBy(e, g)
    <2>1. [s \in SUBSET OrgUnits |-> [u \in MaybeUnits |-> Step(w, g, s, u)]]
            = [s \in SUBSET OrgUnits |-> [u \in MaybeUnits |-> Man(g, s, u)]]
        <3> HIDE DEF Man
        <3>1. \A s \in SUBSET OrgUnits : \A u \in MaybeUnits : Step(w, g, s, u) = Man(g, s, u)
            BY <1>4
        <3>2. \A s \in SUBSET OrgUnits :
                [u \in MaybeUnits |-> Step(w, g, s, u)] = [u \in MaybeUnits |-> Man(g, s, u)]
            BY <3>1
        <3> QED BY <3>2
    <2>2. ManagesBy(e, g) <=> g = [s \in SUBSET OrgUnits |-> [u \in MaybeUnits |-> Man(g, s, u)]]
        BY DEF ManagesBy, MaybeUnits, D
    <2> HIDE DEF Man
    <2> QED BY <1>5, <2>1, <2>2 DEF Climbs
<1>7. \E g : ManagesBy(e, g) BY <1>2, <1>6, ClimbsExist
<1> DEFINE M == CHOOSE g : ManagesBy(e, g)
<1>8. Manages(e) = M[{}] BY DEF Manages, ManagesBy
<1>9. ManagesBy(e, M) BY <1>7
<1> QED BY <1>2, <1>6, <1>8, <1>9 DEF w

-----------------------------------------------------------------------------
\* Units: chains of parents

\* A chain of n units, each the parent of the one before, from u to v.
Chain(up, n, u, v) ==
    /\ up \in [1..n -> OrgUnits]
    /\ up[1] = u /\ up[n] = v
    /\ \A i \in 2..n : up[i] = unit[up[i - 1]].parent

\* The shortest chain meets no unit twice.
LEMMA ShortChain ==
    ASSUME NEW u, NEW v, NEW k \in Nat \ {0}, NEW c, Chain(c, k, u, v)
    PROVE  \E n \in 1..Cardinality(OrgUnits) : \E up : Chain(up, n, u, v)
<1> DEFINE T == {n \in Nat \ {0} : \E up : Chain(up, n, u, v)}
<1>1. PICK n \in T : \A m \in T : n <= m
    <2>1. T \subseteq Nat /\ k \in T OBVIOUS
    <2> HIDE DEF T
    <2> QED BY <2>1, LeastOf
<1>2. n \in Nat /\ n >= 1 OBVIOUS
<1>3. PICK up : Chain(up, n, u, v) OBVIOUS
<1>4. \A m \in Nat : m >= 1 /\ m < n => ~\E f : Chain(f, m, u, v) BY <1>1, <1>2
<1> HIDE DEF T
<1>5. up \in [1..n -> OrgUnits] /\ up[1] = u /\ up[n] = v
      /\ \A i \in 2..n : up[i] = unit[up[i - 1]].parent
    BY <1>3 DEF Chain
<1>6. ASSUME NEW i \in 1..n, NEW j \in 1..n, i < j, up[i] = up[j] PROVE FALSE
    <2> DEFINE m == n - (j - i)
               f == [x \in 1..m |-> IF x <= i THEN up[x] ELSE up[x + (j - i)]]
    <2>1. m \in Nat /\ m >= 1 /\ m < n /\ i <= m BY <1>2, <1>6
    <2>2. \A x \in 1..m : x > i => x + (j - i) \in 1..n /\ x + (j - i) > j BY <1>2, <1>6
    <2>3. \A x \in 1..m : x <= i => x \in 1..n BY <1>2, <2>1
    <2>4. f \in [1..m -> OrgUnits] BY <1>5, <2>2, <2>3
    <2>5. \A x \in 1..m : f[x] = IF x <= i THEN up[x] ELSE up[x + (j - i)] OBVIOUS
    <2> HIDE DEF f
    <2>6. f[1] = u
        <3>1. 1 \in 1..m /\ 1 <= i BY <1>2, <2>1
        <3> QED BY <1>5, <2>5, <3>1
    <2>7. f[m] = v
        <3>1. m \in 1..m /\ m + (j - i) = n BY <1>2, <2>1
        <3>2. CASE m <= i
            <4>1. m = i /\ j = n BY <1>2, <1>6, <2>1, <3>2
            <4> QED BY <1>5, <1>6, <2>5, <3>1, <4>1
        <3>3. CASE ~(m <= i) BY <1>5, <2>5, <3>1, <3>3
        <3> QED BY <3>2, <3>3
    <2>8. ASSUME NEW x \in 2..m PROVE f[x] = unit[f[x - 1]].parent
        <3>1. x \in 1..m /\ x - 1 \in 1..m BY <1>2, <2>1
        <3>2. CASE x <= i
            <4>1. x - 1 <= i /\ x \in 2..n BY <1>2, <3>2
            <4> QED BY <1>5, <2>5, <3>1, <3>2, <4>1
        <3>3. CASE x = i + 1
            <4>1. x - 1 = i /\ x + (j - i) = j + 1 /\ ~(x <= i) /\ j + 1 \in 2..n
                BY <1>2, <1>6, <2>1, <3>3
            <4>2. f[x] = up[j + 1] /\ f[x - 1] = up[i] BY <2>5, <3>1, <4>1
            <4>3. up[j + 1] = unit[up[j + 1 - 1]].parent /\ j + 1 - 1 = j BY <1>5, <4>1
            <4> QED BY <1>6, <4>2, <4>3
        <3>4. CASE x > i + 1
            <4>1. ~(x <= i) /\ ~(x - 1 <= i) BY <1>2, <3>4
            <4>2. /\ x + (j - i) \in 2..n
                  /\ x - 1 + (j - i) = x + (j - i) - 1
                BY <1>2, <1>6, <2>1, <3>4
            <4>3. f[x] = up[x + (j - i)] /\ f[x - 1] = up[x + (j - i) - 1]
                BY <2>5, <3>1, <4>1, <4>2
            <4> QED BY <1>5, <4>2, <4>3
        <3> QED BY <1>2, <3>2, <3>3, <3>4
    <2>9. Chain(f, m, u, v) BY <2>4, <2>6, <2>7, <2>8 DEF Chain
    <2> HIDE DEF m
    <2> QED BY <1>4, <2>1, <2>9
<1>7. n <= Cardinality(OrgUnits)
    <2>1. IsFiniteSet(OrgUnits) /\ Cardinality(OrgUnits) \in Nat
        BY OrgAssumption, FS_CardinalityType
    <2>2. IsFiniteSet(1..n) /\ Cardinality(1..n) = n BY <1>2, FS_Interval
    <2>3. ASSUME n > Cardinality(OrgUnits) PROVE FALSE
        <3>0. Cardinality(OrgUnits) < Cardinality(1..n) BY <1>2, <2>1, <2>2, <2>3
        <3>1. PICK x, y \in 1..n : x # y /\ up[x] = up[y]
            <4>1. up \in [1..n -> OrgUnits] BY <1>5
            <4> DEFINE S == 1..n
            <4>2. IsFiniteSet(S) /\ up \in [S -> OrgUnits] /\ Cardinality(OrgUnits) < Cardinality(S)
                BY <2>2, <3>0, <4>1
            <4> HIDE DEF S
            <4>3. \E x, y \in S : x # y /\ up[x] = up[y] BY ONLY <2>1, <4>2, FS_PigeonHole
            <4> QED BY <4>3 DEF S
        <3>2. x < y \/ y < x BY <1>2, <3>1
        <3> QED BY <1>6, <3>1, <3>2
    <2> QED BY <1>2, <2>1, <2>3
<1> QED BY <1>2, <1>3, <1>7

\* The root, and the units that a chain from u leads to.
Uphill(u) == {x \in MaybeUnits : x = NoUnit \/ \E n \in Nat \ {0} : \E up : Chain(up, n, u, x)}

LEMMA UphillClosed ==
    ASSUME \A v \in OrgUnits : unit[v] \in Rows, NEW u \in OrgUnits
    PROVE  /\ u \in Uphill(u)
           /\ \A x \in Uphill(u) : x # NoUnit => unit[x].parent \in Uphill(u)
<1>1. u \in Uphill(u)
    <2> DEFINE up == [i \in 1..1 |-> u]
    <2>1. Chain(up, 1, u, u) BY DEF Chain
    <2> HIDE DEF up
    <2>2. 1 \in Nat \ {0} /\ u \in MaybeUnits BY DEF MaybeUnits
    <2> QED BY <2>1, <2>2 DEF Uphill
<1>2. ASSUME NEW x \in Uphill(u), x # NoUnit PROVE unit[x].parent \in Uphill(u)
    <2>0. x \in OrgUnits BY <1>2 DEF Uphill, MaybeUnits
    <2> DEFINE y == unit[x].parent
    <2>1. y \in MaybeUnits BY <2>0 DEF MaybeUnits, Rows
    <2> HIDE DEF y
    <2>2. CASE y = NoUnit BY <2>1, <2>2 DEF Uphill, y
    <2>3. CASE y # NoUnit
        <3>1. PICK n \in Nat \ {0} : \E up : Chain(up, n, u, x) BY <1>2 DEF Uphill
        <3>2. PICK up : Chain(up, n, u, x) BY <3>1
        <3>3. up \in [1..n -> OrgUnits] /\ up[1] = u /\ up[n] = x
              /\ \A i \in 2..n : up[i] = unit[up[i - 1]].parent
            BY <3>2 DEF Chain
        <3> DEFINE f == [i \in 1..n + 1 |-> IF i <= n THEN up[i] ELSE y]
        <3>4. \A i \in 1..n + 1 : i <= n => i \in 1..n OBVIOUS
        <3>5. y \in OrgUnits BY <2>1, <2>3 DEF MaybeUnits
        <3>6. f \in [1..n + 1 -> OrgUnits] BY <3>3, <3>4, <3>5
        <3>7. \A i \in 1..n + 1 : f[i] = IF i <= n THEN up[i] ELSE y OBVIOUS
        <3> HIDE DEF f
        <3>8. f[1] = u /\ f[n + 1] = y /\ f[n] = x
            <4>1. 1 \in 1..n + 1 /\ 1 <= n /\ n \in 1..n + 1 /\ n + 1 \in 1..n + 1 /\ ~(n + 1 <= n)
                OBVIOUS
            <4> QED BY <3>3, <3>7, <4>1
        <3>9. ASSUME NEW i \in 2..n + 1 PROVE f[i] = unit[f[i - 1]].parent
            <4>1. CASE i = n + 1
                <5>1. i - 1 = n BY <4>1
                <5> QED BY <3>8, <4>1, <5>1 DEF y
            <4>2. CASE i # n + 1
                <5>1. i \in 2..n /\ i \in 1..n + 1 /\ i - 1 \in 1..n + 1 /\ i <= n /\ i - 1 <= n
                    BY <4>2
                <5> QED BY <3>3, <3>7, <5>1
            <4> QED BY <4>1, <4>2
        <3>10. Chain(f, n + 1, u, y) BY <3>6, <3>8, <3>9 DEF Chain
        <3>11. n + 1 \in Nat \ {0} OBVIOUS
        <3> QED BY <2>1, <3>10, <3>11 DEF Uphill, y
    <2> QED BY <2>2, <2>3
<1> QED BY <1>1, <1>2

\* A unit that inherits from one inherits from one uphill.
LEMMA InheritsUphill ==
    ASSUME \A v \in OrgUnits : unit[v] \in Rows,
           NEW P, P \subseteq MaybeUnits, \A x \in P : x # NoUnit => unit[x].parent \in P,
           NEW u \in P
    PROVE  Inherits[{}][u] = NoUnit \/ Inherits[{}][u] \in P
<1> DEFINE w == Inheriting
<1>1. w.up \in [MaybeUnits -> MaybeUnits] /\ Climbs(w, OrgUnits, Inherits) BY InheritsClimbs
<1>2. /\ w.none = NoUnit
      /\ \A x \in MaybeUnits :
            /\ x # NoUnit => w.up[x] = unit[x].parent
            /\ w.found[x] = x \/ w.found[x] = NoUnit
    BY DEF Inheriting
<1> HIDE DEF w
<1>3. \A x \in P : x # NoUnit /\ ~w.stop[x] => w.up[x] \in P BY <1>2
<1>0. P \subseteq MaybeUnits /\ u \in P OBVIOUS
<1>4. {} \in SUBSET OrgUnits OBVIOUS
<1>5. Found(w, P, Inherits[{}][u])
    <2>1. Closed(w, P) BY <1>0, <1>3 DEF Closed
    <2> QED BY ONLY <1>0, <1>1, <1>4, <2>1, ClimbFinds
<1> QED BY <1>2, <1>5 DEF Found

LEMMA ManagerAbove == (\A v \in OrgUnits : unit[v] \in Rows) => ManagedFromAbove
<1> SUFFICES ASSUME \A v \in OrgUnits : unit[v] \in Rows,
                    NEW e \in People, ManagerOf(e) # NoManager
             PROVE  /\ ManagerOf(e) # e
                    /\ \E n \in 1..Cardinality(OrgUnits) : \E up \in [1..n -> OrgUnits] :
                        /\ up[1] = Place[e].unit
                        /\ \A i \in 2..n : up[i] = unit[up[i - 1]].parent
                        /\ Holders(up[n]) # {} /\ ManagerOf(e) = Least(Holders(up[n]))
    BY DEF ManagedFromAbove
<1> DEFINE u == Place[e].unit
           P == Uphill(u)
           w == Managing(e)
<1>1. u \in OrgUnits BY OrgAssumption
<1>2. P \subseteq MaybeUnits /\ u \in P /\ \A x \in P : x # NoUnit => unit[x].parent \in P
    BY <1>1, UphillClosed DEF Uphill
<1>3. NoUnit \in P BY DEF Uphill, MaybeUnits
<1>4. \A x \in P : Inherits[{}][x] \in P
    <2> HIDE DEF P
    <2> QED BY <1>2, <1>3, InheritsUphill
<1>5. \A x \in MaybeUnits : Inherits[{}][x] \in MaybeUnits
    <2>1. \A x \in MaybeUnits : x # NoUnit => unit[x].parent \in MaybeUnits BY DEF MaybeUnits, Rows
    <2>2. NoUnit \in MaybeUnits BY DEF MaybeUnits
    <2> QED BY <2>1, <2>2, InheritsUphill
<1>6. Inherits[{}][NoUnit] = NoUnit
    <2>1. Climbs(Inheriting, OrgUnits, Inherits) BY InheritsClimbs
    <2>2. {} \in Seen(OrgUnits) /\ NoUnit \in MaybeUnits BY DEF Seen, MaybeUnits
    <2>3. Inherits[{}][NoUnit] = Step(Inheriting, Inherits, {}, NoUnit) BY <2>1, <2>2, ClimbIs
    <2> QED BY <2>3 DEF Step, Inheriting
<1>7. PICK g : Climbs(w, OrgUnits, g) /\ Manages(e) = g[{}] BY <1>5, <1>6, ManagesClimbs
<1>8. w.up \in [MaybeUnits -> MaybeUnits] BY <1>5, <1>6, ManagesClimbs
<1> DEFINE D(x) == Inherits[{}][x]
<1>9. /\ w.none = NoManager
      /\ \A x \in MaybeUnits :
            /\ D(x) # NoUnit => w.up[x] = unit[D(x)].parent
            /\ w.stop[x] <=> D(x) = NoUnit \/ Holders(D(x)) = {} \/ ~Skips(Least(Holders(D(x))), e)
            /\ w.found[x] = IF D(x) = NoUnit THEN NoManager
                            ELSE IF Holders(D(x)) = {} THEN NoManager ELSE Least(Holders(D(x)))
    BY DEF Managing
<1> HIDE DEF w, D, P
<1>10. \A x \in P : x # NoUnit /\ ~w.stop[x] => w.up[x] \in P
    <2>1. \A x \in P : D(x) \in P BY <1>4 DEF D
    <2> QED BY <1>2, <1>9, <2>1
<1>11. {} \in SUBSET OrgUnits OBVIOUS
<1>12. Found(w, P, g[{}][u])
    <2>1. Closed(w, P) BY <1>2, <1>10 DEF Closed
    <2> QED BY ONLY <1>2, <1>7, <1>8, <1>11, <2>1, ClimbFinds
<1>13. ManagerOf(e) = g[{}][u] BY <1>7 DEF ManagerOf
<1>14. PICK x \in P : w.stop[x] /\ ManagerOf(e) = w.found[x] BY <1>9, <1>12, <1>13 DEF Found
<1>15. /\ D(x) # NoUnit /\ Holders(D(x)) # {} /\ ManagerOf(e) = Least(Holders(D(x)))
       /\ ~Skips(Least(Holders(D(x))), e)
    BY <1>2, <1>9, <1>14
<1>16. ManagerOf(e) # e BY <1>15 DEF Skips
<1>17. D(x) \in P BY <1>4 DEF D
<1>18. PICK k \in Nat \ {0} : \E c : Chain(c, k, u, D(x)) BY <1>15, <1>17 DEF P, Uphill
<1>19. PICK n \in 1..Cardinality(OrgUnits) : \E up : Chain(up, n, u, D(x))
    BY <1>18, ShortChain
<1>20. PICK up : Chain(up, n, u, D(x)) BY <1>19
<1>21. /\ up \in [1..n -> OrgUnits] /\ up[1] = u /\ up[n] = D(x)
       /\ \A i \in 2..n : up[i] = unit[up[i - 1]].parent
    BY <1>20 DEF Chain
<1> HIDE DEF u
<1> QED BY <1>15, <1>16, <1>21 DEF u

-----------------------------------------------------------------------------
\* Units: theorems

LEMMA InitInv == OrgInit => OrgInv
<1> SUFFICES ASSUME OrgInit PROVE OrgInv OBVIOUS
<1>1. NoRecord \in Rows /\ NoEdit \in Reading /\ NoEdit.step = "idle" BY NoRecordTyped
<1>2. /\ \A v \in OrgUnits : unit[v] = NoRecord
      /\ \A p \in Editors : edit[p] = NoEdit
    BY DEF OrgInit
<1>3. OrgTyped BY <1>1, <1>2 DEF OrgInit, OrgTyped
<1>4. AllCurrent BY <1>1, <1>2 DEF AllCurrent
<1>5. ~NoRecord.here BY DEF NoRecord
<1>6. AllRooted BY <1>2, <1>5 DEF AllRooted
<1> QED BY <1>3, <1>4, <1>6 DEF OrgInv

LEMMA NextInv == OrgInv /\ [OrgNext]_orgVars => OrgInv'
<1> SUFFICES ASSUME OrgInv, [OrgNext]_orgVars PROVE OrgInv' OBVIOUS
<1>1. ASSUME NEW p \in Editors, BeginCreate(p) \/ BeginUpdate(p) PROVE OrgInv'
    BY <1>1, BeginInv
<1>2. ASSUME NEW p \in Editors, Write(p) PROVE OrgInv' BY <1>2, WriteInv
<1>3. ASSUME NEW p \in Editors, Forget(p) PROVE OrgInv' BY <1>3, ForgetInv
<1>4. CASE Synchronise BY <1>4, SynchroniseInv
<1>5. CASE UNCHANGED orgVars
    <2>1. OrgTyped' BY <1>5 DEF orgVars, OrgInv, OrgTyped
    <2>2. AllCurrent'
        BY <1>5 DEF orgVars, OrgInv, AllCurrent, Current, Parents, PathUnder, WouldCycle,
                    ClosedAbove
    <2>3. AllRooted' BY <1>5 DEF orgVars, OrgInv, AllRooted, Rooted, Shaped, ClosedUnder
    <2> QED BY <2>1, <2>2, <2>3 DEF OrgInv
<1> QED BY <1>1, <1>2, <1>3, <1>4, <1>5 DEF OrgNext, OrgEdit

\* Whoever edits units and whatever eHRMS sends in between: an edit that nobody has
\* overtaken goes by the units as they are, and while none was overtaken every unit has
\* a well-formed path (updateOrgUnit, updateOrgUnitDescendantPaths, UpsertEHRMSOrgUnits).
THEOREM UnitsInvariant == OrgSpec => []OrgInv
BY InitInv, NextInv, PTL DEF OrgSpec

\* The units, the edits under way and the flag keep their types (org_units).
THEOREM UnitsTypeCorrect == OrgSpec => []OrgTypeOK
<1>1. OrgInv => OrgTypeOK BY DEF OrgInv, OrgTyped, OrgTypeOK, Rows, Reading
<1> QED BY <1>1, UnitsInvariant, PTL

\* A well-formed path is the one the parent's path gives.
LEMMA ShapedUnder ==
    ASSUME OrgTyped, NEW u \in OrgUnits, Shaped(u)
    PROVE  unit[u].path = IF unit[u].parent = NoUnit THEN <<u>>
                          ELSE Append(unit[unit[u].parent].path, u)
<1> DEFINE s == unit[u].path
           p == unit[u].parent
<1>1. s \in Seq(OrgUnits) /\ Len(s) \in Nat BY DEF OrgTyped, Rows
<1>2. /\ Len(s) > 0 /\ s[Len(s)] = u
      /\ p = (IF Len(s) = 1 THEN NoUnit ELSE s[Len(s) - 1])
      /\ \A i \in 1..Len(s) : /\ Len(unit[s[i]].path) = i
                              /\ \A k \in 1..i : unit[s[i]].path[k] = s[k]
    BY DEF Shaped
<1>3. \A i \in 1..Len(s) : s[i] \in OrgUnits BY <1>1, ElementOfSeq
<1> HIDE DEF s
<1>4. CASE Len(s) = 1
    <2>1. p = NoUnit BY <1>2, <1>4
    <2>2. <<u>> \in Seq(OrgUnits) /\ Len(<<u>>) = 1 /\ <<u>>[1] = u OBVIOUS
    <2>3. \A i \in 1..Len(s) : s[i] = <<u>>[i] BY <1>2, <1>4, <2>2
    <2>4. s = <<u>> BY <1>1, <1>4, <2>2, <2>3, SeqEqual
    <2> QED BY <2>1, <2>4 DEF s
<1>5. CASE Len(s) # 1
    <2> DEFINE q == unit[p].path
               c == Append(q, u)
    <2>0. Len(s) \in Nat /\ Len(s) > 0 /\ Len(s) # 1 BY <1>1, <1>2, <1>5
    <2>1. Len(s) - 1 \in 1..Len(s) /\ p = s[Len(s) - 1]
        <3>0. \A n \in Nat : n > 0 /\ n # 1 => n - 1 \in 1..n OBVIOUS
        <3>1. Len(s) - 1 \in 1..Len(s) BY <2>0, <3>0
        <3>2. p = s[Len(s) - 1] BY <1>2, <1>5
        <3> QED BY <3>1, <3>2
    <2>2. p \in OrgUnits /\ p # NoUnit BY <1>3, <2>1, OrgAssumption
    <2>3. q \in Seq(OrgUnits) BY <2>2 DEF OrgTyped, Rows
    <2>4. Len(q) = Len(s) - 1 /\ \A k \in 1..Len(s) - 1 : q[k] = s[k] BY <1>2, <2>1
    <2> HIDE DEF q
    <2>5. c \in Seq(OrgUnits) /\ Len(c) = Len(q) + 1 /\ c[Len(q) + 1] = u
          /\ \A k \in 1..Len(q) : c[k] = q[k]
        BY <2>3, AppendProperties
    <2> HIDE DEF c
    <2>6. ASSUME NEW i \in 1..Len(s) PROVE s[i] = c[i]
        <3>1. CASE i = Len(s) BY <1>1, <1>2, <2>4, <2>5, <3>1
        <3>2. CASE i # Len(s)
            <4>1. i \in 1..Len(s) - 1 BY <1>1, <3>2
            <4> QED BY <2>4, <2>5, <4>1
        <3> QED BY <3>1, <3>2
    <2>7. Len(s) = Len(c) BY <1>1, <2>4, <2>5
    <2>8. s = c BY <1>1, <2>5, <2>6, <2>7, SeqEqual
    <2> QED BY <2>2, <2>8 DEF c, q, s
<1> QED BY <1>4, <1>5

\* TreeSound of the units: as long as no edit was overtaken, the stored paths are those
\* the parents give, whatever was created, moved, closed or sent by eHRMS; so a chain
\* of parents ends, and nothing below a closed unit is open.
THEOREM TreeKept == OrgSpec => []TreeSound
<1>1. OrgInv => TreeSound
    <2> SUFFICES ASSUME OrgInv, ~uneven, NEW u \in OrgUnits, unit[u].here
                 PROVE  /\ unit[u].path = IF unit[u].parent = NoUnit THEN <<u>>
                                          ELSE Append(unit[unit[u].parent].path, u)
                        /\ \A v \in Above(u) : unit[v].here /\ (unit[v].closed => unit[u].closed)
        BY DEF TreeSound
    <2>1. Shaped(u) /\ ClosedUnder(u) BY DEF OrgInv, AllRooted, Rooted
    <2>2. unit[u].path \in Seq(OrgUnits) /\ DOMAIN unit[u].path = 1..Len(unit[u].path)
        BY DEF OrgInv, OrgTyped, Rows
    <2>3. \A i \in DOMAIN unit[u].path :
            unit[unit[u].path[i]].here /\ (unit[unit[u].path[i]].closed => unit[u].closed)
        BY <2>1, <2>2 DEF Shaped, ClosedUnder
    <2>4. unit[u].path = IF unit[u].parent = NoUnit THEN <<u>>
                         ELSE Append(unit[unit[u].parent].path, u)
        BY <2>1, ShapedUnder DEF OrgInv
    <2> QED BY <2>3, <2>4 DEF Above
<1> QED BY <1>1, UnitsInvariant, PTL

\* ManagedFromAbove of the units: in any tree, also one that crossed edits or eHRMS have
\* bent into a loop, the search for a manager ends, never with the employee himself,
\* and only with the first holder of the manager position of a unit that a chain of
\* parents leads to (resolvePositionManager, inheritManagerPosition).
THEOREM ManagerFromAbove == OrgSpec => []ManagedFromAbove
<1>1. OrgInv => \A v \in OrgUnits : unit[v] \in Rows BY DEF OrgInv, OrgTyped
<1>2. OrgInv => ManagedFromAbove BY <1>1, ManagerAbove
<1> QED BY <1>2, UnitsInvariant, PTL

-----------------------------------------------------------------------------
\* Identities: the invariant

\* A worker has an event that was appended, and an event that was appended is
\* for an account.
Appended ==
    /\ \A i \in Jobs : job[i].status # "absent" => job[i].account # Nobody
    /\ \A w \in Provisioners : desk[w].step # "idle" => JobOf(w).status # "absent"

\* The account has the identity of the address, or bindings crossed there.
Bears(a, m) == link[m] = a \/ m \in raced

\* Whoever is about to write a link saw none, or its own.
LinkSeen ==
    /\ \A w \in Provisioners :
        desk[w].step = "bind" => desk[w].seen \in {Nobody, JobOf(w).account}
    /\ sso.step = "bind" => sso.seen \in {Nobody, sso.account} /\ sso.account # Nobody

\* A worker that is about to report success has written the link.
AboutToSucceed ==
    \A w \in Provisioners :
        desk[w].step = "succeeded" => Bears(JobOf(w).account, JobOf(w).mail)

\* A link is to a user there is.
UserThere ==
    /\ \A m \in Mails : link[m] # Nobody => person[m] # NoUser
    /\ \A w \in Provisioners :
        desk[w].step \in {"update", "verify", "check", "bind"} => person[JobOf(w).mail] # NoUser
    /\ sso.step = "bind" => person[sso.mail] # NoUser

\* The owner that Keycloak names was written for an event.
OwnerNamed ==
    \A m \in Mails :
        person[m] # NoUser /\ person[m].account # Nobody =>
            \E i \in Jobs : /\ job[i].status # "absent"
                            /\ job[i].mail = m /\ job[i].account = person[m].account

IInv ==
    /\ IdpTypeOK /\ Appended /\ LinkSeen /\ AboutToSucceed /\ UserThere /\ OwnerNamed
    /\ SucceededHolds

-----------------------------------------------------------------------------
\* Identities: typing

Row == [status : {"absent", "pending", "processing", "succeeded", "failed"},
        account : Logins \cup {Nobody}, employee : Staffers \cup {Nobody},
        mail : Mails, tries : 0..MaxTries, live : BOOLEAN]
Desk == [step : Steps \cup {"idle"}, job : Jobs, tries : 0 .. MaxTries - 1,
          seen : Logins \cup {Nobody}]
Login == [step : {"idle", "bind"}, account : Logins \cup {Nobody}, mail : Mails,
          seen : Logins \cup {Nobody}]

\* The same type, part by part.
LEMMA TypeParts ==
    IdpTypeOK <=> /\ job \in [Jobs -> Row]
                  /\ person \in [Mails -> Owners \cup {NoUser}]
                  /\ link \in [Mails -> Logins \cup {Nobody}]
                  /\ desk \in [Provisioners -> Desk]
                  /\ sso \in Login
                  /\ raced \subseteq Mails
BY DEF IdpTypeOK, Row, Desk, Login

LEMMA TypePartsNext ==
    IdpTypeOK' <=> /\ job' \in [Jobs -> Row]
                   /\ person' \in [Mails -> Owners \cup {NoUser}]
                   /\ link' \in [Mails -> Logins \cup {Nobody}]
                   /\ desk' \in [Provisioners -> Desk]
                   /\ sso' \in Login
                   /\ raced' \subseteq Mails
BY DEF IdpTypeOK, Row, Desk, Login

\* Who does nothing has a record of the type.
LEMMA AtRestTyped ==
    /\ AtRest \in Desk /\ AtRest.step = "idle"
    /\ NoLoginPending \in Login /\ NoLoginPending.step = "idle"
<1>1. (CHOOSE i \in Jobs : TRUE) \in Jobs BY IdpAssumption
<1>2. (CHOOSE m \in Mails : TRUE) \in Mails BY IdpAssumption
<1>3. 0 \in 0 .. MaxTries - 1 BY IdpAssumption
<1> QED BY <1>1, <1>2, <1>3 DEF AtRest, NoLoginPending, Desk, Login

\* A worker that goes on to step s stays with its event.
LEMMA GoesTyped ==
    ASSUME desk \in [Provisioners -> Desk], NEW w \in Provisioners,
           NEW s \in Steps, Goes(w, s)
    PROVE  /\ desk' \in [Provisioners -> Desk]
           /\ desk'[w].step = s /\ desk'[w].job = desk[w].job /\ desk'[w].seen = desk[w].seen
           /\ \A v \in Provisioners : v # w => desk'[v] = desk[v]
<1> DEFINE new == [desk[w] EXCEPT !.step = s]
<1>1. desk[w] \in Desk OBVIOUS
<1>2. /\ new \in Desk
      /\ new.step = s /\ new.job = desk[w].job /\ new.seen = desk[w].seen
    BY <1>1 DEF Desk
<1>3. desk' = [desk EXCEPT ![w] = new] BY DEF Goes
<1> QED BY <1>2, <1>3

\* The result of an attempt is a status and a count within the bound.
LEMMA ResultTyped ==
    ASSUME NEW s \in {"succeeded", "retry", "failed"}, NEW n \in 0 .. MaxTries - 1
    PROVE  /\ Result(s, n).status \in {"pending", "succeeded", "failed"}
           /\ Result(s, n).tries \in 0..MaxTries
           /\ Result(s, n).status = "succeeded" => s = "succeeded"
<1> USE IdpAssumption
<1>1. CASE s = "retry" /\ n + 1 >= MaxTries BY <1>1 DEF Result
<1>2. CASE s = "retry" /\ n + 1 < MaxTries BY <1>2 DEF Result
<1>3. CASE s # "retry" BY <1>3 DEF Result
<1> QED BY <1>1, <1>2, <1>3
-----------------------------------------------------------------------------
\* Steps that change events

\* Event i is written: an event that was appended stays for the same account and
\* address, and it succeeds only for a worker that has written the link.
Rewritten(i, new) ==
    /\ job' = [job EXCEPT ![i] = new]
    /\ new \in Row /\ new.status # "absent" /\ new.account # Nobody
    /\ job[i].status # "absent" => new.account = job[i].account /\ new.mail = job[i].mail
    /\ new.status = "succeeded" => Bears(new.account, new.mail)
    /\ UNCHANGED <<person, link, sso, raced>>

\* A worker rests, goes on to look, or is where it was.
LEMMA RewrittenInv ==
    ASSUME IInv, NEW i \in Jobs, NEW new \in Row, Rewritten(i, new),
           desk' \in [Provisioners -> Desk],
           \A w \in Provisioners :
            \/ desk'[w] = desk[w]
            \/ desk'[w].step = "idle"
            \/ desk'[w].step = "look" /\ desk'[w].job = i
    PROVE  IInv'
<1> USE DEF Rewritten, IInv
<1>1. IdpTypeOK' BY TypeParts, TypePartsNext
<1>2. job'[i] = new /\ \A j \in Jobs : j # i => job'[j] = job[j] BY TypeParts
<1>3. \A j \in Jobs : job[j].status # "absent" =>
        /\ job'[j].status # "absent"
        /\ job'[j].account = job[j].account /\ job'[j].mail = job[j].mail
    BY <1>2
<1>4. \A w \in Provisioners :
        /\ desk[w].job \in Jobs /\ desk'[w].job \in Jobs
        /\ desk[w].step # "idle" => JobOf(w).status # "absent"
        /\ desk'[w].step \notin {"idle", "look"} =>
            /\ desk'[w] = desk[w]
            /\ JobOf(w)'.account = JobOf(w).account /\ JobOf(w)'.mail = JobOf(w).mail
    BY <1>3, TypeParts DEF Appended, JobOf, Desk
<1>5. Appended'
    <2>1. \A j \in Jobs : job'[j].status # "absent" => job'[j].account # Nobody
        BY <1>2 DEF Appended
    <2>2. ASSUME NEW w \in Provisioners, desk'[w].step # "idle"
          PROVE  JobOf(w)'.status # "absent"
        BY <1>2, <1>3, <1>4, <2>2 DEF JobOf
    <2> QED BY <2>1, <2>2 DEF Appended
<1>6. LinkSeen' BY <1>4 DEF LinkSeen
<1>7. AboutToSucceed' BY <1>4 DEF AboutToSucceed, Bears
<1>8. UserThere'
    <2>1. \A w \in Provisioners :
            desk'[w].step \in {"update", "verify", "check", "bind"} =>
                person[JobOf(w)'.mail] # NoUser
        <3>1. SUFFICES ASSUME NEW w \in Provisioners,
                              desk'[w].step \in {"update", "verify", "check", "bind"}
                       PROVE  person[JobOf(w)'.mail] # NoUser
            OBVIOUS
        <3>2. desk'[w] = desk[w] /\ JobOf(w)'.mail = JobOf(w).mail BY <1>4, <3>1
        <3> QED BY <3>1, <3>2 DEF UserThere
    <2> QED BY <2>1 DEF UserThere
<1>9. OwnerNamed' BY <1>3 DEF OwnerNamed
<1>10. SucceededHolds' BY <1>2 DEF SucceededHolds, Bears
<1> QED BY <1>1, <1>5, <1>6, <1>7, <1>8, <1>9, <1>10

\* An event is appended or claimed, its lease ends, or its result is recorded.
LEMMA JobInv ==
    ASSUME IInv,
           \/ \E i \in Jobs : AppendJob(i) \/ ClaimEnds(i)
           \/ \E w \in Provisioners : ClaimJob(w) \/ RecordJob(w)
    PROVE  IInv'
<1> USE TypeParts DEF IInv
<1>1. ASSUME NEW i \in Jobs, AppendJob(i) PROVE IInv'
    <2>1. PICK a \in Logins, e \in Staffers, m \in Mails :
            job' = [job EXCEPT ![i] = [status |-> "pending", account |-> a, employee |-> e,
                                       mail |-> m, tries |-> 0, live |-> FALSE]]
        BY <1>1 DEF AppendJob
    <2> DEFINE new == [status |-> "pending", account |-> a, employee |-> e,
                       mail |-> m, tries |-> 0, live |-> FALSE]
    <2>2. new \in Row BY IdpAssumption DEF Row
    <2>3. Rewritten(i, new) BY <1>1, <2>1, <2>2, IdpAssumption DEF AppendJob, Rewritten
    <2> HIDE DEF new
    <2> QED BY <1>1, <2>2, <2>3, RewrittenInv DEF AppendJob
<1>2. ASSUME NEW i \in Jobs, ClaimEnds(i) PROVE IInv'
    <2> DEFINE new == [job[i] EXCEPT !.live = FALSE]
    <2>1. new \in Row /\ new.status = "processing" /\ new.account = job[i].account
          /\ new.mail = job[i].mail
        BY <1>2 DEF ClaimEnds, Row
    <2>2. job' = [job EXCEPT ![i] = new] BY <1>2 DEF ClaimEnds
    <2> HIDE DEF new
    <2>3. Rewritten(i, new) BY <1>2, <2>1, <2>2 DEF ClaimEnds, Rewritten, Appended
    <2> QED BY <1>2, <2>1, <2>3, RewrittenInv DEF ClaimEnds
<1>3. ASSUME NEW w \in Provisioners, ClaimJob(w) PROVE IInv'
    <2>1. PICK i \in Jobs :
            /\ Due(i)
            /\ job' = [job EXCEPT ![i].status = "processing", ![i].live = TRUE]
            /\ desk' = [desk EXCEPT ![w] = [step |-> "look", job |-> i, tries |-> job[i].tries,
                                            seen |-> Nobody]]
        BY <1>3 DEF ClaimJob
    <2> DEFINE new == [job[i] EXCEPT !.status = "processing", !.live = TRUE]
    <2> DEFINE place == [step |-> "look", job |-> i, tries |-> job[i].tries, seen |-> Nobody]
    <2>2. new \in Row /\ new.status = "processing" /\ new.account = job[i].account
          /\ new.mail = job[i].mail
        BY DEF Row
    <2>3. job' = [job EXCEPT ![i] = new] BY <2>1
    <2>4. job[i].status # "absent" /\ job[i].tries \in 0 .. MaxTries - 1
        <3>1. job[i].tries \in 0..MaxTries /\ job[i].tries < MaxTries /\ MaxTries \in Nat
            BY <2>1, IdpAssumption DEF Due, Row
        <3>2. job[i].tries \in 0 .. MaxTries - 1 BY <3>1
        <3> QED BY <2>1, <3>2 DEF Due
    <2>5. place \in Desk BY <2>4 DEF Desk, Steps
    <2>6. desk' \in [Provisioners -> Desk] BY <2>1, <2>5
    <2>7. \A v \in Provisioners :
            desk'[v] = desk[v] \/ (desk'[v].step = "look" /\ desk'[v].job = i)
        BY <2>1
    <2> HIDE DEF new
    <2>8. Rewritten(i, new) BY <1>3, <2>2, <2>3, <2>4 DEF ClaimJob, Rewritten, Appended
    <2> QED BY <2>2, <2>6, <2>7, <2>8, RewrittenInv
<1>4. ASSUME NEW w \in Provisioners, RecordJob(w) PROVE IInv'
    <2> DEFINE i == desk[w].job
               r == Result(desk[w].step, desk[w].tries)
               new == [job[i] EXCEPT !.status = r.status, !.tries = r.tries, !.live = FALSE]
    <2>1. i \in Jobs /\ job[i] \in Row /\ desk[w].tries \in 0 .. MaxTries - 1 BY DEF Desk
    <2>2. desk[w].step \in {"succeeded", "retry", "failed"} BY <1>4 DEF RecordJob
    <2>3. /\ r.status \in {"pending", "succeeded", "failed"} /\ r.tries \in 0..MaxTries
          /\ r.status = "succeeded" => desk[w].step = "succeeded"
        BY <2>1, <2>2, ResultTyped
    <2>4. /\ job' = [job EXCEPT ![i].status = r.status, ![i].tries = r.tries, ![i].live = FALSE]
          /\ desk' = [desk EXCEPT ![w] = AtRest]
          /\ UNCHANGED <<person, link, sso, raced>>
        BY <1>4 DEF RecordJob
    <2> HIDE DEF r
    <2>5. /\ job' = [job EXCEPT ![i] = new]
          /\ new \in Row /\ new.status = r.status /\ new.account = job[i].account
          /\ new.mail = job[i].mail
        BY <2>1, <2>3, <2>4 DEF Row
    <2>6. job[i].status # "absent" BY <2>2 DEF Appended, JobOf
    <2>7. r.status = "succeeded" => Bears(job[i].account, job[i].mail)
        BY <2>3 DEF AboutToSucceed, JobOf
    <2> HIDE DEF new
    <2>8. Rewritten(i, new) BY <2>1, <2>3, <2>4, <2>5, <2>6, <2>7 DEF Rewritten, Appended
    <2>9. desk' \in [Provisioners -> Desk]
          /\ \A v \in Provisioners : desk'[v] = desk[v] \/ desk'[v].step = "idle"
        BY <2>4, AtRestTyped
    <2> HIDE DEF i
    <2> QED BY <2>1, <2>5, <2>8, <2>9, RewrittenInv
<1> QED BY <1>1, <1>2, <1>3, <1>4

-----------------------------------------------------------------------------
\* Steps with Keycloak

\* Worker w goes on to a step, or gives up; it may make the user the account's.
Attempts(w) ==
    /\ desk[w].step # "idle"
    /\ desk' \in [Provisioners -> Desk]
    /\ \A v \in Provisioners : v # w => desk'[v] = desk[v]
    /\ desk'[w].step # "succeeded"
    /\ desk'[w].step # "idle" => desk'[w].job = desk[w].job
    /\ person' = person \/ Takes(w)
    /\ desk'[w].step \in {"update", "verify", "check", "bind"} => person'[JobOf(w).mail] # NoUser
    /\ desk'[w].step = "bind" => desk'[w].seen \in {Nobody, JobOf(w).account}
    /\ UNCHANGED <<job, link, sso, raced>>

\* Such a step keeps the invariant: users do not go, and the new owner has an event.
LEMMA AttemptsInv ==
    ASSUME IInv, NEW w \in Provisioners, Attempts(w)
    PROVE  IInv'
<1> USE TypeParts DEF IInv
<1> DEFINE m == JobOf(w).mail
           owner == [account |-> JobOf(w).account, employee |-> JobOf(w).employee]
<1>1. desk[w].job \in Jobs /\ JobOf(w) \in Row BY DEF JobOf, Desk
<1>2. m \in Mails /\ owner \in Owners /\ owner # NoUser
    BY <1>1, IdpAssumption DEF Row, Owners
<1>3. /\ person' \in [Mails -> Owners \cup {NoUser}]
      /\ \A n \in Mails : \/ person'[n] = person[n]
                          \/ n = m /\ person'[n] = owner
    BY <1>2 DEF Attempts, Takes
<1>4. UNCHANGED <<job, link, sso, raced>> BY DEF Attempts
<1>5. IdpTypeOK' BY <1>3, <1>4, TypePartsNext DEF Attempts
<1>6. \A v \in Provisioners :
        /\ v # w => JobOf(v)' = JobOf(v)
        /\ desk'[v].step # "idle" => desk[v].step # "idle" /\ JobOf(v)' = JobOf(v)
    BY <1>4 DEF Attempts, JobOf
<1>7. Appended' BY <1>4, <1>6 DEF Appended
<1>8. LinkSeen'
    <2>1. \A v \in Provisioners :
            desk'[v].step = "bind" => desk'[v].seen \in {Nobody, JobOf(v)'.account}
        <3>1. SUFFICES ASSUME NEW v \in Provisioners, desk'[v].step = "bind"
                       PROVE  desk'[v].seen \in {Nobody, JobOf(v)'.account}
            OBVIOUS
        <3>2. JobOf(v)' = JobOf(v) BY <1>6, <3>1
        <3> QED BY <3>1, <3>2 DEF LinkSeen, Attempts
    <2> QED BY <1>4, <2>1 DEF LinkSeen
<1>9. AboutToSucceed' BY <1>4, <1>6 DEF AboutToSucceed, Attempts, Bears
<1>10. \A n \in Mails : person[n] # NoUser => person'[n] # NoUser BY <1>2, <1>3
<1>11. UserThere'
    <2>1. \A v \in Provisioners : desk[v].job \in Jobs /\ JobOf(v).mail \in Mails
        BY DEF JobOf, Desk, Row
    <2>2. sso.mail \in Mails BY DEF Login
    <2>3. \A n \in Mails : link'[n] # Nobody => person'[n] # NoUser
        BY <1>4, <1>10 DEF UserThere
    <2>4. sso'.step = "bind" => person'[sso'.mail] # NoUser
        BY <1>4, <1>10, <2>2 DEF UserThere
    <2>5. ASSUME NEW v \in Provisioners,
                 desk'[v].step \in {"update", "verify", "check", "bind"}
          PROVE  person'[JobOf(v)'.mail] # NoUser
        <3>1. CASE v = w BY <1>6, <2>5, <3>1 DEF Attempts
        <3>2. CASE v # w BY <1>6, <1>10, <2>1, <2>5, <3>2 DEF Attempts, UserThere
        <3> QED BY <3>1, <3>2
    <2> QED BY <2>3, <2>4, <2>5 DEF UserThere
<1>12. OwnerNamed'
    <2>1. JobOf(w).status # "absent" BY DEF Attempts, Appended
    <2>2. SUFFICES ASSUME NEW n \in Mails, person'[n] # NoUser, person'[n].account # Nobody
                   PROVE  \E i \in Jobs : /\ job[i].status # "absent" /\ job[i].mail = n
                                          /\ job[i].account = person'[n].account
        BY <1>4 DEF OwnerNamed
    <2>3. CASE person'[n] = person[n] BY <2>2, <2>3 DEF OwnerNamed
    <2>4. CASE n = m /\ person'[n] = owner BY <1>1, <2>1, <2>4 DEF JobOf
    <2> QED BY <1>3, <2>3, <2>4
<1>13. SucceededHolds' BY <1>4 DEF SucceededHolds
<1> QED BY <1>5, <1>7, <1>8, <1>9, <1>11, <1>12, <1>13
\* Every step of a worker with Keycloak, its check of the link and its giving up
\* are of this kind.
LEMMA KeycloakInv ==
    ASSUME IInv, NEW w \in Provisioners,
           \/ LookUp(w) \/ UpdateUser(w) \/ CreateUser(w) \/ VerifyUser(w)
           \/ KeycloakFails(w) \/ CheckLink(w) \/ Abandon(w)
    PROVE  IInv'
<1> USE TypeParts DEF IInv
<1> DEFINE m == JobOf(w).mail
           owner == [account |-> JobOf(w).account, employee |-> JobOf(w).employee]
<1>1. desk[w].job \in Jobs /\ JobOf(w) \in Row /\ m \in Mails BY DEF JobOf, Desk, Row
<1>2. owner # NoUser BY <1>1, IdpAssumption DEF Row
<1>3. Takes(w) => person'[m] # NoUser BY <1>1, <1>2 DEF Takes
<1>4. CASE LookUp(w)
    <2>1. PICK s \in {"create", "failed", "update"} :
            Goes(w, s) /\ (s = "update" => person[m] # NoUser)
        BY <1>4 DEF LookUp
    <2> QED BY <1>4, <2>1, GoesTyped, AttemptsInv DEF LookUp, Attempts, Steps
<1>5. CASE UpdateUser(w)
    <2>1. Goes(w, "check") /\ Takes(w) BY <1>5 DEF UpdateUser
    <2> QED BY <1>3, <1>5, <2>1, GoesTyped, AttemptsInv DEF UpdateUser, Attempts, Steps
<1>6. CASE CreateUser(w)
    <2>1. Goes(w, "verify") /\ (Takes(w) \/ (person[m] # NoUser /\ UNCHANGED person))
        BY <1>6 DEF CreateUser
    <2> QED BY <1>3, <1>6, <2>1, GoesTyped, AttemptsInv DEF CreateUser, Attempts, Steps
<1>7. CASE VerifyUser(w)
    <2>1. person[m] # NoUser BY <1>7 DEF VerifyUser, UserThere
    <2>2. PICK s \in {"check", "failed"} : Goes(w, s) BY <1>7 DEF VerifyUser
    <2> QED BY <1>7, <2>1, <2>2, GoesTyped, AttemptsInv DEF VerifyUser, Attempts, Steps
<1>8. CASE KeycloakFails(w)
    <2>1. Goes(w, "retry") /\ (UNCHANGED person \/ Takes(w)) BY <1>8 DEF KeycloakFails
    <2> QED BY <1>8, <2>1, GoesTyped, AttemptsInv DEF KeycloakFails, Attempts, Steps
<1>9. CASE CheckLink(w)
    <2> DEFINE a == JobOf(w).account
               new == [desk[w] EXCEPT !.step = AfterCheck(m, a), !.seen = link[m]]
    <2>1. desk' = [desk EXCEPT ![w] = new] BY <1>9 DEF CheckLink
    <2>2. /\ AfterCheck(m, a) \in {"bind", "failed"}
          /\ AfterCheck(m, a) = "bind" => link[m] \in {Nobody, a}
        BY DEF AfterCheck, MayLink
    <2>3. person[m] # NoUser BY <1>9 DEF CheckLink, UserThere
    <2>4. /\ new \in Desk /\ new.step = AfterCheck(m, a) /\ new.job = desk[w].job
          /\ new.seen = link[m]
        BY <1>1, <2>2 DEF Desk, Steps
    <2> HIDE DEF new
    <2>5. /\ desk' \in [Provisioners -> Desk] /\ desk'[w] = new
          /\ \A v \in Provisioners : v # w => desk'[v] = desk[v]
        BY <2>1, <2>4
    <2>6. Attempts(w) BY <1>9, <2>2, <2>3, <2>4, <2>5 DEF CheckLink, Attempts
    <2> QED BY <2>6, AttemptsInv
<1>10. CASE Abandon(w)
    BY <1>10, AtRestTyped, AttemptsInv DEF Abandon, Attempts
<1> QED BY <1>4, <1>5, <1>6, <1>7, <1>8, <1>9, <1>10

-----------------------------------------------------------------------------
\* Steps that write links

\* A link is overwritten only where that is put down, so nobody loses one unseen.
LEMMA BoundKeeps ==
    ASSUME IdpTypeOK, NEW m \in Mails, NEW a \in Logins, NEW seen \in {Nobody, a},
           Bound(m, a, seen)
    PROVE  /\ link' \in [Mails -> Logins \cup {Nobody}] /\ raced' \subseteq Mails
           /\ Bears(a, m)'
           /\ \A n \in Mails, b \in Logins : Bears(b, n) => Bears(b, n)'
           /\ \A n \in Mails : n # m => link'[n] = link[n]
BY TypeParts, IdpAssumption DEF Bound, Bears

\* A worker or a login writes the link it has checked.
LEMMA LinkInv ==
    ASSUME IInv, EndLogin \/ \E w \in Provisioners : BindIdentity(w)
    PROVE  IInv'
<1> USE TypeParts DEF IInv
<1>1. UNCHANGED <<job, person>> BY DEF EndLogin, BindIdentity
<1>2. \A w \in Provisioners : desk[w].job \in Jobs /\ JobOf(w) \in Row BY DEF JobOf, Desk
<1>3. PICK m \in Mails, a \in Logins, seen \in Logins \cup {Nobody} :
        /\ seen \in {Nobody, a} /\ Bound(m, a, seen) /\ person[m] # NoUser
        /\ desk' \in [Provisioners -> Desk] /\ sso' \in Login
        /\ \A w \in Provisioners :
            \/ desk'[w] = desk[w]
            \/ /\ desk'[w].step = "succeeded" /\ desk'[w].job = desk[w].job
               /\ desk[w].step = "bind" /\ JobOf(w).account = a /\ JobOf(w).mail = m
        /\ sso' = sso \/ sso'.step = "idle"
    <2>1. CASE EndLogin
        <3>1. sso.mail \in Mails /\ sso.account \in Logins /\ sso.seen \in {Nobody, sso.account}
              /\ person[sso.mail] # NoUser
            BY <2>1 DEF EndLogin, LinkSeen, UserThere, Login
        <3> QED BY <2>1, <3>1, AtRestTyped DEF EndLogin
    <2>2. ASSUME NEW w \in Provisioners, BindIdentity(w)
          PROVE  \E n \in Mails, a \in Logins, seen \in Logins \cup {Nobody} :
                    /\ seen \in {Nobody, a} /\ Bound(n, a, seen) /\ person[n] # NoUser
                    /\ desk' \in [Provisioners -> Desk] /\ sso' = sso
                    /\ \A v \in Provisioners :
                        \/ desk'[v] = desk[v]
                        \/ /\ desk'[v].step = "succeeded" /\ desk'[v].job = desk[v].job
                           /\ desk[v].step = "bind"
                           /\ JobOf(v).account = a /\ JobOf(v).mail = n
        <3>1. desk[w].step = "bind" BY <2>2 DEF BindIdentity
        <3>2. /\ JobOf(w).mail \in Mails /\ JobOf(w).account \in Logins
              /\ desk[w].seen \in {Nobody, JobOf(w).account} /\ person[JobOf(w).mail] # NoUser
            BY <1>2, <3>1 DEF LinkSeen, UserThere, Appended, Row, JobOf
        <3>3. /\ desk' \in [Provisioners -> Desk]
              /\ desk'[w].step = "succeeded" /\ desk'[w].job = desk[w].job
              /\ \A v \in Provisioners : v # w => desk'[v] = desk[v]
            BY <2>2, GoesTyped DEF BindIdentity, Steps
        <3> QED BY <2>2, <3>1, <3>2, <3>3 DEF BindIdentity
    <2> QED BY <2>1, <2>2
<1>4. /\ link' \in [Mails -> Logins \cup {Nobody}] /\ raced' \subseteq Mails
      /\ Bears(a, m)'
      /\ \A n \in Mails, b \in Logins : Bears(b, n) => Bears(b, n)'
      /\ \A n \in Mails : n # m => link'[n] = link[n]
    BY <1>3, BoundKeeps
<1>5. IdpTypeOK' BY <1>1, <1>3, <1>4, TypePartsNext
<1>6. \A w \in Provisioners : JobOf(w)' = JobOf(w) BY <1>1, <1>3 DEF JobOf
<1>7. Appended' BY <1>1, <1>3, <1>6 DEF Appended
<1>8. LinkSeen' BY <1>1, <1>3, <1>6 DEF LinkSeen
<1>9. AboutToSucceed'
    <2>1. SUFFICES ASSUME NEW w \in Provisioners, desk'[w].step = "succeeded"
                   PROVE  Bears(JobOf(w).account, JobOf(w).mail)'
        BY DEF AboutToSucceed
    <2>2. CASE desk'[w] = desk[w]
        <3>1. JobOf(w).account \in Logins /\ JobOf(w).mail \in Mails
            BY <1>2, <2>1, <2>2 DEF Appended, Row, JobOf
        <3>2. Bears(JobOf(w).account, JobOf(w).mail) BY <2>1, <2>2 DEF AboutToSucceed
        <3> QED BY <1>4, <1>6, <3>1, <3>2 DEF Bears
    <2>3. CASE JobOf(w).account = a /\ JobOf(w).mail = m BY <1>4, <1>6, <2>3 DEF Bears
    <2> QED BY <1>3, <2>2, <2>3
<1>10. UserThere' BY <1>1, <1>3, <1>4, <1>6 DEF UserThere
<1>11. OwnerNamed' BY <1>1 DEF OwnerNamed
<1>12. SucceededHolds'
    <2>1. SUFFICES ASSUME NEW i \in Jobs, job[i].status = "succeeded"
                   PROVE  Bears(job[i].account, job[i].mail)'
        BY <1>1 DEF SucceededHolds, Bears
    <2>2. job[i].account \in Logins /\ job[i].mail \in Mails
        BY <2>1 DEF Appended, Row
    <2> QED BY <1>1, <1>4, <2>1, <2>2 DEF SucceededHolds, Bears
<1> QED BY <1>5, <1>7, <1>8, <1>9, <1>10, <1>11, <1>12

\* Google brings a user of its own, or a login that has checked the link.
LEMMA LoginInv ==
    ASSUME IInv, NEW m \in Mails, Federate(m) \/ BeginLogin(m)
    PROVE  IInv'
<1> USE TypeParts DEF IInv
<1>1. UNCHANGED <<job, link, desk, raced>> BY DEF Federate, BeginLogin
<1>2. \A w \in Provisioners : JobOf(w)' = JobOf(w) /\ JobOf(w).mail \in Mails
    BY <1>1 DEF JobOf, Desk, Row
<1>3. /\ person' \in [Mails -> Owners \cup {NoUser}] /\ sso' \in Login
      /\ \A n \in Mails : \/ person'[n] = person[n]
                          \/ person'[n] # NoUser /\ person'[n].account = Nobody
      /\ \/ sso' = sso
         \/ /\ sso'.account \in Logins /\ sso'.seen \in {Nobody, sso'.account}
            /\ person'[sso'.mail] # NoUser
    <2>1. CASE Federate(m)
        <3>1. Unclaimed \in Owners /\ Unclaimed # NoUser /\ Unclaimed.account = Nobody
            BY IdpAssumption DEF Unclaimed, Owners
        <3>2. person' = [person EXCEPT ![m] = Unclaimed] /\ UNCHANGED sso BY <2>1 DEF Federate
        <3> QED BY <3>1, <3>2
    <2>2. CASE BeginLogin(m) BY <2>2 DEF BeginLogin, MayLink, Login
    <2> QED BY <2>1, <2>2
<1>4. \A n \in Mails : person[n] # NoUser => person'[n] # NoUser BY <1>3
<1>5. Appended' /\ AboutToSucceed' /\ SucceededHolds'
    BY <1>1, <1>2 DEF Appended, AboutToSucceed, SucceededHolds, Bears
<1>6. LinkSeen' BY <1>1, <1>2, <1>3, IdpAssumption DEF LinkSeen
<1>7. UserThere'
    <2>1. sso.mail \in Mails BY DEF Login
    <2> QED BY <1>1, <1>2, <1>3, <1>4, <2>1 DEF UserThere
<1>8. OwnerNamed' BY <1>1, <1>3 DEF OwnerNamed
<1>9. IdpTypeOK' BY <1>1, <1>3, TypePartsNext
<1> QED BY <1>5, <1>6, <1>7, <1>8, <1>9

\* The invariant holds at first and is kept by every step.
LEMMA Inductive ==
    /\ IdpInit => IInv
    /\ IInv /\ [IdpNext]_idpVars => IInv'
<1>1. ASSUME IdpInit PROVE IInv
    <2>1. (CHOOSE m \in Mails : TRUE) \in Mails BY IdpAssumption
    <2>2. job \in [Jobs -> Row]
        BY <1>1, <2>1, IdpAssumption DEF IdpInit, Row
    <2>3. IdpTypeOK BY <1>1, <2>2, AtRestTyped, TypeParts DEF IdpInit
    <2> QED BY <1>1, <2>3, AtRestTyped
            DEF IdpInit, IInv, Appended, LinkSeen, AboutToSucceed, UserThere, OwnerNamed,
                SucceededHolds
<1>2. ASSUME IInv, [IdpNext]_idpVars PROVE IInv'
    <2>1. CASE UNCHANGED idpVars
        BY <1>2, <2>1
        DEF idpVars, IInv, IdpTypeOK, Appended, LinkSeen, AboutToSucceed, UserThere,
            OwnerNamed, SucceededHolds, Bears, JobOf
    <2>2. CASE IdpNext
        BY <1>2, <2>2, JobInv, KeycloakInv, LinkInv, LoginInv DEF IdpNext, Provision
    <2> QED BY <1>2, <2>1, <2>2
<1> QED BY <1>1, <1>2

-----------------------------------------------------------------------------
\* Identities: theorems

\* The invariant that the results below follow from.
THEOREM Invariant == IdpSpec => []IInv
BY Inductive, PTL DEF IdpSpec

\* Events, users, links and workers always have the values the code knows.
THEOREM TypeCorrect == IdpSpec => []IdpTypeOK
<1>1. IInv => IdpTypeOK BY DEF IInv
<1> QED BY <1>1, Invariant, PTL

\* An event that counts as succeeded gave its account the identity, and the
\* account has it still unless bindings crossed.
THEOREM SuccessHolds == IdpSpec => []SucceededHolds
<1>1. IInv => SucceededHolds BY DEF IInv
<1> QED BY <1>1, Invariant, PTL

\* Where Keycloak and the link name different accounts, an event that is not
\* done says so.
THEOREM DisagreementSeen == IdpSpec => []DisagreementVisible
<1>1. ASSUME IInv PROVE DisagreementVisible
    <2>1. SUFFICES ASSUME NEW m \in Mails, m \notin raced, link[m] # Nobody,
                          person[m].account \notin {Nobody, link[m]}
                   PROVE  \E i \in Jobs :
                            /\ job[i].mail = m /\ job[i].account = person[m].account
                            /\ job[i].status # "succeeded"
        BY DEF DisagreementVisible
    <2>2. PICK i \in Jobs : job[i].mail = m /\ job[i].account = person[m].account
        BY <1>1, <2>1 DEF IInv, UserThere, OwnerNamed
    <2>3. job[i].status # "succeeded" BY <1>1, <2>1, <2>2 DEF IInv, SucceededHolds
    <2> QED BY <2>2, <2>3
<1> QED BY <1>1, Invariant, PTL
=============================================================================
