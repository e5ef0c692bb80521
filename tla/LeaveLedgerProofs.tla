-------------------------- MODULE LeaveLedgerProofs --------------------------
(***************************************************************************)
(* The leave ledger, for any number of forms, eHRMS records and slots: the *)
(* matching of forms and records, whether or not eHRMS edits its records;  *)
(* the minutes a form holds and the minutes it is credited.                *)
(*                                                                         *)
(* The sum of a set of entries is a fold, a recursive function on subsets. *)
(* What it returns is proved from its equation by the least counterexample:*)
(* a non-empty set of finite sets has a member with no other below it.     *)
(***************************************************************************)
EXTENDS LeaveLedger, FiniteSetTheorems, WellFoundedInduction, TLAPS

\* A submission that is under way may make another request.
Room == \A f \in Forms : asked[f].under => request[f].cycle < MaxCycles

\* A request is applied by the decision that closes its form.
AppliedClosed == \A f \in Forms : request[f].effect = "applied" => form[f] = "closed"

\* What an eHRMS record is matched with is applied, and matched with no other.
MatchedOnce ==
    /\ \A e \in Externals : ext[e].match # NoForm => request[ext[e].match].effect = "applied"
    /\ \A d, e \in Externals : ext[d].match = ext[e].match /\ ext[e].match # NoForm => d = e

ToldSo ==
    \A f \in Forms : request[f].recon = "matched" <=> \E e \in Externals : ext[e].match = f

FieldsOK ==
    /\ form \in [Forms -> {"draft", "in_review", "returned", "auto_approved", "closed"}]
    /\ asked \in [Forms -> [under : BOOLEAN, slot : Slots, enough : BOOLEAN]]
    /\ request \in [Forms -> Requests]
    /\ ext \in [Externals -> Records]
    /\ snapshot \in Nat

EntryOK(x) == x.type \in EntryTypes /\ (x.amount > 0 <=> x.type \in {"release", "external_reconcile"})

\* Every entry has the sign of its type, and no two have the same key.
LedgerOK(es) == /\ \A x \in es : EntryOK(x)
                /\ \A x, y \in es : x.key = y.key => x = y

LInv == FieldsOK /\ LedgerOK(entries) /\ Room /\ AppliedClosed /\ MatchedOnce /\ ToldSo

-----------------------------------------------------------------------------
\* Entries

\* An entry that has the sign of its type keeps the ledger well-formed.
LEMMA AppendedOK ==
    ASSUME NEW es, LedgerOK(es), NEW k, NEW f, NEW type \in EntryTypes, NEW amount,
           amount > 0 <=> type \in {"release", "external_reconcile"}
    PROVE  LedgerOK(Appended(es, k, f, type, amount))
<1> DEFINE x == [key |-> k, form |-> f, type |-> type, amount |-> amount]
<1>1. EntryOK(x) /\ x.key = k BY DEF EntryOK
<1> HIDE DEF x
<1>2. CASE \E y \in es : y.key = k BY <1>2 DEF Appended
<1>3. CASE ~\E y \in es : y.key = k
    <2>1. Appended(es, k, f, type, amount) = es \cup {x} BY <1>3 DEF Appended, x
    <2> QED BY <1>1, <1>3, <2>1 DEF LedgerOK
<1> QED BY <1>2, <1>3

\* The minutes of a slot are positive.
LEMMA MinutesPositive ==
    ASSUME NEW s \in Slots
    PROVE  /\ Minutes[s] \in Nat /\ Minutes[s] > 0 /\ ~(-Minutes[s] > 0)
BY LeaveAssumption

\* The entries of a review and of the two sides of a reconciliation.
LEMMA ReviewEntriesOK ==
    ASSUME LInv, NEW f \in Forms, NEW es, LedgerOK(es)
    PROVE  LedgerOK(Released(es, f)) /\ LedgerOK(Consumed(es, f))
<1>1. request[f].slot \in Slots BY DEF LInv, FieldsOK, Requests
<1> QED BY <1>1, MinutesPositive, AppendedOK DEF Released, Consumed, AddEntry, EntryTypes

LEMMA MatchEntriesOK ==
    ASSUME NEW es, LedgerOK(es), NEW e, NEW f, NEW net \in {Minutes[s] : s \in Slots}
    PROVE  LedgerOK(Matched(es, e, f, net)) /\ LedgerOK(Unmatched(es, e, f, net))
<1>1. net > 0 /\ ~(-net > 0) BY MinutesPositive
<1> QED BY <1>1, AppendedOK DEF Matched, Unmatched, EntryTypes

-----------------------------------------------------------------------------
\* Matching

\* A record is matched with an applied form that no other record is matched with.
LEMMA MatchingIs ==
    ASSUME NEW e \in Externals, NEW s, NEW net
    PROVE  Matching(e, s, net) # NoForm =>
            /\ Matching(e, s, net) \in Forms
            /\ request[Matching(e, s, net)].effect = "applied"
            /\ \A d \in Externals \ {e} : ext[d].match # Matching(e, s, net)
<1> DEFINE same == {f \in Candidates(e) : request[f].slot = s /\ Minutes[s] = net}
<1>1. Cardinality(same) = 1 => same # {} BY FS_EmptySet
<1>2. Matching(e, s, net) = IF Cardinality(same) = 1 THEN CHOOSE f \in same : TRUE ELSE NoForm
    BY DEF Matching
<1> HIDE DEF same
<1>3. Matching(e, s, net) # NoForm => Matching(e, s, net) \in same BY <1>1, <1>2
<1>4. \A f \in same : f \in Forms /\ request[f].effect = "applied"
                      /\ \A d \in Externals \ {e} : ext[d].match # f
    BY DEF same, Candidates, Active, Claimed
<1> QED BY <1>3, <1>4

\* A row of the sync.
LEMMA ReconcileInv ==
    ASSUME LInv, NEW e \in Externals, NEW s \in Slots,
           NEW net \in {Minutes[t] : t \in Slots}, NEW live \in BOOLEAN,
           Reconcile(e, s, net, live)
    PROVE  LInv'
<1> USE DEF LInv
<1> DEFINE old == ext[e].match
           new == IF live THEN Matching(e, s, net) ELSE NoForm
           left == IF old \notin {NoForm, new} THEN Unmatched(entries, e, old, net) ELSE entries
           row == [state |-> IF live THEN "active" ELSE "deleted", slot |-> s, net |-> net,
                   match |-> new]
           told == Told(e, old, new, live)
<1>1. /\ ext' = [ext EXCEPT ![e] = row]
      /\ entries' = IF new = NoForm THEN left ELSE Matched(left, e, new, net)
      /\ request' = [f \in Forms |-> [request[f] EXCEPT !.recon = told[f]]]
      /\ UNCHANGED <<form, asked, snapshot>>
    BY DEF Reconcile
<1>2. new # NoForm => /\ new \in Forms /\ request[new].effect = "applied"
                      /\ \A d \in Externals \ {e} : ext[d].match # new
    BY MatchingIs
<1>3. LedgerOK(entries')
    <2>1. LedgerOK(left) BY MatchEntriesOK
    <2> HIDE DEF left, new
    <2>2. LedgerOK(Matched(left, e, new, net)) BY <2>1, MatchEntriesOK
    <2> QED BY <1>1, <2>1, <2>2
<1> HIDE DEF left
<1>4. \A f \in Forms : told[f] =
        IF f = new THEN "matched"
        ELSE IF live /\ new = NoForm /\ f \in Candidates(e) THEN Verdict(e)
        ELSE IF f = old THEN "nexus_only"
        ELSE request[f].recon
    BY DEF Told
<1>5. Verdict(e) \in {"mismatch", "ambiguous"} BY DEF Verdict
<1> HIDE DEF told, new
<1>6. row \in Records /\ row.match = new
    <2>1. new \in Forms \cup {NoForm} BY <1>2
    <2> QED BY <2>1 DEF Records
<1> HIDE DEF row
<1>7. /\ ext' \in [Externals -> Records] /\ ext'[e].match = new
      /\ \A d \in Externals : d # e => ext'[d] = ext[d]
    BY <1>1, <1>6 DEF FieldsOK
<1>8. \A f \in Forms : told[f] \in {"not_required", "nexus_only", "matched", "mismatch", "ambiguous"}
    BY <1>4, <1>5 DEF FieldsOK, Requests
<1>9. /\ request' \in [Forms -> Requests]
      /\ \A f \in Forms : /\ request'[f].effect = request[f].effect
                          /\ request'[f].cycle = request[f].cycle
                          /\ request'[f].recon = told[f]
    <2>1. request' = [f \in Forms |-> [request[f] EXCEPT !.recon = told[f]]] BY <1>1
    <2>2. \A f \in Forms : request[f] \in Requests BY DEF FieldsOK
    <2>3. ASSUME NEW f \in Forms
          PROVE  LET new_f == [request[f] EXCEPT !.recon = told[f]]
                 IN  /\ new_f \in Requests
                     /\ new_f.effect = request[f].effect
                     /\ new_f.cycle = request[f].cycle
                     /\ new_f.recon = told[f]
        BY ONLY <2>2, <1>8, <2>3, f \in Forms DEF Requests
    <2>4. \A f \in Forms : request'[f] = [request[f] EXCEPT !.recon = told[f]] BY ONLY <2>1
    <2> QED BY ONLY <2>1, <2>3, <2>4
<1>10. FieldsOK' /\ Room' /\ AppliedClosed' BY <1>1, <1>7, <1>9 DEF FieldsOK, Room, AppliedClosed
<1>11. \A d \in Externals : ext[d].match \in Forms \cup {NoForm} BY DEF FieldsOK, Records
<1>12. MatchedOnce' BY <1>2, <1>7, <1>9, <1>11 DEF MatchedOnce
<1>13. ToldSo'
    <2>1. SUFFICES ASSUME NEW f \in Forms
                   PROVE  told[f] = "matched" <=> \E d \in Externals : ext'[d].match = f
        BY <1>9 DEF ToldSo
    <2>2. f # NoForm BY LeaveAssumption
    <2>3. CASE f = new BY <1>4, <1>7, <2>3
    <2>4. CASE f # new /\ \E d \in Externals : d # e /\ ext[d].match = f
        <3>1. f # old BY <2>2, <2>4 DEF MatchedOnce
        <3>2. f \notin Candidates(e) BY <2>4 DEF Candidates, Claimed
        <3>3. told[f] = "matched" BY <1>4, <2>4, <3>1, <3>2 DEF ToldSo
        <3> QED BY <1>7, <2>4, <3>3
    <2>5. CASE f # new /\ ~\E d \in Externals : d # e /\ ext[d].match = f
        <3>1. ~\E d \in Externals : ext'[d].match = f BY <1>7, <2>5
        <3>2. f # old => request[f].recon # "matched" BY <2>5 DEF ToldSo
        <3>3. told[f] # "matched" BY <1>4, <1>5, <2>5, <3>2
        <3> QED BY <3>1, <3>3
    <2> QED BY <2>3, <2>4, <2>5
<1> QED BY <1>3, <1>10, <1>12, <1>13
-----------------------------------------------------------------------------
\* The other steps

LEMMA InitInv ==
    ASSUME LeaveInit
    PROVE  LInv
<1> DEFINE s == CHOOSE t \in Slots : TRUE
           none == [effect |-> "none", cycle |-> 0, slot |-> s, required |-> FALSE,
                    recon |-> "not_required"]
           absent == [state |-> "absent", slot |-> s, net |-> Minutes[s], match |-> NoForm]
<1>1. s \in Slots BY LeaveAssumption
<1>2. /\ form = [f \in Forms |-> "draft"] /\ asked = [f \in Forms |-> NotAsked]
      /\ request = [f \in Forms |-> none] /\ ext = [e \in Externals |-> absent]
      /\ snapshot \in Snapshots /\ entries = {}
    BY DEF LeaveInit
<1>3. NotAsked \in [under : BOOLEAN, slot : Slots, enough : BOOLEAN] /\ ~NotAsked.under
    BY <1>1 DEF NotAsked
<1> HIDE DEF s
<1>4. none \in Requests /\ none.effect = "none" /\ none.recon = "not_required"
    BY <1>1, LeaveAssumption DEF Requests
<1>5. absent \in Records /\ absent.match = NoForm BY <1>1 DEF Records
<1> HIDE DEF none, absent
<1>6. FieldsOK BY <1>2, <1>3, <1>4, <1>5, LeaveAssumption DEF FieldsOK
<1>7. LedgerOK(entries) BY <1>2 DEF LedgerOK
<1>8. Room /\ AppliedClosed BY <1>2, <1>3, <1>4 DEF Room, AppliedClosed
<1>9. MatchedOnce /\ ToldSo BY <1>2, <1>4, <1>5, LeaveAssumption DEF MatchedOnce, ToldSo
<1> QED BY <1>6, <1>7, <1>8, <1>9 DEF LInv

\* A request that changes and is not applied before is matched with nothing:
\* what a decision or a submission makes of it has to say so.
LEMMA RequestInv ==
    ASSUME LInv, NEW f \in Forms, request[f].effect # "applied",
           NEW r \in Requests, request' = [request EXCEPT ![f] = r],
           r.recon # "matched",
           NEW status \in {"in_review", "returned", "auto_approved", "closed"},
           form' = [form EXCEPT ![f] = status],
           r.effect = "applied" => status = "closed",
           asked' \in [Forms -> [under : BOOLEAN, slot : Slots, enough : BOOLEAN]],
           \A g \in Forms : asked'[g].under =>
                asked[g].under /\ (g # f \/ r.cycle = request[f].cycle),
           LedgerOK(entries'), UNCHANGED <<ext, snapshot>>
    PROVE  LInv'
<1> USE DEF LInv
<1>1. FieldsOK' BY DEF FieldsOK
<1>2. request'[f] = r /\ \A g \in Forms : g # f => request'[g] = request[g] BY DEF FieldsOK
<1>3. form'[f] = status /\ \A g \in Forms : g # f => form'[g] = form[g] BY DEF FieldsOK
<1>4. Room' BY <1>2 DEF Room
<1>5. AppliedClosed' BY <1>2, <1>3 DEF AppliedClosed
<1>6. \A e \in Externals : ext[e].match # f BY LeaveAssumption DEF MatchedOnce
<1>7. \A e \in Externals : ext[e].match \in Forms \cup {NoForm} BY DEF FieldsOK, Records
<1>8. MatchedOnce' BY <1>2, <1>6, <1>7 DEF MatchedOnce
<1>9. ToldSo' BY <1>2, <1>6 DEF ToldSo
<1> QED BY <1>1, <1>4, <1>5, <1>8, <1>9

LEMMA SubmitInv ==
    ASSUME LInv, NEW f \in Forms, Submit(f)
    PROVE  LInv'
<1> DEFINE r == Submitted(f)
<1>1. asked[f].under /\ asked[f].slot \in Slots BY DEF LInv, FieldsOK, Submit
<1>2. request[f].cycle + 1 \in 0..MaxCycles
    BY <1>1, LeaveAssumption DEF LInv, FieldsOK, Room, Requests
<1>3. Reserves(f) \in BOOLEAN BY DEF Reserves, LInv, FieldsOK
<1>4. r \in Requests /\ r.recon # "matched" /\ r.effect = "not_applied"
    BY <1>1, <1>2, <1>3 DEF Submitted, Requests
<1>5. LedgerOK(entries')
    BY <1>1, MinutesPositive, AppendedOK DEF Submit, LInv, AddEntry, EntryTypes
<1> HIDE DEF r
<1>6. NotAsked \in [under : BOOLEAN, slot : Slots, enough : BOOLEAN] /\ ~NotAsked.under
    BY LeaveAssumption DEF NotAsked
<1>7. asked' = [asked EXCEPT ![f] = NotAsked] /\ UNCHANGED <<ext, snapshot>> BY DEF Submit
<1>8. /\ asked' \in [Forms -> [under : BOOLEAN, slot : Slots, enough : BOOLEAN]]
      /\ \A g \in Forms : asked'[g].under => asked[g].under /\ g # f
    BY <1>6, <1>7 DEF LInv, FieldsOK
<1>9. request[f].effect # "applied" /\ request' = [request EXCEPT ![f] = r] BY DEF Submit, r
<1>10. PICK status \in {"in_review", "auto_approved"} : form' = [form EXCEPT ![f] = status]
    BY DEF Submit
<1> QED BY <1>4, <1>5, <1>7, <1>8, <1>9, <1>10, RequestInv

LEMMA ApproveInv ==
    ASSUME LInv, NEW f \in Forms, Approve(f)
    PROVE  LInv'
<1> DEFINE r == [request[f] EXCEPT !.effect = "applied", !.recon = "nexus_only"]
<1>1. r \in Requests /\ r.recon # "matched" /\ r.cycle = request[f].cycle
    BY DEF LInv, FieldsOK, Requests
<1>2. request' = [request EXCEPT ![f] = r]
    BY DEF Approve, LInv, FieldsOK
<1> HIDE DEF r
<1>3. LedgerOK(entries') BY ReviewEntriesOK DEF Approve, LInv
<1> QED BY <1>1, <1>2, <1>3, RequestInv DEF Approve, LInv, FieldsOK

LEMMA CompensateInv ==
    ASSUME LInv, NEW f \in Forms, form[f] \in {"in_review", "auto_approved"},
           NEW status \in {"returned", "closed"}, Compensate(f, status)
    PROVE  LInv'
<1> DEFINE r == [request[f] EXCEPT !.effect = "compensated"]
<1>1. request[f].effect # "applied" BY DEF LInv, AppliedClosed
<1>2. request[f].recon # "matched"
    BY <1>1, LeaveAssumption DEF LInv, ToldSo, MatchedOnce
<1>3. /\ r \in Requests /\ r.recon # "matched" /\ r.cycle = request[f].cycle
      /\ r.effect = "compensated"
    BY <1>2 DEF LInv, FieldsOK, Requests
<1>4. request' = [request EXCEPT ![f] = r] BY DEF Compensate, LInv, FieldsOK
<1> HIDE DEF r
<1>5. LedgerOK(entries') BY ReviewEntriesOK DEF Compensate, LInv
<1> QED BY <1>1, <1>3, <1>4, <1>5, RequestInv DEF Compensate, LInv, FieldsOK

\* Only the evaluation is under way: requests and records are left alone.
LEMMA EvaluateInv ==
    ASSUME LInv, NEW f \in Forms, Evaluate(f) \/ Refused(f)
    PROVE  LInv'
<1> USE DEF LInv
<1>1. UNCHANGED <<form, request, ext, snapshot, entries>> BY DEF Evaluate, Refused
<1>2. LedgerOK(entries') /\ AppliedClosed' /\ MatchedOnce' /\ ToldSo'
    BY <1>1 DEF AppliedClosed, MatchedOnce, ToldSo
<1>3. CASE Evaluate(f)
    <2>1. PICK s \in Slots : asked' = [asked EXCEPT ![f] =
                [under |-> TRUE, slot |-> s, enough |-> Available >= Minutes[s]]]
        BY <1>3 DEF Evaluate
    <2>2. FieldsOK' /\ Room' BY <1>1, <1>3, <2>1 DEF Evaluate, FieldsOK, Room
    <2> QED BY <1>2, <2>2
<1>4. CASE Refused(f)
    <2>1. NotAsked \in [under : BOOLEAN, slot : Slots, enough : BOOLEAN] /\ ~NotAsked.under
        BY LeaveAssumption DEF NotAsked
    <2>2. asked' = [asked EXCEPT ![f] = NotAsked] BY <1>4 DEF Refused
    <2>3. FieldsOK' /\ Room' BY <1>1, <2>1, <2>2 DEF FieldsOK, Room
    <2> QED BY <1>2, <2>3
<1> QED BY <1>3, <1>4

-----------------------------------------------------------------------------
\* Theorems

\* The invariant holds of the leave requests, the eHRMS records and the ledger
\* in every state.
THEOREM Invariant == LeaveSpec => []LInv
<1>1. LeaveInit => LInv BY InitInv
<1>2. LInv /\ [LeaveNext]_leaveVars => LInv'
    <2> SUFFICES ASSUME LInv, [LeaveNext]_leaveVars PROVE LInv' OBVIOUS
    <2>1. CASE \E f \in Forms : Evaluate(f) \/ Refused(f) BY <2>1, EvaluateInv
    <2>2. CASE \E f \in Forms : Submit(f) BY <2>2, SubmitInv
    <2>3. CASE \E f \in Forms : Approve(f) BY <2>3, ApproveInv
    <2>4. CASE \E f \in Forms : Decline(f) \/ CancelPending(f)
        BY <2>4, CompensateInv DEF Decline, CancelPending
    <2>5. CASE SyncBalance
        BY <2>5, LeaveAssumption
        DEF SyncBalance, LInv, FieldsOK, Room, AppliedClosed, MatchedOnce, ToldSo
    <2>6. CASE \E e \in Externals : SyncRecord(e) BY <2>6, ReconcileInv DEF SyncRecord
    <2>7. CASE \E e \in Externals : Tombstone(e)
        <3>1. PICK e \in Externals : Tombstone(e) BY <2>7
        <3>2. ext[e].slot \in Slots /\ ext[e].net \in {Minutes[t] : t \in Slots}
            BY DEF LInv, FieldsOK, Records
        <3> QED BY <3>1, <3>2, ReconcileInv DEF Tombstone
    <2>8. CASE UNCHANGED leaveVars
        BY <2>8 DEF leaveVars, LInv, FieldsOK, Room, AppliedClosed, MatchedOnce, ToldSo
    <2> QED BY <2>1, <2>2, <2>3, <2>4, <2>5, <2>6, <2>7, <2>8 DEF LeaveNext
<1> QED BY <1>1, <1>2, PTL DEF LeaveSpec

\* Every variable keeps its type, every ledger entry has the sign of its type,
\* and no two entries have the same key.
THEOREM TypeCorrect == LeaveSpec => []LeaveTypeOK
<1>1. LInv => LeaveTypeOK BY DEF LInv, FieldsOK, LedgerOK, EntryOK, LeaveTypeOK
<1> QED BY <1>1, Invariant, PTL

\* A leave request says that it is matched exactly while an eHRMS record is
\* matched with it, and there is then only one: through submissions, reviews and
\* syncs in any order, even if eHRMS edits a record or brings one back.
THEOREM MatchesAgree == LeaveSpec => []ReconAgrees
<1>1. ASSUME LInv PROVE ReconAgrees
    <2>1. SUFFICES ASSUME NEW f \in Forms
                   PROVE  Cardinality({e \in Externals : ext[e].match = f}) <= 1
        BY <1>1 DEF LInv, ToldSo, ReconAgrees
    <2> DEFINE own == {e \in Externals : ext[e].match = f}
    <2>2. \A d, e \in own : d = e BY <1>1, LeaveAssumption DEF LInv, MatchedOnce
    <2>3. CASE own = {} BY <2>3, FS_EmptySet
    <2>4. CASE own # {}
        <3>1. PICK e \in own : own = {e} BY <2>2, <2>4
        <3>2. Cardinality({e}) = 1 BY FS_Singleton
        <3> QED BY <3>1, <3>2
    <2> QED BY <2>3, <2>4
<1> QED BY <1>1, Invariant, PTL
-----------------------------------------------------------------------------
\* Sums of entries

\* A non-empty set of subsets of a finite set has a least member.
LEMMA LeastSubset ==
    ASSUME NEW S, IsFiniteSet(S), NEW F, F \subseteq SUBSET S, F # {}
    PROVE  \E T \in F : \A U \in F : U \subseteq T => U = T
<1>1. FiniteSubsetsOf(S) = SUBSET S BY FS_Subset DEF FiniteSubsetsOf
<1>2. IsWellFoundedOn(StrictSubsetOrdering(S), FiniteSubsetsOf(S))
    BY FS_StrictSubsetOrderingWellFounded
<1>3. PICK T \in F : \A U \in F : <<U, T>> \notin StrictSubsetOrdering(S)
    BY <1>1, <1>2, WFMin
<1>4. \A U \in F : U \in SUBSET S /\ T \in SUBSET S OBVIOUS
<1> QED BY <1>3, <1>4 DEF StrictSubsetOrdering

Pick(s) == CHOOSE x \in s : TRUE

\* g sums the subsets of T.
Sums(T, g) ==
    g = [s \in SUBSET T |-> IF s = {} THEN 0 ELSE Pick(s).amount + g[s \ {Pick(s)}]]

LEMMA TotalIs == \A T : Total(T) = (CHOOSE g : Sums(T, g))[T]
BY DEF Total, MapThenSumSet, MapThenFoldSet, Amount, Sums, Pick

LEMMA PickIn ==
    ASSUME NEW s, s # {}
    PROVE  Pick(s) \in s /\ s \ {Pick(s)} \subseteq s /\ s \ {Pick(s)} # s
BY DEF Pick

\* The functions that sum a set and a subset of it agree on the subset.
LEMMA SumsUnique ==
    ASSUME NEW T, IsFiniteSet(T), NEW U \in SUBSET T, NEW g, NEW h, Sums(T, g), Sums(U, h)
    PROVE  \A s \in SUBSET U : g[s] = h[s]
<1> DEFINE F == {s \in SUBSET U : g[s] # h[s]}
<1> SUFFICES ASSUME F # {} PROVE FALSE OBVIOUS
<1>1. F \subseteq SUBSET T /\ F # {} OBVIOUS
<1>2. PICK s \in F : \A r \in F : r \subseteq s => r = s
    <2> HIDE DEF F
    <2> QED BY <1>1, LeastSubset
<1>3. s # {} BY DEF Sums
<1>4. s \ {Pick(s)} \in SUBSET U /\ s \ {Pick(s)} \notin F BY <1>2, <1>3, PickIn
<1>5. g[s] = Pick(s).amount + g[s \ {Pick(s)}] BY <1>3 DEF Sums
<1>6. h[s] = Pick(s).amount + h[s \ {Pick(s)}] BY <1>3 DEF Sums
<1> QED BY <1>4, <1>5, <1>6

\* A finite set has a function that sums it: what the subsets below have makes
\* one for the set.
LEMMA SumsExist ==
    ASSUME NEW S, IsFiniteSet(S)
    PROVE  \E g : Sums(S, g)
<1> DEFINE F == {T \in SUBSET S : ~\E g : Sums(T, g)}
<1> SUFFICES ASSUME F # {} PROVE FALSE OBVIOUS
<1>1. PICK T \in F : \A U \in F : U \subseteq T => U = T
    <2>1. F \subseteq SUBSET S OBVIOUS
    <2> HIDE DEF F
    <2> QED BY <2>1, LeastSubset
<1>2. \A U \in SUBSET T : IsFiniteSet(U) BY FS_Subset
<1> DEFINE C(U) == CHOOSE g : Sums(U, g)
           G == [s \in SUBSET T |-> IF s = {} THEN 0
                                    ELSE Pick(s).amount + C(s \ {Pick(s)})[s \ {Pick(s)}]]
<1>3. \A U \in SUBSET T : U # T => Sums(U, C(U)) BY <1>1
<1>4. ASSUME NEW s \in SUBSET T, s # {}
      PROVE  G[s \ {Pick(s)}] = C(s \ {Pick(s)})[s \ {Pick(s)}]
    <2> DEFINE u == s \ {Pick(s)}
    <2>1. u \in SUBSET T /\ u # T BY <1>4, PickIn
    <2>2. Sums(u, C(u)) BY <1>3, <2>1
    <2> HIDE DEF u
    <2>3. CASE u = {}
        <3>1. C(u)[u] = 0 BY <2>2, <2>3 DEF Sums
        <3>2. G[u] = 0 BY <2>1, <2>3
        <3> QED BY <3>1, <3>2 DEF u
    <2>4. CASE u # {}
        <3> DEFINE v == u \ {Pick(u)}
        <3>1. v \in SUBSET u /\ v \in SUBSET T /\ v # T BY <2>1, <2>4, PickIn
        <3>2. Sums(v, C(v)) BY <1>3, <3>1
        <3>3. C(u)[v] = C(v)[v] BY <1>2, <2>1, <2>2, <3>1, <3>2, SumsUnique
        <3>4. G[u] = Pick(u).amount + C(v)[v] BY <2>1, <2>4
        <3>5. C(u)[u] = Pick(u).amount + C(u)[v] BY <2>2, <2>4 DEF Sums
        <3>6. G[u] = C(u)[u] BY <3>3, <3>4, <3>5
        <3> QED BY <3>6 DEF u
    <2> QED BY <2>3, <2>4
<1>5. G = [s \in SUBSET T |-> IF s = {} THEN 0 ELSE Pick(s).amount + G[s \ {Pick(s)}]]
    <2>1. G = [s \in SUBSET T |-> G[s]] OBVIOUS
    <2>2. \A s \in SUBSET T : G[s] =
            IF s = {} THEN 0 ELSE Pick(s).amount + C(s \ {Pick(s)})[s \ {Pick(s)}]
        OBVIOUS
    <2> HIDE DEF G, C
    <2>3. \A s \in SUBSET T : G[s] = IF s = {} THEN 0 ELSE Pick(s).amount + G[s \ {Pick(s)}]
        BY <1>4, <2>2
    <2> QED BY <2>1, <2>3
<1>6. Sums(T, G) BY <1>5 DEF Sums
<1> QED BY <1>1, <1>6

\* The equation of the sum.
LEMMA TotalStep ==
    ASSUME NEW T, IsFiniteSet(T)
    PROVE  /\ T = {} => Total(T) = 0
           /\ T # {} => Total(T) = Pick(T).amount + Total(T \ {Pick(T)})
<1> DEFINE C(U) == CHOOSE g : Sums(U, g)
<1>1. \A U \in SUBSET T : Sums(U, C(U)) /\ Total(U) = C(U)[U]
    <2>1. \A U \in SUBSET T : \E g : Sums(U, g) BY FS_Subset, SumsExist
    <2> QED BY <2>1, TotalIs
<1> HIDE DEF C
<1>2. C(T) = [s \in SUBSET T |-> IF s = {} THEN 0 ELSE Pick(s).amount + C(T)[s \ {Pick(s)}]]
    BY <1>1 DEF Sums
<1>3. T = {} => Total(T) = 0 BY <1>1, <1>2
<1>4. ASSUME T # {} PROVE Total(T) = Pick(T).amount + Total(T \ {Pick(T)})
    <2> DEFINE u == T \ {Pick(T)}
    <2>1. u \in SUBSET T BY PickIn
    <2>2. C(T)[T] = Pick(T).amount + C(T)[u] BY <1>2, <1>4
    <2>3. C(T)[u] = C(u)[u] BY <1>1, <2>1, SumsUnique
    <2> QED BY <1>1, <2>1, <2>2, <2>3
<1> QED BY <1>3, <1>4

Amounts(T) == IsFiniteSet(T) /\ \A x \in T : x.amount \in Int

LEMMA TotalInt ==
    ASSUME NEW T, Amounts(T)
    PROVE  Total(T) \in Int
<1> DEFINE F == {U \in SUBSET T : Total(U) \notin Int}
<1> SUFFICES ASSUME F # {} PROVE FALSE OBVIOUS
<1>1. PICK U \in F : \A V \in F : V \subseteq U => V = U
    <2>1. F \subseteq SUBSET T OBVIOUS
    <2> HIDE DEF F
    <2> QED BY <2>1, LeastSubset DEF Amounts
<1>2. IsFiniteSet(U) BY FS_Subset DEF Amounts
<1>3. U # {}
    <2>1. U = {} => Total(U) = 0 BY <1>2, TotalStep
    <2>2. Total(U) \notin Int OBVIOUS
    <2> QED BY <2>1, <2>2
<1>4. U \ {Pick(U)} \in SUBSET T /\ U \ {Pick(U)} \notin F /\ Pick(U) \in T
    BY <1>1, <1>3, PickIn
<1>5. Total(U) = Pick(U).amount + Total(U \ {Pick(U)}) BY <1>2, <1>3, TotalStep
<1> QED BY <1>4, <1>5 DEF Amounts

\* Any entry may be taken out first.
LEMMA TotalRemove ==
    ASSUME NEW T, Amounts(T), NEW x \in T
    PROVE  Total(T) = x.amount + Total(T \ {x})
<1> DEFINE F == {U \in SUBSET T : \E y \in U : Total(U) # y.amount + Total(U \ {y})}
<1> SUFFICES ASSUME F # {} PROVE FALSE OBVIOUS
<1>1. PICK U \in F : \A V \in F : V \subseteq U => V = U
    <2>1. F \subseteq SUBSET T OBVIOUS
    <2> HIDE DEF F
    <2> QED BY <2>1, LeastSubset DEF Amounts
<1>2. PICK y \in U : Total(U) # y.amount + Total(U \ {y}) OBVIOUS
<1>3. \A V \in SUBSET U : IsFiniteSet(V) /\ Amounts(V) BY FS_Subset DEF Amounts
<1> DEFINE z == Pick(U)
<1>4. z \in U BY <1>2, PickIn
<1>5. Total(U) = z.amount + Total(U \ {z}) BY <1>2, <1>3, TotalStep
<1>6. y # z BY <1>2, <1>5
<1> HIDE DEF z
<1>7. U \ {z} \notin F /\ U \ {y} \notin F BY <1>1, <1>2, <1>4
<1>8. Total(U \ {z}) = y.amount + Total((U \ {z}) \ {y}) BY <1>2, <1>6, <1>7
<1>9. Total(U \ {y}) = z.amount + Total((U \ {y}) \ {z}) BY <1>4, <1>6, <1>7
<1>10. (U \ {z}) \ {y} = (U \ {y}) \ {z} OBVIOUS
<1>11. Total((U \ {z}) \ {y}) \in Int /\ y.amount \in Int /\ z.amount \in Int
    BY <1>2, <1>3, <1>4, TotalInt DEF Amounts
<1>12. Total(U) = y.amount + Total(U \ {y}) BY <1>5, <1>8, <1>9, <1>10, <1>11
<1> QED BY <1>2, <1>12

\* An entry more is its amount more.
LEMMA TotalAdd ==
    ASSUME NEW T, Amounts(T), NEW x, x \notin T, x.amount \in Int
    PROVE  Amounts(T \cup {x}) /\ Total(T \cup {x}) = x.amount + Total(T)
<1>1. Amounts(T \cup {x}) BY FS_AddElement DEF Amounts
<1>2. (T \cup {x}) \ {x} = T OBVIOUS
<1> QED BY <1>1, <1>2, TotalRemove
-----------------------------------------------------------------------------
\* What an appended entry adds

Has(es, k) == \E x \in es : x.key = k

\* The entries of form f of the given types among es.
OfAmong(es, f, types) == {x \in es : x.form = f /\ x.type \in types}

\* A key that is new adds the amount to the sum, and to that of its form and type
\* only; a key that is there adds nothing.
LEMMA AppendedTotal ==
    ASSUME NEW es, Amounts(es), NEW k, NEW f, NEW type, NEW amount \in Int
    PROVE  LET new == Appended(es, k, f, type, amount) IN
           /\ Amounts(new)
           /\ Total(new) = Total(es) + (IF Has(es, k) THEN 0 ELSE amount)
           /\ \A g, types : Total(OfAmong(new, g, types)) =
                Total(OfAmong(es, g, types))
                    + (IF ~Has(es, k) /\ g = f /\ type \in types THEN amount ELSE 0)
<1> DEFINE x == [key |-> k, form |-> f, type |-> type, amount |-> amount]
           new == Appended(es, k, f, type, amount)
<1>1. \A S \in SUBSET es : Amounts(S) /\ Total(S) \in Int
    BY FS_Subset, TotalInt DEF Amounts
<1>2. \A g, types : OfAmong(es, g, types) \in SUBSET es BY DEF OfAmong
<1>3. CASE Has(es, k)
    <2>1. new = es BY <1>3 DEF Appended, Has
    <2> QED BY <1>1, <1>2, <1>3, <2>1
<1>4. CASE ~Has(es, k)
    <2>1. new = es \cup {x} BY <1>4 DEF Appended, Has
    <2>2. x \notin es BY <1>4 DEF Has
    <2>3. x.form = f /\ x.type = type /\ x.amount = amount OBVIOUS
    <2> HIDE DEF x, new
    <2>4. Amounts(new) /\ Total(new) = amount + Total(es) BY <2>1, <2>2, <2>3, TotalAdd
    <2>5. ASSUME NEW g, NEW types
          PROVE  Total(OfAmong(new, g, types)) =
                    Total(OfAmong(es, g, types))
                        + (IF g = f /\ type \in types THEN amount ELSE 0)
        <3>1. CASE g = f /\ type \in types
            <4>1. OfAmong(new, g, types) = OfAmong(es, g, types) \cup {x}
                BY <2>1, <2>3, <3>1 DEF OfAmong
            <4>2. x \notin OfAmong(es, g, types) BY <2>2 DEF OfAmong
            <4>3. Total(OfAmong(es, g, types) \cup {x}) = amount + Total(OfAmong(es, g, types))
                BY <1>1, <1>2, <2>3, <4>2, TotalAdd
            <4> QED BY <1>1, <1>2, <3>1, <4>1, <4>3
        <3>2. CASE ~(g = f /\ type \in types)
            <4>1. OfAmong(new, g, types) = OfAmong(es, g, types)
                BY <2>1, <2>3, <3>2 DEF OfAmong
            <4> QED BY <1>1, <1>2, <3>2, <4>1
        <3> QED BY <3>1, <3>2
    <2>6. Total(new) = Total(es) + amount BY <1>1, <2>4
    <2> QED BY <1>4, <2>4, <2>5, <2>6 DEF new
<1> QED BY <1>3, <1>4

LEMMA AppendedHas ==
    ASSUME NEW es, NEW k, NEW f, NEW type, NEW amount
    PROVE  \A j : Has(Appended(es, k, f, type, amount), j) <=> Has(es, j) \/ j = k
<1> DEFINE x == [key |-> k, form |-> f, type |-> type, amount |-> amount]
<1>1. CASE Has(es, k)
    <2>1. Appended(es, k, f, type, amount) = es BY <1>1 DEF Appended, Has
    <2> QED BY <1>1, <2>1
<1>2. CASE ~Has(es, k)
    <2>1. Appended(es, k, f, type, amount) = es \cup {x} BY <1>2 DEF Appended, Has
    <2>2. x.key = k OBVIOUS
    <2> HIDE DEF x
    <2> QED BY <2>1, <2>2 DEF Has
<1> QED BY <1>1, <1>2

\* Reviews and submissions write keys of three parts, the sync keys of four.
LEMMA KeysDiffer ==
    /\ \A f, g, c, d, t, u : Key(f, c, t) = Key(g, d, u) => f = g /\ c = d /\ t = u
    /\ \A f, c, t : DOMAIN Key(f, c, t) = 1..3
    /\ \A e, a, f, n : DOMAIN <<e, a, f, n>> = 1..4
    /\ \A f, c, t, e, a, g, n : Key(f, c, t) # <<e, a, g, n>>
<1>1. \A f, g, c, d, t, u : Key(f, c, t) = Key(g, d, u) => f = g /\ c = d /\ t = u BY DEF Key
<1>2. \A f, c, t : DOMAIN Key(f, c, t) = 1..3 BY DEF Key
<1>3. \A e, a, f, n : DOMAIN <<e, a, f, n>> = 1..4 OBVIOUS
<1>4. 4 \in 1..4 /\ 4 \notin 1..3 OBVIOUS
<1>5. \A f, c, t, e, a, g, n : Key(f, c, t) # <<e, a, g, n>> BY <1>2, <1>3, <1>4
<1> QED BY <1>1, <1>2, <1>3, <1>5
-----------------------------------------------------------------------------
\* The minutes a form holds

LocalTypes == {"reserve", "release", "local_consume"}

\* A submission is under way for a form that the applicant has in hand, and a form
\* that waits, or was approved without approvers, has a request that is not applied.
AskedOpen == \A f \in Forms : asked[f].under => form[f] \in {"draft", "returned"}

Waiting ==
    \A f \in Forms :
        form[f] \in {"in_review", "auto_approved"} => request[f].effect = "not_applied"

\* The key of an entry says what wrote it: a submission or a review in one of the
\* cycles of the form so far, or the sync.
Known(es, req) ==
    \A x \in es :
        /\ x.form \in Forms
        /\ x.type \in LocalTypes =>
            \E c \in 1..req[x.form].cycle : x.key = Key(x.form, c, x.type)
        /\ x.type \notin LocalTypes => DOMAIN x.key = 1..4

\* A cycle that waits for its review has no entry of a review yet.
Unreviewed ==
    \A f \in Forms : request[f].effect = "not_applied" =>
        /\ ~Has(entries, Key(f, request[f].cycle, "release"))
        /\ ~Has(entries, Key(f, request[f].cycle, "local_consume"))

Posted ==
    /\ Amounts(entries) /\ AskedOpen /\ Waiting
    /\ Known(entries, request) /\ Unreviewed /\ LedgerAgrees

\* The minutes that the request of a form holds.
Held(r) == IF r.required /\ r.effect \in {"not_applied", "applied"} THEN -Minutes[r.slot] ELSE 0

LEMMA LedgerIs ==
    LedgerAgrees <=> \A f \in Forms : Total(OfAmong(entries, f, LocalTypes)) = Held(request[f])
BY DEF LedgerAgrees, Of, OfAmong, LocalTypes, Held

\* A key of three parts that is used belongs to a cycle there has been.
LEMMA KnownKeys ==
    ASSUME NEW es, NEW req, Known(es, req), NEW f, NEW c, NEW type, Has(es, Key(f, c, type))
    PROVE  c \in 1..req[f].cycle
<1>1. PICK x \in es : x.key = Key(f, c, type) BY DEF Has
<1>2. DOMAIN x.key = 1..3 BY <1>1, KeysDiffer
<1>3. 4 \in 1..4 /\ 4 \notin 1..3 OBVIOUS
<1>4. x.type \in LocalTypes BY <1>2, <1>3 DEF Known
<1>5. PICK d \in 1..req[x.form].cycle : x.key = Key(x.form, d, x.type) BY <1>4 DEF Known
<1>6. f = x.form /\ c = d
    <2>1. <<f, c, type>> = <<x.form, d, x.type>> BY <1>1, <1>5 DEF Key
    <2> QED BY <2>1
<1> QED BY <1>5, <1>6

LEMMA AppendedKnown ==
    ASSUME NEW es, NEW req, Known(es, req), NEW k, NEW f \in Forms, NEW type, NEW amount,
           type \in LocalTypes => \E c \in 1..req[f].cycle : k = Key(f, c, type),
           type \notin LocalTypes => DOMAIN k = 1..4
    PROVE  Known(Appended(es, k, f, type, amount), req)
<1> DEFINE x == [key |-> k, form |-> f, type |-> type, amount |-> amount]
<1>1. Appended(es, k, f, type, amount) \in {es, es \cup {x}} BY DEF Appended
<1>2. x.key = k /\ x.form = f /\ x.type = type OBVIOUS
<1> HIDE DEF x
<1>3. CASE Appended(es, k, f, type, amount) = es BY <1>3
<1>4. CASE Appended(es, k, f, type, amount) = es \cup {x}
    <2>1. /\ x.form \in Forms
          /\ x.type \in LocalTypes =>
                \E c \in 1..req[x.form].cycle : x.key = Key(x.form, c, x.type)
          /\ x.type \notin LocalTypes => DOMAIN x.key = 1..4
        BY <1>2
    <2> QED BY <1>4, <2>1 DEF Known
<1> QED BY <1>1, <1>3, <1>4

\* A step that changes the request of one form: what it has to say of the entries.
LEMMA RequestPosted ==
    ASSUME LInv, Posted, NEW f \in Forms, NEW r \in Requests,
           request' = [request EXCEPT ![f] = r],
           NEW status \in {"in_review", "returned", "auto_approved", "closed"},
           form' = [form EXCEPT ![f] = status],
           status \in {"in_review", "auto_approved"} => r.effect = "not_applied",
           \A g \in Forms : asked'[g].under => asked[g].under /\ g # f,
           Amounts(entries'), Known(entries', request'),
           \A g \in Forms : g # f =>
                /\ Total(OfAmong(entries', g, LocalTypes)) = Total(OfAmong(entries, g, LocalTypes))
                /\ \A c, type : Has(entries', Key(g, c, type)) => Has(entries, Key(g, c, type)),
           Total(OfAmong(entries', f, LocalTypes)) = Held(r),
           r.effect = "not_applied" =>
                /\ ~Has(entries', Key(f, r.cycle, "release"))
                /\ ~Has(entries', Key(f, r.cycle, "local_consume"))
    PROVE  Posted'
<1>1. request'[f] = r /\ \A g \in Forms : g # f => request'[g] = request[g]
    BY DEF LInv, FieldsOK
<1>2. form'[f] = status /\ \A g \in Forms : g # f => form'[g] = form[g]
    BY DEF LInv, FieldsOK
<1>3. AskedOpen' BY <1>2 DEF Posted, AskedOpen
<1>4. Waiting' BY <1>1, <1>2 DEF Posted, Waiting
<1>5. Unreviewed' BY <1>1 DEF Posted, Unreviewed
<1>6. LedgerAgrees'
    <2>1. \A g \in Forms : Total(OfAmong(entries', g, LocalTypes)) = Held(request'[g])
        BY <1>1, LedgerIs DEF Posted
    <2> QED BY <2>1 DEF LedgerAgrees, Of, OfAmong, LocalTypes, Held
<1> QED BY <1>3, <1>4, <1>5, <1>6 DEF Posted

LEMMA SubmitPosted ==
    ASSUME LInv, Posted, NEW f \in Forms, Submit(f)
    PROVE  /\ Posted'
           /\ request'[f].required =>
                Total(entries') = Total(entries) - Minutes[asked[f].slot] /\ Reserves(f)
<1> DEFINE r == Submitted(f)
           M == Minutes[asked[f].slot]
           k == Key(f, r.cycle, "reserve")
           c == request[f].cycle
<1>1. asked[f].under /\ asked[f].slot \in Slots /\ c \in Nat /\ c < MaxCycles
    BY LeaveAssumption DEF LInv, FieldsOK, Room, Submit, Requests
<1>2. Reserves(f) \in BOOLEAN BY DEF Reserves, LInv, FieldsOK
<1>3. /\ r \in Requests /\ r.effect = "not_applied" /\ r.cycle = c + 1
      /\ r.required = Reserves(f) /\ r.slot = asked[f].slot
    BY <1>1, <1>2, LeaveAssumption DEF Submitted, Requests
<1>4. M \in Int BY <1>1, LeaveAssumption
<1>5. /\ request' = [request EXCEPT ![f] = r]
      /\ entries' = IF r.required THEN Appended(entries, k, f, "reserve", -M) ELSE entries
      /\ asked' = [asked EXCEPT ![f] = NotAsked]
    BY <1>3 DEF Submit, AddEntry
<1>6. PICK status \in {"in_review", "auto_approved"} : form' = [form EXCEPT ![f] = status]
    BY DEF Submit
<1>7. request[f].effect \in {"none", "compensated"} BY DEF Submit
<1> HIDE DEF r, M, k
<1>8. request'[f] = r /\ \A g \in Forms : g # f => request'[g] = request[g]
    BY <1>5 DEF LInv, FieldsOK
<1>9. NotAsked.under = FALSE BY DEF NotAsked
<1>10. \A g \in Forms : asked'[g].under => asked[g].under /\ g # f
    BY <1>5, <1>9 DEF LInv, FieldsOK
<1>11. \A type : ~Has(entries, Key(f, r.cycle, type))
    <2>1. \A type : Has(entries, Key(f, r.cycle, type)) => r.cycle \in 1..c
        BY KnownKeys DEF Posted
    <2> QED BY <1>1, <1>3, <2>1
<1>12. Known(entries, request')
    <2>1. \A g \in Forms : \A d \in 1..request[g].cycle : d \in 1..request'[g].cycle
        BY <1>1, <1>3, <1>8 DEF LInv, FieldsOK, Requests
    <2> QED BY <2>1 DEF Posted, Known
<1>13. /\ Known(entries', request') /\ Amounts(entries')
       /\ Total(entries') = Total(entries) + (IF r.required THEN -M ELSE 0)
       /\ \A g : Total(OfAmong(entries', g, LocalTypes)) =
            Total(OfAmong(entries, g, LocalTypes))
                + (IF r.required /\ g = f THEN -M ELSE 0)
       /\ \A j : Has(entries', j) => Has(entries, j) \/ j = k
    <2>1. Amounts(entries) /\ Total(entries) \in Int BY TotalInt DEF Posted
    <2>2. \A g : Total(OfAmong(entries, g, LocalTypes)) \in Int
        BY <2>1, FS_Subset, TotalInt DEF Amounts, OfAmong
    <2>3. CASE ~r.required BY <1>5, <1>12, <2>1, <2>2, <2>3
    <2>4. CASE r.required
        <3> DEFINE new == Appended(entries, k, f, "reserve", -M)
        <3>1. entries' = new BY <1>5, <2>4
        <3>2. -M \in Int /\ ~Has(entries, k) BY <1>4, <1>11 DEF k
        <3>3. "reserve" \in LocalTypes BY DEF LocalTypes
        <3>4. /\ Amounts(new) /\ Total(new) = Total(entries) + -M
              /\ \A g : Total(OfAmong(new, g, LocalTypes)) =
                    Total(OfAmong(entries, g, LocalTypes)) + (IF g = f THEN -M ELSE 0)
            BY <2>1, <3>2, <3>3, AppendedTotal
        <3>5. r.cycle \in 1..request'[f].cycle BY <1>1, <1>3, <1>8
        <3>6. Known(new, request') BY <1>12, <3>3, <3>5, AppendedKnown DEF k
        <3>7. \A j : Has(new, j) => Has(entries, j) \/ j = k BY AppendedHas
        <3> HIDE DEF new
        <3> QED BY <2>4, <3>1, <3>4, <3>6, <3>7
    <2> QED BY <1>2, <1>3, <2>3, <2>4
<1>14. Total(OfAmong(entries', f, LocalTypes)) = Held(r)
    <2>1. Total(OfAmong(entries, f, LocalTypes)) = 0
        BY <1>7, LedgerIs DEF Posted, Held
    <2>2. Held(r) = IF r.required THEN -M ELSE 0 BY <1>3 DEF Held, M
    <2> QED BY <1>4, <1>13, <2>1, <2>2
<1>15. \A g \in Forms : g # f =>
        /\ Total(OfAmong(entries', g, LocalTypes)) = Total(OfAmong(entries, g, LocalTypes))
        /\ \A d, type : Has(entries', Key(g, d, type)) => Has(entries, Key(g, d, type))
    <2>1. \A g : Total(OfAmong(entries, g, LocalTypes)) \in Int
        BY FS_Subset, TotalInt DEF Amounts, OfAmong, Posted
    <2> QED BY <1>13, <2>1, KeysDiffer DEF k
<1>16. /\ ~Has(entries', Key(f, r.cycle, "release"))
       /\ ~Has(entries', Key(f, r.cycle, "local_consume"))
    BY <1>11, <1>13, KeysDiffer DEF k
<1>17. Posted'
    BY <1>3, <1>5, <1>6, <1>10, <1>13, <1>14, <1>15, <1>16, RequestPosted
<1>18. Total(entries) \in Int BY TotalInt DEF Posted
<1> QED BY <1>3, <1>4, <1>8, <1>13, <1>17, <1>18 DEF M

\* Only the cycles matter for which keys are known.
LEMMA KnownSame ==
    ASSUME NEW es, NEW req, NEW new, Known(es, req), \A f \in Forms : new[f].cycle = req[f].cycle
    PROVE  Known(es, new)
BY DEF Known

\* A request that waits holds minutes only after a submission.
LEMMA BegunCycle ==
    ASSUME LInv, Posted, NEW f \in Forms, request[f].effect = "not_applied", request[f].required
    PROVE  request[f].cycle \in 1..request[f].cycle
<1> DEFINE own == OfAmong(entries, f, LocalTypes)
<1>1. request[f].slot \in Slots /\ request[f].cycle \in Nat
    BY LeaveAssumption DEF LInv, FieldsOK, Requests
<1>2. Total(own) # 0
    <2>1. Total(own) = -Minutes[request[f].slot] BY LedgerIs DEF Posted, Held
    <2> QED BY <1>1, <2>1, LeaveAssumption
<1>3. own # {} => \E x \in entries : x.form = f /\ x.type \in LocalTypes BY DEF OfAmong
<1>4. own # {}
    <2> HIDE DEF own
    <2>1. IsFiniteSet({}) BY FS_EmptySet
    <2> QED BY <1>2, <2>1, TotalStep
<1>5. \E c \in 1..request[f].cycle : TRUE BY <1>3, <1>4 DEF Posted, Known
<1> QED BY <1>1, <1>5

\* What a release writes for a request that waits.
LEMMA ReleasedPosts ==
    ASSUME LInv, Posted, NEW f \in Forms, request[f].effect = "not_applied"
    PROVE  LET new == Released(entries, f) IN
           /\ Amounts(new) /\ Known(new, request)
           /\ \A g \in Forms : Total(OfAmong(new, g, LocalTypes)) =
                IF g = f THEN 0 ELSE Total(OfAmong(entries, g, LocalTypes))
           /\ \A j : Has(new, j) => Has(entries, j) \/ j = Key(f, request[f].cycle, "release")
<1> DEFINE new == Released(entries, f)
           M == Minutes[request[f].slot]
           k == Key(f, request[f].cycle, "release")
<1>1. M \in Int /\ request[f].required \in BOOLEAN
    BY LeaveAssumption DEF LInv, FieldsOK, Requests
<1>2. Amounts(entries) /\ \A g : Total(OfAmong(entries, g, LocalTypes)) \in Int
    BY FS_Subset, TotalInt DEF Amounts, OfAmong, Posted
<1>3. Total(OfAmong(entries, f, LocalTypes)) = IF request[f].required THEN -M ELSE 0
    BY LedgerIs DEF Posted, Held
<1>4. CASE ~request[f].required
    <2>1. new = entries BY <1>4 DEF Released
    <2> QED BY <1>2, <1>3, <1>4, <2>1 DEF Posted
<1>5. CASE request[f].required
    <2>1. new = Appended(entries, k, f, "release", M) BY <1>5 DEF Released, AddEntry
    <2>2. ~Has(entries, k) BY DEF Posted, Unreviewed
    <2>3. "release" \in LocalTypes BY DEF LocalTypes
    <2>4. request[f].cycle \in 1..request[f].cycle BY <1>5, BegunCycle
    <2>5. Known(new, request) BY <2>1, <2>3, <2>4, AppendedKnown DEF Posted
    <2> HIDE DEF M, k, new
    <2>6. Amounts(new) BY <1>1, <1>2, <2>1, AppendedTotal
    <2>7. \A g : Total(OfAmong(new, g, LocalTypes)) =
            Total(OfAmong(entries, g, LocalTypes)) + (IF g = f THEN M ELSE 0)
        BY <1>1, <1>2, <2>1, <2>2, <2>3, AppendedTotal
    <2>8. \A j : Has(new, j) => Has(entries, j) \/ j = k BY <2>1, AppendedHas
    <2>9. \A g : Total(OfAmong(new, g, LocalTypes)) =
            IF g = f THEN 0 ELSE Total(OfAmong(entries, g, LocalTypes))
        BY <1>1, <1>2, <1>3, <1>5, <2>7
    <2> QED BY <2>5, <2>6, <2>8, <2>9 DEF k, new
<1> QED BY <1>1, <1>4, <1>5

\* The two entries of an approval: the hold becomes a consumption.
LEMMA ConsumedPosts ==
    ASSUME LInv, Posted, NEW f \in Forms, request[f].effect = "not_applied"
    PROVE  LET new == Consumed(Released(entries, f), f) IN
           /\ Amounts(new) /\ Known(new, request)
           /\ \A g \in Forms : Total(OfAmong(new, g, LocalTypes)) =
                IF g = f THEN (IF request[f].required THEN -Minutes[request[f].slot] ELSE 0)
                ELSE Total(OfAmong(entries, g, LocalTypes))
           /\ \A g, c, type : g # f /\ Has(new, Key(g, c, type)) => Has(entries, Key(g, c, type))
<1> DEFINE mid == Released(entries, f)
           new == Consumed(mid, f)
           M == Minutes[request[f].slot]
           c == request[f].cycle
           k == Key(f, c, "local_consume")
<1>1. M \in Int /\ request[f].required \in BOOLEAN
    BY LeaveAssumption DEF LInv, FieldsOK, Requests
<1>2. /\ Amounts(mid) /\ Known(mid, request)
      /\ \A g \in Forms : Total(OfAmong(mid, g, LocalTypes)) =
            IF g = f THEN 0 ELSE Total(OfAmong(entries, g, LocalTypes))
      /\ \A j : Has(mid, j) => Has(entries, j) \/ j = Key(f, c, "release")
    BY ReleasedPosts
<1>3. \A g, d, type : Has(mid, Key(g, d, type)) =>
        Has(entries, Key(g, d, type)) \/ (g = f /\ type = "release")
    <2>1. \A g, d, type : Key(g, d, type) = Key(f, c, "release") => g = f /\ type = "release"
        BY DEF Key
    <2> QED BY <1>2, <2>1
<1>4. CASE ~request[f].required
    <2>1. new = mid BY <1>4 DEF Consumed
    <2> HIDE DEF mid, new
    <2>2. /\ Amounts(new) /\ Known(new, request)
          /\ \A g \in Forms : Total(OfAmong(new, g, LocalTypes)) =
                IF g = f THEN 0 ELSE Total(OfAmong(entries, g, LocalTypes))
          /\ \A g, d, type : g # f /\ Has(new, Key(g, d, type)) => Has(entries, Key(g, d, type))
        BY <1>2, <1>3, <2>1
    <2> QED BY <1>4, <2>2 DEF new, mid
<1>5. CASE request[f].required
    <2>1. new = Appended(mid, k, f, "local_consume", -M) BY <1>5 DEF Consumed, AddEntry
    <2>2. ~Has(mid, k)
        <3>1. ~Has(entries, k) BY DEF Posted, Unreviewed
        <3> QED BY <1>3, <3>1
    <2>3. "local_consume" \in LocalTypes BY DEF LocalTypes
    <2>4. c \in 1..c BY <1>5, BegunCycle
    <2> HIDE DEF mid
    <2>5. Known(new, request) BY <1>2, <2>1, <2>3, <2>4, AppendedKnown
    <2>6. \A g, d, type : Key(g, d, type) = k => g = f BY DEF Key
    <2> HIDE DEF M, k, new, c
    <2>7. -M \in Int BY <1>1
    <2>8. Amounts(new) BY <1>2, <2>1, <2>7, AppendedTotal
    <2>9. \A g : Total(OfAmong(new, g, LocalTypes)) =
            Total(OfAmong(mid, g, LocalTypes)) + (IF g = f THEN -M ELSE 0)
        BY <1>2, <2>1, <2>2, <2>3, <2>7, AppendedTotal
    <2>10. \A g : Total(OfAmong(mid, g, LocalTypes)) \in Int
        BY <1>2, FS_Subset, TotalInt DEF Amounts, OfAmong
    <2>11. \A g \in Forms : Total(OfAmong(new, g, LocalTypes)) =
            IF g = f THEN -M ELSE Total(OfAmong(entries, g, LocalTypes))
        BY <1>2, <2>7, <2>9, <2>10
    <2>12. \A j : Has(new, j) => Has(mid, j) \/ j = k BY <2>1, AppendedHas
    <2>13. \A g, d, type : g # f /\ Has(new, Key(g, d, type)) => Has(entries, Key(g, d, type))
        BY <1>3, <2>6, <2>12
    <2> QED BY <1>5, <2>5, <2>8, <2>11, <2>13 DEF M, new, mid
<1> QED BY <1>1, <1>4, <1>5

LEMMA ApprovePosted ==
    ASSUME LInv, Posted, NEW f \in Forms, Approve(f)
    PROVE  Posted'
<1> DEFINE r == [request[f] EXCEPT !.effect = "applied", !.recon = "nexus_only"]
           new == Consumed(Released(entries, f), f)
<1>1. request[f].effect = "not_applied" /\ ~asked[f].under
    BY DEF Approve, Posted, Waiting, AskedOpen
<1>2. /\ r \in Requests /\ r.effect = "applied" /\ r.cycle = request[f].cycle
      /\ r.required = request[f].required /\ r.slot = request[f].slot
    BY DEF LInv, FieldsOK, Requests
<1>3. request' = [request EXCEPT ![f] = r] BY DEF Approve, LInv, FieldsOK
<1>4. /\ entries' = new /\ form' = [form EXCEPT ![f] = "closed"] /\ asked' = asked
    BY DEF Approve
<1> HIDE DEF r, new
<1>5. /\ Amounts(new) /\ Known(new, request)
      /\ \A g \in Forms : Total(OfAmong(new, g, LocalTypes)) =
            IF g = f THEN (IF request[f].required THEN -Minutes[request[f].slot] ELSE 0)
            ELSE Total(OfAmong(entries, g, LocalTypes))
      /\ \A g, c, type : g # f /\ Has(new, Key(g, c, type)) => Has(entries, Key(g, c, type))
    BY <1>1, ConsumedPosts DEF new
<1>6. \A g \in Forms : request'[g].cycle = request[g].cycle BY <1>2, <1>3 DEF LInv, FieldsOK
<1>7. Known(new, request') BY <1>5, <1>6, KnownSame
<1>8. Total(OfAmong(entries', f, LocalTypes)) = Held(r) BY <1>2, <1>4, <1>5 DEF Held
<1>9. \A g \in Forms : asked'[g].under => asked[g].under /\ g # f BY <1>1, <1>4
<1>10. \A g \in Forms : g # f =>
        /\ Total(OfAmong(entries', g, LocalTypes)) = Total(OfAmong(entries, g, LocalTypes))
        /\ \A c, type : Has(entries', Key(g, c, type)) => Has(entries, Key(g, c, type))
    BY <1>4, <1>5
<1> QED BY <1>2, <1>3, <1>4, <1>5, <1>7, <1>8, <1>9, <1>10, RequestPosted

LEMMA CompensatePosted ==
    ASSUME LInv, Posted, NEW f \in Forms, form[f] \in {"in_review", "auto_approved"},
           NEW status \in {"returned", "closed"}, Compensate(f, status)
    PROVE  Posted'
<1> DEFINE r == [request[f] EXCEPT !.effect = "compensated"]
           new == Released(entries, f)
<1>1. request[f].effect = "not_applied" /\ ~asked[f].under
    BY DEF Posted, Waiting, AskedOpen
<1>2. r \in Requests /\ r.effect = "compensated" /\ r.cycle = request[f].cycle
    BY DEF LInv, FieldsOK, Requests
<1>3. request' = [request EXCEPT ![f] = r] BY DEF Compensate, LInv, FieldsOK
<1>4. entries' = new /\ form' = [form EXCEPT ![f] = status] /\ asked' = asked
    BY DEF Compensate
<1> HIDE DEF r, new
<1>5. /\ Amounts(new) /\ Known(new, request)
      /\ \A g \in Forms : Total(OfAmong(new, g, LocalTypes)) =
            IF g = f THEN 0 ELSE Total(OfAmong(entries, g, LocalTypes))
      /\ \A j : Has(new, j) => Has(entries, j) \/ j = Key(f, request[f].cycle, "release")
    BY <1>1, ReleasedPosts DEF new
<1>6. \A g \in Forms : request'[g].cycle = request[g].cycle BY <1>2, <1>3 DEF LInv, FieldsOK
<1>7. Known(new, request') BY <1>5, <1>6, KnownSame
<1>8. Total(OfAmong(entries', f, LocalTypes)) = Held(r) BY <1>2, <1>4, <1>5 DEF Held
<1>9. \A g \in Forms : asked'[g].under => asked[g].under /\ g # f BY <1>1, <1>4
<1>10. \A g \in Forms : g # f =>
        /\ Total(OfAmong(entries', g, LocalTypes)) = Total(OfAmong(entries, g, LocalTypes))
        /\ \A c, type : Has(entries', Key(g, c, type)) => Has(entries, Key(g, c, type))
    <2>1. \A g, c, type : Key(g, c, type) = Key(f, request[f].cycle, "release") => g = f
        BY DEF Key
    <2> QED BY <1>4, <1>5, <2>1
<1> QED BY <1>2, <1>3, <1>4, <1>5, <1>7, <1>8, <1>9, <1>10, RequestPosted

\* What the sync writes leaves what a form holds, and the keys of reviews, alone.
Aside(es, new) ==
    /\ Amounts(new) /\ Known(new, request)
    /\ \A g : Total(OfAmong(new, g, LocalTypes)) = Total(OfAmong(es, g, LocalTypes))
    /\ \A g, c, type : Has(new, Key(g, c, type)) => Has(es, Key(g, c, type))

LEMMA SyncEntryAside ==
    ASSUME NEW es, Amounts(es), Known(es, request), NEW e, NEW f \in Forms, NEW net \in Int
    PROVE  Aside(es, Matched(es, e, f, net)) /\ Aside(es, Unmatched(es, e, f, net))
<1>1. ASSUME NEW action, NEW type \in {"external_reconcile", "external_reversal"},
             NEW amount \in Int
      PROVE  Aside(es, Appended(es, <<e, action, f, net>>, f, type, amount))
    <2> DEFINE k == <<e, action, f, net>>
               new == Appended(es, k, f, type, amount)
    <2>1. type \notin LocalTypes BY DEF LocalTypes
    <2>2. DOMAIN k = 1..4 OBVIOUS
    <2>3. \A g, c, t : Key(g, c, t) # k BY KeysDiffer
    <2> HIDE DEF k
    <2>4. Known(new, request) BY <2>1, <2>2, AppendedKnown
    <2>5. \A g : Total(OfAmong(es, g, LocalTypes)) \in Int
        BY FS_Subset, TotalInt DEF Amounts, OfAmong
    <2>6. /\ Amounts(new)
          /\ \A g : Total(OfAmong(new, g, LocalTypes)) = Total(OfAmong(es, g, LocalTypes)) + 0
        BY <2>1, AppendedTotal
    <2>7. \A j : Has(new, j) => Has(es, j) \/ j = k BY AppendedHas
    <2> HIDE DEF new
    <2>8. \A g : Total(OfAmong(new, g, LocalTypes)) = Total(OfAmong(es, g, LocalTypes))
        BY <2>5, <2>6
    <2>9. \A g, c, t : Has(new, Key(g, c, t)) => Has(es, Key(g, c, t)) BY <2>3, <2>7
    <2>10. Aside(es, new) BY <2>4, <2>6, <2>8, <2>9 DEF Aside
    <2> QED BY <2>10 DEF new, k
<1>2. Aside(es, Matched(es, e, f, net)) BY <1>1 DEF Matched
<1>3. Aside(es, Unmatched(es, e, f, net)) BY <1>1 DEF Unmatched
<1> QED BY <1>2, <1>3

\* A reconciliation changes of a request only what it says of the record.
LEMMA ReconcileRequests ==
    ASSUME LInv, NEW e, NEW s, NEW net, NEW live, Reconcile(e, s, net, live)
    PROVE  \A f \in Forms : /\ request'[f].effect = request[f].effect
                            /\ request'[f].cycle = request[f].cycle
                            /\ request'[f].slot = request[f].slot
                            /\ request'[f].required = request[f].required
<1> DEFINE told == Told(e, ext[e].match, IF live THEN Matching(e, s, net) ELSE NoForm, live)
<1>1. request' = [f \in Forms |-> [request[f] EXCEPT !.recon = told[f]]] BY DEF Reconcile
<1> HIDE DEF told
<1>2. \A f \in Forms : request'[f] = [request[f] EXCEPT !.recon = told[f]] BY <1>1
<1>3. \A f \in Forms : request[f] \in Requests BY DEF LInv, FieldsOK
<1> QED BY ONLY <1>2, <1>3 DEF Requests

LEMMA ReconcilePosted ==
    ASSUME LInv, Posted, NEW e \in Externals, NEW s,
           NEW net \in {Minutes[t] : t \in Slots}, NEW live \in BOOLEAN,
           Reconcile(e, s, net, live)
    PROVE  Posted'
<1> DEFINE old == ext[e].match
           new == IF live THEN Matching(e, s, net) ELSE NoForm
           left == IF old \notin {NoForm, new} THEN Unmatched(entries, e, old, net) ELSE entries
<1>1. /\ entries' = IF new = NoForm THEN left ELSE Matched(left, e, new, net)
      /\ UNCHANGED <<form, asked>>
    BY DEF Reconcile
<1>2. new \in Forms \cup {NoForm} BY MatchingIs
<1>3. old \in Forms \cup {NoForm} BY DEF LInv, FieldsOK, Records
<1>4. net \in Int BY LeaveAssumption
<1> HIDE DEF new, old
<1>5. Aside(entries, left)
    <2>1. Aside(entries, entries) BY DEF Aside, Posted
    <2>2. CASE old \notin {NoForm, new} BY <1>3, <1>4, <2>2, SyncEntryAside DEF Posted
    <2> QED BY <2>1, <2>2
<1> HIDE DEF left
<1>6. Aside(entries, entries')
    <2>1. CASE new = NoForm BY <1>1, <1>5, <2>1
    <2>2. CASE new # NoForm
        <3>1. new \in Forms /\ Amounts(left) /\ Known(left, request)
            BY <1>2, <1>5, <2>2 DEF Aside
        <3>2. Aside(left, Matched(left, e, new, net)) BY <1>4, <3>1, SyncEntryAside
        <3> QED BY <1>1, <1>5, <2>2, <3>2 DEF Aside
    <2> QED BY <2>1, <2>2
<1>7. \A f \in Forms : /\ request'[f].effect = request[f].effect
                       /\ request'[f].cycle = request[f].cycle
                       /\ request'[f].slot = request[f].slot
                       /\ request'[f].required = request[f].required
    BY ReconcileRequests
<1>8. Known(entries', request') BY <1>6, <1>7, KnownSame DEF Aside
<1>9. AskedOpen' /\ Waiting' /\ Unreviewed'
    BY <1>1, <1>6, <1>7 DEF Posted, AskedOpen, Waiting, Unreviewed, Aside
<1>10. \A f \in Forms : Held(request'[f]) = Held(request[f]) BY <1>7 DEF Held
<1>11. \A f \in Forms : Total(OfAmong(entries', f, LocalTypes)) = Held(request'[f])
    BY <1>6, <1>10, LedgerIs DEF Posted, Aside
<1>12. LedgerAgrees' BY <1>11 DEF LedgerAgrees, Of, OfAmong, LocalTypes, Held
<1> QED BY <1>6, <1>8, <1>9, <1>12 DEF Posted, Aside

LEMMA InitPosted ==
    ASSUME LeaveInit
    PROVE  Posted
<1>1. entries = {} /\ form = [f \in Forms |-> "draft"] /\ asked = [f \in Forms |-> NotAsked]
    BY DEF LeaveInit
<1>2. Amounts(entries) BY <1>1, FS_EmptySet DEF Amounts
<1>3. AskedOpen /\ Waiting BY <1>1 DEF AskedOpen, Waiting, NotAsked
<1>4. Known(entries, request) /\ Unreviewed BY <1>1 DEF Known, Unreviewed, Has
<1>5. \A f \in Forms : request[f].effect = "none" BY DEF LeaveInit
<1>6. \A f \in Forms : Total(OfAmong(entries, f, LocalTypes)) = 0
    <2>1. \A f \in Forms : OfAmong(entries, f, LocalTypes) = {} BY <1>1 DEF OfAmong
    <2>2. Total({}) = 0 BY FS_EmptySet, TotalStep
    <2> QED BY <2>1, <2>2
<1>7. LedgerAgrees BY <1>5, <1>6, LedgerIs DEF Held
<1> QED BY <1>2, <1>3, <1>4, <1>7 DEF Posted

LEMMA NextPosted ==
    ASSUME LInv, Posted, [LeaveNext]_leaveVars
    PROVE  Posted'
<1>1. ASSUME UNCHANGED <<form, asked, request, entries>> PROVE Posted'
    BY <1>1
    DEF Posted, AskedOpen, Waiting, Known, Unreviewed, LedgerAgrees, Of, Has, Key
<1>2. ASSUME NEW f \in Forms, Evaluate(f) \/ Refused(f) PROVE Posted'
    <2>1. UNCHANGED <<form, request, entries>> BY <1>2 DEF Evaluate, Refused
    <2>2. AskedOpen' BY <1>2 DEF Evaluate, Refused, NotAsked, Posted, AskedOpen, LInv, FieldsOK
    <2>3. Waiting' /\ Unreviewed' BY <2>1 DEF Posted, Waiting, Unreviewed
    <2>4. Known(entries', request') BY <2>1 DEF Posted
    <2>5. LedgerAgrees' BY <2>1 DEF Posted, LedgerAgrees, Of
    <2> QED BY <2>1, <2>2, <2>3, <2>4, <2>5 DEF Posted
<1>3. CASE \E f \in Forms : Submit(f) BY <1>3, SubmitPosted
<1>4. CASE \E f \in Forms : Approve(f) BY <1>4, ApprovePosted
<1>5. CASE \E f \in Forms : Decline(f) \/ CancelPending(f)
    BY <1>5, CompensatePosted DEF Decline, CancelPending
<1>6. CASE \E e \in Externals : SyncRecord(e) BY <1>6, ReconcilePosted DEF SyncRecord
<1>7. CASE \E e \in Externals : Tombstone(e)
    <2>1. \A e \in Externals : ext[e].net \in {Minutes[t] : t \in Slots}
        BY DEF LInv, FieldsOK, Records
    <2> QED BY <1>7, <2>1, ReconcilePosted DEF Tombstone
<1> QED BY <1>1, <1>2, <1>3, <1>4, <1>5, <1>6, <1>7 DEF LeaveNext, leaveVars, SyncBalance

-----------------------------------------------------------------------------
\* The minutes a form holds: theorems

\* What has been posted for a form agrees with its request in every state.
THEOREM PostedInvariant == LeaveSpec => []Posted
<1>1. LeaveInit => Posted BY InitPosted
<1>2. LInv /\ Posted /\ [LeaveNext]_leaveVars => Posted' BY NextPosted
<1> QED BY <1>1, <1>2, Invariant, PTL DEF LeaveSpec

\* Through any number of returns and resubmissions, with any number of forms and
\* eHRMS records, a form holds exactly the minutes of its last submission while
\* that waits or is approved, if it was submitted with a balance, and nothing
\* otherwise.
THEOREM HoldsWhatItAsked == LeaveSpec => []LedgerAgrees
<1>1. Posted => LedgerAgrees BY DEF Posted
<1> QED BY <1>1, PostedInvariant, PTL

\* No submission that reserves minutes takes the balance below zero, whatever
\* other submissions read before it got the lock.
THEOREM ReservesWhatIsThere == LeaveSpec => ReservesWithinBalance
<1> DEFINE Within == \A f \in Forms :
        request'[f].cycle # request[f].cycle /\ request'[f].required => Available' >= 0
<1>1. ASSUME LInv, Posted, [LeaveNext]_leaveVars PROVE Within
    <2> SUFFICES ASSUME NEW f \in Forms, request'[f].cycle # request[f].cycle,
                        request'[f].required
                 PROVE  Available' >= 0
        OBVIOUS
    <2>1. \A g \in Forms : request[g] \in Requests BY <1>1 DEF LInv, FieldsOK
    <2>2. CASE \E g \in Forms : Submit(g)
        <3>1. PICK g \in Forms : Submit(g) BY <2>2
        <3>2. \A h \in Forms : h # g => request'[h] = request[h] BY <1>1, <3>1 DEF Submit, LInv, FieldsOK
        <3>3. f = g BY <3>2
        <3>4. Total(entries') = Total(entries) - Minutes[asked[f].slot] /\ Reserves(f)
            BY <1>1, <3>1, <3>3, SubmitPosted
        <3>5. snapshot' = snapshot /\ snapshot \in Nat BY <1>1, <3>1 DEF Submit, LInv, FieldsOK
        <3>6. Total(entries) \in Int BY <1>1, TotalInt DEF Posted
        <3>7. asked[f].slot \in Slots BY <1>1 DEF LInv, FieldsOK
        <3>8. Minutes[asked[f].slot] \in Int BY <3>7, LeaveAssumption
        <3> QED BY <3>4, <3>5, <3>6, <3>8 DEF Available, Reserves
    <2>3. CASE UNCHANGED request BY <2>3
    <2>4. ASSUME NEW g \in Forms, NEW v, NEW w,
                 request' = [request EXCEPT ![g].effect = v, ![g].recon = w]
                 \/ request' = [request EXCEPT ![g].effect = v]
          PROVE  FALSE
        <3>1. request'[f] \in {request[f], [request[f] EXCEPT !.effect = v],
                               [request[f] EXCEPT !.effect = v, !.recon = w]}
            BY <1>1, <2>4 DEF LInv, FieldsOK
        <3>2. request'[f].cycle = request[f].cycle BY ONLY <2>1, <3>1, f \in Forms DEF Requests
        <3> QED BY <3>2
    <2>5. CASE \E g \in Forms : Approve(g) \/ Decline(g) \/ CancelPending(g)
        BY <2>4, <2>5 DEF Approve, Decline, CancelPending, Compensate
    <2>6. CASE \E e \in Externals : SyncRecord(e) \/ Tombstone(e)
        BY <1>1, <2>6, ReconcileRequests DEF SyncRecord, Tombstone
    <2>7. CASE (\E g \in Forms : Evaluate(g) \/ Refused(g)) \/ SyncBalance \/ UNCHANGED leaveVars
        BY <2>3, <2>7 DEF Evaluate, Refused, SyncBalance, leaveVars
    <2> QED BY <1>1, <2>2, <2>5, <2>6, <2>7 DEF LeaveNext
<1>2. LInv /\ Posted /\ [LeaveNext]_leaveVars => [Within]_leaveVars BY <1>1
<1> QED BY <1>2, Invariant, PostedInvariant, PTL DEF LeaveSpec, ReservesWithinBalance
-----------------------------------------------------------------------------
\* The minutes a form is credited

CreditTypes == {"external_reconcile", "external_reversal"}

\* An applied form asks for what the record has, and no record is matched with it.
Alike(e, f) == /\ request[f].effect = "applied"
               /\ request[f].slot = ext[e].slot /\ Minutes[ext[e].slot] = ext[e].net

Free(f) == \A d \in Externals : ext[d].match # f

\* A record is given up for good when it is deleted, or when two forms that no
\* record is matched with are both like it: neither will be the only one again.
Given(e) ==
    \/ ext[e].state = "deleted"
    \/ /\ ext[e].state = "active"
       /\ \E f, g \in Forms : f # g /\ Alike(e, f) /\ Alike(e, g) /\ Free(f) /\ Free(g)

\* A record that is matched is like the form, and the entry of the match is there.
MatchPosted ==
    \A e \in Externals : ext[e].match # NoForm =>
        /\ ext[e].state = "active" /\ Alike(e, ext[e].match)
        /\ Has(entries, <<e, "match", ext[e].match, ext[e].net>>)

\* A record that was matched is still matched with that form, or given up; one
\* that was unmatched is given up.
Undone ==
    \A e \in Externals, f \in Forms : \A net :
        /\ Has(entries, <<e, "match", f, net>>) => ext[e].match = f \/ Given(e)
        /\ Has(entries, <<e, "unmatch", f, net>>) => ext[e].match # f /\ Given(e)

Credited == MatchPosted /\ Undone /\ CreditMatches

LEMMA CreditIs ==
    CreditMatches <=>
        \A f \in Forms : Total(OfAmong(entries, f, CreditTypes)) =
            IF \E e \in Externals : ext[e].match = f THEN Minutes[request[f].slot] ELSE 0
BY DEF CreditMatches, Of, OfAmong, CreditTypes

\* The form could be what a record of these minutes is matched with.
Fits(e, s, net, f) ==
    /\ f \in Forms /\ request[f].effect = "applied"
    /\ request[f].slot = s /\ Minutes[s] = net
    /\ \A d \in Externals \ {e} : ext[d].match # f

\* A record is matched with the only form that fits, and with none if there are two.
LEMMA MatchingUnique ==
    ASSUME NEW e, NEW s, NEW net
    PROVE  /\ \A f : Matching(e, s, net) = f /\ f # NoForm =>
                Fits(e, s, net, f) /\ \A g : Fits(e, s, net, g) => g = f
           /\ \A f : Fits(e, s, net, f) /\ Matching(e, s, net) = NoForm =>
                \E g : Fits(e, s, net, g) /\ g # f
<1> DEFINE same == {f \in Candidates(e) : request[f].slot = s /\ Minutes[s] = net}
<1>1. Matching(e, s, net) = IF Cardinality(same) = 1 THEN CHOOSE f \in same : TRUE ELSE NoForm
    BY DEF Matching
<1>2. \A f : f \in same <=> Fits(e, s, net, f)
    BY DEF Candidates, Active, Claimed, Fits
<1>3. same \in SUBSET Forms BY DEF Candidates
<1> HIDE DEF same
<1>4. IsFiniteSet(same) BY <1>3, LeaveAssumption, FS_Subset
<1>5. Cardinality(same) = 1 <=> \E f : same = {f} BY <1>4, FS_Singleton
<1>6. ASSUME NEW f, same = {f} PROVE Matching(e, s, net) = f
    BY <1>1, <1>5, <1>6
<1>7. ASSUME NEW f, Matching(e, s, net) = f, f # NoForm PROVE same = {f}
    BY <1>1, <1>5, <1>6, <1>7
<1>8. ASSUME NEW f, f \in same, Matching(e, s, net) = NoForm PROVE \E g \in same : g # f
    <2>1. SUFFICES ASSUME same = {f} PROVE FALSE BY <1>8
    <2>2. f = NoForm BY <1>6, <1>8, <2>1
    <2> QED BY <1>3, <1>8, <2>2, LeaveAssumption
<1> QED BY <1>2, <1>7, <1>8

\* An entry of a submission or a review leaves the credits alone.
LEMMA LocalEntryAside ==
    ASSUME NEW es, Amounts(es), NEW f, NEW r, NEW type \in LocalTypes, NEW amount \in Int
    PROVE  LET new == AddEntry(es, f, r, type, amount) IN
           /\ Amounts(new)
           /\ \A g : Total(OfAmong(new, g, CreditTypes)) = Total(OfAmong(es, g, CreditTypes))
           /\ \A e, a, g, n : Has(new, <<e, a, g, n>>) <=> Has(es, <<e, a, g, n>>)
<1> DEFINE k == Key(f, r.cycle, type)
           new == AddEntry(es, f, r, type, amount)
<1>1. type \notin CreditTypes BY DEF LocalTypes, CreditTypes
<1>2. \A e, a, g, n : <<e, a, g, n>> # k BY KeysDiffer
<1>3. new = Appended(es, k, f, type, amount) BY DEF AddEntry
<1> HIDE DEF k, new
<1>4. \A g : Total(OfAmong(es, g, CreditTypes)) \in Int
    BY FS_Subset, TotalInt DEF Amounts, OfAmong
<1>5. /\ Amounts(new)
      /\ \A g : Total(OfAmong(new, g, CreditTypes)) = Total(OfAmong(es, g, CreditTypes)) + 0
    BY <1>1, <1>3, AppendedTotal
<1>6. \A j : Has(new, j) <=> Has(es, j) \/ j = k BY <1>3, AppendedHas
<1>7. \A e, a, g, n : Has(new, <<e, a, g, n>>) <=> Has(es, <<e, a, g, n>>) BY <1>2, <1>6
<1>8. \A g : Total(OfAmong(new, g, CreditTypes)) = Total(OfAmong(es, g, CreditTypes))
    BY <1>4, <1>5
<1> QED BY <1>5, <1>7, <1>8 DEF new

\* A step that changes the request of a form that was not applied, and writes no
\* entry of the sync.
LEMMA RequestCredited ==
    ASSUME LInv, Credited, NEW f \in Forms, request[f].effect # "applied",
           \A g \in Forms : g # f => request'[g] = request[g], UNCHANGED ext,
           \A g : Total(OfAmong(entries', g, CreditTypes)) = Total(OfAmong(entries, g, CreditTypes)),
           \A e, a, g, n : Has(entries', <<e, a, g, n>>) <=> Has(entries, <<e, a, g, n>>)
    PROVE  Credited'
<1>1. \A e \in Externals : ext[e].match # f BY LeaveAssumption DEF LInv, MatchedOnce
<1>2. \A e \in Externals : ext[e].match # NoForm => ext[e].match \in Forms \ {f}
    BY <1>1 DEF LInv, FieldsOK, Records
<1>3. \A e \in Externals, g \in Forms : Alike(e, g) => Alike(e, g)' BY DEF Alike
<1>4. \A e \in Externals : Given(e) => Given(e)'
    BY <1>3 DEF Given, Free
<1>5. MatchPosted' BY <1>2, <1>3 DEF Credited, MatchPosted
<1>6. Undone' BY <1>4 DEF Credited, Undone
<1>7. \A g \in Forms : Total(OfAmong(entries', g, CreditTypes)) =
        IF \E e \in Externals : ext'[e].match = g THEN Minutes[request'[g].slot] ELSE 0
    <2>1. \A g \in Forms : Total(OfAmong(entries, g, CreditTypes)) =
            IF \E e \in Externals : ext[e].match = g THEN Minutes[request[g].slot] ELSE 0
        BY CreditIs DEF Credited
    <2> QED BY <1>1, <2>1
<1>8. CreditMatches' BY <1>7 DEF CreditMatches, Of, OfAmong, CreditTypes
<1> QED BY <1>5, <1>6, <1>8 DEF Credited

\* What a sync that edits no record does with one: it may find it for the first
\* time, or as it was; only an active one is deleted.
AsItWas(e, s, net, live) ==
    \/ live /\ ext[e].state = "absent"
    \/ ext[e].state = "active" /\ ext[e].slot = s /\ ext[e].net = net

\* The four cases of a reconciliation, by what the record was matched with and is.
LEMMA ReconcileCredited ==
    ASSUME LInv, Amounts(entries), Credited, NEW e \in Externals, NEW s \in Slots,
           NEW net \in {Minutes[t] : t \in Slots}, NEW live \in BOOLEAN,
           Reconcile(e, s, net, live), AsItWas(e, s, net, live)
    PROVE  Credited'
<1> DEFINE old == ext[e].match
           new == IF live THEN Matching(e, s, net) ELSE NoForm
           left == IF old \notin {NoForm, new} THEN Unmatched(entries, e, old, net) ELSE entries
           row == [state |-> IF live THEN "active" ELSE "deleted", slot |-> s, net |-> net,
                   match |-> new]
<1>1. /\ ext' = [ext EXCEPT ![e] = row]
      /\ entries' = IF new = NoForm THEN left ELSE Matched(left, e, new, net)
    BY DEF Reconcile
<1>2. new # NoForm => live /\ Fits(e, s, net, new) /\ \A g : Fits(e, s, net, g) => g = new
    BY MatchingUnique
<1>3. \A g : live /\ new = NoForm /\ Fits(e, s, net, g) => \E h : Fits(e, s, net, h) /\ h # g
    BY MatchingUnique
<1>4. /\ row.state = (IF live THEN "active" ELSE "deleted") /\ row.slot = s
      /\ row.net = net /\ row.match = new
    OBVIOUS
<1> HIDE DEF old, new, row
<1>5. /\ ext'[e] = row /\ \A d \in Externals : d # e => ext'[d] = ext[d]
    BY <1>1 DEF LInv, FieldsOK
<1>6. \A f \in Forms : request'[f].effect = request[f].effect /\ request'[f].slot = request[f].slot
    BY ReconcileRequests
<1>7. old \in Forms \cup {NoForm} /\ new \in Forms \cup {NoForm}
    BY <1>2 DEF LInv, FieldsOK, Records, Fits, old
<1>8. old # NoForm => ext[e].state = "active" /\ ext[e].slot = s /\ ext[e].net = net
    BY DEF Credited, MatchPosted, AsItWas, old
<1>9. old # NoForm => Fits(e, s, net, old)
    BY <1>7, <1>8 DEF Credited, MatchPosted, Alike, Fits, old, LInv, MatchedOnce
<1>10. old # NoForm => new \in {NoForm, old} BY <1>2, <1>9
<1>11. net \in Int BY LeaveAssumption
<1>12. \A d \in Externals, f \in Forms : d # e => (Alike(d, f) <=> Alike(d, f)')
    BY <1>5, <1>6 DEF Alike
<1>13. \A f \in Forms : Fits(e, s, net, f) /\ f # new => Free(f)'
    BY <1>4, <1>5, <1>6 DEF Fits, Free
<1>14. \A f \in Forms : Fits(e, s, net, f) => Alike(e, f)' BY <1>4, <1>5, <1>6 DEF Fits, Alike
<1>15. ASSUME new # NoForm PROVE ~Given(e)
    <2>1. ASSUME NEW f \in Forms, Alike(e, f), Free(f), ext[e].state = "active" PROVE f = new
        <3>1. ext[e].slot = s /\ ext[e].net = net BY <2>1 DEF AsItWas
        <3>2. Fits(e, s, net, f) BY <2>1, <3>1 DEF Fits, Alike, Free
        <3> QED BY <1>2, <1>15, <3>2
    <2>2. ext[e].state # "deleted" BY DEF AsItWas
    <2> QED BY <2>1, <2>2 DEF Given
<1>16. \A d \in Externals : d # e /\ Given(d) => Given(d)'
    <2>1. SUFFICES ASSUME NEW d \in Externals, d # e, ext[d].state = "active",
                          NEW f \in Forms, NEW g \in Forms, f # g, Alike(d, f), Alike(d, g),
                          Free(f), Free(g)
                   PROVE  f # new /\ g # new
        <3>1. \A f \in Forms : Free(f) /\ f # new => Free(f)' BY <1>4, <1>5 DEF Free
        <3> QED BY <1>5, <1>12, <2>1, <3>1 DEF Given
    <2>2. ASSUME NEW a \in Forms, NEW b \in Forms, a # b, Alike(d, a), Alike(d, b), Free(b), a = new
          PROVE  FALSE
        <3>1. Fits(e, s, net, a) BY <1>2, <1>7, <2>2, LeaveAssumption
        <3>2. Fits(e, s, net, b) BY <2>2, <3>1 DEF Fits, Alike, Free
        <3> QED BY <1>2, <2>2, <3>1, <3>2, LeaveAssumption
    <2> QED BY <2>1, <2>2
<1>17. \A f \in Forms : Total(OfAmong(entries, f, CreditTypes)) =
        IF \E d \in Externals : ext[d].match = f THEN Minutes[request[f].slot] ELSE 0
    BY CreditIs DEF Credited
<1>18. \A f : Total(OfAmong(entries, f, CreditTypes)) \in Int
    BY FS_Subset, TotalInt DEF Amounts, OfAmong
<1>19. \A f \in Forms : f \notin {old, new} =>
        ((\E d \in Externals : ext'[d].match = f) <=> \E d \in Externals : ext[d].match = f)
    BY <1>4, <1>5 DEF old
<1>20. Given(e) => Given(e)'
    <2>1. SUFFICES ASSUME Given(e) PROVE Given(e)' OBVIOUS
    <2>2. new = NoForm /\ ext[e].state = "active" BY <1>15, <2>1 DEF AsItWas, Given
    <2>3. PICK f \in Forms, g \in Forms :
            f # g /\ Alike(e, f) /\ Alike(e, g) /\ Free(f) /\ Free(g)
        BY <2>1, <2>2 DEF Given
    <2>4. Fits(e, s, net, f) /\ Fits(e, s, net, g)
        BY <2>2, <2>3 DEF AsItWas, Fits, Alike, Free
    <2>5. f # new /\ g # new BY <2>2, LeaveAssumption
    <2>6. Alike(e, f)' /\ Alike(e, g)' /\ Free(f)' /\ Free(g)'
        BY <1>13, <1>14, <2>4, <2>5
    <2> QED BY <1>4, <1>5, <2>3, <2>6 DEF Given
<1>21. ASSUME old = new, entries' = entries PROVE Credited'
    <2>1. MatchPosted'
        <3>1. SUFFICES ASSUME NEW d \in Externals, ext'[d].match # NoForm
                       PROVE  /\ ext'[d].state = "active" /\ Alike(d, ext[d].match)'
                              /\ Has(entries, <<d, "match", ext'[d].match, ext'[d].net>>)
            BY <1>21 DEF MatchPosted
        <3>2. CASE d # e
            <4>1. ext'[d] = ext[d] /\ ext[d].match \in Forms
                BY <1>5, <3>1, <3>2 DEF LInv, FieldsOK, Records
            <4> QED BY <1>12, <3>1, <3>2, <4>1 DEF Credited, MatchPosted
        <3>3. CASE d = e
            <4>1. new # NoForm /\ live BY <1>2, <1>4, <1>5, <3>1, <3>3
            <4>2. \A f : f = new => Alike(e, f)' BY <1>2, <1>7, <1>14, <4>1
            <4>3. Has(entries, <<e, "match", old, net>>)
                BY <1>8, <1>21, <4>1 DEF Credited, MatchPosted, old
            <4> QED BY <1>4, <1>5, <1>21, <3>3, <4>1, <4>2, <4>3
        <3> QED BY <3>2, <3>3
    <2>2. Undone'
        <3>1. \A d \in Externals : ext'[d].match = ext[d].match BY <1>4, <1>5, <1>21 DEF old
        <3> QED BY <1>16, <1>20, <1>21, <3>1 DEF Credited, Undone
    <2>3. CreditMatches'
        <3>1. \A d \in Externals : ext'[d].match = ext[d].match BY <1>4, <1>5, <1>21 DEF old
        <3>2. \A f \in Forms : Total(OfAmong(entries', f, CreditTypes)) =
                IF \E d \in Externals : ext'[d].match = f THEN Minutes[request'[f].slot] ELSE 0
            BY <1>6, <1>17, <1>21, <3>1
        <3> QED BY <3>2 DEF CreditMatches, Of, OfAmong, CreditTypes
    <2> QED BY <2>1, <2>2, <2>3 DEF Credited
<1>22. CASE old = NoForm /\ new = NoForm
    BY <1>1, <1>21, <1>22 DEF left
<1>23. CASE old # NoForm /\ new = old
    <2>1. Has(entries, <<e, "match", old, net>>)
        BY <1>8, <1>23 DEF Credited, MatchPosted, old
    <2>2. left = entries BY <1>23 DEF left
    <2>3. Matched(entries, e, new, net) = entries BY <1>23, <2>1 DEF Matched, Appended, Has
    <2> QED BY <1>1, <1>21, <1>23, <2>2, <2>3
<1>24. CASE old # NoForm /\ new = NoForm
    <2> DEFINE k == <<e, "unmatch", old, net>>
    <2>1. entries' = Appended(entries, k, old, "external_reversal", -net)
        BY <1>1, <1>24 DEF left, Unmatched
    <2>2. ~Has(entries, k) BY <1>7, <1>24 DEF Credited, Undone, old
    <2>3. \A d, f, n : <<d, "match", f, n>> # k BY "match" # "unmatch"
    <2>4. \A d, f, n : <<d, "unmatch", f, n>> = k => d = e /\ f = old OBVIOUS
    <2> HIDE DEF k, left
    <2>5. \A j : Has(entries', j) <=> Has(entries, j) \/ j = k BY <2>1, AppendedHas
    <2>6. \A f : Total(OfAmong(entries', f, CreditTypes)) =
            Total(OfAmong(entries, f, CreditTypes)) + (IF f = old THEN -net ELSE 0)
        <3>1. "external_reversal" \in CreditTypes /\ -net \in Int BY <1>11 DEF CreditTypes
        <3> QED BY <2>1, <2>2, <3>1, AppendedTotal
    <2>7. Given(e)'
        <3>1. CASE ~live BY <1>4, <1>5, <3>1 DEF Given
        <3>2. CASE live
            <4>1. PICK g : Fits(e, s, net, g) /\ g # old BY <1>3, <1>9, <1>24, <3>2
            <4>2. PICK h : h = old OBVIOUS
            <4>3. g \in Forms /\ h \in Forms /\ g # new /\ h # new
                BY <1>7, <1>24, <4>1, <4>2, LeaveAssumption DEF Fits
            <4>4. Alike(e, g)' /\ Alike(e, h)' /\ Free(g)' /\ Free(h)'
                BY <1>9, <1>13, <1>14, <1>24, <4>1, <4>2, <4>3
            <4> QED BY <1>4, <1>5, <3>2, <4>1, <4>2, <4>3, <4>4 DEF Given
        <3> QED BY <3>1, <3>2
    <2>8. MatchPosted'
        <3>1. SUFFICES ASSUME NEW d \in Externals, ext'[d].match # NoForm
                       PROVE  /\ ext'[d].state = "active" /\ Alike(d, ext[d].match)'
                              /\ Has(entries', <<d, "match", ext'[d].match, ext'[d].net>>)
            BY DEF MatchPosted
        <3>2. d # e BY <1>4, <1>5, <1>24, <3>1
        <3>3. ext'[d] = ext[d] /\ ext[d].match \in Forms
            BY <1>5, <3>1, <3>2 DEF LInv, FieldsOK, Records
        <3> QED BY <1>12, <2>5, <3>1, <3>2, <3>3 DEF Credited, MatchPosted
    <2>9. Undone'
        <3>1. SUFFICES ASSUME NEW d \in Externals, NEW f \in Forms, NEW n
                       PROVE  /\ Has(entries', <<d, "match", f, n>>)
                                    => ext'[d].match = f \/ Given(d)'
                              /\ Has(entries', <<d, "unmatch", f, n>>)
                                    => ext'[d].match # f /\ Given(d)'
            BY DEF Undone
        <3>2. CASE d = e
            <4>1. ext'[d].match # f BY <1>4, <1>5, <1>24, <3>2, LeaveAssumption
            <4> QED BY <2>7, <3>2, <4>1
        <3>3. CASE d # e
            BY <1>5, <1>16, <2>3, <2>4, <2>5, <3>3 DEF Credited, Undone
        <3> QED BY <3>2, <3>3
    <2>10. CreditMatches'
        <3>1. ASSUME NEW f \in Forms
              PROVE  Total(OfAmong(entries', f, CreditTypes)) =
                        IF \E d \in Externals : ext'[d].match = f
                        THEN Minutes[request'[f].slot] ELSE 0
            <4>1. CASE f # old
                <5>1. f # new BY <1>24, LeaveAssumption
                <5> QED BY <1>6, <1>17, <1>18, <1>19, <2>6, <4>1, <5>1
            <4>2. CASE f = old
                <5>1. Total(OfAmong(entries, f, CreditTypes)) = net
                    BY <1>9, <1>17, <1>24, <4>2 DEF Fits, old
                <5>2. ~\E d \in Externals : ext'[d].match = f
                    BY <1>4, <1>5, <1>9, <1>24, <4>2 DEF Fits
                <5> QED BY <1>11, <2>6, <4>2, <5>1, <5>2
            <4> QED BY <4>1, <4>2
        <3> QED BY <3>1 DEF CreditMatches, Of, OfAmong, CreditTypes
    <2> QED BY <2>8, <2>9, <2>10 DEF Credited
<1>25. CASE old = NoForm /\ new # NoForm
    <2> DEFINE k == <<e, "match", new, net>>
    <2>1. entries' = Appended(entries, k, new, "external_reconcile", net)
        BY <1>1, <1>25 DEF left, Matched
    <2>2. ~Given(e) BY <1>15, <1>25
    <2>3. \A f \in Forms : \A n : /\ ~Has(entries, <<e, "match", f, n>>)
                                   /\ ~Has(entries, <<e, "unmatch", f, n>>)
        BY <1>25, <2>2, LeaveAssumption DEF Credited, Undone, old
    <2>4. ~Has(entries, k) BY <1>7, <1>25, <2>3
    <2>5. \A d, f, n : <<d, "unmatch", f, n>> # k BY "match" # "unmatch"
    <2>6. \A d, f, n : <<d, "match", f, n>> = k => d = e /\ f = new OBVIOUS
    <2>7. live /\ new \in Forms /\ Fits(e, s, net, new) BY <1>2, <1>7, <1>25
    <2>8. \A j : Has(entries', j) <=> Has(entries, j) \/ j = k
        <3> HIDE DEF k, left
        <3> QED BY <2>1, AppendedHas
    <2>9. \A f : Total(OfAmong(entries', f, CreditTypes)) =
            Total(OfAmong(entries, f, CreditTypes)) + (IF f = new THEN net ELSE 0)
        <3>1. "external_reconcile" \in CreditTypes BY DEF CreditTypes
        <3> HIDE DEF k, left
        <3> QED BY <1>11, <2>1, <2>4, <3>1, AppendedTotal
    <2>10. MatchPosted'
        <3>1. SUFFICES ASSUME NEW d \in Externals, ext'[d].match # NoForm
                       PROVE  /\ ext'[d].state = "active" /\ Alike(d, ext[d].match)'
                              /\ Has(entries', <<d, "match", ext'[d].match, ext'[d].net>>)
            BY DEF MatchPosted
        <3>2. CASE d = e
            <4>1. Has(entries', k) BY <2>8
            <4> QED BY <1>4, <1>5, <1>14, <2>7, <3>2, <4>1
        <3>3. CASE d # e
            <4>1. ext'[d] = ext[d] /\ ext[d].match \in Forms
                BY <1>5, <3>1, <3>3 DEF LInv, FieldsOK, Records
            <4> HIDE DEF k, left
            <4> QED BY <1>12, <2>8, <3>1, <3>3, <4>1 DEF Credited, MatchPosted
        <3> QED BY <3>2, <3>3
    <2> HIDE DEF k, left
    <2>11. Undone'
        <3>1. SUFFICES ASSUME NEW d \in Externals, NEW f \in Forms, NEW n
                       PROVE  /\ Has(entries', <<d, "match", f, n>>)
                                    => ext'[d].match = f \/ Given(d)'
                              /\ Has(entries', <<d, "unmatch", f, n>>)
                                    => ext'[d].match # f /\ Given(d)'
            BY DEF Undone
        <3>2. CASE d = e
            <4>1. ext'[e].match = new BY <1>4, <1>5
            <4> QED BY <2>3, <2>5, <2>6, <2>8, <3>2, <4>1
        <3>3. CASE d # e
            BY <1>5, <1>16, <2>5, <2>6, <2>8, <3>3 DEF Credited, Undone
        <3> QED BY <3>2, <3>3
    <2>12. CreditMatches'
        <3>1. ASSUME NEW f \in Forms
              PROVE  Total(OfAmong(entries', f, CreditTypes)) =
                        IF \E d \in Externals : ext'[d].match = f
                        THEN Minutes[request'[f].slot] ELSE 0
            <4>1. CASE f # new
                <5>1. f # old BY <1>25, LeaveAssumption
                <5> QED BY <1>6, <1>17, <1>18, <1>19, <2>9, <4>1, <5>1
            <4>2. CASE f = new
                <5>1. ~\E d \in Externals : ext[d].match = f
                    BY <1>25, <2>7, <4>2 DEF Fits, old
                <5>2. Total(OfAmong(entries, f, CreditTypes)) = 0 BY <1>17, <5>1
                <5>3. ext'[e].match = f BY <1>4, <1>5, <4>2
                <5>4. Minutes[request'[f].slot] = net BY <1>6, <2>7, <4>2 DEF Fits
                <5> QED BY <1>11, <2>9, <4>2, <5>2, <5>3, <5>4
            <4> QED BY <4>1, <4>2
        <3> QED BY <3>1 DEF CreditMatches, Of, OfAmong, CreditTypes
    <2> QED BY <2>10, <2>11, <2>12 DEF Credited
<1> QED BY <1>10, <1>22, <1>23, <1>24, <1>25

LEMMA InitCredited ==
    ASSUME LeaveInit
    PROVE  Credited
<1>1. entries = {} /\ \A e \in Externals : ext[e].match = NoForm BY DEF LeaveInit
<1>2. MatchPosted /\ Undone BY <1>1 DEF MatchPosted, Undone, Has
<1>3. \A f \in Forms : OfAmong(entries, f, CreditTypes) = {} BY <1>1 DEF OfAmong
<1>4. Total({}) = 0 BY FS_EmptySet, TotalStep
<1>5. CreditMatches BY <1>1, <1>3, <1>4, CreditIs, LeaveAssumption
<1> QED BY <1>2, <1>5 DEF Credited

\* The two sets of entries have the same entries of the sync.
SameSync(es, new) ==
    /\ Amounts(new)
    /\ \A g : Total(OfAmong(new, g, CreditTypes)) = Total(OfAmong(es, g, CreditTypes))
    /\ \A e, a, g, n : Has(new, <<e, a, g, n>>) <=> Has(es, <<e, a, g, n>>)

\* A submission or a review: the entries it writes are its own.
LEMMA ReviewCredited ==
    ASSUME LInv, Posted, Credited, NEW f \in Forms,
           Submit(f) \/ Approve(f) \/ Decline(f) \/ CancelPending(f)
    PROVE  Credited'
<1>1. request[f].effect # "applied"
    BY DEF Submit, Approve, Decline, CancelPending, Posted, Waiting
<1>2. UNCHANGED ext /\ \A g \in Forms : g # f => request'[g] = request[g]
    BY DEF Submit, Approve, Decline, CancelPending, Compensate, LInv, FieldsOK
<1>3. SameSync(entries, entries) BY DEF Posted, SameSync
<1>4. ASSUME NEW es, SameSync(entries, es), NEW r, NEW type \in LocalTypes, NEW amount \in Int
      PROVE  SameSync(entries, AddEntry(es, f, r, type, amount))
    <2> DEFINE new == AddEntry(es, f, r, type, amount)
    <2>1. /\ Amounts(new)
          /\ \A g : Total(OfAmong(new, g, CreditTypes)) = Total(OfAmong(es, g, CreditTypes))
          /\ \A e, a, g, n : Has(new, <<e, a, g, n>>) <=> Has(es, <<e, a, g, n>>)
        BY <1>4, LocalEntryAside DEF SameSync
    <2> HIDE DEF new
    <2>2. SameSync(entries, new) BY <1>4, <2>1 DEF SameSync
    <2> QED BY <2>2 DEF new
<1>5. /\ Minutes[request[f].slot] \in Int /\ -Minutes[request[f].slot] \in Int
      /\ -Minutes[asked[f].slot] \in Int
    BY LeaveAssumption DEF LInv, FieldsOK, Requests
<1>6. "reserve" \in LocalTypes /\ "release" \in LocalTypes /\ "local_consume" \in LocalTypes
    BY DEF LocalTypes
<1>7. \A es : SameSync(entries, es) =>
        SameSync(entries, Released(es, f)) /\ SameSync(entries, Consumed(es, f))
    BY <1>4, <1>5, <1>6 DEF Released, Consumed
<1>8. ASSUME Submit(f) PROVE SameSync(entries, entries')
    <2>1. SameSync(entries, AddEntry(entries, f, Submitted(f), "reserve", -Minutes[asked[f].slot]))
        BY <1>3, <1>4, <1>5, <1>6
    <2>2. entries' \in {AddEntry(entries, f, Submitted(f), "reserve", -Minutes[asked[f].slot]), entries}
        BY <1>8 DEF Submit
    <2> QED BY <1>3, <2>1, <2>2
<1>9. ASSUME Approve(f) \/ Decline(f) \/ CancelPending(f) PROVE SameSync(entries, entries')
    <2>1. entries' \in {Consumed(Released(entries, f), f), Released(entries, f)}
        BY <1>9 DEF Approve, Decline, CancelPending, Compensate
    <2> QED BY <1>3, <1>7, <2>1
<1>10. SameSync(entries, entries') BY <1>8, <1>9
<1> QED BY <1>1, <1>2, <1>10, RequestCredited DEF SameSync

LEMMA NextCredited ==
    ASSUME Stable, LInv, Posted, Credited, [LeaveNext]_leaveVars
    PROVE  Credited'
<1>1. ASSUME UNCHANGED <<request, ext, entries>> PROVE Credited'
    <2>1. \A e \in Externals : Given(e)' <=> Given(e) BY <1>1 DEF Given, Alike, Free
    <2>2. MatchPosted' BY <1>1 DEF Credited, MatchPosted, Alike
    <2>3. Undone' BY <1>1, <2>1 DEF Credited, Undone
    <2>4. CreditMatches' BY <1>1 DEF Credited, CreditMatches, Of
    <2> QED BY <2>2, <2>3, <2>4 DEF Credited
<1>2. CASE \E f \in Forms : Submit(f) \/ Approve(f) \/ Decline(f) \/ CancelPending(f)
    BY <1>2, ReviewCredited
<1>3. CASE \E e \in Externals : SyncRecord(e)
    <2>1. PICK e \in Externals, s \in Slots, t \in Slots :
            /\ \/ ext[e].state = "absent"
               \/ ext[e].state = "active" /\ ext[e].slot = s /\ ext[e].net = Minutes[t]
            /\ Reconcile(e, s, Minutes[t], TRUE)
        BY <1>3 DEF SyncRecord
    <2>2. AsItWas(e, s, Minutes[t], TRUE) BY <2>1 DEF AsItWas
    <2> QED BY <2>1, <2>2, ReconcileCredited DEF Posted
<1>4. CASE \E e \in Externals : Tombstone(e)
    <2>1. PICK e \in Externals : Tombstone(e) BY <1>4
    <2>2. ext[e].slot \in Slots /\ ext[e].net \in {Minutes[t] : t \in Slots}
        BY DEF LInv, FieldsOK, Records
    <2>3. AsItWas(e, ext[e].slot, ext[e].net, FALSE) BY <2>1 DEF AsItWas, Tombstone
    <2> QED BY <2>1, <2>2, <2>3, ReconcileCredited DEF Tombstone, Posted
<1>5. CASE (\E f \in Forms : Evaluate(f) \/ Refused(f)) \/ SyncBalance \/ UNCHANGED leaveVars
    BY <1>1, <1>5 DEF Evaluate, Refused, SyncBalance, leaveVars
<1> QED BY <1>2, <1>3, <1>4, <1>5 DEF LeaveNext

\* If eHRMS neither edits a record nor brings one back, a form is credited its
\* minutes exactly while a record is matched with it, in whatever order records,
\* forms that are alike, approvals and deletions come.
THEOREM CreditsWhatIsMatched ==
    ASSUME Stable
    PROVE  LeaveSpec => []CreditMatches
<1>1. LeaveInit => Credited BY InitCredited
<1>2. LInv /\ Posted /\ Credited /\ [LeaveNext]_leaveVars => Credited' BY NextCredited
<1>3. Credited => CreditMatches BY DEF Credited
<1> QED BY <1>1, <1>2, <1>3, Invariant, PostedInvariant, PTL DEF LeaveSpec
=============================================================================
