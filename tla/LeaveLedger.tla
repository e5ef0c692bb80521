----------------------------- MODULE LeaveLedger -----------------------------
(***************************************************************************)
(* One annual leave balance of one employee                                *)
(* (src/internal/service/workflow_leave_adapter.go and the attendance_leave*)
(* services).  Leave forms reserve minutes when they are submitted and     *)
(* consume or release them when they are reviewed; the upstream HR system  *)
(* (eHRMS) sends what remains and which leave it knows of, and a leave it  *)
(* knows of too is credited back, because its figure has it already.       *)
(*                                                                         *)
(* A submission holds the lock of the balance row from its second reading  *)
(* of the balance to its commit, and so does a sync from its first record; *)
(* the entries of a review wait for that lock.  Each is one step here; what*)
(* a submission read before the lock is Evaluate.  FormApproval.tla is the *)
(* model of the forms.                                                     *)
(***************************************************************************)
EXTENDS Integers, FiniteSetsExt

CONSTANTS
    Forms, Externals,   \* leave forms, and leave records of eHRMS
    Slots, Minutes,     \* intervals that may be asked for, and the minutes each takes
    Snapshots,          \* what eHRMS may say remains
    NoForm,
    Stable,             \* eHRMS neither edits a record nor brings one back
    MaxCycles

ASSUME LeaveAssumption ==
    /\ NoForm \notin Forms /\ IsFiniteSet(Forms) /\ Slots # {}
    /\ Minutes \in [Slots -> Nat \ {0}]
    /\ Snapshots \subseteq Nat
    /\ Stable \in BOOLEAN
    /\ MaxCycles \in Nat

VARIABLES
    form,       \* status of the form
    asked,      \* what a submission that is under way asks for and read of the balance
    request,    \* the leave request and its record
    ext,        \* the eHRMS records
    snapshot,   \* remaining minutes of the balance row; 0 for one that is missing
    entries     \* leave_balance_entries

leaveVars == <<form, asked, request, ext, snapshot, entries>>

Requests ==
    [effect : {"none", "not_applied", "applied", "compensated"}, cycle : 0..MaxCycles,
     slot : Slots, required : BOOLEAN,
     recon : {"not_required", "nexus_only", "matched", "mismatch", "ambiguous"}]

Records ==
    [state : {"absent", "active", "deleted"}, slot : Slots, net : {Minutes[s] : s \in Slots},
     match : Forms \cup {NoForm}]

EntryTypes == {"reserve", "release", "local_consume", "external_reconcile", "external_reversal"}

NotAsked == [under |-> FALSE, slot |-> CHOOSE s \in Slots : TRUE, enough |-> FALSE]

LeaveTypeOK ==
    /\ form \in [Forms -> {"draft", "in_review", "returned", "auto_approved", "closed"}]
    /\ asked \in [Forms -> [under : BOOLEAN, slot : Slots, enough : BOOLEAN]]
    /\ request \in [Forms -> Requests]
    /\ ext \in [Externals -> Records]
    /\ snapshot \in Nat
    /\ \A x \in entries :
        /\ x.type \in EntryTypes
        /\ x.amount > 0 <=> x.type \in {"release", "external_reconcile"}
        /\ \A y \in entries : x.key = y.key => x = y

LeaveInit ==
    LET s == CHOOSE t \in Slots : TRUE IN
    /\ form = [f \in Forms |-> "draft"]
    /\ asked = [f \in Forms |-> NotAsked]
    /\ request = [f \in Forms |-> [effect |-> "none", cycle |-> 0, slot |-> s,
                                   required |-> FALSE, recon |-> "not_required"]]
    /\ ext = [e \in Externals |-> [state |-> "absent", slot |-> s, net |-> Minutes[s],
                                   match |-> NoForm]]
    /\ snapshot \in Snapshots
    /\ entries = {}

-----------------------------------------------------------------------------
\* The overlay

Amount(x) == x.amount

Total(es) == MapThenSumSet(Amount, es)

Available == snapshot + Total(entries)

\* ON CONFLICT (tenant_id, idempotency_key) DO NOTHING
Appended(es, k, f, type, amount) ==
    IF \E x \in es : x.key = k THEN es
    ELSE es \cup {[key |-> k, form |-> f, type |-> type, amount |-> amount]}

\* Mutant: the key of an entry leaves out the cycle.
Key_NoCycle(f, cycle, type) == <<f, 0, type>>

Key(f, cycle, type) == <<f, cycle, type>>

AddEntry(es, f, r, type, amount) == Appended(es, Key(f, r.cycle, type), f, type, amount)

-----------------------------------------------------------------------------
\* Submissions

\* The submission evaluates the request against a balance it has not locked.
Evaluate(f) ==
    /\ form[f] \in {"draft", "returned"} /\ ~asked[f].under
    /\ request[f].cycle < MaxCycles
    /\ \E s \in Slots :
        asked' = [asked EXCEPT ![f] =
            [under |-> TRUE, slot |-> s, enough |-> Available >= Minutes[s]]]
    /\ UNCHANGED <<form, request, ext, snapshot, entries>>

\* Mutant: what was read before the lock is good enough.
Reserves_Unlocked(f) == asked[f].enough

\* Too little before the lock or under it, and the request goes on without.
Reserves(f) == asked[f].enough /\ Available >= Minutes[asked[f].slot]

Submitted(f) ==
    [effect |-> "not_applied", cycle |-> request[f].cycle + 1, slot |-> asked[f].slot,
     required |-> Reserves(f), recon |-> "not_required"]

\* The run is started before the request is made.  A route without approvers
\* approves the form there and then: a request that is there already becomes
\* applied, and the submission is refused; a new one comes too late for it.
Submit(f) ==
    /\ asked[f].under
    /\ request[f].effect \in {"none", "compensated"}
    /\ request' = [request EXCEPT ![f] = Submitted(f)]
    /\ entries' = IF Reserves(f)
                  THEN AddEntry(entries, f, Submitted(f), "reserve", -Minutes[asked[f].slot])
                  ELSE entries
    /\ \/ form' = [form EXCEPT ![f] = "in_review"]
       \/ request[f].effect = "none" /\ form' = [form EXCEPT ![f] = "auto_approved"]
    /\ asked' = [asked EXCEPT ![f] = NotAsked]
    /\ UNCHANGED <<ext, snapshot>>

\* An error anywhere in it rolls the submission back.
Refused(f) ==
    /\ asked[f].under
    /\ asked' = [asked EXCEPT ![f] = NotAsked]
    /\ UNCHANGED <<form, request, ext, snapshot, entries>>

-----------------------------------------------------------------------------
\* Reviews: applyLeaveWorkflowReview

Released(es, f) ==
    IF request[f].required
    THEN AddEntry(es, f, request[f], "release", Minutes[request[f].slot]) ELSE es

Consumed(es, f) ==
    IF request[f].required
    THEN AddEntry(es, f, request[f], "local_consume", -Minutes[request[f].slot]) ELSE es

Approve(f) ==
    /\ form[f] = "in_review" /\ request[f].effect # "applied"
    /\ form' = [form EXCEPT ![f] = "closed"]
    /\ entries' = Consumed(Released(entries, f), f)
    /\ request' = [request EXCEPT ![f].effect = "applied", ![f].recon = "nexus_only"]
    /\ UNCHANGED <<asked, ext, snapshot>>

Compensate(f, status) ==
    /\ request[f].effect # "compensated"
    /\ form' = [form EXCEPT ![f] = status]
    /\ entries' = Released(entries, f)
    /\ request' = [request EXCEPT ![f].effect = "compensated"]
    /\ UNCHANGED <<asked, ext, snapshot>>

\* Reviewers reject or return; the applicant withdraws.
Decline(f) == form[f] = "in_review" /\ \E status \in {"returned", "closed"} : Compensate(f, status)

\* A start that is still pending is cancelled, even of an approved form.
CancelPending(f) == form[f] = "auto_approved" /\ Compensate(f, "closed")

-----------------------------------------------------------------------------
\* The sync

\* UpsertLeaveBalance
SyncBalance ==
    /\ snapshot' \in Snapshots
    /\ UNCHANGED <<form, asked, request, ext, entries>>

Active(f) == request[f].effect = "applied"

\* Mutant: a form may be matched twice.
Claimed_Never(e) == {}

\* Forms that other eHRMS records are matched with.
Claimed(e) == {ext[d].match : d \in Externals \ {e}}

Candidates(e) == {f \in Forms : Active(f)} \ Claimed(e)

\* matchNexusLeaveRecord: the only candidate that says the same.
Matching(e, s, net) ==
    LET same == {f \in Candidates(e) : request[f].slot = s /\ Minutes[s] = net} IN
    IF Cardinality(same) = 1 THEN CHOOSE f \in same : TRUE ELSE NoForm

\* Mutant: no reversal.
Unmatched_Kept(es, e, f, net) == es

\* appendExternalReconciliation: the key names the record, the action, the form
\* and the minutes.
Unmatched(es, e, f, net) ==
    Appended(es, <<e, "unmatch", f, net>>, f, "external_reversal", -net)

Matched(es, e, f, net) ==
    Appended(es, <<e, "match", f, net>>, f, "external_reconcile", net)

Verdict(e) ==
    IF Cardinality(Candidates(e)) = 1 THEN "mismatch" ELSE "ambiguous"

\* What the requests say of it afterwards: the one that was left, the one that
\* was found, or all candidates if none was.
Told(e, old, new, live) ==
    [f \in Forms |->
        IF f = new THEN "matched"
        ELSE IF live /\ new = NoForm /\ f \in Candidates(e) THEN Verdict(e)
        ELSE IF f = old THEN "nexus_only"
        ELSE request[f].recon]

\* reconcileEHRMSLeaveRecord, after the record was written with what it matched.
Reconcile(e, s, net, live) ==
    LET old == ext[e].match
        new == IF live THEN Matching(e, s, net) ELSE NoForm
        left == IF old \notin {NoForm, new} THEN Unmatched(entries, e, old, net) ELSE entries
    IN  /\ ext' = [ext EXCEPT ![e] = [state |-> IF live THEN "active" ELSE "deleted",
                                      slot |-> s, net |-> net, match |-> new]]
        /\ entries' = IF new = NoForm THEN left ELSE Matched(left, e, new, net)
        /\ request' = [f \in Forms |-> [request[f] EXCEPT !.recon = Told(e, old, new, live)[f]]]
        /\ UNCHANGED <<form, asked, snapshot>>

\* A record of the sync, new or seen again: it is active whatever it was.
SyncRecord(e) ==
    /\ \E s, t \in Slots :
        /\ Stable =>
            \/ ext[e].state = "absent"
            \/ ext[e].state = "active" /\ ext[e].slot = s /\ ext[e].net = Minutes[t]
        /\ Reconcile(e, s, Minutes[t], TRUE)

\* tombstoneMissingEHRMSLeaveRecords: a record the sync no longer has.
Tombstone(e) ==
    /\ ext[e].state = "active"
    /\ Reconcile(e, ext[e].slot, ext[e].net, FALSE)

-----------------------------------------------------------------------------
LeaveNext ==
    \/ \E f \in Forms :
        Evaluate(f) \/ Submit(f) \/ Refused(f) \/ Approve(f) \/ Decline(f) \/ CancelPending(f)
    \/ SyncBalance
    \/ \E e \in Externals : SyncRecord(e) \/ Tombstone(e)

LeaveSpec == LeaveInit /\ [][LeaveNext]_leaveVars

-----------------------------------------------------------------------------
\* Properties

Of(f, types) == {x \in entries : x.form = f /\ x.type \in types}

\* attendance_leave_overlay_service.go: through any number of returns and
\* resubmissions a form holds exactly the minutes of its last submission while
\* that waits or is approved, if it was submitted with a balance, and nothing
\* otherwise.
LedgerAgrees ==
    \A f \in Forms :
        Total(Of(f, {"reserve", "release", "local_consume"})) =
            IF request[f].required /\ request[f].effect \in {"not_applied", "applied"}
            THEN -Minutes[request[f].slot] ELSE 0

\* Two submissions that both saw enough cannot both reserve it.
ReservesWithinBalance ==
    [][\A f \in Forms :
        request'[f].cycle # request[f].cycle /\ request'[f].required => Available' >= 0]_leaveVars

\* The credit of a form is its minutes while an eHRMS record is matched with
\* it, whichever, and nothing when none is any more.
CreditMatches ==
    \A f \in Forms :
        Total(Of(f, {"external_reconcile", "external_reversal"})) =
            IF \E e \in Externals : ext[e].match = f THEN Minutes[request[f].slot] ELSE 0

\* A request says that it is matched exactly when one eHRMS record is matched
\* with it.
ReconAgrees ==
    \A f \in Forms :
        /\ request[f].recon = "matched" <=> \E e \in Externals : ext[e].match = f
        /\ Cardinality({e \in Externals : ext[e].match = f}) <= 1

=============================================================================
