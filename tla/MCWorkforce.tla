---------------------------- MODULE MCWorkforce ----------------------------
(***************************************************************************)
(* Six machines that do not touch each other's tables, in one run: part    *)
(* says which of them a behaviour runs, the others rest in their initial   *)
(* states.  They are the employees and their accounts, the delivery of     *)
(* tuples, the identities, the organisation units, the leave ledger, and   *)
(* the confirmations.                                                      *)
(***************************************************************************)
EXTENDS Employment, IdentityProvisioning, OrgTree, LeaveLedger, AgentConfirmation

CONSTANTS
    c1, c2, e1, e2, h1, h2, a1, d2, l1, l2, n1, w1, w2,
    u1, u2, u3, s1, q1, q2, f1, f2, r1, r2, short, long

VARIABLE part

allVars == <<empVars, idpVars, orgVars, leaveVars, confVars>>

MCMinutes == [s \in Slots |-> IF s = short THEN 1 ELSE 2]
MCTuples == StaffTuples \cup {<<"unit">>}
MCPlace == [e \in People |-> [unit |-> IF e = 2 THEN u2 ELSE u1, position |-> s1]]

Init ==
    /\ part \in {"staff", "tuples", "identity", "org", "leave", "agent"}
    /\ EmpInit /\ IdpInit /\ OrgInit /\ LeaveInit /\ ConfInit
    /\ part # "leave" => snapshot = 0
    /\ part # "tuples" => ~stream

-----------------------------------------------------------------------------
\* Each machine, and how far it goes

\* The second request begins while the first is under way, and both do what
\* changes an account or a link.  The first employee is hired first, and nothing
\* follows a row that was written back.
Racing == {"create_active", "update", "delete", "reinstate", "invite", "sync_active"}

StaffPart ==
    /\ \/ Request(h1, Racing)
       \/ Request(h2, IF tx[h1].step = "idle" THEN {} ELSE Racing)
    /\ crossed = {}
    /\ emp'[e2].status # "absent" => emp[e1].status # "absent"
    /\ UNCHANGED <<idpVars, orgVars, leaveVars, confVars>>

\* Another tuple is written and then deleted.  A stream has one dispatcher, and two
\* consumers, of which the first begins while they do and remember the same.
TuplesPart ==
    /\ OtherTuples \/ Delivery
    /\ Len(log') <= 2
    /\ \A i \in DOMAIN log' : log'[i].op = IF i = 1 THEN "write" ELSE "delete"
    /\ stream => at'[d2] = 0
    /\ on[c1] = 0 /\ on[c2] = 0 /\ processed[c1] = processed[c2] => on'[c2] = 0
    /\ UNCHANGED <<idpVars, orgVars, leaveVars, confVars>>

\* Either job has an employee and an account of its own and the first is appended
\* first; the idle worker that is named first takes the next job.  With the first job
\* the lease may run out, a worker may stop and Keycloak may fail; the second is done
\* in one attempt.  Nothing follows a race for the link.
IdentityPart ==
    /\ IdpNext
    /\ raced = {}
    /\ job'[1].account \in {Nobody, l1} /\ job'[2].account \in {Nobody, l2}
    /\ job'[1].employee \in {Nobody, n1} /\ job'[2].employee # n1
    /\ job'[2].status = "processing" =>
        /\ job'[2].live
        /\ \A w \in Provisioners :
            desk[w].step # "idle" /\ desk[w].job = 2 => desk'[w].step \notin {"idle", "retry"}
    /\ job'[2].account # Nobody => job[1].account # Nobody
    /\ sso'.account \in {Nobody, l1}
    /\ desk[w1].step = "idle" /\ desk[w2].step = "idle" => desk'[w2].step = "idle"
    /\ UNCHANGED <<empVars, orgVars, leaveVars, confVars>>

\* An edit that is overtaken moves a unit in an open tree, and nothing follows a
\* crossing.  The second unit keeps its chief, and the third has none while two edit.
Moves(t) ==
    /\ t.before.here /\ t.next.parent # t.before.parent
    /\ t.next.chief = t.before.chief /\ ~t.next.closed

Under(p) == edit'[p].step = "write"

OrgPart ==
    /\ OrgNext
    /\ ~uneven
    /\ \A q \in Editors : Under(q) /\ edit'[q].u = u2 => edit'[q].next.chief = s1
    /\ Under(q2) /\ edit[q2].step = "idle" => Under(q1)
    /\ Under(q1) /\ Under(q2) =>
        /\ Moves(edit'[q1]) /\ Moves(edit'[q2]) /\ \A u \in OrgUnits : ~unit[u].closed
        /\ unit[u3].chief = NoPosition
    /\ \A q \in Editors : Under(q) /\ ~edit'[q].newest => Moves(edit'[q])
    /\ UNCHANGED <<empVars, idpVars, leaveVars, confVars>>

\* The first form is submitted first and up to twice, the second for the long leave
\* alone.  eHRMS numbers its records; the second has the minutes of its leave, and
\* stays.
LeavePart ==
    /\ LeaveNext
    /\ request'[f2].cycle <= (IF request[f1].cycle = 0 THEN 0 ELSE 1)
    /\ ext'[r2].state # "deleted"
    /\ asked'[f2].under => asked'[f2].slot = long
    /\ ext'[r2].state # "absent" => ext'[r1].state # "absent"
    /\ ext'[r2].net = Minutes[ext'[r2].slot]
    /\ UNCHANGED <<empVars, idpVars, orgVars, confVars>>

AgentPart == ConfNext /\ UNCHANGED <<empVars, idpVars, orgVars, leaveVars>>

Next ==
    /\ \/ part = "staff" /\ StaffPart
       \/ part = "tuples" /\ TuplesPart
       \/ part = "identity" /\ IdentityPart
       \/ part = "org" /\ OrgPart
       \/ part = "leave" /\ LeavePart
       \/ part = "agent" /\ AgentPart
    /\ UNCHANGED part

Spec == Init /\ [][Next]_<<allVars, part>>
=============================================================================
