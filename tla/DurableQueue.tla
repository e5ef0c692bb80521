---------------------------- MODULE DurableQueue ----------------------------
(***************************************************************************)
(* What the transactional outbox promises to the code that appends to it:  *)
(* an event is worked on until its effect has been delivered or the system *)
(* gives it up in a way an operator can see and undo.  It says nothing of  *)
(* workers, claims, leases or attempts; Outbox.tla implements it.  So does *)
(* RelationshipSync.tla, of which the outbox is a part.                    *)
(***************************************************************************)
CONSTANT Events

VARIABLES
    job,        \* job[e]: where event e stands
    delivered   \* the events whose handler has taken effect at least once

qvars == <<job, delivered>>

JobStates == {"absent", "todo", "done", "givenUp", "gone"}

QueueTypeOK ==
    /\ job \in [Events -> JobStates]
    /\ delivered \subseteq Events

QueueInit ==
    /\ job = [e \in Events |-> "absent"]
    /\ delivered = {}

Move(e, from, to) ==
    /\ job[e] = from
    /\ job' = [job EXCEPT ![e] = to]

\* The events of one transaction are there together.
Submit(new) ==
    /\ \A e \in new : job[e] = "absent"
    /\ job' = [e \in Events |-> IF e \in new THEN "todo" ELSE job[e]]
    /\ UNCHANGED delivered

\* A worker that lost its claim may still deliver, so an event that was given
\* up can be delivered late; one that is done has been delivered already.
Deliver(e) ==
    /\ job[e] \in {"todo", "givenUp"}
    /\ delivered' = delivered \cup {e}
    /\ UNCHANGED job

\* The last delivery and what the system makes of it may be one step.
Finish(e) == Move(e, "todo", "done") /\ delivered' = delivered \cup {e}

GiveUp(e) == Move(e, "todo", "givenUp") /\ delivered' \in {delivered, delivered \cup {e}}

Rearm(e) == Move(e, "givenUp", "todo") /\ UNCHANGED delivered

Forget(e) == Move(e, "done", "gone") /\ UNCHANGED delivered

QueueNext ==
    \/ \E new \in SUBSET Events : Submit(new)
    \/ \E e \in Events : Deliver(e) \/ Finish(e) \/ GiveUp(e) \/ Rearm(e) \/ Forget(e)

QueueSpec == QueueInit /\ [][QueueNext]_qvars
=============================================================================
