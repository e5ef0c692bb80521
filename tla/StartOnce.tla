------------------------------ MODULE StartOnce ------------------------------
(***************************************************************************)
(* What the delivery of a submitted run to Temporal promises: it is        *)
(* resolved once, either started, with the approvers told exactly once, or *)
(* abandoned, with nobody told, and it does not stay unresolved for ever.  *)
(* WorkflowStart.tla implements it.                                        *)
(***************************************************************************)
EXTENDS Naturals

VARIABLES outcome, told

svars == <<outcome, told>>

OnceInit == outcome = "unresolved" /\ told = 0

Start == outcome = "unresolved" /\ outcome' = "started" /\ told' = 1

Abandon == outcome = "unresolved" /\ outcome' = "abandoned" /\ UNCHANGED told

OnceNext == Start \/ Abandon

OnceSpec == OnceInit /\ [][OnceNext]_svars

FairOnceSpec == OnceSpec /\ WF_svars(OnceNext)
=============================================================================
