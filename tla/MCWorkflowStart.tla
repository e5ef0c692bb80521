-------------------------- MODULE MCWorkflowStart --------------------------
(***************************************************************************)
(* Small instances of WorkflowStart for TLC.                               *)
(***************************************************************************)
EXTENDS WorkflowStart

CONSTANTS d1, r1, t1, t2, t3

Two == {d1, r1}
ThreeTokens == {t1, t2, t3}

=============================================================================
