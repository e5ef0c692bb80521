---------------------------- MODULE FormLifecycle ----------------------------
(***************************************************************************)
(* What a form promises its applicant and its reviewers: it is edited and  *)
(* submitted only while it is with the applicant, every submission opens   *)
(* one round of review, a round is decided once, and a decision other than *)
(* a return is final.  FormApproval.tla implements it.                     *)
(***************************************************************************)
EXTENDS Naturals

VARIABLES status, round

lvars == <<status, round>>

LifeInit == status = "draft" /\ round = 0

SubmitForm ==
    /\ status \in {"draft", "returned"}
    /\ status' = "in_review" /\ round' = round + 1

Decide ==
    /\ status = "in_review"
    /\ status' \in {"returned", "approved", "rejected", "cancelled"}
    /\ UNCHANGED round

LifeNext == SubmitForm \/ Decide

LifeSpec == LifeInit /\ [][LifeNext]_lvars
=============================================================================
