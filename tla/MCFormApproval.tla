--------------------------- MODULE MCFormApproval ---------------------------
(***************************************************************************)
(* Small instances of FormApproval for TLC.  Stage s1 needs one of a and b;*)
(* stage s2 needs all of its approvers, who may not have approved before;  *)
(* stage s3 needs a, again if need be.                                     *)
(***************************************************************************)
EXTENDS FormApproval, TLC

CONSTANTS a, b, s1, s2, s3, a1, a2, b1, b2, ret, rej, out, e1, e2

MCBy == [c \in Commands |-> IF c \in {a1, a2, ret} THEN a ELSE b]

MCAction == [c \in Commands |->
    CASE c = ret -> "return" [] c = rej -> "reject" [] c = out -> "withdraw" [] OTHER -> "approve"]

MCAll == Stages \cap {s2}
MCDistinct == MCAll

MCAssignees == [s \in Stages |-> IF s = s3 THEN {a} ELSE {a, b}]

\* Conditions after s1 choose among the others and the end.
MCFollow == [s \in Stages |-> IF s = s1 THEN (Stages \ {s1}) \cup {End} ELSE {End}]

\* Where a form may be deleted, the second editor does that and the first submits.
Roles == "delete" \in Ops => editing'[e1].op # "delete" /\ editing'[e2].op # "submit"

\* Where it may be submitted again, the first run is returned and the second rejected.
Turns == \A c \in Commands : (c = ret => asked'[c] # 2) /\ (c = rej => asked'[c] # 1)

SmallSpec == Init /\ [][Next /\ Roles /\ Turns]_vars

SmallFairSpec == SmallSpec /\ Fairness

\* Editors are alike where they have the same operations.
Alike == Permutations({e1, e2})
=============================================================================
