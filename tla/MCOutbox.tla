------------------------------ MODULE MCOutbox ------------------------------
(***************************************************************************)
(* Small instances of Outbox for TLC.  There is a row of every kind, and a *)
(* behaviour appends two of them, or one of those that are alike but for   *)
(* what their handler answers.                                             *)
(***************************************************************************)
EXTENDS Outbox, TLC

CONSTANTS e1, e2, e3, e4, w1, w2

MCEvents == {e1, e2, e3, e4}
MCWorkers == {w1, w2}
MCTokens == 1..4

MCKind == e1 :> "relationship" @@ e2 :> "unsupported"
            @@ e3 :> "workflow_start" @@ e4 :> "model_sync"

VARIABLE here   \* the rows of this behaviour

\* Fresh tokens differ in nothing but their names: a claim takes the least.
LeastToken ==
    \A w \in Workers :
        \/ wToken'[w] \in {wToken[w], NoToken}
        \/ \A t \in Tokens : FreshToken(t) => wToken'[w] <= t

MCInit == Init /\ here \in {{e1, e2}, {e3}, {e4}}

MCNext ==
    /\ \/ \E e \in here : RowNext(e)
       \/ \E w \in Workers : WorkerNext(w)
    /\ LeastToken
    /\ UNCHANGED here

MCSpec == MCInit /\ [][MCNext]_<<vars, here>>

MCFairSpec == MCSpec /\ Fairness
=============================================================================
