----------------------------- MODULE MCProgress -----------------------------
(***************************************************************************)
(* What must come to an end, in one run: part says whether a behaviour     *)
(* takes the relationship tuples to OpenFGA, the accounts to Keycloak, or  *)
(* talks with an agent in a session.  The other two rest.                  *)
(***************************************************************************)
EXTENDS RelationshipSync, IdentityProvisioning, AgentSession

CONSTANTS t1, d2, l1, l2, n1, w2, q1

VARIABLE part

allVars == <<relVars, idpVars, chatVars, part>>

Init ==
    /\ part \in {"tuples", "identity", "chat"}
    /\ RelInit /\ IdpInit /\ ChatInit
    /\ part # "tuples" => ~stream

\* The first change writes the tuple and the second deletes it.  A stream has one
\* dispatcher.
Tupled ==
    /\ RelNext
    /\ \A i \in DOMAIN log' : log'[i].op = IF i = 1 THEN "write" ELSE "delete"
    /\ stream => at'[d2] = 0
    /\ UNCHANGED <<idpVars, chatVars>>

\* The job is that of the first account, and logins are those of the second, where
\* nobody is linked.  The second worker does not stop.
Provisioned ==
    /\ IdpNext
    /\ job'[1].account \in {Nobody, l1} /\ job'[1].employee \in {Nobody, n1}
    /\ sso'.account \in {Nobody, l2}
    /\ sso.step = "idle" /\ sso'.step # "idle" => link[sso'.mail] = Nobody
    /\ desk[w2].step # "idle" => desk'[w2].step # "idle" \/ job'[1].status # "processing"
    /\ UNCHANGED <<relVars, chatVars>>

\* The first request comes under the longest limit and may be lost, the second
\* under any.
Talked ==
    /\ ChatNext
    /\ chat'[q1].step = "opened" => chat'[q1].limit = Longest
    /\ \A r \in Requests \ {q1} : chat'[r].step # "gone"
    /\ UNCHANGED <<relVars, idpVars>>

Next ==
    /\ \/ part = "tuples" /\ Tupled
       \/ part = "identity" /\ Provisioned
       \/ part = "chat" /\ Talked
    /\ UNCHANGED part

Spec == Init /\ [][Next]_allVars

\* Where there is talk in the session: a request goes on and its user tries again,
\* a transaction ends, time passes.
ChatFairness ==
    /\ \A r \in Requests :
        /\ WF_chatVars(part = "chat" /\ Proceeds(r))
        /\ WF_chatVars(part = "chat" /\ RunAges(r))
    /\ WF_chatVars(part = "chat" /\ EndClear)

\* Another machine that rests has nothing to do, and so nothing is asked of it.
FairSpec == Spec /\ PipelineFairness /\ IdpFairness /\ ChatFairness

\* ChangesEnd of RelationshipSync and JobsEnd of IdentityProvisioning: every tuple
\* change that was committed and every provisioning job is delivered at last, or
\* given up where somebody can see it.
DeliveriesEnd == ChangesEnd /\ JobsEnd

\* ChatsEnd of AgentSession, where somebody talks in the session.
QuestionsEnd == part = "chat" => ChatsEnd
=============================================================================
