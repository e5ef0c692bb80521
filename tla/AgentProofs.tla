----------------------------- MODULE AgentProofs -----------------------------
(***************************************************************************)
(* What the chat agent promises, for any number of requests.  A confirmed  *)
(* action is carried out once: typing, NotReplayed and TargetOnce of       *)
(* AgentConfirmation, from one inductive invariant.  And a session keeps   *)
(* its contexts apart and its answers with their runs: typing,             *)
(* TranscriptsSound and LiveRunsSpared of AgentSession, from another.      *)
(***************************************************************************)
EXTENDS AgentConfirmation, AgentSession, TLAPS

\* A request that is under way has claimed its record, and nobody else has.
Claimed ==
    /\ \A x \in Confirmers : req[x].step # "idle" => conf[req[x].id].status = "executing"
    /\ \A x, y \in Confirmers :
        req[x].step # "idle" /\ req[y].step # "idle" /\ req[x].id = req[y].id => x = y

\* After a reported success nobody may claim the record again, and who has it
\* is about to settle it for good.
Concluded(i) ==
    /\ conf[i].status \in {"executing", "completed", "failed", "expired"}
    /\ \A x \in Confirmers : req[x].step # "idle" /\ req[x].id = i =>
        req[x].step = "settle" /\ req[x].outcome \in {"ok", "unrecorded"}

SuccessKept == \A i \in Confirmations : known[i] => Concluded(i)

\* Nothing happens before the agent prepared it.
Unprepared == \A i \in Confirmations : conf[i].status = "none" => effects[i] = 0 /\ ~known[i]

\* A submission or a decision that took effect has closed its target.
TargetClosed ==
    \A i \in Confirmations :
        conf[i].kind \in {"form", "review"} =>
            effects[i] = 0 \/ (effects[i] = 1 /\ ~target[i].open)

IInv == ConfTypeOK /\ Claimed /\ SuccessKept /\ Unprepared /\ TargetClosed

-----------------------------------------------------------------------------
\* Typing

\* What a request is, and a record.
Confirming == [step : {"idle", "check", "act", "settle"}, id : Confirmations,
               outcome : Outcomes]
Stored == [status : {"none", "pending", "executing"} \cup Settled, kind : Sorts,
           version : 0..MaxVersion]

\* The record of a request that does nothing is one of the type's.
LEMMA QuietTyped == Quiet \in Confirming /\ Quiet.step = "idle"
BY ConfirmationAssumption DEF Quiet, Outcomes, Confirming

\* A request that ends keeps its type, and the others are as they were.
LEMMA EndsTyped ==
    ASSUME req \in [Confirmers -> Confirming], NEW x \in Confirmers, NEW o \in Outcomes,
           Ends(x, o)
    PROVE  /\ req' \in [Confirmers -> Confirming]
           /\ req'[x].step = "settle" /\ req'[x].id = req[x].id /\ req'[x].outcome = o
           /\ \A y \in Confirmers : y # x => req'[y] = req[y]
<1> DEFINE new == [req[x] EXCEPT !.step = "settle", !.outcome = o]
<1>1. req[x] \in Confirming OBVIOUS
<1>2. /\ new \in Confirming
      /\ new.step = "settle" /\ new.id = req[x].id /\ new.outcome = o
    BY <1>1 DEF Confirming
<1>3. req' = [req EXCEPT ![x] = new] BY DEF Ends
<1> QED BY <1>2, <1>3

\* A record that changes its status keeps the rest.
LEMMA StatusTyped ==
    ASSUME conf \in [Confirmations -> Stored], NEW i \in Confirmations,
           NEW status \in {"none", "pending", "executing"} \cup Settled,
           conf' = [conf EXCEPT ![i].status = status]
    PROVE  /\ conf' \in [Confirmations -> Stored]
           /\ conf'[i].status = status /\ conf'[i].kind = conf[i].kind
           /\ \A j \in Confirmations : j # i => conf'[j] = conf[j]
<1> DEFINE new == [conf[i] EXCEPT !.status = status]
<1>1. conf[i] \in Stored OBVIOUS
<1>2. new \in Stored /\ new.status = status /\ new.kind = conf[i].kind
    BY <1>1 DEF Stored
<1>3. conf' = [conf EXCEPT ![i] = new] OBVIOUS
<1> QED BY <1>2, <1>3

\* A settled record has one of the final statuses, or may be claimed again.
LEMMA SettlementTyped ==
    ASSUME NEW o \in Outcomes, NEW expired \in BOOLEAN
    PROVE  Settlement(o, expired) \in {"pending"} \cup Settled
<1>1. CASE o = "ok" BY <1>1 DEF Settlement, Settled
<1>2. CASE o # "ok" /\ expired BY <1>2 DEF Settlement, Settled
<1>3. CASE o = "cancelled" /\ ~expired BY <1>3 DEF Settlement, Settled
<1>4. CASE o = "retryable" /\ ~expired BY <1>4 DEF Settlement, Settled
<1>5. CASE o \notin {"ok", "cancelled", "retryable"} /\ ~expired
    BY <1>5 DEF Settlement, Settled
<1> QED BY <1>1, <1>2, <1>3, <1>4, <1>5

\* Every step of the agent, of the users and of a request keeps the type.
LEMMA TypePreserved ==
    ASSUME ConfTypeOK, [ConfNext]_confVars
    PROVE  ConfTypeOK'
<1> USE ConfirmationAssumption DEF ConfTypeOK
<1>1. CASE UNCHANGED confVars BY <1>1 DEF confVars
<1>2. ASSUME NEW i \in Confirmations,
             PrepareForm(i) \/ PrepareReview(i) \/ PrepareTool(i) \/ PrepareInternal(i)
      PROVE  ConfTypeOK'
    <2>1. PICK kind \in Sorts : SaveConfirmation(i, kind)
        BY <1>2 DEF PrepareForm, PrepareReview, PrepareTool, PrepareInternal, Sorts
    <2> QED BY <2>1 DEF SaveConfirmation
<1>3. ASSUME NEW i \in Confirmations, ChangeTarget(i)
      PROVE  ConfTypeOK'
    BY <1>3 DEF ChangeTarget
<1>4. ASSUME NEW i \in Confirmations, TimePasses(i)
      PROVE  ConfTypeOK'
    BY <1>4 DEF TimePasses
<1>5. ASSUME NEW x \in Confirmers, TakeConfirmation(x)
      PROVE  ConfTypeOK'
    <2>1. PICK i \in Confirmations :
            \/ conf' = [conf EXCEPT ![i].status = "expired"] /\ UNCHANGED req
            \/ /\ conf' = [conf EXCEPT ![i].status = "executing"]
               /\ req' = [req EXCEPT ![x] = [step |-> "check", id |-> i, outcome |-> "none"]]
        BY <1>5 DEF TakeConfirmation
    <2>2. UNCHANGED <<late, target, effects, known>> BY <1>5 DEF TakeConfirmation
    <2>3. conf' \in [Confirmations -> Stored]
        BY <2>1, StatusTyped DEF Stored, Settled
    <2>4. [step |-> "check", id |-> i, outcome |-> "none"] \in Confirming
        BY DEF Confirming, Outcomes
    <2>5. req \in [Confirmers -> Confirming] BY DEF Confirming
    <2>6. req' \in [Confirmers -> Confirming]
        BY <2>1, <2>4, <2>5
    <2> QED BY <2>2, <2>3, <2>6 DEF Confirming, Stored
<1>6. ASSUME NEW x \in Confirmers, CheckTarget(x) \/ NoEffect(x)
      PROVE  ConfTypeOK'
    <2>1. UNCHANGED <<conf, late, target, effects, known>>
        BY <1>6 DEF CheckTarget, NoEffect
    <2>2. CASE req' = [req EXCEPT ![x].step = "act"]
        BY <2>1, <2>2
    <2>3. CASE \E o \in Outcomes : Ends(x, o)
        BY <2>1, <2>3, EndsTyped DEF Confirming
    <2> QED BY <1>6, <2>2, <2>3 DEF CheckTarget, NoEffect, Outcomes
<1>7. ASSUME NEW x \in Confirmers, Succeeds(x) \/ AnswerLost(x)
      PROVE  ConfTypeOK'
    <2>1. effects' \in [Confirmations -> 0..MaxEffects]
        BY <1>7 DEF Succeeds, AnswerLost, Acts, TakesEffect
    <2>2. target' \in [Confirmations -> [version : 0..MaxVersion, open : BOOLEAN]]
        <3>1. PICK i \in Confirmations, o \in BOOLEAN :
                target' = [target EXCEPT ![i] = [target[i] EXCEPT !.open = o]]
            BY <1>7 DEF Succeeds, AnswerLost, Acts, TakesEffect
        <3> QED BY <3>1
    <2>3. req' \in [Confirmers -> Confirming]
        <3>1. PICK o \in Outcomes : Ends(x, o)
            BY <1>7 DEF Succeeds, AnswerLost, Outcomes
        <3> QED BY <3>1, EndsTyped DEF Confirming
    <2>4. known' \in [Confirmations -> BOOLEAN] /\ UNCHANGED <<conf, late>>
        BY <1>7 DEF Succeeds, AnswerLost
    <2> QED BY <2>1, <2>2, <2>3, <2>4 DEF Confirming
<1>9. ASSUME NEW x \in Confirmers, Settle(x)
      PROVE  ConfTypeOK'
    <2> DEFINE s == Settlement(req[x].outcome, late[req[x].id])
    <2>1. s \in {"none", "pending", "executing"} \cup Settled
        BY SettlementTyped DEF Confirming
    <2>2. req' \in [Confirmers -> Confirming]
        BY <1>9, QuietTyped DEF Settle, Confirming
    <2>3. conf' \in [Confirmations -> Stored]
        <3>1. CASE conf' = conf BY <3>1 DEF Stored
        <3>2. CASE conf' = [conf EXCEPT ![req[x].id].status = s]
            <4> HIDE DEF s
            <4> QED BY <2>1, <3>2, StatusTyped DEF Stored
        <3> QED BY <1>9, <3>1, <3>2 DEF Settle
    <2> QED BY <1>9, <2>2, <2>3 DEF Settle, Confirming, Stored
<1>10. ASSUME NEW x \in Confirmers, Lost(x)
       PROVE  ConfTypeOK'
    BY <1>10, QuietTyped DEF Lost, Confirming
<1> QED BY <1>1, <1>2, <1>3, <1>4, <1>5, <1>6, <1>7, <1>9, <1>10
        DEF ConfNext, Confirm

\* The initial state has the type.
LEMMA TypeInit == ConfInit => ConfTypeOK
BY ConfirmationAssumption, QuietTyped DEF ConfInit, ConfTypeOK, Sorts, Confirming

\* Records, targets and requests always have the statuses, versions and steps
\* that the code knows.
THEOREM TypeCorrect == ConfSpec => []ConfTypeOK
<1>1. ConfTypeOK /\ [ConfNext]_confVars => ConfTypeOK' BY TypePreserved
<1> QED BY <1>1, TypeInit, PTL DEF ConfSpec
-----------------------------------------------------------------------------
\* The inductive invariant

\* What a request that acts, checks or ends leaves of the others' business: a
\* step of one request, from step to step, without a change of the record.
Moves(x) ==
    /\ req[x].step # "idle" /\ req'[x].step # "idle" /\ req'[x].id = req[x].id
    /\ \A y \in Confirmers : y # x => req'[y] = req[y]
    /\ UNCHANGED conf

\* A request never acts on a record whose action reported success.
LEMMA ActsUnknown ==
    ASSUME IInv, NEW x \in Confirmers, req[x].step \in {"check", "act"}
    PROVE  ~known[req[x].id]
BY DEF IInv, ConfTypeOK, SuccessKept, Concluded

\* The agent's and the users' steps.
LEMMA PreparedInv ==
    ASSUME IInv, ConfTypeOK',
           NEW i \in Confirmations,
           \/ PrepareForm(i) \/ PrepareReview(i) \/ PrepareTool(i) \/ PrepareInternal(i)
           \/ ChangeTarget(i) \/ TimePasses(i)
    PROVE  IInv'
<1> USE DEF IInv, ConfTypeOK
<1>1. CASE PrepareForm(i) \/ PrepareReview(i) \/ PrepareTool(i) \/ PrepareInternal(i)
    <2>1. PICK kind \in Sorts : SaveConfirmation(i, kind)
        BY <1>1 DEF PrepareForm, PrepareReview, PrepareTool, PrepareInternal, Sorts
    <2>2. /\ conf[i].status = "none" /\ conf'[i].status = "pending"
          /\ \A j \in Confirmations : j # i => conf'[j] = conf[j]
          /\ UNCHANGED <<target, req, effects, known>>
        BY <2>1 DEF SaveConfirmation
    <2>3. Claimed' BY <2>2 DEF Claimed
    <2>4. SuccessKept' BY <2>2 DEF SuccessKept, Concluded, Unprepared
    <2>5. Unprepared' BY <2>2 DEF Unprepared
    <2>6. TargetClosed' BY <2>2 DEF TargetClosed, Unprepared
    <2> QED BY <2>3, <2>4, <2>5, <2>6
<1>2. CASE ChangeTarget(i)
    <2>1. UNCHANGED <<conf, req, effects, known>> BY <1>2 DEF ChangeTarget
    <2>2. Claimed' /\ SuccessKept' /\ Unprepared'
        BY <2>1 DEF Claimed, SuccessKept, Concluded, Unprepared
    <2>3. \A j \in Confirmations : ~target[j].open => ~target'[j].open
        BY <1>2 DEF ChangeTarget
    <2>4. TargetClosed' BY <2>1, <2>3 DEF TargetClosed
    <2> QED BY <2>2, <2>4
<1>3. CASE TimePasses(i)
    BY <1>3 DEF TimePasses, Claimed, SuccessKept, Concluded, Unprepared, TargetClosed
<1> QED BY <1>1, <1>2, <1>3

\* A claim finds a record that nobody has and that reported no success.
LEMMA TakeInv ==
    ASSUME IInv, ConfTypeOK', NEW x \in Confirmers, TakeConfirmation(x)
    PROVE  IInv'
<1> USE DEF IInv, ConfTypeOK
<1>1. UNCHANGED <<target, effects, known>> BY DEF TakeConfirmation
<1>2. PICK i \in Confirmations :
        /\ conf[i].status = "pending"
        /\ \/ conf' = [conf EXCEPT ![i].status = "expired"] /\ UNCHANGED req
           \/ /\ conf' = [conf EXCEPT ![i].status = "executing"]
              /\ req' = [req EXCEPT ![x] = [step |-> "check", id |-> i, outcome |-> "none"]]
    BY DEF TakeConfirmation, MayClaim
<1>3. /\ conf'[i].status \in {"expired", "executing"} /\ conf'[i].kind = conf[i].kind
      /\ \A j \in Confirmations : j # i => conf'[j] = conf[j]
    BY <1>2
<1>4. ~known[i] BY <1>2 DEF SuccessKept, Concluded
<1>5. \A y \in Confirmers : req[y].step # "idle" => req[y].id # i BY <1>2 DEF Claimed
<1>6. CASE UNCHANGED req
    <2>1. Claimed' BY <1>3, <1>5, <1>6 DEF Claimed
    <2>2. SuccessKept' BY <1>1, <1>3, <1>4, <1>6 DEF SuccessKept, Concluded
    <2> QED BY <2>1, <2>2, <1>1, <1>2, <1>3 DEF Unprepared, TargetClosed
<1>7. CASE /\ conf' = [conf EXCEPT ![i].status = "executing"]
           /\ req' = [req EXCEPT ![x] = [step |-> "check", id |-> i, outcome |-> "none"]]
    <2>1. /\ conf'[i].status = "executing" /\ req'[x].id = i
          /\ \A y \in Confirmers : y # x => req'[y] = req[y]
        BY <1>7
    <2>2. \A y \in Confirmers : y # x /\ req'[y].step # "idle" =>
            req[y].step # "idle" /\ req'[y].id = req[y].id /\ req'[y].id # i
        BY <1>5, <2>1
    <2>3. Claimed'
        <3>1. \A y \in Confirmers :
                req'[y].step # "idle" => conf'[req'[y].id].status = "executing"
            <4>1. SUFFICES ASSUME NEW y \in Confirmers, req'[y].step # "idle"
                           PROVE  conf'[req'[y].id].status = "executing"
                OBVIOUS
            <4>2. CASE y = x BY <2>1, <4>2
            <4>3. CASE y # x
                <5>1. req[y].step # "idle" /\ req'[y].id = req[y].id /\ req[y].id # i
                    BY <2>2, <4>1, <4>3
                <5>2. conf[req[y].id].status = "executing" BY <5>1 DEF Claimed
                <5>3. req[y].id \in Confirmations OBVIOUS
                <5> QED BY <1>3, <5>1, <5>2, <5>3
            <4> QED BY <4>2, <4>3
        <3>2. \A y, z \in Confirmers :
                req'[y].step # "idle" /\ req'[z].step # "idle" /\ req'[y].id = req'[z].id
                => y = z
            <4>1. \A y, z \in Confirmers :
                    /\ y # x /\ req'[y].step # "idle" /\ z # x /\ req'[z].step # "idle"
                    /\ req'[y].id = req'[z].id
                    => y = z
                BY <2>2 DEF Claimed
            <4>2. \A y \in Confirmers :
                    y # x /\ req'[y].step # "idle" => req'[y].id # req'[x].id
                BY <2>1, <2>2
            <4> QED BY <4>1, <4>2
        <3> QED BY <3>1, <3>2 DEF Claimed
    <2>4. SuccessKept'
        <3>1. SUFFICES ASSUME NEW j \in Confirmations, known[j] PROVE Concluded(j)'
            BY <1>1 DEF SuccessKept
        <3>2. j # i /\ Concluded(j) /\ conf'[j] = conf[j]
            BY <1>3, <1>4, <3>1 DEF SuccessKept
        <3> QED BY <2>1, <2>2, <3>2 DEF Concluded
    <2> QED BY <2>3, <2>4, <1>1, <1>2, <1>3 DEF Unprepared, TargetClosed
<1> QED BY <1>2, <1>6, <1>7

\* A request that goes on with its record keeps the claims.
LEMMA MovesClaimed ==
    ASSUME IInv, NEW x \in Confirmers, Moves(x)
    PROVE  Claimed'
<1>1. \A y \in Confirmers :
        (req'[y].step # "idle" <=> req[y].step # "idle") /\ req'[y].id = req[y].id
    BY DEF Moves
<1>2. UNCHANGED conf BY DEF Moves
<1> QED BY <1>1, <1>2 DEF IInv, Claimed

\* Looking at the target, or failing to act on it, changes nothing but the request.
LEMMA CheckInv ==
    ASSUME IInv, ConfTypeOK', NEW x \in Confirmers, CheckTarget(x) \/ NoEffect(x)
    PROVE  IInv'
<1> USE DEF IInv, ConfTypeOK
<1>1. /\ UNCHANGED <<conf, late, target, effects, known>>
      /\ req[x].step \in {"check", "act"}
    BY DEF CheckTarget, NoEffect
<1>2. Moves(x)
    <2>1. CASE req' = [req EXCEPT ![x].step = "act"] BY <1>1, <2>1 DEF Moves
    <2>2. ASSUME NEW o \in Outcomes, Ends(x, o) PROVE Moves(x)
        BY <1>1, <2>2, EndsTyped DEF Moves, Confirming
    <2> QED BY <2>1, <2>2 DEF CheckTarget, NoEffect, Outcomes
<1>3. Claimed' BY <1>2, MovesClaimed
<1>4. ~known[req[x].id] BY <1>1, ActsUnknown
<1>5. SuccessKept'
    <2>1. SUFFICES ASSUME NEW j \in Confirmations, known[j] PROVE Concluded(j)'
        BY <1>1 DEF SuccessKept
    <2>2. req[x].id # j /\ Concluded(j) BY <1>4, <2>1 DEF SuccessKept
    <2> QED BY <1>1, <1>2, <2>2 DEF Concluded, Moves
<1> QED BY <1>1, <1>3, <1>5 DEF Unprepared, TargetClosed

\* An action takes effect on a target that is open, or is of a sort that may be
\* acted on again.
LEMMA ActsInv ==
    ASSUME IInv, ConfTypeOK', NEW x \in Confirmers, Succeeds(x) \/ AnswerLost(x)
    PROVE  IInv'
<1> USE DEF IInv, ConfTypeOK
<1> DEFINE i == req[x].id
<1>1. /\ req[x].step = "act" /\ UNCHANGED conf
      /\ conf[i].kind \in {"form", "review"} => target[i].open
      /\ effects' = [effects EXCEPT ![i] = @ + 1]
      /\ target' = [target EXCEPT ![i].open = @ /\ conf[i].kind \notin {"form", "review"}]
    BY DEF Succeeds, AnswerLost, Acts, TakesEffect
<1>2. PICK o \in Outcomes : Ends(x, o)
    BY DEF Succeeds, AnswerLost, Outcomes
<1>3. Moves(x) /\ req'[x].step = "settle" /\ req'[x].outcome = o
    BY <1>1, <1>2, EndsTyped DEF Moves, Confirming
<1>4. \/ UNCHANGED known
      \/ /\ known' = [known EXCEPT ![i] = TRUE]
         /\ req'[x].outcome \in {"ok", "unrecorded"}
    <2>1. CASE AnswerLost(x) BY <2>1 DEF AnswerLost
    <2>2. CASE Succeeds(x)
        <3>1. PICK r \in {"ok", "unrecorded"} : Ends(x, r) BY <2>2 DEF Succeeds
        <3>2. req'[x].outcome = r BY <3>1, EndsTyped DEF Confirming, Outcomes
        <3> QED BY <2>2, <3>2 DEF Succeeds
    <2> QED BY <2>1, <2>2
<1>5. Claimed' BY <1>3, MovesClaimed
<1>6. /\ conf[i].status = "executing"
      /\ \A y \in Confirmers : req[y].step # "idle" /\ req[y].id = i => y = x
    BY <1>1 DEF Claimed
<1>7. SuccessKept'
    <2>1. ~known[i] BY <1>1, ActsUnknown
    <2> QED BY <1>3, <1>4, <1>6, <2>1 DEF SuccessKept, Concluded, Moves
<1>8. Unprepared' BY <1>1, <1>4, <1>6 DEF Unprepared
<1>9. TargetClosed'
    <2>1. SUFFICES ASSUME NEW j \in Confirmations, conf[j].kind \in {"form", "review"}
                   PROVE  effects'[j] = 0 \/ (effects'[j] = 1 /\ ~target'[j].open)
        BY <1>1 DEF TargetClosed
    <2>2. CASE j # i BY <1>1, <2>1, <2>2 DEF TargetClosed
    <2>3. CASE j = i
        <3>1. effects[i] = 0 BY <1>1, <2>1, <2>3 DEF TargetClosed
        <3> QED BY <1>1, <2>1, <2>3, <3>1
    <2> QED BY <2>2, <2>3
<1> QED BY <1>5, <1>7, <1>8, <1>9

\* A reported success is settled for good; any other request that stops was not
\* the one that knows of a success.
LEMMA EndInv ==
    ASSUME IInv, ConfTypeOK', NEW x \in Confirmers, Settle(x) \/ Lost(x)
    PROVE  IInv'
<1> USE DEF IInv, ConfTypeOK
<1> DEFINE i == req[x].id
<1>1. /\ UNCHANGED <<target, effects, known>> /\ req[x].step # "idle"
      /\ req' = [req EXCEPT ![x] = Quiet]
    BY DEF Settle, Lost
<1>2. req'[x].step = "idle" /\ \A y \in Confirmers : y # x => req'[y] = req[y]
    BY <1>1, QuietTyped
<1>3. \A y \in Confirmers : req'[y].step # "idle" => y # x /\ req[y].id # i
    BY <1>1, <1>2 DEF Claimed
<1>4. CASE Lost(x)
    <2>1. UNCHANGED conf BY <1>4 DEF Lost
    <2> QED BY <1>1, <1>2, <2>1 DEF Claimed, SuccessKept, Concluded, Unprepared, TargetClosed
<1>5. CASE Settle(x)
    <2> DEFINE s == Settlement(req[x].outcome, late[i])
    <2>1. req[x].step = "settle" /\ conf[i].status = "executing"
        BY <1>5 DEF Settle, Claimed
    <2>2. conf' = [conf EXCEPT ![i].status = s] BY <1>5, <2>1 DEF Settle
    <2>3. s \in {"pending"} \cup Settled BY SettlementTyped
    <2>4. /\ conf'[i].status = s /\ conf'[i].kind = conf[i].kind
          /\ \A j \in Confirmations : j # i => conf'[j] = conf[j]
        BY <2>2
    <2>5. known[i] => s \in {"completed", "failed", "expired"}
        <3>1. CASE req[x].outcome = "ok" BY <3>1 DEF Settlement
        <3>2. CASE req[x].outcome = "unrecorded" BY <3>2 DEF Settlement
        <3> QED BY <2>1, <3>1, <3>2 DEF SuccessKept, Concluded
    <2> HIDE DEF s
    <2>6. Claimed' BY <1>2, <1>3, <2>4 DEF Claimed
    <2>7. SuccessKept' BY <1>1, <1>2, <1>3, <2>4, <2>5 DEF SuccessKept, Concluded
    <2>8. Unprepared' BY <1>1, <2>3, <2>4 DEF Unprepared, Settled
    <2>9. TargetClosed' BY <1>1, <2>4 DEF TargetClosed
    <2> QED BY <2>6, <2>7, <2>8, <2>9
<1> QED BY <1>4, <1>5

\* The invariant holds at first and is kept by every step.
LEMMA Inductive ==
    /\ ConfInit => IInv
    /\ IInv /\ [ConfNext]_confVars => IInv'
<1>1. ConfInit => IInv
    BY TypeInit, QuietTyped
    DEF ConfInit, IInv, Claimed, SuccessKept, Unprepared, TargetClosed
<1>2. ASSUME IInv, [ConfNext]_confVars PROVE IInv'
    <2>1. ConfTypeOK' BY <1>2, TypePreserved DEF IInv
    <2>2. CASE UNCHANGED confVars
        BY <1>2, <2>2 DEF confVars, IInv, ConfTypeOK, Claimed, SuccessKept, Concluded,
                          Unprepared, TargetClosed
    <2>3. CASE ConfNext
        BY <1>2, <2>1, <2>3, PreparedInv, TakeInv, CheckInv, ActsInv, EndInv
        DEF ConfNext, Confirm
    <2> QED BY <1>2, <2>2, <2>3
<1> QED BY <1>1, <1>2

-----------------------------------------------------------------------------
\* Theorems

\* The invariant that the two results below follow from.
THEOREM Invariant == ConfSpec => []IInv
BY Inductive, PTL DEF ConfSpec

\* A form is submitted and a stage is decided at most once by a confirmation,
\* however often its answer is lost and it is confirmed again.
THEOREM DoneOnce == ConfSpec => []TargetOnce
<1>1. IInv => TargetOnce BY DEF IInv, ConfTypeOK, TargetClosed, TargetOnce
<1> QED BY <1>1, Invariant, PTL

\* Once a confirmed action reported success it is never carried out again, even
\* where its success did not get on record.
THEOREM SuccessFinal == ConfSpec => NotReplayed
<1>1. ASSUME IInv, [ConfNext]_confVars
      PROVE  [\A i \in Confirmations : known[i] => effects'[i] = effects[i]]_confVars
    <2>1. SUFFICES ASSUME ConfNext, NEW i \in Confirmations, known[i]
                   PROVE  effects'[i] = effects[i]
        BY <1>1
    <2>2. CASE UNCHANGED effects BY <2>2
    <2>3. ASSUME NEW x \in Confirmers, Acts(x) PROVE effects'[i] = effects[i]
        <3>1. req[x].id # i BY <1>1, <2>1, <2>3, ActsUnknown DEF Acts
        <3> QED BY <1>1, <2>3, <3>1 DEF Acts, TakesEffect, IInv, ConfTypeOK
    <2> QED BY <2>1, <2>2, <2>3
        DEF ConfNext, Confirm, PrepareForm, PrepareReview, PrepareTool, PrepareInternal,
            SaveConfirmation, ChangeTarget, TimePasses, TakeConfirmation, CheckTarget,
            Succeeds, AnswerLost, NoEffect, Settle, Lost
<1> QED BY <1>1, Invariant, PTL DEF ConfSpec, NotReplayed

-----------------------------------------------------------------------------
\* A chat session.  What a request is, and a run and a message.
Chatting == [step : {"idle", "opened", "recovered", "counted", "ready"} \cup Admitted \cup Ended,
             segment : Segments, limit : Limits, history : SUBSET Segments]
Executed == [status : Active \cup {"none", "completed", "failed"}, segment : Segments,
             age : Nat]
Said == [kind : {"question", "answer", "apology"}, run : Requests, segment : Segments]

\* A clear that has begun leads to another segment.
ClearBounded == clearing => session.segment < MaxSegment

\* The history a request has read begins with the segment it saw, and it has not
\* seen more than there is.
HistoryRead ==
    \A r \in Requests :
        /\ chat[r].segment <= session.segment
        /\ chat[r].step = "ready" =>
            \A s \in chat[r].history : chat[r].segment <= s /\ s <= session.segment

\* An admitted request's question is in the segment that it saw, and nothing else
\* has been read for it.
QuestionKept ==
    \A r \in Requests : chat[r].step \in Admitted =>
        /\ run[r].segment = chat[r].segment
        /\ chat[r].history \subseteq {run[r].segment}
        /\ [kind |-> "question", run |-> r, segment |-> run[r].segment] \in msgs

\* A message answers a question of its segment.
Answering ==
    \A m \in msgs : [kind |-> "question", run |-> m.run, segment |-> m.segment] \in msgs

\* Completed, answered and told so are one.
Told ==
    \A r \in Requests :
        /\ run[r].status = "completed" <=> chat[r].step = "ok"
        /\ (\E m \in msgs : m.kind = "answer" /\ m.run = r) <=> chat[r].step = "ok"
        /\ (\E m \in msgs : m.kind = "apology" /\ m.run = r) =>
            chat[r].step = "failed" /\ run[r].status = "failed"

\* The runtime is within its limit.
WithinLimit ==
    \A r \in Requests : chat[r].step = "runtime" => run[r].age <= chat[r].limit

ChatIInv ==
    /\ ChatTypeOK /\ ClearBounded /\ HistoryRead /\ QuestionKept /\ Answering /\ Told
    /\ WithinLimit

\* Nobody waits with another limit than one of the model's.
LEMMA WaitingTyped == Waiting \in Chatting /\ Waiting.step = "idle" /\ Waiting.segment = 1
BY SessionAssumption DEF Waiting, Chatting, Segments

\* The same, by these names.
LEMMA Typed ==
    ChatTypeOK <=>
        /\ session \in [status : {"active", "archived"}, segment : Segments]
        /\ clearing \in BOOLEAN
        /\ run \in [Requests -> Executed]
        /\ msgs \subseteq Said
        /\ chat \in [Requests -> Chatting]
BY DEF ChatTypeOK, Chatting, Executed, Said

\* A request that only goes a step further keeps its type and what it has read.
LEMMA GoesTyped ==
    ASSUME chat \in [Requests -> Chatting], NEW r \in Requests, NEW step, GoesTo(r, step),
           step \in {"idle", "opened", "recovered", "counted", "ready"} \cup Admitted \cup Ended
    PROVE  /\ chat' \in [Requests -> Chatting]
           /\ chat'[r].step = step /\ chat'[r].segment = chat[r].segment
           /\ chat'[r].limit = chat[r].limit /\ chat'[r].history = chat[r].history
           /\ \A x \in Requests : x # r => chat'[x] = chat[x]
<1> DEFINE new == [chat[r] EXCEPT !.step = step]
<1>1. chat[r] \in Chatting OBVIOUS
<1>2. /\ new \in Chatting
      /\ new.step = step /\ new.segment = chat[r].segment
      /\ new.limit = chat[r].limit /\ new.history = chat[r].history
    BY <1>1 DEF Chatting
<1>3. chat' = [chat EXCEPT ![r] = new] BY DEF GoesTo
<1> QED BY <1>2, <1>3

\* A run that is written keeps its segment, and is young again.
LEMMA WrittenTyped ==
    ASSUME run \in [Requests -> Executed], NEW r \in Requests, NEW status, Overwritten(r, status),
           status \in Active \cup {"none", "completed", "failed"}
    PROVE  /\ run' \in [Requests -> Executed]
           /\ run'[r].status = status /\ run'[r].age = 0
           /\ run'[r].segment = run[r].segment
           /\ \A x \in Requests : x # r => run'[x] = run[x]
<1> DEFINE new == [run[r] EXCEPT !.status = status, !.age = 0]
<1>1. run[r] \in Executed OBVIOUS
<1>2. /\ new \in Executed /\ new.status = status /\ new.age = 0
      /\ new.segment = run[r].segment
    BY <1>1 DEF Executed
<1>3. run' = [run EXCEPT ![r] = new] BY DEF Overwritten
<1> QED BY <1>2, <1>3

\* Nobody has asked anything at first.
LEMMA ChatInitInv == ChatInit => ChatIInv
<1> SUFFICES ASSUME ChatInit PROVE ChatIInv OBVIOUS
<1>1. 1 \in Segments BY SessionAssumption DEF Segments
<1>2. ChatTypeOK
    BY <1>1, WaitingTyped, Typed DEF ChatInit, Executed, Active
<1> QED
    BY <1>2, WaitingTyped, SessionAssumption
    DEF ChatInit, ChatIInv, ClearBounded, HistoryRead, QuestionKept, Answering, Told,
        WithinLimit, Admitted

\* Each step keeps the invariant: those before the question is admitted ...
LEMMA OpenStep ==
    ASSUME ChatIInv, NEW r \in Requests, Open(r) PROVE ChatIInv'
<1>1. PICK l \in Limits : chat' = [chat EXCEPT ![r] =
            [step |-> "opened", segment |-> session.segment, limit |-> l, history |-> {}]]
    BY DEF Open
<1>2. ChatTypeOK' BY <1>1, Typed DEF ChatIInv, Open, ChatTypeOK
<1>3. HistoryRead'
    BY <1>1, Typed DEF ChatIInv, Open, HistoryRead, ChatTypeOK, Segments
<1>4. QuestionKept' /\ Told' /\ WithinLimit'
    BY <1>1, Typed DEF ChatIInv, Open, QuestionKept, Told, WithinLimit, Admitted, ChatTypeOK
<1> QED BY <1>2, <1>3, <1>4 DEF ChatIInv, Open, ClearBounded, Answering

\* ... dead runs fail, and nothing else does ...
LEMMA RecoverStep ==
    ASSUME ChatIInv, NEW x \in Requests, RecoverStale(x) PROVE ChatIInv'
<1> DEFINE Dead(r) == [run[r] EXCEPT !.status = "failed", !.age = 0]
<1>1. \A r \in Requests : /\ run[r] \in Executed
                          /\ Dead(r) \in Executed /\ Dead(r).status = "failed"
                          /\ Dead(r).segment = run[r].segment /\ Dead(r).age = 0
    BY Typed DEF ChatIInv, Executed
<1>2. run' \in [Requests -> Executed] BY <1>1 DEF RecoverStale
<1>3. \A r \in Requests : \/ run'[r] = run[r]
                          \/ /\ run[r].status \in Active /\ run'[r].status = "failed"
                             /\ run'[r].segment = run[r].segment /\ run'[r].age = 0
    BY <1>1 DEF RecoverStale, Stale
<1>4. /\ chat' \in [Requests -> Chatting] /\ chat'[x].step = "recovered"
      /\ chat'[x].segment = chat[x].segment
      /\ \A r \in Requests : r # x => chat'[r] = chat[r]
    BY GoesTyped, Typed DEF ChatIInv, RecoverStale
<1>5. chat[x].step = "opened" BY DEF RecoverStale
<1>6. UNCHANGED <<session, clearing, msgs>> BY DEF RecoverStale
<1>7. ChatTypeOK' BY <1>2, <1>4, <1>6, Typed DEF ChatIInv, ChatTypeOK, Chatting, Executed
<1>8. HistoryRead' BY <1>4, <1>6 DEF ChatIInv, HistoryRead
<1>9. QuestionKept' BY <1>3, <1>4, <1>6 DEF ChatIInv, QuestionKept, Admitted
<1>10. Told' BY <1>3, <1>4, <1>5, <1>6 DEF ChatIInv, Told, Active
<1>11. WithinLimit'
    <2> SUFFICES ASSUME NEW r \in Requests, chat'[r].step = "runtime"
                 PROVE  run'[r].age <= chat'[r].limit
        BY DEF WithinLimit
    <2>1. chat'[r] = chat[r] BY <1>4
    <2>2. run'[r] = run[r] \/ run'[r].age = 0 BY <1>3
    <2>3. chat[r].limit \in Nat BY Typed, SessionAssumption DEF ChatIInv, Chatting
    <2> QED BY <2>1, <2>2, <2>3 DEF ChatIInv, WithinLimit
<1> QED
    BY <1>6, <1>7, <1>8, <1>9, <1>10, <1>11 DEF ChatIInv, ClearBounded, Answering

\* A request that has not been admitted goes a step further or gives up.
LEMMA RefusedTyped ==
    ASSUME ChatIInv, NEW r \in Requests, Refused(r),
           UNCHANGED <<session, clearing, run, msgs>>, chat[r].step \notin Admitted \cup Ended
    PROVE  ChatIInv'
<1>1. 1 <= session.segment BY DEF ChatIInv, ChatTypeOK, Segments
<1>2. /\ chat' \in [Requests -> Chatting] /\ chat'[r] = Waiting
      /\ \A x \in Requests : x # r => chat'[x] = chat[x]
    BY WaitingTyped, Typed DEF ChatIInv, Refused
<1>3. ChatTypeOK' BY <1>2, Typed DEF ChatIInv, ChatTypeOK, Chatting, Executed
<1>4. HistoryRead' BY <1>1, <1>2, WaitingTyped DEF ChatIInv, HistoryRead
<1>5. QuestionKept' /\ Told' /\ WithinLimit'
    BY <1>2, WaitingTyped DEF ChatIInv, QuestionKept, Told, WithinLimit, Admitted, Ended
<1> QED BY <1>3, <1>4, <1>5 DEF ChatIInv, ClearBounded, Answering

\* ... it goes on if no run is active ...
LEMMA CountStep ==
    ASSUME ChatIInv, NEW r \in Requests, CountActive(r) PROVE ChatIInv'
<1>1. CASE Refused(r) BY <1>1, RefusedTyped DEF CountActive, Admitted, Ended
<1>2. CASE GoesTo(r, "counted")
    <2>1. /\ chat' \in [Requests -> Chatting] /\ chat'[r].step = "counted"
          /\ chat'[r].segment = chat[r].segment
          /\ \A x \in Requests : x # r => chat'[x] = chat[x]
        BY <1>2, GoesTyped, Typed DEF ChatIInv
    <2>2. ChatTypeOK'
        BY <2>1, Typed DEF ChatIInv, CountActive, ChatTypeOK, Chatting, Executed
    <2>3. HistoryRead' BY <2>1 DEF ChatIInv, CountActive, HistoryRead
    <2>4. QuestionKept' /\ Told' /\ WithinLimit'
        BY <2>1 DEF ChatIInv, CountActive, QuestionKept, Told, WithinLimit, Admitted
    <2> QED BY <2>2, <2>3, <2>4 DEF ChatIInv, CountActive, ClearBounded, Answering
<1> QED BY <1>1, <1>2 DEF CountActive

\* ... and reads what is in the segment that is current now ...
LEMMA ReadStep ==
    ASSUME ChatIInv, NEW r \in Requests, ReadHistory(r) PROVE ChatIInv'
<1> DEFINE read == {m.segment : m \in {n \in msgs : n.segment = session.segment}}
           new == [chat[r] EXCEPT !.step = "ready", !.history = read]
<1>1. read \subseteq {session.segment} /\ session.segment \in Segments
    BY DEF ChatIInv, ChatTypeOK
<1>2. chat[r] \in Chatting BY Typed DEF ChatIInv
<1>3. /\ new \in Chatting /\ new.step = "ready" /\ new.history = read
      /\ new.segment = chat[r].segment
    <2> HIDE DEF read
    <2> QED BY <1>1, <1>2 DEF Chatting
<1>4. chat' = [chat EXCEPT ![r] = new] BY DEF ReadHistory
<1> HIDE DEF new, read
<1>5. /\ chat' \in [Requests -> Chatting] /\ chat'[r] = new
      /\ \A x \in Requests : x # r => chat'[x] = chat[x]
    BY <1>3, <1>4, Typed DEF ChatIInv
<1>6. ChatTypeOK' BY <1>5, Typed DEF ChatIInv, ReadHistory, ChatTypeOK, Chatting, Executed
<1>7. HistoryRead'
    BY <1>1, <1>3, <1>5 DEF ChatIInv, ReadHistory, HistoryRead, Segments
<1>8. QuestionKept' /\ Told' /\ WithinLimit'
    BY <1>3, <1>5 DEF ChatIInv, ReadHistory, QuestionKept, Told, WithinLimit, Admitted
<1> QED BY <1>6, <1>7, <1>8 DEF ChatIInv, ReadHistory, ClearBounded, Answering

\* ... its admission ...
LEMMA AdmitStep ==
    ASSUME ChatIInv, NEW r \in Requests, Admit(r) PROVE ChatIInv'
<1>1. CASE Refused(r) /\ UNCHANGED <<run, msgs>>
    BY <1>1, RefusedTyped DEF Admit, Admitted, Ended
<1>2. CASE /\ SameContext(r) /\ Insert("question", r) /\ GoesTo(r, "queued")
           /\ run' = [run EXCEPT ![r] = [status |-> "queued", segment |-> session.segment,
                                         age |-> 0]]
    <2> DEFINE q == [kind |-> "question", run |-> r, segment |-> session.segment]
    <2>1. /\ chat' \in [Requests -> Chatting] /\ chat'[r].step = "queued"
          /\ chat'[r].segment = chat[r].segment /\ chat'[r].history = chat[r].history
          /\ \A x \in Requests : x # r => chat'[x] = chat[x]
        BY <1>2, GoesTyped, Typed DEF ChatIInv, Admitted
    <2>2. session.segment \in Segments /\ chat[r].segment = session.segment
        BY <1>2 DEF ChatIInv, ChatTypeOK, SameContext
    <2>3. /\ run' \in [Requests -> Executed]
          /\ run'[r].status = "queued" /\ run'[r].segment = session.segment
          /\ \A x \in Requests : x # r => run'[x] = run[x]
        BY <1>2, <2>2, Typed DEF ChatIInv, Executed, Active
    <2>4. msgs' = msgs \cup {q} BY <1>2 DEF Insert
    <2>5. q \in Said BY <2>2 DEF Said
    <2>6. UNCHANGED <<session, clearing>> /\ chat[r].step = "ready" BY DEF Admit
    <2>7. ChatTypeOK'
        BY <2>1, <2>3, <2>4, <2>5, <2>6, Typed
        DEF ChatIInv, ChatTypeOK, Chatting, Executed, Said
    <2>8. HistoryRead' BY <2>1, <2>6 DEF ChatIInv, HistoryRead
    <2>9. chat[r].history \subseteq {session.segment}
        <3> SUFFICES ASSUME NEW s \in chat[r].history PROVE s = session.segment OBVIOUS
        <3>1. s \in Segments BY Typed DEF ChatIInv, Chatting
        <3>2. session.segment <= s /\ s <= session.segment
            BY <2>2, <2>6 DEF ChatIInv, HistoryRead
        <3> QED BY <2>2, <3>1, <3>2 DEF Segments
    <2>10. QuestionKept'
        BY <2>1, <2>2, <2>3, <2>4, <2>9 DEF ChatIInv, QuestionKept
    <2>11. Answering'
        <3> SUFFICES ASSUME NEW m \in msgs'
                     PROVE  [kind |-> "question", run |-> m.run, segment |-> m.segment]
                                \in msgs'
            BY DEF Answering
        <3>1. CASE m \in msgs BY <3>1, <2>4 DEF ChatIInv, Answering
        <3>2. CASE m = q BY <3>2, <2>4
        <3> QED BY <3>1, <3>2, <2>4
    <2>12. Told'
        <3>1. \A x \in Requests, k \in {"answer", "apology"} :
                (\E m \in msgs' : m.kind = k /\ m.run = x)
                    <=> (\E m \in msgs : m.kind = k /\ m.run = x)
            BY <2>4
        <3> QED BY <2>1, <2>3, <2>6, <3>1 DEF ChatIInv, Told
    <2>13. WithinLimit' BY <2>1, <2>3 DEF ChatIInv, WithinLimit
    <2> QED
        BY <2>6, <2>7, <2>8, <2>10, <2>11, <2>12, <2>13 DEF ChatIInv, ClearBounded
<1> QED BY <1>1, <1>2 DEF Admit

\* ... its way through the run, where no message is written: the step is another one
\* and the run has another status than completed, and its age is within the limit ...
LEMMA RunStep ==
    ASSUME ChatIInv, NEW r \in Requests, NEW step \in Admitted \cup Ended, GoesTo(r, step),
           UNCHANGED <<session, clearing, msgs>>,
           chat[r].step \in Admitted, step # "ok",
           \/ UNCHANGED run /\ step # "runtime"
           \/ Overwritten(r, "running") \/ Overwritten(r, "failed")
    PROVE  ChatIInv'
<1>1. /\ chat' \in [Requests -> Chatting] /\ chat'[r].step = step
      /\ chat'[r].segment = chat[r].segment /\ chat'[r].history = chat[r].history
      /\ chat'[r].limit = chat[r].limit
      /\ \A x \in Requests : x # r => chat'[x] = chat[x]
    BY GoesTyped, Typed DEF ChatIInv
<1>2. /\ run' \in [Requests -> Executed] /\ run'[r].segment = run[r].segment
      /\ run'[r].status = run[r].status \/ run'[r].status \in {"running", "failed"}
      /\ run' = run \/ run'[r].age = 0
      /\ \A x \in Requests : x # r => run'[x] = run[x]
    <2>1. CASE UNCHANGED run BY <2>1, Typed DEF ChatIInv
    <2>2. CASE Overwritten(r, "running") BY <2>2, WrittenTyped, Typed DEF ChatIInv, Active
    <2>3. CASE Overwritten(r, "failed") BY <2>3, WrittenTyped, Typed DEF ChatIInv, Active
    <2> QED BY <2>1, <2>2, <2>3
<1>3. ChatTypeOK' BY <1>1, <1>2, Typed DEF ChatIInv, ChatTypeOK, Chatting, Executed
<1>4. HistoryRead'
    BY <1>1 DEF ChatIInv, HistoryRead, Admitted, Ended
<1>5. QuestionKept' BY <1>1, <1>2 DEF ChatIInv, QuestionKept
<1>6. Told' BY <1>1, <1>2 DEF ChatIInv, Told, Admitted
<1>7. WithinLimit'
    <2> SUFFICES ASSUME NEW x \in Requests, chat'[x].step = "runtime"
                 PROVE  run'[x].age <= chat'[x].limit
        BY DEF WithinLimit
    <2>1. CASE x # r BY <2>1, <1>1, <1>2 DEF ChatIInv, WithinLimit
    <2>2. CASE x = r
        <3>1. step = "runtime" BY <2>2, <1>1
        <3>2. run'[r].age = 0
            BY <3>1, WrittenTyped, Typed DEF ChatIInv, Active
        <3>3. chat'[r].limit \in Nat BY <1>1, SessionAssumption DEF Chatting
        <3> QED BY <2>2, <3>2, <3>3
    <2> QED BY <2>1, <2>2
<1> QED BY <1>3, <1>4, <1>5, <1>6, <1>7 DEF ChatIInv, ClearBounded, Answering

\* ... its answer or the apology for it ...
LEMMA PersistStep ==
    ASSUME ChatIInv, NEW r \in Requests,
           CompleteChat(r) \/ FailChat(r)
    PROVE  ChatIInv'
<1>1. PICK kind \in {"answer", "apology"} :
        LET ends == IF kind = "answer" THEN "ok" ELSE "failed"
            status == IF kind = "answer" THEN "completed" ELSE "failed" IN
        /\ chat[r].step \in Admitted /\ UNCHANGED <<session, clearing>>
        /\ \/ SameContext(r) /\ Insert(kind, r) /\ Overwritten(r, status) /\ GoesTo(r, ends)
           \/ GoesTo(r, "failing") /\ UNCHANGED <<run, msgs>>
    BY DEF CompleteChat, FailChat, Persist, Admitted
<1>2. CASE GoesTo(r, "failing") /\ UNCHANGED <<run, msgs>>
    BY <1>1, <1>2, RunStep DEF Admitted
<1>3. ASSUME SameContext(r), Insert(kind, r),
             Overwritten(r, IF kind = "answer" THEN "completed" ELSE "failed"),
             GoesTo(r, IF kind = "answer" THEN "ok" ELSE "failed")
      PROVE  ChatIInv'
    <2> DEFINE told == [kind |-> kind, run |-> r, segment |-> session.segment]
               ends == IF kind = "answer" THEN "ok" ELSE "failed"
               status == IF kind = "answer" THEN "completed" ELSE "failed"
    <2>0. ends \in Ended /\ status \in {"completed", "failed"} BY DEF Ended
    <2>1. /\ chat' \in [Requests -> Chatting] /\ chat'[r].step = ends
          /\ chat'[r].segment = chat[r].segment
          /\ \A x \in Requests : x # r => chat'[x] = chat[x]
        <3> HIDE DEF ends
        <3>1. GoesTo(r, ends) BY <1>3 DEF ends
        <3> QED BY <2>0, <3>1, GoesTyped, Typed DEF ChatIInv
    <2>2. /\ run' \in [Requests -> Executed] /\ run'[r].status = status
          /\ \A x \in Requests : x # r => run'[x] = run[x]
        <3> HIDE DEF status
        <3>1. Overwritten(r, status) BY <1>3 DEF status
        <3> QED BY <2>0, <3>1, WrittenTyped, Typed DEF ChatIInv
    <2>3. /\ msgs' = msgs \cup {told} /\ told.kind = kind /\ told.run = r
          /\ told.segment = session.segment
        BY <1>3 DEF Insert
    <2>4. /\ session.segment \in Segments /\ run[r].segment = session.segment
          /\ [kind |-> "question", run |-> r, segment |-> session.segment] \in msgs
        BY <1>1, <1>3 DEF ChatIInv, ChatTypeOK, QuestionKept, SameContext
    <2>5. told \in Said BY <2>4 DEF Said
    <2>6. ChatTypeOK'
        BY <1>1, <2>1, <2>2, <2>3, <2>5, Typed
        DEF ChatIInv, ChatTypeOK, Chatting, Executed, Said
    <2>7. HistoryRead' BY <1>1, <2>0, <2>1 DEF ChatIInv, HistoryRead, Ended
    <2>8. QuestionKept'
        BY <2>0, <2>1, <2>2, <2>3 DEF ChatIInv, QuestionKept, Admitted, Ended
    <2>9. Answering' BY <2>3, <2>4 DEF ChatIInv, Answering
    <2>10. Told'
        <3> SUFFICES ASSUME NEW x \in Requests
                     PROVE  /\ run'[x].status = "completed" <=> chat'[x].step = "ok"
                            /\ (\E m \in msgs' : m.kind = "answer" /\ m.run = x)
                                <=> chat'[x].step = "ok"
                            /\ (\E m \in msgs' : m.kind = "apology" /\ m.run = x) =>
                                chat'[x].step = "failed" /\ run'[x].status = "failed"
            BY DEF Told
        <3>1. CASE x # r BY <3>1, <2>1, <2>2, <2>3 DEF ChatIInv, Told
        <3>2. CASE x = r
            <4>1. ~\E m \in msgs : m.kind \in {"answer", "apology"} /\ m.run = r
                BY <1>1 DEF ChatIInv, Told, Admitted
            <4>2. \A k \in {"answer", "apology"} :
                    (\E m \in msgs' : m.kind = k /\ m.run = r) <=> k = kind
                BY <4>1, <2>3
            <4> QED BY <3>2, <4>2, <2>1, <2>2, <1>1
        <3> QED BY <3>1, <3>2
    <2>11. WithinLimit' BY <2>0, <2>1, <2>2 DEF ChatIInv, WithinLimit, Ended
    <2> QED
        BY <1>1, <2>6, <2>7, <2>8, <2>9, <2>10, <2>11 DEF ChatIInv, ClearBounded
<1> QED BY <1>1, <1>2, <1>3

\* ... the passing of time ...
LEMMA TimeStep ==
    ASSUME ChatIInv, NEW r \in Requests, RunAges(r) PROVE ChatIInv'
<1> DEFINE older == [run[r] EXCEPT !.age = @ + 1]
<1>1. run[r] \in Executed BY Typed DEF ChatIInv
<1>2. /\ older \in Executed /\ older.status = run[r].status
      /\ older.segment = run[r].segment /\ older.age = run[r].age + 1
    BY <1>1 DEF Executed
<1>3. run' = [run EXCEPT ![r] = older] BY DEF RunAges
<1> HIDE DEF older
<1>4. /\ run' \in [Requests -> Executed] /\ run'[r] = older
      /\ \A x \in Requests : x # r => run'[x] = run[x]
    BY <1>2, <1>3, Typed DEF ChatIInv
<1>5. ChatTypeOK' BY <1>4, Typed DEF ChatIInv, RunAges, ChatTypeOK, Chatting, Executed
<1>6. QuestionKept' /\ Told'
    BY <1>2, <1>4 DEF ChatIInv, RunAges, QuestionKept, Told
<1>7. WithinLimit'
    <2> SUFFICES ASSUME NEW x \in Requests, chat[x].step = "runtime"
                 PROVE  run'[x].age <= chat[x].limit
        BY DEF WithinLimit, RunAges
    <2>1. CASE x # r BY <2>1, <1>4 DEF ChatIInv, WithinLimit
    <2>2. CASE x = r
        <3>1. chat[r].limit \in Nat /\ run[r].age \in Nat
            BY Typed, SessionAssumption DEF ChatIInv, Chatting, Executed
        <3>2. run[r].age < chat[r].limit BY <2>2 DEF RunAges
        <3> QED BY <2>2, <3>1, <3>2, <1>2, <1>4
    <2> QED BY <2>1, <2>2
<1> QED
    BY <1>5, <1>6, <1>7 DEF ChatIInv, RunAges, ClearBounded, HistoryRead, Answering

\* ... and what becomes of the session.
LEMMA SessionStep ==
    ASSUME ChatIInv, BeginClear \/ EndClear \/ Archive \/ Restore PROVE ChatIInv'
<1>1. UNCHANGED <<run, msgs, chat>> BY DEF BeginClear, EndClear, Archive, Restore
<1>2. /\ session' \in [status : {"active", "archived"}, segment : Segments]
      /\ clearing' \in BOOLEAN /\ ClearBounded' /\ session.segment <= session'.segment
    <2>0. /\ session \in [status : {"active", "archived"}, segment : Segments]
          /\ clearing \in BOOLEAN /\ ClearBounded
          /\ session.segment \in Int /\ MaxSegment \in Int
        BY SessionAssumption DEF ChatIInv, ChatTypeOK, Segments
    <2>1. CASE BeginClear BY <2>0, <2>1 DEF BeginClear, ClearBounded
    <2>2. CASE EndClear
        <3> DEFINE next == [session EXCEPT !.segment = @ + 1]
        <3>1. session.segment + 1 \in Segments
            BY <2>0, <2>2 DEF EndClear, ClearBounded, Segments
        <3>2. /\ next \in [status : {"active", "archived"}, segment : Segments]
              /\ next.segment = session.segment + 1
            BY <2>0, <3>1
        <3>3. session' = next /\ clearing' = FALSE BY <2>2 DEF EndClear
        <3>4. clearing' \in BOOLEAN /\ ClearBounded' BY <3>3 DEF ClearBounded
        <3>5. /\ session' \in [status : {"active", "archived"}, segment : Segments]
              /\ session.segment <= session'.segment
            <4> HIDE DEF next
            <4> QED BY <2>0, <3>2, <3>3
        <3> QED BY <3>4, <3>5
    <2>3. CASE Archive BY <2>0, <2>3 DEF Archive, ClearBounded
    <2>4. CASE Restore BY <2>0, <2>4 DEF Restore, ClearBounded
    <2> QED BY <2>1, <2>2, <2>3, <2>4
<1>3. ChatTypeOK' BY <1>1, <1>2 DEF ChatIInv, ChatTypeOK
<1>4. HistoryRead'
    <2>1. session.segment \in Int /\ session'.segment \in Int
        BY <1>2 DEF ChatIInv, ChatTypeOK, Segments
    <2>2. \A r \in Requests : /\ chat[r].segment \in Int
                              /\ \A s \in chat[r].history : s \in Int
        BY Typed DEF ChatIInv, Chatting, Segments
    <2> QED BY <1>1, <1>2, <2>1, <2>2 DEF ChatIInv, HistoryRead
<1> QED
    BY <1>1, <1>2, <1>3, <1>4 DEF ChatIInv, QuestionKept, Answering, Told, WithinLimit

\* Every step keeps the invariant.
LEMMA ChatStepInv == ChatIInv /\ [ChatNext]_chatVars => ChatIInv'
<1> SUFFICES ASSUME ChatIInv, [ChatNext]_chatVars PROVE ChatIInv' OBVIOUS
<1>1. CASE UNCHANGED chatVars
    BY <1>1 DEF chatVars, ChatIInv, ChatTypeOK, ClearBounded, HistoryRead, QuestionKept,
                Answering, Told, WithinLimit
<1>2. ASSUME NEW r \in Requests, Proceeds(r) PROVE ChatIInv'
    <2>1. CASE Open(r) BY <2>1, OpenStep
    <2>2. CASE RecoverStale(r) BY <2>2, RecoverStep
    <2>3. CASE CountActive(r) BY <2>3, CountStep
    <2>4. CASE ReadHistory(r) BY <2>4, ReadStep
    <2>5. CASE Admit(r) BY <2>5, AdmitStep
    <2>6. CASE Start(r) BY <2>6, RunStep DEF Start, Admitted, Ended
    <2>7. CASE RuntimeEnds(r) BY <2>7, RunStep DEF RuntimeEnds, Admitted, Ended
    <2>8. CASE CompleteChat(r) \/ FailChat(r) BY <2>8, PersistStep
    <2>9. CASE FailRun(r) BY <2>9, RunStep DEF FailRun, Admitted, Ended
    <2> QED BY <1>2, <2>1, <2>2, <2>3, <2>4, <2>5, <2>6, <2>7, <2>8, <2>9 DEF Proceeds
<1>3. ASSUME NEW r \in Requests, Gone(r) PROVE ChatIInv'
    BY <1>3, RunStep DEF Gone, Admitted, Ended
<1>4. ASSUME NEW r \in Requests, RunAges(r) PROVE ChatIInv' BY <1>4, TimeStep
<1>5. CASE BeginClear \/ EndClear \/ Archive \/ Restore BY <1>5, SessionStep
<1> QED BY <1>1, <1>2, <1>3, <1>4, <1>5 DEF ChatNext

\* So it always holds.
LEMMA ChatInductive == ChatSpec => []ChatIInv
BY ChatInitInv, ChatStepInv, PTL DEF ChatSpec

\* TypeOK of chat sessions.
THEOREM ChatTypeCorrect == ChatSpec => []ChatTypeOK
<1>1. ChatIInv => ChatTypeOK BY DEF ChatIInv
<1> QED BY <1>1, ChatInductive, PTL

\* TranscriptsSound: nothing crosses a clear of the context, in either direction,
\* and completed and answered are one.
THEOREM TranscriptsKept == ChatSpec => []TranscriptsSound
<1>1. ChatIInv => ContextsApart
    BY DEF ChatIInv, ContextsApart, QuestionKept, Answering
<1>2. ChatIInv => AnswersSettle BY DEF ChatIInv, AnswersSettle, Told
<1> QED BY <1>1, <1>2, ChatInductive, PTL DEF TranscriptsSound

\* A run at work is failed by others only after the limit was lowered.
THEOREM LiveSpared == ChatSpec => LiveRunsSpared
<1> DEFINE Spared == \A r \in Requests :
        chat[r].step = "runtime" /\ run[r].status \in Active /\ run'[r].status = "failed"
            => \E x \in Requests : chat[x].step = "opened" /\ chat[x].limit < chat[r].limit
<1>1. ChatIInv /\ [ChatNext]_chatVars => [Spared]_chatVars
    <2> SUFFICES ASSUME ChatIInv, ChatNext, NEW r \in Requests,
                        chat[r].step = "runtime", run[r].status \in Active,
                        run'[r].status = "failed"
                 PROVE  \E x \in Requests :
                            chat[x].step = "opened" /\ chat[x].limit < chat[r].limit
        OBVIOUS
    <2>1. run \in [Requests -> Executed] BY Typed DEF ChatIInv
    <2>2. run[r].status # "failed" BY DEF Active
    <2>3. PICK x \in Requests : RecoverStale(x)
        <3>1. ASSUME NEW x \in Requests, NEW status, chat[x].step # "runtime",
                     Overwritten(x, status), run'[r].status # run[r].status
              PROVE  FALSE
            BY <3>1, <2>1 DEF Overwritten
        <3>2. ASSUME NEW x \in Requests, Admit(x) PROVE FALSE
            BY <3>2, <2>1, <2>2 DEF Admit
        <3>3. ASSUME NEW x \in Requests, RunAges(x) PROVE FALSE
            BY <3>3, <2>1, <2>2 DEF RunAges, Executed
        <3> QED
            BY <2>2, <3>1, <3>2, <3>3
            DEF ChatNext, Proceeds, Open, CountActive, ReadHistory, Start, RuntimeEnds,
                CompleteChat, FailChat, Persist, FailRun, Gone, BeginClear, EndClear,
                Archive, Restore
    <2>4. chat[x].step = "opened" /\ run[r].age > chat[x].limit + Grace
        BY <2>2, <2>3 DEF RecoverStale, Stale
    <2>5. run[r].age <= chat[r].limit BY DEF ChatIInv, WithinLimit
    <2>6. chat[x].limit \in Nat /\ chat[r].limit \in Nat /\ run[r].age \in Nat
        BY <2>1, Typed, SessionAssumption DEF ChatIInv, Chatting, Executed
    <2> QED BY <2>4, <2>5, <2>6 DEF Grace
<1> QED BY <1>1, ChatInductive, PTL DEF ChatSpec, LiveRunsSpared
=============================================================================
