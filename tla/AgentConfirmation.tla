-------------------------- MODULE AgentConfirmation --------------------------
(***************************************************************************)
(* Actions that the chat agent prepares and the user confirms              *)
(* (src/internal/service/agent_confirmation_service.go and                 *)
(* external_tool_confirmation_service.go).  The agent stores what it would *)
(* do; a confirming request claims the record, looks at the target again,  *)
(* acts, and settles the record.  The target (a form draft, the stage of a *)
(* review, the contract of an external tool) goes on changing meanwhile,   *)
(* a call may fail after it took effect, and a server may stop.            *)
(***************************************************************************)
EXTENDS Naturals

CONSTANTS
    Confirmations,      \* ids
    Confirmers,           \* confirming requests
    MaxVersion,         \* bound: how often a target changes
    MaxEffects          \* bound: how often an action takes effect

Sorts == {"form", "review", "tool", "internal"}

ASSUME ConfirmationAssumption ==
    Confirmations # {} /\ MaxVersion \in Nat /\ MaxEffects \in Nat \ {0}

VARIABLES
    conf,       \* agent_confirmations: status, kind, and the target's version shown
    late,       \* expires_at has passed
    target,     \* per confirmation the target: its version, and whether it is open
    req,        \* what each request is doing
    effects,    \* how often the action took effect
    known       \* the action reported success at least once

confVars == <<conf, late, target, req, effects, known>>

Settled == {"completed", "failed", "cancelled", "expired"}
Outcomes == {"none", "ok", "unrecorded", "fatal", "retryable", "cancelled"}

ConfTypeOK ==
    /\ conf \in [Confirmations -> [status : {"none", "pending", "executing"} \cup Settled,
                                   kind : Sorts, version : 0..MaxVersion]]
    /\ late \in [Confirmations -> BOOLEAN]
    /\ target \in [Confirmations -> [version : 0..MaxVersion, open : BOOLEAN]]
    /\ req \in [Confirmers -> [step : {"idle", "check", "act", "settle"}, id : Confirmations,
                             outcome : Outcomes]]
    /\ effects \in [Confirmations -> 0..MaxEffects]
    /\ known \in [Confirmations -> BOOLEAN]

Quiet == [step |-> "idle", id |-> CHOOSE i \in Confirmations : TRUE, outcome |-> "none"]

ConfInit ==
    /\ conf = [i \in Confirmations |-> [status |-> "none", kind |-> "form", version |-> 0]]
    /\ late = [i \in Confirmations |-> FALSE]
    /\ target = [i \in Confirmations |-> [version |-> 0, open |-> TRUE]]
    /\ req = [x \in Confirmers |-> Quiet]
    /\ effects = [i \in Confirmations |-> 0]
    /\ known = [i \in Confirmations |-> FALSE]

-----------------------------------------------------------------------------
\* The agent prepares an action: the record says which version was shown.

SaveConfirmation(i, kind) ==
    /\ conf[i].status = "none"
    /\ conf' = [conf EXCEPT ![i] = [status |-> "pending", kind |-> kind,
                                    version |-> target[i].version]]
    /\ UNCHANGED <<late, target, req, effects, known>>

PrepareForm(i) == target[i].open /\ SaveConfirmation(i, "form")
PrepareReview(i) == target[i].open /\ SaveConfirmation(i, "review")
PrepareTool(i) == target[i].open /\ SaveConfirmation(i, "tool")
PrepareInternal(i) == SaveConfirmation(i, "internal")

\* Somebody edits the draft, decides on the stage, changes or disables the tool.
ChangeTarget(i) ==
    /\ target[i].open /\ target[i].version < MaxVersion
    /\ \E o \in BOOLEAN :
        target' = [target EXCEPT ![i] = [version |-> @.version + 1, open |-> o]]
    /\ UNCHANGED <<conf, late, req, effects, known>>

TimePasses(i) ==
    /\ ~late[i]
    /\ late' = [late EXCEPT ![i] = TRUE]
    /\ UNCHANGED <<conf, target, req, effects, known>>

-----------------------------------------------------------------------------
\* The user confirms

MayClaim(i) == conf[i].status = "pending"

\* ClaimAgentConfirmation: one statement; a late record expires instead.  (A
\* record of a former segment of the conversation is not found at all.)
TakeConfirmation(x) ==
    /\ req[x].step = "idle"
    /\ \E i \in Confirmations :
        /\ MayClaim(i)
        /\ IF late[i]
           THEN conf' = [conf EXCEPT ![i].status = "expired"] /\ UNCHANGED req
           ELSE /\ conf' = [conf EXCEPT ![i].status = "executing"]
                /\ req' = [req EXCEPT ![x] = [step |-> "check", id |-> i, outcome |-> "none"]]
    /\ UNCHANGED <<late, target, effects, known>>

Ends(x, o) == req' = [req EXCEPT ![x].step = "settle", ![x].outcome = o]

\* The draft, the stage or the contract of the tool is the one that was shown.
AsShown(i) ==
    \/ conf[i].kind = "internal"
    \/ target[i].open /\ target[i].version = conf[i].version

CheckTarget(x) ==
    /\ req[x].step = "check"
    /\ \/ AsShown(req[x].id) /\ req' = [req EXCEPT ![x].step = "act"]
       \/ ~AsShown(req[x].id) /\ Ends(x, "fatal")
       \/ \E o \in {"fatal", "retryable", "cancelled"} : Ends(x, o)
    /\ UNCHANGED <<conf, late, target, effects, known>>

\* Mutant: a draft stays a draft while its submission goes on.
TakesEffect_StaysOpen(i) ==
    /\ effects[i] < MaxEffects
    /\ effects' = [effects EXCEPT ![i] = @ + 1]
    /\ UNCHANGED target

\* The action takes effect.  A submission or a decision closes its target.
TakesEffect(i) ==
    /\ effects[i] < MaxEffects
    /\ effects' = [effects EXCEPT ![i] = @ + 1]
    /\ target' = [target EXCEPT ![i].open = @ /\ conf[i].kind \notin {"form", "review"}]

Acts(x) ==
    /\ req[x].step = "act"
    /\ conf[req[x].id].kind \in {"form", "review"} => target[req[x].id].open
    /\ TakesEffect(req[x].id)

\* It is reported as done.  What an external tool did may not get on record.
Succeeds(x) ==
    /\ Acts(x)
    /\ \/ Ends(x, "ok")
       \/ conf[req[x].id].kind = "tool" /\ Ends(x, "unrecorded")
    /\ known' = [known EXCEPT ![req[x].id] = TRUE]
    /\ UNCHANGED <<conf, late>>

\* The answer is lost: a timeout, a server error, the user went away.
AnswerLost(x) ==
    /\ Acts(x)
    /\ \E o \in {"fatal", "retryable", "cancelled"} : Ends(x, o)
    /\ UNCHANGED <<conf, late, known>>

\* Nothing happened: it failed, or the target was closed since it was checked
\* (a batch of reviews then reports that it was done in part).
NoEffect(x) ==
    /\ req[x].step = "act"
    /\ \/ \E o \in {"fatal", "retryable", "cancelled"} : Ends(x, o)
       \/ conf[req[x].id].kind = "review" /\ ~target[req[x].id].open /\ Ends(x, "ok")
    /\ UNCHANGED <<conf, late, target, effects, known>>

\* Mutant: an action that is done but not on record counts as a passing failure.
Settlement_Unrecorded(o, expired) ==
    IF o = "ok" THEN "completed" ELSE IF o \in {"retryable", "unrecorded"} THEN "pending"
    ELSE "failed"

\* completeAgentConfirmation and settleFailedAgentConfirmation
Settlement(o, expired) ==
    CASE o = "ok" -> "completed"
      [] o # "ok" /\ expired -> "expired"
      [] o = "cancelled" /\ ~expired -> "cancelled"
      [] o = "retryable" /\ ~expired -> "pending"
      [] OTHER -> "failed"

Settle(x) ==
    LET i == req[x].id IN
    /\ req[x].step = "settle"
    /\ conf' = IF conf[i].status = "executing"
               THEN [conf EXCEPT ![i].status = Settlement(req[x].outcome, late[i])]
               ELSE conf
    /\ req' = [req EXCEPT ![x] = Quiet]
    /\ UNCHANGED <<late, target, effects, known>>

\* The server stops, or the record cannot be written: it stays in execution.
Lost(x) ==
    /\ req[x].step # "idle"
    /\ req' = [req EXCEPT ![x] = Quiet]
    /\ UNCHANGED <<conf, late, target, effects, known>>

Confirm(x) ==
    \/ TakeConfirmation(x) \/ CheckTarget(x) \/ Succeeds(x) \/ AnswerLost(x) \/ NoEffect(x)
    \/ Settle(x) \/ Lost(x)

ConfNext ==
    \/ \E i \in Confirmations :
        \/ PrepareForm(i) \/ PrepareReview(i) \/ PrepareTool(i) \/ PrepareInternal(i)
        \/ ChangeTarget(i) \/ TimePasses(i)
    \/ \E x \in Confirmers : Confirm(x)

ConfSpec == ConfInit /\ [][ConfNext]_confVars

-----------------------------------------------------------------------------
\* Properties

\* A confirmed action that reported success is not carried out again, whether or
\* not its success got on record.
NotReplayed ==
    [][\A i \in Confirmations : known[i] => effects'[i] = effects[i]]_confVars

\* A form is submitted and a stage is decided at most once, even where the answer
\* was lost and the user confirmed again.
TargetOnce ==
    \A i \in Confirmations : conf[i].kind \in {"form", "review"} => effects[i] <= 1
=============================================================================
