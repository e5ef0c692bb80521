---------------------------- MODULE AgentSession ----------------------------
(***************************************************************************)
(* One chat session with an agent and the requests that talk in it         *)
(* (src/internal/service/agent/agent_chat_service.go and                   *)
(* agent_session_service.go).  A request reads the session, fails the runs *)
(* it takes for dead, reads the history, and then admits its question      *)
(* under the session's row lock.  The answer comes calls later and is      *)
(* stored under the lock again.  Meanwhile the session may be cleared      *)
(* (which begins another segment), archived and restored, other requests   *)
(* come, and a server may stop at any step.                                *)
(***************************************************************************)
EXTENDS Integers

CONSTANTS
    Requests,       \* chat requests; the id is that of the run, too
    Limits,         \* runtime timeouts an agent's model has had
    MaxSegment      \* bound: how often the context is cleared, and one

\* staleAgentRunGracePeriod, in the unit of the limits
Grace == 1

ASSUME SessionAssumption ==
    Limits # {} /\ Limits \subseteq Nat \ {0} /\ MaxSegment \in Nat \ {0}

VARIABLES
    session,        \* conversations: status, and the ordinal of the current segment
    clearing,       \* a clear holds the row lock and has counted the active runs
    run,            \* conversation_executions: status, segment, age of updated_at
    msgs,           \* conversation_messages
    chat            \* what each request is doing and has read

chatVars == <<session, clearing, run, msgs, chat>>

Active == {"queued", "running"}
Segments == 1..MaxSegment
Admitted == {"queued", "runtime", "answered", "erred", "failing"}
Ended == {"ok", "failed", "error", "gone"}

ChatTypeOK ==
    /\ session \in [status : {"active", "archived"}, segment : Segments]
    /\ clearing \in BOOLEAN
    /\ run \in [Requests -> [status : Active \cup {"none", "completed", "failed"},
                             segment : Segments, age : Nat]]
    /\ msgs \subseteq [kind : {"question", "answer", "apology"}, run : Requests,
                       segment : Segments]
    /\ chat \in [Requests -> [step : {"idle", "opened", "recovered", "counted", "ready"}
                                     \cup Admitted \cup Ended,
                              segment : Segments, limit : Limits,
                              history : SUBSET Segments]]

Waiting == [step |-> "idle", segment |-> 1, limit |-> CHOOSE l \in Limits : TRUE,
            history |-> {}]

ChatInit ==
    /\ session = [status |-> "active", segment |-> 1]
    /\ clearing = FALSE
    /\ run = [r \in Requests |-> [status |-> "none", segment |-> 1, age |-> 0]]
    /\ msgs = {}
    /\ chat = [r \in Requests |-> Waiting]

-----------------------------------------------------------------------------
\* Before the question is admitted

GoesTo(r, step) == chat' = [chat EXCEPT ![r].step = step]

\* Nothing is kept of a request that is refused; its user sends it again.
Refused(r) == chat' = [chat EXCEPT ![r] = Waiting]

NoneActive == \A r \in Requests : run[r].status \notin Active

\* The session and the limit of the agent's model, as they are now.
Open(r) ==
    /\ chat[r].step = "idle" /\ session.status = "active"
    /\ \E l \in Limits :
        chat' = [chat EXCEPT ![r] = [step |-> "opened", segment |-> session.segment,
                                     limit |-> l, history |-> {}]]
    /\ UNCHANGED <<session, clearing, run, msgs>>

\* Mutant: a run that was never started is not looked at.
Stale_Queued(x, r) ==
    run[r].status = "running" /\ run[r].age > chat[x].limit + Grace

\* The window is that of the request that looks.
Stale(x, r) == run[r].status \in Active /\ run[r].age > chat[x].limit + Grace

RecoverStale(x) ==
    /\ chat[x].step = "opened"
    /\ run' = [r \in Requests |->
                IF Stale(x, r) THEN [run[r] EXCEPT !.status = "failed", !.age = 0] ELSE run[r]]
    /\ GoesTo(x, "recovered")
    /\ UNCHANGED <<session, clearing, msgs>>

CountActive(r) ==
    /\ chat[r].step = "recovered"
    /\ IF NoneActive THEN GoesTo(r, "counted") ELSE Refused(r)
    /\ UNCHANGED <<session, clearing, run, msgs>>

\* The messages of the segment that is current now.  Only the segments they
\* belong to are kept of them.
ReadHistory(r) ==
    /\ chat[r].step = "counted"
    /\ chat' = [chat EXCEPT ![r].step = "ready",
                            ![r].history = {m.segment : m \in {n \in msgs :
                                                n.segment = session.segment}}]
    /\ UNCHANGED <<session, clearing, run, msgs>>

\* Mutant: the context the request has read is not compared with the locked row's.
SameContext_Always(r) == TRUE

SameContext(r) == session.segment = chat[r].segment

\* A message goes into the segment that is current.
Insert(kind, r) ==
    msgs' = msgs \cup {[kind |-> kind, run |-> r, segment |-> session.segment]}

\* The locked transaction: question and queued run, or a refusal.
Admit(r) ==
    /\ chat[r].step = "ready" /\ ~clearing
    /\ IF session.status = "active" /\ SameContext(r) /\ NoneActive
       THEN /\ Insert("question", r)
            /\ run' = [run EXCEPT ![r] = [status |-> "queued", segment |-> session.segment,
                                          age |-> 0]]
            /\ GoesTo(r, "queued")
       ELSE Refused(r) /\ UNCHANGED <<run, msgs>>
    /\ UNCHANGED <<session, clearing>>

-----------------------------------------------------------------------------
\* The run

\* Mutant: the row keeps the time it was queued at.
Overwritten_KeepsAge(r, status) == run' = [run EXCEPT ![r].status = status]

\* UpsertAgentChatExecution on a row that exists: the status is overwritten, whatever
\* it was, and updated_at is now.
Overwritten(r, status) == run' = [run EXCEPT ![r].status = status, ![r].age = 0]

\* Its select finds the question's segment only while it is the current one.
Found(r) == run[r].segment = session.segment

\* transitionRun to running, without a lock.  The index of active executions
\* refuses a second one.
Start(r) ==
    /\ chat[r].step = "queued"
    /\ IF Found(r) /\ \A x \in Requests \ {r} : run[x].status \notin Active
       THEN Overwritten(r, "running") /\ GoesTo(r, "runtime")
       ELSE GoesTo(r, "error") /\ UNCHANGED run
    /\ UNCHANGED <<session, clearing, msgs>>

\* The agent answers, or fails or is timed out, or its user cannot be reached.
RuntimeEnds(r) ==
    /\ chat[r].step = "runtime"
    /\ \E s \in {"answered", "erred", "failing"} : GoesTo(r, s)
    /\ UNCHANGED <<session, clearing, run, msgs>>

\* completeAgentChat and failAgentChat: message and status under the session's
\* lock.  Neither asks for the status the run or the session has.
Persist(r, step, kind, status, ends) ==
    /\ chat[r].step = step /\ ~clearing
    /\ IF SameContext(r)
       THEN Insert(kind, r) /\ Overwritten(r, status) /\ GoesTo(r, ends)
       ELSE GoesTo(r, "failing") /\ UNCHANGED <<run, msgs>>
    /\ UNCHANGED <<session, clearing>>

CompleteChat(r) == Persist(r, "answered", "answer", "completed", "ok")
FailChat(r) == Persist(r, "erred", "apology", "failed", "failed")

\* FailRun, without a lock; its error is ignored.
FailRun(r) ==
    /\ chat[r].step = "failing"
    /\ IF Found(r) THEN Overwritten(r, "failed") ELSE UNCHANGED run
    /\ GoesTo(r, "failed")
    /\ UNCHANGED <<session, clearing, msgs>>

\* The server stops, or nothing more can be written: the run stays as it is.
Gone(r) ==
    /\ chat[r].step \in Admitted
    /\ GoesTo(r, "gone")
    /\ UNCHANGED <<session, clearing, run, msgs>>

Longest == CHOOSE l \in Limits : \A k \in Limits : k <= l

\* Time passes for an active run.  The runtime is cut off at its limit; nothing
\* else is.  An age past every limit and the grace is old enough.
RunAges(r) ==
    /\ run[r].status \in Active /\ run[r].age <= Longest + Grace
    /\ chat[r].step = "runtime" => run[r].age < chat[r].limit
    /\ run' = [run EXCEPT ![r].age = @ + 1]
    /\ UNCHANGED <<session, clearing, msgs, chat>>

-----------------------------------------------------------------------------
\* The session

\* ClearSessionContext: the lock, and the count of active runs ...
BeginClear ==
    /\ ~clearing /\ session.status = "active" /\ session.segment < MaxSegment
    /\ NoneActive
    /\ clearing' = TRUE
    /\ UNCHANGED <<session, run, msgs, chat>>

\* ... and the new segment.  (A clear that is broken off is one that never began.)
EndClear ==
    /\ clearing
    /\ clearing' = FALSE
    /\ session' = [session EXCEPT !.segment = @ + 1]
    /\ UNCHANGED <<run, msgs, chat>>

\* UpdateSession and DeleteSession
Archive ==
    /\ ~clearing /\ session.status = "active"
    /\ session' = [session EXCEPT !.status = "archived"]
    /\ UNCHANGED <<clearing, run, msgs, chat>>

Restore ==
    /\ ~clearing /\ session.status = "archived"
    /\ session' = [session EXCEPT !.status = "active"]
    /\ UNCHANGED <<clearing, run, msgs, chat>>

Proceeds(r) ==
    \/ Open(r) \/ RecoverStale(r) \/ CountActive(r) \/ ReadHistory(r) \/ Admit(r)
    \/ Start(r) \/ RuntimeEnds(r) \/ CompleteChat(r) \/ FailChat(r) \/ FailRun(r)

ChatNext ==
    \/ \E r \in Requests : Proceeds(r) \/ Gone(r) \/ RunAges(r)
    \/ BeginClear \/ EndClear \/ Archive \/ Restore

ChatSpec == ChatInit /\ [][ChatNext]_chatVars

-----------------------------------------------------------------------------
\* Properties

\* What was said before a clear does not reach the agent after it, and an answer
\* that comes after a clear does not get into the new context.
ContextsApart ==
    /\ \A r \in Requests : chat[r].step \in Admitted => chat[r].history \subseteq {run[r].segment}
    /\ \A m \in msgs : [kind |-> "question", run |-> m.run, segment |-> m.segment] \in msgs

\* A run is completed exactly if its answer is in the session, a run with an
\* apology stays failed, and no question has both.
AnswersSettle ==
    \A r \in Requests :
        LET Has(kind) == \E m \in msgs : m.kind = kind /\ m.run = r IN
        /\ run[r].status = "completed" <=> Has("answer")
        /\ Has("apology") => run[r].status = "failed"

\* Both, which is what a reader of the session relies on.
TranscriptsSound == ContextsApart /\ AnswersSettle

\* The agent is at work on the run and another request fails it: then the limit
\* was longer when the run began.
LiveRunsSpared ==
    [][\A r \in Requests :
        chat[r].step = "runtime" /\ run[r].status \in Active /\ run'[r].status = "failed"
            => \E x \in Requests : chat[x].step = "opened" /\ chat[x].limit < chat[r].limit
      ]_chatVars

\* A question that its user sends again comes to an end, though others died in the
\* session, unless the session is archived again and again.
ChatsEnd ==
    \A r \in Requests : []<>(session.status = "archived") \/ <>(chat[r].step \in Ended)
=============================================================================
