------------------------- MODULE FormApprovalProofs -------------------------
(***************************************************************************)
(* The life of a form and of its runs, for any number of accounts, stages, *)
(* commands, editors and runs: the safety properties of FormApproval.      *)
(*                                                                         *)
(* The argument goes run by run.  SoundRun says what is true of one run    *)
(* record, whatever happens around it; Agreement and what it needs relate  *)
(* the runs to the form; Executing and Working are about the executions    *)
(* and the attempts of their activities.                                   *)
(***************************************************************************)
EXTENDS FormApproval, TLAPS

-----------------------------------------------------------------------------
\* One run

\* Who approved stage instance i, by the log.
ApprovedIn(log, i) == {By[e.cmd] : e \in {x \in Approvals(log) : x.on = i}}

\* A running run is at its last stage instance, the only one that is active.
AtLast(rr) ==
    /\ rr.status = "running" <=> rr.at # 0
    /\ rr.at # 0 => rr.at = Len(rr.stages)
    /\ \A i \in DOMAIN rr.stages : rr.stages[i].status = "active" <=> i = rr.at

\* No command is in the log twice, and none comes after a withdrawal.
LoggedOnce(rr) ==
    /\ \A j, k \in DOMAIN rr.log : rr.log[j].cmd = rr.log[k].cmd => j = k
    /\ \A j \in DOMAIN rr.log : Action[rr.log[j].cmd] = "withdraw" => rr.status # "running"

\* The log has the approvals that the assignees are marked with.
VotesLogged(rr) ==
    \A i \in DOMAIN rr.stages, a \in Accounts :
        rr.stages[i].who[a] = "approved" => a \in ApprovedIn(rr.log, i)

\* Stage instance i has what it asks for, if it is completed.
Approved(rr, i) ==
    rr.stages[i].status = "completed" =>
        IF rr.stages[i].stage \in All
        THEN \A a \in Accounts : rr.stages[i].who[a] # "none" => a \in ApprovedIn(rr.log, i)
        ELSE ApprovedIn(rr.log, i) # {}

\* Stage instance i follows the one before it, which is completed.
Follows(rr, i) ==
    IF i = 1 THEN rr.stages[i].stage \in First
    ELSE rr.stages[i].stage \in Follow[rr.stages[i-1].stage] /\ rr.stages[i-1].status = "completed"

NewApprovers(rr) ==
    \A i \in DOMAIN rr.stages : \A j \in 1..(i-1) :
        rr.stages[i].stage \in Distinct =>
            \A a \in ApprovedIn(rr.log, j) : rr.stages[i].who[a] = "none"

SoundRun(rr) ==
    /\ AtLast(rr) /\ LoggedOnce(rr) /\ VotesLogged(rr) /\ NewApprovers(rr)
    /\ \A i \in DOMAIN rr.stages : Approved(rr, i) /\ Follows(rr, i)

\* A run whose approval made the form approved.
RouteEnded(rr) ==
    IF rr.stages = <<>> THEN End \in First
    ELSE LET last == rr.stages[Len(rr.stages)] IN
         last.status = "completed" /\ End \in Follow[last.stage]

-----------------------------------------------------------------------------
\* The form and its runs

\* The copy of the form that an editor works on, if it is current.
Copies == \A p \in fresh : editing[p].op # "idle" => form = editing[p].status

Rounds ==
    /\ form = "in_review" <=> HasRun /\ Running(current)
    /\ form = "none" => \A r \in Runs : run[r].status = "none"
    /\ form = "approved" => current \in Runs /\ RouteEnded(run[current])
    /\ \A r \in Runs : r > current => run[r].status = "none"
    /\ \A r \in Runs : Running(r) => r = current

FormTypeOK ==
    /\ form \in Statuses \cup {"none"}
    /\ current \in 0..MaxRuns
    /\ editing \in [Editors -> [op : Ops \cup {"idle"}, status : {"draft", "returned"}]]
    /\ fresh \subseteq Editors
    /\ run \in [Runs -> RunRecords]

FormInv == FormTypeOK /\ Copies /\ Rounds /\ \A r \in Runs : SoundRun(run[r])

-----------------------------------------------------------------------------
\* The executions

Executing ==
    /\ exec \in [Runs -> Execs]
    /\ asked \in [Commands -> 0..MaxRuns]
    /\ \A c \in Commands : asked[c] <= current
    /\ \A r \in Runs :
        /\ exec[r].phase \in {"apply", "commit", "load"} => exec[r].queue # <<>>
        /\ exec[r].phase \in {"apply", "commit", "load", "reload"} => exec[r].tries < MaxTries
        /\ exec[r].phase = "none" => exec[r].tries = 0
        /\ exec[r].key[2] # 0 => exec[r].key[1] \in Runs
        /\ run[r].status # "none" /\ run[r].start = "pending" => exec[r].phase = "none"
        /\ r > current => exec[r].phase = "none"

Working ==
    /\ work \subseteq Attempts
    /\ \A x \in work : x.live => exec[x.via].phase = "commit"
    /\ \A x, y \in work : x.live /\ y.live /\ x.via = y.via => x = y

IInv == FormInv /\ Executing /\ Working

-----------------------------------------------------------------------------
\* Attempts that are given up do not commit, and no run is deleted

Orderly == ~Overlap /\ "delete" \notin Ops

\* The latest run is running as long as its execution has anything to apply, or
\* has just applied it.
Applying ==
    current \in Runs =>
        /\ run[current].status # "none"
        /\ exec[current].phase \in {"wait", "commit"} => Running(current)
        /\ exec[current].phase \in {"apply", "load"} =>
            Running(current) \/ HasReceipt(current, Head(exec[current].queue))

\* Only the execution of the latest run has an attempt, for its next signal.
OwnWork ==
    \A x \in work :
        /\ x.live /\ x.via = current /\ x.run \in {0, current}
        /\ x.cmd = Head(exec[current].queue)

PinnedInv == IInv /\ form # "none" /\ Applying /\ OwnWork /\ Pinned
-----------------------------------------------------------------------------
\* Lemmas about one run record

USE DEF Range

\* What one more entry adds to the log and to the approvals in it.
LEMMA LogAppend ==
    ASSUME NEW log \in Seq(Entries), NEW e \in Entries
    PROVE  /\ Append(log, e) \in Seq(Entries)
           /\ Len(Append(log, e)) = Len(log) + 1
           /\ \A j \in 1..Len(log) : Append(log, e)[j] = log[j]
           /\ Append(log, e)[Len(log) + 1] = e
           /\ \A i : ApprovedIn(log, i) \subseteq ApprovedIn(Append(log, e), i)
           /\ Action[e.cmd] = "approve" => By[e.cmd] \in ApprovedIn(Append(log, e), e.on)
           /\ \A i : \A a \in ApprovedIn(Append(log, e), i) :
                a \in ApprovedIn(log, i) \/ (a = By[e.cmd] /\ i = e.on)
<1> DEFINE more == Append(log, e)
<1>1. /\ more \in Seq(Entries) /\ Len(more) = Len(log) + 1 /\ Len(log) \in Nat
      /\ \A j \in 1..Len(log) : more[j] = log[j]
      /\ more[Len(log) + 1] = e
    OBVIOUS
<1> HIDE DEF more
<1>2. DOMAIN more = 1..(Len(log) + 1) /\ DOMAIN log = 1..Len(log) BY <1>1
<1>3. Range(more) = Range(log) \cup {e}
    <2>1. \A j \in DOMAIN log : more[j] = log[j] /\ j \in DOMAIN more BY <1>1, <1>2
    <2>2. Len(log) + 1 \in DOMAIN more BY <1>1, <1>2
    <2>3. \A j \in DOMAIN more : j \in DOMAIN log \/ more[j] = e BY <1>1, <1>2
    <2> QED BY <1>1, <2>1, <2>2, <2>3
<1> HIDE DEF Range
<1>4. Approvals(more) = Approvals(log) \cup {f \in {e} : Action[f.cmd] = "approve"}
    BY <1>3 DEF Approvals
<1>5. /\ \A i : ApprovedIn(log, i) \subseteq ApprovedIn(more, i)
      /\ Action[e.cmd] = "approve" => By[e.cmd] \in ApprovedIn(more, e.on)
      /\ \A i : \A a \in ApprovedIn(more, i) :
            a \in ApprovedIn(log, i) \/ (a = By[e.cmd] /\ i = e.on)
    BY <1>4 DEF ApprovedIn
<1> QED BY <1>1, <1>5 DEF more

\* What the log says of an account is about an account.
LEMMA ApproversTyped ==
    ASSUME NEW log \in Seq(Entries), NEW i
    PROVE  ApprovedIn(log, i) \subseteq Accounts
<1>1. Range(log) \subseteq Entries OBVIOUS
<1> HIDE DEF Range
<1>2. \A e \in Approvals(log) : e.cmd \in Commands BY <1>1 DEF Approvals, Entries
<1>3. \A c \in Commands : By[c] \in Accounts BY ApprovalAssumption
<1> QED BY <1>2, <1>3 DEF ApprovedIn

\* The record of a run whose stage instance i is changed.
LEMMA StageChanged ==
    ASSUME NEW stages \in Seq(StageInstances), NEW i \in DOMAIN stages,
           NEW s \in StageInstances
    PROVE  LET new == [stages EXCEPT ![i] = s] IN
           /\ new \in Seq(StageInstances) /\ Len(new) = Len(stages)
           /\ DOMAIN new = DOMAIN stages
           /\ new[i] = s /\ \A j \in DOMAIN stages : j # i => new[j] = stages[j]
<1> DEFINE n == Len(stages)
           new == [stages EXCEPT ![i] = s]
<1>1. n \in Nat /\ stages \in [1..n -> StageInstances] /\ DOMAIN stages = 1..n OBVIOUS
<1>2. new \in [1..n -> StageInstances] /\ DOMAIN new = 1..n BY <1>1
<1>3. new \in Seq(StageInstances) /\ Len(new) = n
    <2> HIDE DEF new, n
    <2> QED BY <1>1, <1>2
<1>4. new[i] = s /\ \A j \in DOMAIN stages : j # i => new[j] = stages[j] BY <1>1
<1> HIDE DEF new
<1> QED BY <1>1, <1>2, <1>3, <1>4 DEF new

\* A vote: one more entry, and one assignee marked.
LEMMA VotedIs ==
    ASSUME run \in [Runs -> RunRecords], NEW x \in Attempts, x.run \in Runs,
           x.on \in DOMAIN run[x.run].stages,
           NEW vote \in {"approved", "rejected", "returned"}
    PROVE  LET rr == run[x.run]
               v == Voted(x, vote)
               e == [cmd |-> x.cmd, on |-> x.on, via |-> x.via]
           IN  /\ v \in RunRecords /\ e \in Entries
               /\ v.status = rr.status /\ v.start = rr.start /\ v.at = rr.at
               /\ v.log = Append(rr.log, e)
               /\ Len(v.stages) = Len(rr.stages) /\ DOMAIN v.stages = DOMAIN rr.stages
               /\ \A i \in DOMAIN rr.stages : i # x.on => v.stages[i] = rr.stages[i]
               /\ v.stages[x.on].stage = rr.stages[x.on].stage
               /\ v.stages[x.on].status = rr.stages[x.on].status
               /\ v.stages[x.on].who = [rr.stages[x.on].who EXCEPT ![By[x.cmd]] = vote]
<1> DEFINE rr == run[x.run]
           e == [cmd |-> x.cmd, on |-> x.on, via |-> x.via]
           old == rr.stages[x.on]
           s == [old EXCEPT !.who[By[x.cmd]] = vote]
<1>1. e \in Entries BY DEF Attempts, Entries
<1>2. rr \in RunRecords /\ rr.stages \in Seq(StageInstances) /\ rr.log \in Seq(Entries)
    BY DEF RunRecords
<1>3. old \in StageInstances BY <1>2
<1>4. s = [old EXCEPT !.who = [old.who EXCEPT ![By[x.cmd]] = vote]] OBVIOUS
<1>5. /\ s \in StageInstances
      /\ s.stage = old.stage /\ s.status = old.status
      /\ s.who = [old.who EXCEPT ![By[x.cmd]] = vote]
    <2> DEFINE w == [old.who EXCEPT ![By[x.cmd]] = vote]
    <2>1. w \in [Accounts -> {"none", "pending", "approved", "rejected", "returned"}]
        BY <1>3 DEF StageInstances
    <2> HIDE DEF w, old
    <2>2. s = [old EXCEPT !.who = w] BY <1>4 DEF w
    <2> QED BY <1>3, <2>1, <2>2 DEF StageInstances, w
<1>6. Append(rr.log, e) \in Seq(Entries) BY <1>1, <1>2
<1>7. Voted(x, vote) = [rr EXCEPT !.log = Append(rr.log, e),
                                  !.stages = [rr.stages EXCEPT ![x.on] = s]]
    BY <1>2 DEF Voted, Logged, RunRecords
<1> HIDE DEF s, e, rr, old
<1>8. LET new == [rr.stages EXCEPT ![x.on] = s] IN
      /\ new \in Seq(StageInstances) /\ Len(new) = Len(rr.stages)
      /\ DOMAIN new = DOMAIN rr.stages
      /\ new[x.on] = s /\ \A j \in DOMAIN rr.stages : j # x.on => new[j] = rr.stages[j]
    BY <1>2, <1>5, StageChanged DEF rr
<1> QED BY <1>1, <1>2, <1>5, <1>6, <1>7, <1>8 DEF RunRecords, rr, e, old
\* A vote of somebody the stage still waits for keeps a run sound.
LEMMA VotedSound ==
    ASSUME run \in [Runs -> RunRecords], NEW x \in Attempts, x.run \in Runs,
           SoundRun(run[x.run]), Running(x.run), run[x.run].at = x.on,
           x.on \in DOMAIN run[x.run].stages,
           run[x.run].stages[x.on].who[By[x.cmd]] = "pending",
           ~HasReceipt(x.run, x.cmd), Action[x.cmd] # "withdraw",
           NEW vote \in {"approved", "rejected", "returned"},
           vote = "approved" => Action[x.cmd] = "approve"
    PROVE  SoundRun(Voted(x, vote))
<1> DEFINE rr == run[x.run]
           v == Voted(x, vote)
           e == [cmd |-> x.cmd, on |-> x.on, via |-> x.via]
<1>1. /\ v \in RunRecords /\ e \in Entries
      /\ v.status = rr.status /\ v.at = rr.at
      /\ v.log = Append(rr.log, e)
      /\ Len(v.stages) = Len(rr.stages) /\ DOMAIN v.stages = DOMAIN rr.stages
      /\ \A i \in DOMAIN rr.stages : i # x.on => v.stages[i] = rr.stages[i]
      /\ v.stages[x.on].stage = rr.stages[x.on].stage
      /\ v.stages[x.on].status = rr.stages[x.on].status
      /\ v.stages[x.on].who = [rr.stages[x.on].who EXCEPT ![By[x.cmd]] = vote]
    BY VotedIs
<1>2. rr \in RunRecords /\ rr.log \in Seq(Entries) /\ rr.stages \in Seq(StageInstances)
    BY DEF RunRecords
<1>3. x.cmd \in Commands /\ By[x.cmd] \in Accounts
    BY ApprovalAssumption DEF Attempts
<1>4. e.cmd = x.cmd /\ e.on = x.on OBVIOUS
<1>5. rr.status = "running" /\ SoundRun(rr) BY DEF Running
<1>6. \A j \in DOMAIN rr.log : rr.log[j].cmd # x.cmd BY DEF HasReceipt
<1> HIDE DEF v, e, rr
<1>7. /\ Len(v.log) = Len(rr.log) + 1
      /\ \A j \in 1..Len(rr.log) : v.log[j] = rr.log[j]
      /\ v.log[Len(rr.log) + 1] = e
      /\ \A i : ApprovedIn(rr.log, i) \subseteq ApprovedIn(v.log, i)
      /\ Action[x.cmd] = "approve" => By[x.cmd] \in ApprovedIn(v.log, x.on)
      /\ \A i : \A a \in ApprovedIn(v.log, i) :
            a \in ApprovedIn(rr.log, i) \/ (a = By[x.cmd] /\ i = x.on)
    BY <1>1, <1>2, <1>4, LogAppend
<1>8. \A i \in DOMAIN rr.stages :
        /\ v.stages[i].stage = rr.stages[i].stage /\ v.stages[i].status = rr.stages[i].status
        /\ \A a \in Accounts :
            \/ v.stages[i].who[a] = rr.stages[i].who[a]
            \/ i = x.on /\ a = By[x.cmd] /\ v.stages[i].who[a] = vote
    <2>1. rr.stages[x.on].who \in
            [Accounts -> {"none", "pending", "approved", "rejected", "returned"}]
        <3>1. rr.stages[x.on] \in StageInstances BY <1>2 DEF rr
        <3> QED BY <3>1 DEF StageInstances
    <2>2. SUFFICES ASSUME NEW i \in DOMAIN rr.stages
                   PROVE  /\ v.stages[i].stage = rr.stages[i].stage
                          /\ v.stages[i].status = rr.stages[i].status
                          /\ \A a \in Accounts :
                                \/ v.stages[i].who[a] = rr.stages[i].who[a]
                                \/ i = x.on /\ a = By[x.cmd] /\ v.stages[i].who[a] = vote
        OBVIOUS
    <2>3. CASE i = x.on BY <1>1, <2>1, <2>3
    <2>4. CASE i # x.on BY <1>1, <2>4
    <2> QED BY <2>3, <2>4
<1>9. AtLast(v) BY <1>1, <1>5, <1>8 DEF AtLast, SoundRun
<1>10. LoggedOnce(v)
    <2>1. DOMAIN v.log = 1..Len(rr.log) + 1 /\ DOMAIN rr.log = 1..Len(rr.log)
          /\ Len(rr.log) \in Nat /\ v.log \in Seq(Entries)
        BY <1>1, <1>2, <1>7 DEF RunRecords
    <2>2. \A j \in DOMAIN v.log : (j \in DOMAIN rr.log /\ v.log[j] = rr.log[j])
                                \/ (j = Len(rr.log) + 1 /\ v.log[j] = e)
        BY <1>7, <2>1
    <2>3. \A j, k \in DOMAIN v.log : v.log[j].cmd = v.log[k].cmd => j = k
        BY <1>4, <1>5, <1>6, <2>2 DEF SoundRun, LoggedOnce
    <2>4. \A j \in DOMAIN v.log : Action[v.log[j].cmd] # "withdraw"
        BY <1>4, <1>5, <2>2 DEF SoundRun, LoggedOnce
    <2> QED BY <2>3, <2>4 DEF LoggedOnce
<1>11. VotesLogged(v)
    BY <1>1, <1>5, <1>7, <1>8 DEF VotesLogged, SoundRun
<1>12. NewApprovers(v)
    <2>1. SUFFICES ASSUME NEW i \in DOMAIN v.stages, NEW j \in 1..(i-1),
                          v.stages[i].stage \in Distinct, NEW a \in ApprovedIn(v.log, j)
                   PROVE  v.stages[i].who[a] = "none"
        BY DEF NewApprovers
    <2>8. i \in DOMAIN rr.stages /\ rr.stages[i].stage \in Distinct BY <1>1, <1>8, <2>1
    <2>2. i \in 1..Len(rr.stages) /\ Len(rr.stages) \in Nat BY <1>2, <2>8
    <2>3. x.on = Len(rr.stages) BY <1>2, <1>5 DEF SoundRun, AtLast, rr
    <2>4. a \in ApprovedIn(rr.log, j) BY <1>7, <2>2, <2>3
    <2>5. rr.stages[i].who[a] = "none" BY <1>5, <2>8, <2>4 DEF SoundRun, NewApprovers
    <2>6. a \in Accounts BY <1>2, <2>4, ApproversTyped
    <2>7. ~(i = x.on /\ a = By[x.cmd]) BY <2>5 DEF rr
    <2> QED BY <1>8, <2>8, <2>5, <2>6, <2>7
<1>13. ASSUME NEW i \in DOMAIN rr.stages PROVE Approved(v, i) /\ Follows(v, i)
    <2>1. Approved(rr, i) /\ Follows(rr, i) BY <1>5 DEF SoundRun
    <2>2. i \in 1..Len(rr.stages) BY <1>2
    <2>3. Follows(v, i)
        <3>1. CASE i = 1 BY <1>8, <2>1, <3>1 DEF Follows
        <3>2. CASE i # 1
            <4>1. i - 1 \in DOMAIN rr.stages BY <1>2, <2>2, <3>2
            <4> QED BY <1>8, <2>1, <3>2, <4>1 DEF Follows
        <3> QED BY <3>1, <3>2
    <2>4. Approved(v, i)
        <3>1. SUFFICES ASSUME v.stages[i].status = "completed" PROVE Approved(v, i)
            BY DEF Approved
        <3>2. rr.stages[i].status = "completed" /\ i # x.on
            BY <1>5, <1>8, <3>1 DEF SoundRun, AtLast, rr
        <3> QED BY <1>7, <1>8, <2>1, <3>2 DEF Approved
    <2> QED BY <2>3, <2>4
<1> QED BY <1>1, <1>9, <1>10, <1>11, <1>12, <1>13 DEF SoundRun, v
\* A run that is to go on: it is sound but for the stage instance it is at,
\* which is completed.
Ready(rr) ==
    /\ rr \in RunRecords /\ rr.status = "running"
    /\ LoggedOnce(rr) /\ VotesLogged(rr) /\ NewApprovers(rr)
    /\ \A i \in DOMAIN rr.stages :
        Approved(rr, i) /\ Follows(rr, i) /\ rr.stages[i].status # "active"

\* Where a run may go on to.
Reachable(rr, next) ==
    IF rr.stages = <<>> THEN next \in First
    ELSE /\ rr.stages[Len(rr.stages)].status = "completed"
         /\ next \in Follow[rr.stages[Len(rr.stages)].stage]

\* A stage opens for people who have not approved yet, if it wants such.
LEMMA OpenedIs ==
    ASSUME NEW log \in Seq(Entries), NEW s \in Stages
    PROVE  /\ Opened(s, log) \in StageInstances
           /\ Opened(s, log).stage = s /\ Opened(s, log).status = "active"
           /\ \A a \in Accounts : Opened(s, log).who[a] \in {"none", "pending"}
           /\ s \in Distinct =>
                \A i : \A a \in ApprovedIn(log, i) : Opened(s, log).who[a] = "none"
<1> HIDE DEF Range
<1>1. /\ Opened(s, log) \in StageInstances
      /\ Opened(s, log).stage = s /\ Opened(s, log).status = "active"
      /\ \A a \in Accounts : Opened(s, log).who[a] =
                                IF a \in Resolved(s, log) THEN "pending" ELSE "none"
    BY DEF Opened, StageInstances
<1>2. ASSUME s \in Distinct, NEW i, NEW a \in ApprovedIn(log, i)
      PROVE  Opened(s, log).who[a] = "none"
    <2>1. a \in Accounts BY ApproversTyped
    <2>2. a \in {By[e.cmd] : e \in Approvals(log)} BY DEF ApprovedIn
    <2>3. a \notin Resolved(s, log) BY <1>2, <2>2 DEF Resolved
    <2> QED BY <1>1, <2>1, <2>3
<1> QED BY <1>1, <1>2

\* Going on keeps a run sound.
LEMMA ReachSound ==
    ASSUME NEW rr, Ready(rr), NEW next \in Stages \cup {End}, Reachable(rr, next)
    PROVE  /\ Reach(rr, next) \in RunRecords /\ SoundRun(Reach(rr, next))
           /\ Reach(rr, next).start = rr.start
           /\ Reach(rr, next).status = IF next = End THEN "completed" ELSE "running"
           /\ next = End => RouteEnded(Reach(rr, next))
<1> USE DEF Ready
<1>1. rr.stages \in Seq(StageInstances) /\ rr.log \in Seq(Entries) BY DEF RunRecords
<1>2. CASE next = End
    <2> DEFINE c == [rr EXCEPT !.status = "completed", !.at = 0]
    <2>1. /\ c \in RunRecords /\ c.status = "completed" /\ c.at = 0 /\ c.start = rr.start
          /\ c.log = rr.log /\ c.stages = rr.stages
        BY DEF RunRecords
    <2>2. Reach(rr, next) = c BY <1>2 DEF Reach
    <2> HIDE DEF c
    <2>3. AtLast(c) BY <1>1, <2>1 DEF AtLast
    <2>4. LoggedOnce(c) /\ VotesLogged(c) /\ NewApprovers(c)
        BY <2>1 DEF LoggedOnce, VotesLogged, NewApprovers
    <2>5. \A i \in DOMAIN c.stages : Approved(c, i) /\ Follows(c, i)
        BY <2>1 DEF Approved, Follows
    <2>6. RouteEnded(c) BY <1>2, <2>1 DEF RouteEnded, Reachable
    <2> QED BY <1>2, <2>1, <2>2, <2>3, <2>4, <2>5, <2>6 DEF SoundRun
<1>3. CASE next # End
    <2> DEFINE new == Opened(next, rr.log)
               n == Len(rr.stages)
               c == [rr EXCEPT !.at = n + 1, !.stages = Append(rr.stages, new)]
    <2>1. /\ new \in StageInstances /\ new.stage = next /\ new.status = "active"
          /\ \A a \in Accounts : new.who[a] \in {"none", "pending"}
          /\ next \in Distinct => \A i : \A a \in ApprovedIn(rr.log, i) : new.who[a] = "none"
        BY <1>1, <1>3, OpenedIs
    <2> HIDE DEF new
    <2>2. /\ Append(rr.stages, new) \in Seq(StageInstances) /\ n \in Nat
          /\ Len(Append(rr.stages, new)) = n + 1
          /\ DOMAIN Append(rr.stages, new) = 1..n + 1 /\ DOMAIN rr.stages = 1..n
          /\ Append(rr.stages, new)[n + 1] = new
          /\ \A i \in 1..n : Append(rr.stages, new)[i] = rr.stages[i]
        BY <1>1, <2>1
    <2>3. /\ c \in RunRecords /\ c.status = "running" /\ c.at = n + 1 /\ c.start = rr.start
          /\ c.log = rr.log /\ c.stages = Append(rr.stages, new)
        <3> DEFINE more == Append(rr.stages, new)
                   m == n + 1
        <3>1. more \in Seq(StageInstances) /\ m \in Nat BY <2>2
        <3>2. c = [rr EXCEPT !.at = m, !.stages = more] OBVIOUS
        <3> HIDE DEF more, m, c
        <3>3. /\ c \in RunRecords /\ c.status = "running" /\ c.at = m /\ c.start = rr.start
              /\ c.log = rr.log /\ c.stages = more
            BY <3>1, <3>2 DEF RunRecords
        <3> QED BY <3>3 DEF more, m
    <2>4. Reach(rr, next) = c BY <1>3 DEF Reach, new
    <2> HIDE DEF c
    <2>5. AtLast(c) BY <2>1, <2>2, <2>3 DEF AtLast
    <2>6. LoggedOnce(c) BY <2>3 DEF LoggedOnce
    <2>7. VotesLogged(c) BY <2>1, <2>2, <2>3 DEF VotesLogged
    <2>8. NewApprovers(c)
        <3>1. SUFFICES ASSUME NEW i \in DOMAIN c.stages, NEW j \in 1..(i-1),
                              c.stages[i].stage \in Distinct, NEW a \in ApprovedIn(c.log, j)
                       PROVE  c.stages[i].who[a] = "none"
            BY DEF NewApprovers
        <3>2. CASE i = n + 1 BY <2>1, <2>2, <2>3, <3>1, <3>2
        <3>3. CASE i \in 1..n BY <2>2, <2>3, <3>1, <3>3 DEF NewApprovers
        <3> QED BY <2>2, <2>3, <3>2, <3>3
    <2>9. ASSUME NEW i \in DOMAIN c.stages PROVE Approved(c, i) /\ Follows(c, i)
        <3>1. CASE i = n + 1
            <4>1. Approved(c, i) BY <2>1, <2>2, <2>3, <3>1 DEF Approved
            <4>2. n # 0 => rr.stages # <<>> BY <1>1, <2>2
            <4>3. n = 0 => rr.stages = <<>> BY <1>1, <2>2
            <4>4. Follows(c, i)
                BY <2>1, <2>2, <2>3, <3>1, <4>2, <4>3 DEF Follows, Reachable
            <4> QED BY <4>1, <4>4
        <3>2. CASE i \in 1..n
            <4>1. Approved(rr, i) /\ Follows(rr, i) BY <2>2, <3>2
            <4>2. c.stages[i] = rr.stages[i] BY <2>2, <2>3, <3>2
            <4>3. i # 1 => c.stages[i-1] = rr.stages[i-1] BY <2>2, <2>3, <3>2
            <4> QED BY <2>3, <4>1, <4>2, <4>3 DEF Approved, Follows
        <3> QED BY <2>2, <2>3, <3>1, <3>2
    <2> QED BY <1>3, <2>3, <2>4, <2>5, <2>6, <2>7, <2>8, <2>9 DEF SoundRun
<1> QED BY <1>2, <1>3
\* Stage instance i of a run gets status s.
Marked(rr, i, s) == [rr EXCEPT !.stages[i].status = s]

\* Only the status of that stage instance changes.
LEMMA MarkedIs ==
    ASSUME NEW rr \in RunRecords, NEW i \in DOMAIN rr.stages,
           NEW s \in {"active", "completed", "rejected", "skipped"}
    PROVE  LET m == Marked(rr, i, s) IN
           /\ m \in RunRecords
           /\ m.status = rr.status /\ m.start = rr.start /\ m.at = rr.at /\ m.log = rr.log
           /\ DOMAIN m.stages = DOMAIN rr.stages /\ Len(m.stages) = Len(rr.stages)
           /\ \A j \in DOMAIN rr.stages :
                /\ m.stages[j].stage = rr.stages[j].stage /\ m.stages[j].who = rr.stages[j].who
                /\ m.stages[j].status = IF j = i THEN s ELSE rr.stages[j].status
<1> DEFINE old == rr.stages[i]
           new == [old EXCEPT !.status = s]
           list == [rr.stages EXCEPT ![i] = new]
<1>1. rr.stages \in Seq(StageInstances) BY DEF RunRecords
<1>2. old \in StageInstances BY <1>1
<1>3. /\ new \in StageInstances
      /\ new.stage = old.stage /\ new.who = old.who /\ new.status = s
    BY <1>2 DEF StageInstances
<1>4. /\ list \in Seq(StageInstances) /\ Len(list) = Len(rr.stages)
      /\ DOMAIN list = DOMAIN rr.stages
      /\ list[i] = new /\ \A j \in DOMAIN rr.stages : j # i => list[j] = rr.stages[j]
    <2> HIDE DEF new
    <2> QED BY <1>1, <1>3, StageChanged
<1>5. Marked(rr, i, s) = [rr EXCEPT !.stages = list] BY DEF Marked, RunRecords
<1> HIDE DEF list, new
<1>6. LET m == Marked(rr, i, s) IN
      /\ m \in RunRecords /\ m.stages = list
      /\ m.status = rr.status /\ m.start = rr.start /\ m.at = rr.at /\ m.log = rr.log
    BY <1>4, <1>5 DEF RunRecords
<1> QED BY <1>3, <1>4, <1>6

\* A sound run whose last stage instance has what it asks for is ready to go on,
\* once that is marked.
LEMMA MarkedReady ==
    ASSUME NEW rr \in RunRecords, SoundRun(rr), rr.status = "running",
           NEW i \in DOMAIN rr.stages, i = rr.at,
           LET s == rr.stages[i] IN
           IF s.stage \in All
           THEN \A a \in Accounts : s.who[a] # "none" => a \in ApprovedIn(rr.log, i)
           ELSE ApprovedIn(rr.log, i) # {}
    PROVE  LET m == Marked(rr, i, "completed") IN
           /\ Ready(m) /\ m.start = rr.start /\ m.log = rr.log /\ m.stages # <<>>
           /\ m.stages[Len(m.stages)].status = "completed"
           /\ m.stages[Len(m.stages)].stage = rr.stages[i].stage
<1> DEFINE m == Marked(rr, i, "completed")
<1>1. /\ m \in RunRecords
      /\ m.status = rr.status /\ m.start = rr.start /\ m.at = rr.at /\ m.log = rr.log
      /\ DOMAIN m.stages = DOMAIN rr.stages /\ Len(m.stages) = Len(rr.stages)
      /\ \A j \in DOMAIN rr.stages :
            /\ m.stages[j].stage = rr.stages[j].stage /\ m.stages[j].who = rr.stages[j].who
            /\ m.stages[j].status = IF j = i THEN "completed" ELSE rr.stages[j].status
    BY MarkedIs
<1>2. rr.stages \in Seq(StageInstances) /\ m.stages \in Seq(StageInstances)
    BY <1>1 DEF RunRecords
<1> HIDE DEF m
<1>3. i = Len(rr.stages) /\ i \in 1..Len(rr.stages)
    BY <1>2 DEF SoundRun, AtLast
<1>4. LoggedOnce(m) /\ VotesLogged(m) /\ NewApprovers(m)
    BY <1>1 DEF SoundRun, LoggedOnce, VotesLogged, NewApprovers
<1>5. ASSUME NEW j \in DOMAIN m.stages
      PROVE  Approved(m, j) /\ Follows(m, j) /\ m.stages[j].status # "active"
    <2>1. Approved(rr, j) /\ Follows(rr, j) /\ j \in 1..Len(rr.stages)
        BY <1>1, <1>2 DEF SoundRun
    <2>2. Approved(m, j) BY <1>1, <2>1 DEF Approved
    <2>3. Follows(m, j)
        <3>1. CASE j = 1 BY <1>1, <2>1, <3>1 DEF Follows
        <3>2. CASE j # 1
            <4>1. j - 1 \in DOMAIN rr.stages BY <1>2, <2>1, <3>2
            <4> QED BY <1>1, <2>1, <3>2, <4>1 DEF Follows
        <3> QED BY <3>1, <3>2
    <2>4. m.stages[j].status # "active" BY <1>1 DEF SoundRun, AtLast
    <2> QED BY <2>2, <2>3, <2>4
<1>6. m.stages # <<>> /\ m.stages[Len(m.stages)].status = "completed"
      /\ m.stages[Len(m.stages)].stage = rr.stages[i].stage
    BY <1>1, <1>2, <1>3
<1> QED BY <1>1, <1>4, <1>5, <1>6 DEF Ready, m

\* A run that ends without the approval of its last stage instance stays sound.
LEMMA ClosedSound ==
    ASSUME NEW rr \in RunRecords, SoundRun(rr), NEW c \in RunRecords,
           c.status \in {"completed", "returned", "cancelled"}, c.at = 0, c.log = rr.log,
           \/ c.stages = rr.stages /\ rr.at = 0
           \/ \E s \in {"rejected", "skipped"} :
                rr.at # 0 /\ c.stages = Marked(rr, rr.at, s).stages
    PROVE  SoundRun(c)
<1>1. rr.stages \in Seq(StageInstances) /\ c.stages \in Seq(StageInstances)
    BY DEF RunRecords
<1>2. CASE c.stages = rr.stages /\ rr.at = 0
    <2>1. AtLast(c) BY <1>1, <1>2 DEF SoundRun, AtLast
    <2> QED BY <1>2, <2>1 DEF SoundRun, LoggedOnce, VotesLogged, NewApprovers, Approved, Follows
<1>3. ASSUME NEW s \in {"rejected", "skipped"}, rr.at # 0,
             c.stages = Marked(rr, rr.at, s).stages
      PROVE  SoundRun(c)
    <2> DEFINE i == rr.at
    <2>1. i = Len(rr.stages) /\ i \in DOMAIN rr.stages
        <3>1. i = Len(rr.stages) /\ i \in Nat BY <1>3 DEF SoundRun, AtLast, RunRecords
        <3> QED BY <1>1, <1>3, <3>1
    <2>2. /\ DOMAIN c.stages = DOMAIN rr.stages /\ Len(c.stages) = Len(rr.stages)
          /\ \A j \in DOMAIN rr.stages :
                /\ c.stages[j].stage = rr.stages[j].stage /\ c.stages[j].who = rr.stages[j].who
                /\ c.stages[j].status = IF j = i THEN s ELSE rr.stages[j].status
        BY <1>3, <2>1, MarkedIs
    <2>3. AtLast(c) BY <1>1, <2>2 DEF SoundRun, AtLast
    <2>4. LoggedOnce(c) /\ VotesLogged(c) /\ NewApprovers(c)
        BY <2>2 DEF SoundRun, LoggedOnce, VotesLogged, NewApprovers
    <2>5. ASSUME NEW j \in DOMAIN c.stages PROVE Approved(c, j) /\ Follows(c, j)
        <3>1. Approved(rr, j) /\ Follows(rr, j) /\ j \in 1..Len(rr.stages)
            BY <1>1, <2>2 DEF SoundRun
        <3>2. Approved(c, j) BY <2>2, <3>1 DEF Approved
        <3>3. Follows(c, j)
            <4>1. CASE j = 1 BY <2>2, <3>1, <4>1 DEF Follows
            <4>2. CASE j # 1
                <5>1. j - 1 \in DOMAIN rr.stages /\ j - 1 # i BY <1>1, <2>1, <3>1, <4>2
                <5> QED BY <2>2, <3>1, <4>2, <5>1 DEF Follows
            <4> QED BY <4>1, <4>2
        <3> QED BY <3>2, <3>3
    <2> QED BY <2>3, <2>4, <2>5 DEF SoundRun
<1> QED BY <1>2, <1>3
-----------------------------------------------------------------------------
\* The form and its runs, step by step

USE DEF Running

formVars == <<form, current, editing, fresh, run>>

\* The steps of reviewers, executions and attempts that leave the form alone.
LEMMA FormFrame ==
    ASSUME FormInv, UNCHANGED formVars
    PROVE  FormInv'
BY DEF FormInv, formVars, FormTypeOK, Copies, Rounds, HasRun, SoundRun, AtLast, LoggedOnce,
       VotesLogged, NewApprovers, Approved, Follows, RouteEnded

\* The latest run is written, and the form with it.
LEMMA RunWritten ==
    ASSUME FormInv, HasRun, UNCHANGED <<current, editing>>,
           NEW rr \in RunRecords, SoundRun(rr), rr.status # "none",
           run' = [run EXCEPT ![current] = rr],
           form' \in Statuses, (UNCHANGED <<form, fresh>>) \/ fresh' = {},
           form' = "in_review" <=> rr.status = "running",
           form' = "approved" => RouteEnded(rr)
    PROVE  FormInv'
<1> USE DEF FormInv, HasRun
<1>1. run' \in [Runs -> RunRecords] /\ run'[current] = rr
      /\ \A r \in Runs : r # current => run'[r] = run[r]
    BY DEF FormTypeOK
<1>2. FormTypeOK' BY <1>1 DEF FormTypeOK
<1>3. Copies' BY DEF Copies
<1>4. \A r \in Runs : SoundRun(run'[r]) BY <1>1
<1>5. Rounds'
    <2>1. form' # "none" BY DEF Statuses
    <2> QED BY <1>1, <2>1 DEF Rounds
<1> QED BY <1>2, <1>3, <1>4, <1>5

\* The record of a run that was never submitted.
LEMMA NoRunSound == NoRun \in RunRecords /\ SoundRun(NoRun)
BY DEF NoRun, RunRecords, SoundRun, AtLast, LoggedOnce, VotesLogged, NewApprovers

\* Editors.  A submission opens a run only of a form that has none running.
LEMMA EditInv ==
    ASSUME FormInv, NEW p \in Editors, Edit(p) \/ \E op \in Ops : Read(p, op)
    PROVE  FormInv'
<1> USE ApprovalAssumption DEF FormInv
<1>1. ASSUME NEW op \in Ops, Read(p, op) PROVE FormInv'
    <2>1. /\ form \in {"draft", "returned"} /\ UNCHANGED <<form, current, run>>
          /\ editing' = [editing EXCEPT ![p] = [op |-> op, status |-> form]]
          /\ fresh' = fresh \cup {p}
        BY <1>1 DEF Read, Editable
    <2>2. FormTypeOK' BY <2>1 DEF FormTypeOK
    <2>3. Copies' BY <2>1 DEF Copies, FormTypeOK
    <2> QED BY <2>1, <2>2, <2>3 DEF Rounds, HasRun
<1>2. Idle \in [op : Ops \cup {"idle"}, status : {"draft", "returned"}] BY DEF Idle
<1>3. Done(p) => /\ editing' \in [Editors -> [op : Ops \cup {"idle"},
                                              status : {"draft", "returned"}]]
                 /\ \A q \in Editors : editing'[q].op # "idle" => editing'[q] = editing[q]
    BY <1>2 DEF Done, FormTypeOK, Idle
<1>4. CASE Refused(p)
    <2>1. Done(p) /\ UNCHANGED <<form, current, fresh, run>> BY <1>4 DEF Refused
    <2>2. FormTypeOK' /\ Copies' BY <1>3, <2>1 DEF FormTypeOK, Copies
    <2> QED BY <2>1, <2>2 DEF Rounds, HasRun
<1>5. p \notin fresh \/ editing[p].op = "idle" \/ form = editing[p].status
    BY DEF Copies
<1>6. CASE Update(p)
    <2>1. /\ form' = editing[p].status /\ fresh' = {} /\ UNCHANGED <<current, run>> /\ Done(p)
          /\ form = "none" \/ form = editing[p].status
        BY <1>5, <1>6 DEF Update, Write, Conflicts
    <2>2. editing[p].status \in {"draft", "returned"} BY DEF FormTypeOK
    <2>3. FormTypeOK' /\ Copies' BY <1>3, <2>1, <2>2 DEF FormTypeOK, Copies, Statuses
    <2>4. Rounds' BY <2>1, <2>2 DEF Rounds, HasRun
    <2> QED BY <2>1, <2>3, <2>4
<1>7. CASE Submit(p)
    <2>1. /\ current < MaxRuns /\ current' = current + 1 /\ fresh' = {} /\ Done(p)
          /\ form \in {"none", "draft", "returned"}
        BY <1>5, <1>7 DEF Submit, Write, Conflicts, FormTypeOK
    <2> DEFINE rr == [NoRun EXCEPT !.status = "running"]
    <2>2. PICK s \in First :
            /\ run' = [run EXCEPT ![current'] = Reach(rr, s)]
            /\ form' = IF s = End THEN "approved" ELSE "in_review"
        BY <1>7 DEF Submit, Write
    <2>3. Ready(rr) /\ Reachable(rr, s)
        <3>1. /\ rr.status = "running" /\ rr.start = "pending" /\ rr.at = 0
              /\ rr.stages = <<>> /\ rr.log = <<>>
            BY DEF NoRun
        <3>2. rr \in RunRecords BY NoRunSound DEF RunRecords
        <3> HIDE DEF rr
        <3>3. LoggedOnce(rr) /\ VotesLogged(rr) /\ NewApprovers(rr)
            BY <3>1 DEF LoggedOnce, VotesLogged, NewApprovers
        <3> QED BY <3>1, <3>2, <3>3 DEF Ready, Reachable
    <2> DEFINE new == Reach(rr, s)
    <2> HIDE DEF rr
    <2>4. /\ new \in RunRecords /\ SoundRun(new)
          /\ new.status = IF s = End THEN "completed" ELSE "running"
          /\ s = End => RouteEnded(new)
        BY <2>3, ReachSound
    <2> HIDE DEF new
    <2>5. current' \in Runs /\ current' \in 0..MaxRuns BY <2>1 DEF FormTypeOK, Runs
    <2>6. /\ run' \in [Runs -> RunRecords] /\ run'[current'] = new
          /\ \A r \in Runs : r # current' => run'[r] = run[r]
        BY <2>2, <2>4, <2>5 DEF FormTypeOK, new
    <2>7. FormTypeOK' BY <1>3, <2>1, <2>2, <2>5, <2>6 DEF FormTypeOK, Statuses
    <2>8. Copies' BY <2>1 DEF Copies
    <2>9. \A r \in Runs : ~Running(r) BY <2>1 DEF Rounds, HasRun
    <2>10. \A r \in Runs : r > current' => r > current /\ r # current'
        BY <2>1 DEF FormTypeOK, Runs
    <2>11. Rounds'
        BY <2>2, <2>4, <2>5, <2>6, <2>9, <2>10 DEF Rounds, HasRun
    <2>12. \A r \in Runs : SoundRun(run'[r]) BY <2>4, <2>6
    <2> QED BY <2>7, <2>8, <2>11, <2>12
<1>8. CASE Delete(p)
    <2>1. /\ form' = "none" /\ fresh' = {} /\ run' = [r \in Runs |-> NoRun]
          /\ UNCHANGED current /\ Done(p)
        BY <1>8 DEF Delete, Write
    <2>2. FormTypeOK' /\ Copies' BY <1>3, <2>1, NoRunSound DEF FormTypeOK, Copies
    <2>3. Rounds' BY <2>1 DEF Rounds, HasRun, NoRun
    <2> QED BY <2>1, <2>2, <2>3, NoRunSound
<1> QED BY <1>1, <1>4, <1>6, <1>7, <1>8 DEF Edit

\* The start of a run is settled.
LEMMA DeliverInv ==
    ASSUME FormInv, NEW r \in Runs, Deliver(r)
    PROVE  FormInv'
<1> USE DEF FormInv
<1>1. PICK s \in {"started", "abandoned"} : run' = [run EXCEPT ![r].start = s]
    BY DEF Deliver
<1>2. UNCHANGED <<form, current, editing, fresh>> BY DEF Deliver
<1> DEFINE rr == [run[r] EXCEPT !.start = s]
<1>3. /\ rr \in RunRecords /\ rr.status = run[r].status /\ rr.at = run[r].at
      /\ rr.stages = run[r].stages /\ rr.log = run[r].log
    BY DEF FormTypeOK, RunRecords
<1>4. run' = [run EXCEPT ![r] = rr] BY <1>1
<1> HIDE DEF rr
<1>5. SoundRun(rr)
    BY <1>3 DEF SoundRun, AtLast, LoggedOnce, VotesLogged, NewApprovers, Approved, Follows
<1>6. /\ run' \in [Runs -> RunRecords] /\ run'[r] = rr
      /\ \A q \in Runs : q # r => run'[q] = run[q]
    BY <1>3, <1>4 DEF FormTypeOK
<1>7. FormTypeOK' /\ Copies' BY <1>2, <1>6 DEF FormTypeOK, Copies
<1>8. \A q \in Runs : SoundRun(run'[q]) BY <1>5, <1>6
<1>9. Rounds'
    <2>1. \A q \in Runs : run'[q].status = run[q].status BY <1>3, <1>6
    <2>2. current \in Runs => (RouteEnded(run[current]) => RouteEnded(run'[current]))
        BY <1>3, <1>6 DEF RouteEnded
    <2> QED BY <1>2, <2>1, <2>2 DEF Rounds, HasRun
<1> QED BY <1>7, <1>8, <1>9

\* The applicant or an administrator cancels a submission that was not delivered.
LEMMA SkipSound ==
    ASSUME NEW rr \in RunRecords, SoundRun(rr)
    PROVE  /\ Skip(rr) \in RunRecords /\ SoundRun(Skip(rr))
           /\ Skip(rr).status = "cancelled" /\ Skip(rr).start = rr.start
<1> DEFINE c == Skip(rr)
<1>1. rr.stages \in Seq(StageInstances) BY DEF RunRecords
<1>2. CASE rr.at = 0
    <2>1. /\ c \in RunRecords /\ c.status = "cancelled" /\ c.at = 0 /\ c.log = rr.log
          /\ c.stages = rr.stages /\ c.start = rr.start
        BY <1>2 DEF Skip, RunRecords
    <2> HIDE DEF c
    <2>2. SoundRun(c) BY <1>2, <2>1, ClosedSound
    <2> QED BY <2>1, <2>2 DEF c
<1>3. CASE rr.at # 0
    <2> DEFINE m == Marked(rr, rr.at, "skipped")
    <2>1. rr.at \in DOMAIN rr.stages
        <3>1. rr.at = Len(rr.stages) BY <1>3 DEF SoundRun, AtLast
        <3> QED BY <1>1, <1>3, <3>1
    <2>2. m \in RunRecords BY <2>1, MarkedIs
    <2>3. Skip(rr).stages = m.stages /\ m.stages \in Seq(StageInstances)
        BY <1>3, <2>2 DEF Skip, Marked, RunRecords
    <2> HIDE DEF m
    <2>4. /\ c \in RunRecords /\ c.status = "cancelled" /\ c.at = 0 /\ c.log = rr.log
          /\ c.stages = m.stages /\ c.start = rr.start
        <3> DEFINE t == [rr EXCEPT !.status = "cancelled", !.at = 0, !.stages = m.stages]
        <3>1. c = t
            <4>1. Skip(rr) = [rr EXCEPT !.status = "cancelled", !.at = 0,
                                        !.stages = Skip(rr).stages]
                BY DEF Skip, RunRecords
            <4> QED BY <2>3, <4>1
        <3>2. /\ t \in RunRecords /\ t.status = "cancelled" /\ t.at = 0 /\ t.log = rr.log
              /\ t.stages = m.stages /\ t.start = rr.start
            BY <2>3 DEF RunRecords
        <3> QED BY <3>1, <3>2
    <2> HIDE DEF c
    <2>5. SoundRun(c) BY <1>3, <2>4, ClosedSound DEF m
    <2> QED BY <2>4, <2>5 DEF c
<1> QED BY <1>2, <1>3

LEMMA CancelPendingInv ==
    ASSUME FormInv, CancelPending
    PROVE  FormInv'
<1> DEFINE sk == Skip(run[current])
           rr == [sk EXCEPT !.start = "abandoned"]
<1>1. current \in Runs /\ HasRun BY DEF CancelPending, HasRun
<1>2. run[current] \in RunRecords /\ SoundRun(run[current])
    BY <1>1 DEF FormInv, FormTypeOK
<1>3. sk \in RunRecords /\ SoundRun(sk) /\ sk.status = "cancelled" BY <1>2, SkipSound
<1>4. /\ run' = [run EXCEPT ![current] = rr] /\ form' = "cancelled" /\ fresh' = {}
      /\ UNCHANGED <<current, editing>>
    BY DEF CancelPending, Write
<1> HIDE DEF sk
<1>5. /\ rr \in RunRecords /\ rr.status = "cancelled" /\ rr.at = sk.at
      /\ rr.stages = sk.stages /\ rr.log = sk.log
    BY <1>3 DEF RunRecords
<1> HIDE DEF rr
<1>6. SoundRun(rr)
    BY <1>3, <1>5
    DEF SoundRun, AtLast, LoggedOnce, VotesLogged, NewApprovers, Approved, Follows
<1> QED BY <1>1, <1>4, <1>5, <1>6, RunWritten DEF Statuses

\* What the checks of a decision's transaction amount to.
LEMMA DecidableIs ==
    ASSUME FormInv, NEW x \in Attempts, Decidable(x), Decision(x), ~Repeated(x)
    PROVE  /\ x.run = current /\ x.run \in Runs /\ HasRun /\ Running(x.run)
           /\ run[x.run] \in RunRecords /\ SoundRun(run[x.run])
           /\ run[x.run].at = x.on /\ x.on \in DOMAIN run[x.run].stages
           /\ run[x.run].stages[x.on].who[By[x.cmd]] = "pending"
           /\ ~HasReceipt(x.run, x.cmd) /\ Action[x.cmd] # "withdraw"
<1>1. x.run \in Runs BY DEF Decidable, Attempts, Runs
<1>2. run[x.run] \in RunRecords /\ SoundRun(run[x.run]) BY <1>1 DEF FormInv, FormTypeOK
<1> QED BY <1>1, <1>2 DEF Decidable, Decision, Repeated, HasRun, Pending

\* A vote that the stage waits for others after.
LEMMA ApproveInv ==
    ASSUME FormInv, NEW x \in Attempts, Decision(x), ~Repeated(x), Approve(x),
           UNCHANGED <<current, editing>>
    PROVE  FormInv'
<1> DEFINE rr == Voted(x, "approved")
<1>1. Decidable(x) /\ Action[x.cmd] = "approve" /\ run' = [run EXCEPT ![x.run] = rr]
      /\ UNCHANGED <<form, fresh>>
    BY DEF Approve
<1>2. /\ x.run = current /\ x.run \in Runs /\ HasRun /\ Running(x.run)
      /\ run[x.run] \in RunRecords /\ SoundRun(run[x.run])
      /\ run[x.run].at = x.on /\ x.on \in DOMAIN run[x.run].stages
      /\ run[x.run].stages[x.on].who[By[x.cmd]] = "pending"
      /\ ~HasReceipt(x.run, x.cmd) /\ Action[x.cmd] # "withdraw"
    BY <1>1, DecidableIs
<1>3. run \in [Runs -> RunRecords] BY DEF FormInv, FormTypeOK
<1>4. rr \in RunRecords /\ rr.status = run[x.run].status BY <1>2, <1>3, VotedIs
<1>5. SoundRun(rr) BY <1>1, <1>2, <1>3, VotedSound
<1>6. form = "in_review" BY <1>2 DEF FormInv, Rounds
<1> HIDE DEF rr
<1>7. form' = "in_review" /\ form' \in Statuses /\ rr.status = "running"
    BY <1>1, <1>2, <1>4, <1>6 DEF Statuses
<1> QED BY <1>1, <1>2, <1>4, <1>5, <1>7, RunWritten

\* A vote that completes the stage.
LEMMA AdvanceInv ==
    ASSUME FormInv, NEW x \in Attempts, Decision(x), ~Repeated(x), Advance(x),
           UNCHANGED <<current, editing>>
    PROVE  FormInv'
<1> DEFINE v == Voted(x, "approved")
           rr == Marked(v, x.on, "completed")
<1>1. /\ Decidable(x) /\ Action[x.cmd] = "approve"
      /\ Complete(v.stages[x.on].stage, v.stages[x.on].who)
    BY DEF Advance, Completes
<1>2. PICK next \in Follow[rr.stages[x.on].stage] :
        /\ run' = [run EXCEPT ![x.run] = Reach(rr, next)]
        /\ IF next = End THEN form' = "approved" /\ fresh' = {} ELSE UNCHANGED <<form, fresh>>
    BY DEF Advance, Marked, Write
<1>3. /\ x.run = current /\ x.run \in Runs /\ HasRun /\ Running(x.run)
      /\ run[x.run] \in RunRecords /\ SoundRun(run[x.run])
      /\ run[x.run].at = x.on /\ x.on \in DOMAIN run[x.run].stages
      /\ run[x.run].stages[x.on].who[By[x.cmd]] = "pending"
      /\ ~HasReceipt(x.run, x.cmd) /\ Action[x.cmd] # "withdraw"
    BY <1>1, DecidableIs
<1>4. run \in [Runs -> RunRecords] BY DEF FormInv, FormTypeOK
<1> DEFINE e == [cmd |-> x.cmd, on |-> x.on, via |-> x.via]
           log == run[x.run].log
<1>5. /\ v \in RunRecords /\ v.status = "running" /\ v.at = x.on
      /\ x.on \in DOMAIN v.stages /\ e \in Entries /\ v.log = Append(log, e)
    BY <1>3, <1>4, VotedIs
<1>6. SoundRun(v) BY <1>1, <1>3, <1>4, VotedSound
<1>7. By[x.cmd] \in ApprovedIn(v.log, x.on)
    <2>1. log \in Seq(Entries) BY <1>3 DEF RunRecords
    <2>2. e.cmd = x.cmd /\ e.on = x.on OBVIOUS
    <2> HIDE DEF e, log, v
    <2> QED BY <1>1, <1>5, <2>1, <2>2, LogAppend
<1> HIDE DEF v, e, log
<1>8. LET s == v.stages[x.on] IN
      IF s.stage \in All
      THEN \A a \in Accounts : s.who[a] # "none" => a \in ApprovedIn(v.log, x.on)
      ELSE ApprovedIn(v.log, x.on) # {}
    BY <1>1, <1>5, <1>6, <1>7 DEF Complete, SoundRun, VotesLogged
<1>9. /\ Ready(rr) /\ rr.stages # <<>>
      /\ rr.stages[Len(rr.stages)].status = "completed"
      /\ rr.stages[Len(rr.stages)].stage = v.stages[x.on].stage
    BY <1>5, <1>6, <1>8, MarkedReady
<1>10. rr.stages[x.on].stage = v.stages[x.on].stage BY <1>5, MarkedIs
<1> HIDE DEF rr
<1>11. v.stages[x.on].stage \in Stages
    <2>1. v.stages \in Seq(StageInstances) BY <1>5 DEF RunRecords
    <2>2. v.stages[x.on] \in StageInstances BY <1>5, <2>1
    <2> QED BY <2>2 DEF StageInstances
<1>12. next \in Stages \cup {End} BY <1>2, <1>10, <1>11, ApprovalAssumption
<1>13. Reachable(rr, next) BY <1>2, <1>9, <1>10 DEF Reachable
<1> DEFINE new == Reach(rr, next)
<1>14. /\ new \in RunRecords /\ SoundRun(new)
       /\ new.status = IF next = End THEN "completed" ELSE "running"
       /\ next = End => RouteEnded(new)
    BY <1>9, <1>12, <1>13, ReachSound
<1>15. form = "in_review" BY <1>3 DEF FormInv, Rounds
<1>16. run' = [run EXCEPT ![current] = new] BY <1>2, <1>3
<1> HIDE DEF new
<1>17. form' = IF next = End THEN "approved" ELSE "in_review" BY <1>2, <1>15
<1>18. (UNCHANGED <<form, fresh>>) \/ fresh' = {} BY <1>2
<1>19. form' \in Statuses BY <1>17 DEF Statuses
<1> QED BY <1>3, <1>14, <1>16, <1>17, <1>18, <1>19, RunWritten

\* A rejection or a return ends the run at the stage it was given on.
LEMMA DeclineInv ==
    ASSUME FormInv, NEW x \in Attempts, Decision(x), ~Repeated(x), Decline(x),
           UNCHANGED <<current, editing>>
    PROVE  FormInv'
<1>1. PICK verdict \in {"rejected", "returned"}, status \in {"completed", "returned"} :
        /\ run' = [run EXCEPT ![x.run] =
                    [Voted(x, verdict) EXCEPT !.stages[x.on].status = "rejected",
                                              !.at = 0, !.status = status]]
        /\ form' = verdict /\ fresh' = {}
    BY DEF Decline, Write
<1>2. Decidable(x) BY DEF Decline
<1>3. /\ x.run = current /\ x.run \in Runs /\ HasRun /\ Running(x.run)
      /\ run[x.run] \in RunRecords /\ SoundRun(run[x.run])
      /\ run[x.run].at = x.on /\ x.on \in DOMAIN run[x.run].stages
      /\ run[x.run].stages[x.on].who[By[x.cmd]] = "pending"
      /\ ~HasReceipt(x.run, x.cmd) /\ Action[x.cmd] # "withdraw"
    BY <1>2, DecidableIs
<1>4. run \in [Runs -> RunRecords] BY DEF FormInv, FormTypeOK
<1> DEFINE v == Voted(x, verdict)
<1>5. v \in RunRecords /\ v.status = "running" /\ v.at = x.on /\ x.on \in DOMAIN v.stages
    BY <1>3, <1>4, VotedIs
<1>6. SoundRun(v) BY <1>3, <1>4, VotedSound
<1> HIDE DEF v
<1> DEFINE m == Marked(v, x.on, "rejected")
           rr == [v EXCEPT !.status = status, !.at = 0, !.stages = m.stages]
<1>7. m \in RunRecords BY <1>5, MarkedIs
<1>8. run' = [run EXCEPT ![current] = rr] BY <1>1, <1>3, <1>5 DEF v, Marked, RunRecords
<1> HIDE DEF m
<1>9. /\ rr \in RunRecords /\ rr.status = status /\ rr.at = 0 /\ rr.log = v.log
      /\ rr.stages = m.stages
    BY <1>5, <1>7 DEF RunRecords
<1> HIDE DEF rr
<1>10. v.at # 0
    <2>1. v.stages \in Seq(StageInstances) BY <1>5 DEF RunRecords
    <2> QED BY <1>5, <2>1
<1>11. SoundRun(rr) BY <1>5, <1>6, <1>9, <1>10, ClosedSound DEF m
<1> QED BY <1>1, <1>3, <1>8, <1>9, <1>11, RunWritten DEF Statuses

\* A run that ended gets its withdrawal logged.
LEMMA WithdrawalLogged ==
    ASSUME NEW rr \in RunRecords, SoundRun(rr), rr.status # "running",
           NEW e \in Entries, Action[e.cmd] = "withdraw",
           \A j \in DOMAIN rr.log : rr.log[j].cmd # e.cmd,
           NEW c \in RunRecords, c.log = Append(rr.log, e), c.status = rr.status,
           c.at = rr.at, c.stages = rr.stages
    PROVE  SoundRun(c)
<1>1. rr.log \in Seq(Entries) /\ c.log \in Seq(Entries) BY DEF RunRecords
<1>2. /\ Len(c.log) = Len(rr.log) + 1
      /\ \A j \in 1..Len(rr.log) : c.log[j] = rr.log[j]
      /\ c.log[Len(rr.log) + 1] = e
    BY <1>1, LogAppend
<1>3. \A i : ApprovedIn(c.log, i) = ApprovedIn(rr.log, i)
    <2>1. Range(c.log) = Range(rr.log) \cup {e}
        <3>1. DOMAIN c.log = 1..Len(rr.log) + 1 /\ DOMAIN rr.log = 1..Len(rr.log)
              /\ Len(rr.log) \in Nat
            BY <1>1, <1>2
        <3>2. \A j \in DOMAIN rr.log : j \in DOMAIN c.log /\ c.log[j] = rr.log[j]
            BY <1>2, <3>1
        <3>3. Len(rr.log) + 1 \in DOMAIN c.log BY <3>1
        <3>4. \A j \in DOMAIN c.log : j \in DOMAIN rr.log \/ c.log[j] = e BY <1>2, <3>1
        <3> QED BY <1>2, <3>2, <3>3, <3>4
    <2> HIDE DEF Range
    <2>2. Approvals(c.log) = Approvals(rr.log) BY <2>1 DEF Approvals
    <2> QED BY <2>2 DEF ApprovedIn
<1>4. LoggedOnce(c)
    <2>1. DOMAIN c.log = 1..Len(rr.log) + 1 /\ DOMAIN rr.log = 1..Len(rr.log)
          /\ Len(rr.log) \in Nat
        BY <1>1, <1>2
    <2>2. \A j \in DOMAIN c.log : (j \in DOMAIN rr.log /\ c.log[j] = rr.log[j])
                                \/ (j = Len(rr.log) + 1 /\ c.log[j] = e)
        BY <1>2, <2>1
    <2> QED BY <2>2 DEF SoundRun, LoggedOnce
<1> QED BY <1>3, <1>4
        DEF SoundRun, AtLast, VotesLogged, NewApprovers, Approved, Follows

\* A withdrawal ends the latest run, whichever run it was sent to.
LEMMA WithdrawInv ==
    ASSUME FormInv, NEW x \in Attempts, Withdraw(x), UNCHANGED <<current, editing>>
    PROVE  FormInv'
<1> DEFINE r0 == run[current]
           e == [cmd |-> x.cmd, on |-> r0.at, via |-> x.via]
           sk == Skip(r0)
           rr == Skip(Logged(current, x, r0.at))
<1>1. /\ HasRun /\ Running(current)
      /\ run' = [run EXCEPT ![current] = rr] /\ form' = "cancelled" /\ fresh' = {}
    BY DEF Withdraw, Write, Active, Started
<1>2. Action[x.cmd] = "withdraw"
    BY ApprovalAssumption DEF Withdraw, Decision
<1>3. r0 \in RunRecords /\ SoundRun(r0) /\ r0.status = "running"
    BY <1>1 DEF FormInv, FormTypeOK
<1>4. sk \in RunRecords /\ SoundRun(sk) /\ sk.status = "cancelled" /\ sk.log = r0.log
    <2>1. sk.log = r0.log BY <1>3 DEF Skip, RunRecords
    <2> QED BY <1>3, <2>1, SkipSound
<1>5. e \in Entries BY <1>3 DEF Attempts, Entries, RunRecords
<1>6. \A j \in DOMAIN r0.log : r0.log[j].cmd # x.cmd
    BY <1>2, <1>3 DEF SoundRun, LoggedOnce
<1>7. r0.log \in Seq(Entries) /\ Append(r0.log, e) \in Seq(Entries)
    BY <1>3, <1>5 DEF RunRecords
<1>8. rr = [sk EXCEPT !.log = Append(r0.log, e)]
    BY <1>3 DEF Skip, Logged, RunRecords
<1>9. e.cmd = x.cmd OBVIOUS
<1> HIDE DEF e, sk, rr, r0
<1>10. /\ rr \in RunRecords /\ rr.status = "cancelled" /\ rr.at = sk.at
       /\ rr.stages = sk.stages /\ rr.log = Append(sk.log, e)
    BY <1>4, <1>7, <1>8 DEF RunRecords
<1>11. SoundRun(rr) BY <1>2, <1>4, <1>5, <1>6, <1>9, <1>10, WithdrawalLogged
<1> QED BY <1>1, <1>10, <1>11, RunWritten DEF Statuses

LEMMA CommitInv ==
    ASSUME FormInv, NEW x \in Attempts, Commit(x)
    PROVE  FormInv'
<1>1. UNCHANGED <<current, editing>> BY DEF Commit
<1>2. CASE ~Repeated(x) /\ Approve(x)
    BY <1>1, <1>2, ApproveInv DEF Approve, Decision
<1>3. CASE ~Repeated(x) /\ Advance(x)
    BY <1>1, <1>3, AdvanceInv DEF Advance, Decision
<1>4. CASE ~Repeated(x) /\ Decline(x)
    BY <1>1, <1>4, DeclineInv DEF Decline, Decision
<1>5. CASE ~Repeated(x) /\ Withdraw(x)
    BY <1>1, <1>5, WithdrawInv
<1>6. CASE UNCHANGED <<form, fresh, run>>
    BY <1>1, <1>6, FormFrame DEF formVars
<1> QED BY <1>2, <1>3, <1>4, <1>5, <1>6 DEF Commit

\* Every step, as the form and its runs see it.
LEMMA FormStep ==
    ASSUME FormInv, work \subseteq Attempts, [Next]_vars
    PROVE  FormInv'
<1>1. ASSUME NEW p \in Editors, Edit(p) \/ \E op \in Ops : Read(p, op) PROVE FormInv'
    BY <1>1, EditInv
<1>2. ASSUME NEW r \in Runs, Deliver(r) PROVE FormInv' BY <1>2, DeliverInv
<1>3. CASE CancelPending BY <1>3, CancelPendingInv
<1>4. ASSUME NEW x \in work, Commit(x) PROVE FormInv' BY <1>4, CommitInv
<1>5. ASSUME NEW r \in Runs, Execute(r) \/ LoadFails(r) \/ Remind(r) \/ ReminderFails(r)
      PROVE  UNCHANGED formVars
    BY <1>5 DEF Execute, Receive, Begin, Load, LoadFails, Remind, ReminderFails, formVars
<1>6. ASSUME NEW c \in Commands, Request(c) \/ Signal(c) PROVE UNCHANGED formVars
    BY <1>6 DEF Request, Signal, formVars
<1>7. ASSUME NEW x \in work, Choose(x) \/ Refuse(x) \/ Lose(x) \/ Die(x)
      PROVE  UNCHANGED formVars
    BY <1>7 DEF Choose, Refuse, Lose, Die, formVars
<1>8. CASE UNCHANGED vars BY <1>8, FormFrame DEF vars, formVars
<1> QED BY <1>1, <1>2, <1>3, <1>4, <1>5, <1>6, <1>7, <1>8, FormFrame DEF Next, Attempt

LEMMA FormInit == Init => FormInv
<1> SUFFICES ASSUME Init PROVE FormInv OBVIOUS
<1>1. Idle \in [op : Ops \cup {"idle"}, status : {"draft", "returned"}] BY DEF Idle
<1>2. FormTypeOK BY <1>1, NoRunSound, ApprovalAssumption DEF Init, FormTypeOK, Statuses
<1>3. Copies /\ Rounds BY DEF Init, Copies, Rounds, HasRun, NoRun, Runs
<1> QED BY <1>2, <1>3, NoRunSound DEF Init, FormInv
-----------------------------------------------------------------------------
\* The executions, step by step

\* What is true of an execution by itself.
SoundExec(ex) ==
    /\ ex \in Execs
    /\ ex.phase \in {"apply", "commit", "load"} => ex.queue # <<>>
    /\ ex.phase \in {"apply", "commit", "load", "reload"} => ex.tries < MaxTries
    /\ ex.phase = "none" => ex.tries = 0
    /\ ex.key[2] # 0 => ex.key[1] \in Runs

\* Nothing runs for a run that is not started.
Undelivered(r) ==
    /\ run[r].status # "none" /\ run[r].start = "pending" => exec[r].phase = "none"
    /\ r > current => exec[r].phase = "none"

AskedOK ==
    /\ asked \in [Commands -> 0..MaxRuns]
    /\ \A c \in Commands : asked[c] <= current

LEMMA ExecutingIs ==
    Executing <=> /\ exec \in [Runs -> Execs] /\ AskedOK
                  /\ \A r \in Runs : SoundExec(exec[r]) /\ Undelivered(r)
BY DEF Executing, AskedOK, SoundExec, Undelivered

LEMMA ExecutingIsPrime ==
    Executing' <=> /\ exec' \in [Runs -> Execs] /\ AskedOK'
                   /\ \A r \in Runs : SoundExec(exec'[r]) /\ Undelivered(r)'
BY DEF Executing, AskedOK, SoundExec, Undelivered

\* One execution is written.
LEMMA ExecWritten ==
    ASSUME Executing, NEW r \in Runs, NEW ex, SoundExec(ex),
           exec' = [exec EXCEPT ![r] = ex],
           exec[r].phase = "none" => ex.phase = "none",
           AskedOK', UNCHANGED current,
           \A q \in Runs : /\ run'[q].start = run[q].start
                           /\ run[q].status = "none" => run'[q].status = "none"
    PROVE  Executing'
<1>1. /\ exec \in [Runs -> Execs] /\ AskedOK
      /\ \A q \in Runs : SoundExec(exec[q]) /\ Undelivered(q)
    BY ExecutingIs
<1>2. /\ exec' \in [Runs -> Execs] /\ exec'[r] = ex
      /\ \A q \in Runs : q # r => exec'[q] = exec[q]
    BY <1>1 DEF SoundExec
<1>3. \A q \in Runs : SoundExec(exec'[q]) BY <1>1, <1>2
<1>4. \A q \in Runs : Undelivered(q)' BY <1>1, <1>2 DEF Undelivered
<1> QED BY <1>2, <1>3, <1>4, ExecutingIsPrime

\* No execution is written.
LEMMA ExecKept ==
    ASSUME Executing, UNCHANGED exec, AskedOK',
           \A r \in Runs : Undelivered(r)'
    PROVE  Executing'
BY ExecutingIs, ExecutingIsPrime

\* The attempts stay.
LEMMA WorkFrame ==
    ASSUME Working, UNCHANGED work,
           \A r \in Runs : exec[r].phase = "commit" => exec'[r].phase = "commit"
    PROVE  Working'
<1>1. \A x \in work : x.via \in Runs BY DEF Working, Attempts
<1> QED BY <1>1 DEF Working

\* The one attempt that its execution waits for ends.
LEMMA WorkEnded ==
    ASSUME Working, NEW x \in work, x.live, work' = work \ {x},
           \A r \in Runs : r # x.via /\ exec[r].phase = "commit" => exec'[r].phase = "commit"
    PROVE  Working'
<1>1. \A y \in work : y.via \in Runs BY DEF Working, Attempts
<1> QED BY <1>1 DEF Working

\* What Commit leaves of the start of a run.
LEMMA CommitStarts ==
    ASSUME FormInv, NEW x \in Attempts, Commit(x), NEW q \in Runs
    PROVE  run'[q].start = run[q].start /\ (run[q].status = "none" => run'[q].status = "none")
<1>1. run \in [Runs -> RunRecords] BY DEF FormInv, FormTypeOK
<1>2. ASSUME Decision(x), ~Repeated(x), Decidable(x)
      PROVE  /\ x.run \in Runs /\ Running(x.run) /\ x.on \in DOMAIN run[x.run].stages
             /\ \A vote \in {"approved", "rejected", "returned"} :
                 LET v == Voted(x, vote) IN
                 /\ v \in RunRecords /\ v.start = run[x.run].start
                 /\ x.on \in DOMAIN v.stages
    BY <1>1, <1>2, DecidableIs, VotedIs
<1>3. CASE ~Repeated(x) /\ Approve(x)
    <2>1. /\ Decision(x) /\ Decidable(x)
          /\ run' = [run EXCEPT ![x.run] = Voted(x, "approved")]
        BY <1>3 DEF Approve, Decision
    <2> QED BY <1>1, <1>2, <1>3, <2>1
<1>4. CASE ~Repeated(x) /\ Advance(x)
    <2> DEFINE v == Voted(x, "approved")
               m == Marked(v, x.on, "completed")
    <2>1. PICK next : /\ Decision(x) /\ Decidable(x)
                      /\ run' = [run EXCEPT ![x.run] = Reach(m, next)]
        BY <1>4 DEF Advance, Decision, Marked
    <2>2. v \in RunRecords /\ x.on \in DOMAIN v.stages /\ v.start = run[x.run].start
        BY <1>2, <1>4, <2>1
    <2> HIDE DEF v
    <2>3. m \in RunRecords /\ m.start = v.start BY <2>2, MarkedIs
    <2> HIDE DEF m
    <2>4. Reach(m, next).start = m.start BY <2>3 DEF Reach, RunRecords
    <2>5. x.run \in Runs /\ run[x.run].status = "running" BY <1>2, <1>4, <2>1
    <2> QED BY <1>1, <2>1, <2>2, <2>3, <2>4, <2>5
<1>5. CASE ~Repeated(x) /\ Decline(x)
    <2>1. PICK verdict \in {"rejected", "returned"}, status \in {"completed", "returned"} :
            /\ Decision(x) /\ Decidable(x)
            /\ run' = [run EXCEPT ![x.run] =
                        [Voted(x, verdict) EXCEPT !.stages[x.on].status = "rejected",
                                                  !.at = 0, !.status = status]]
        BY <1>5 DEF Decline, Decision
    <2> DEFINE v == Voted(x, verdict)
               rr == [v EXCEPT !.stages[x.on].status = "rejected", !.at = 0, !.status = status]
    <2>2. v \in RunRecords /\ v.start = run[x.run].start BY <1>2, <1>5, <2>1
    <2> HIDE DEF v
    <2>3. rr.start = v.start BY <2>2 DEF RunRecords
    <2>4. run' = [run EXCEPT ![x.run] = rr] BY <2>1 DEF v
    <2> HIDE DEF rr
    <2>5. x.run \in Runs /\ run[x.run].status = "running" BY <1>2, <1>5, <2>1
    <2> QED BY <1>1, <2>2, <2>3, <2>4, <2>5
<1>6. CASE ~Repeated(x) /\ Withdraw(x)
    <2> DEFINE rr == Skip(Logged(current, x, run[current].at))
    <2>1. current \in Runs /\ run[current].status = "running" /\ run' = [run EXCEPT ![current] = rr]
        BY <1>6 DEF Withdraw, Active, Started, HasRun
    <2>2. rr.start = run[current].start BY <1>1, <2>1 DEF Skip, Logged, RunRecords
    <2> HIDE DEF rr
    <2> QED BY <1>1, <2>1, <2>2
<1>7. CASE UNCHANGED run BY <1>7
<1> QED BY <1>3, <1>4, <1>5, <1>6, <1>7 DEF Commit

\* Editors, and what cancels a submission that was not delivered.
LEMMA EditExec ==
    ASSUME IInv, (\E p \in Editors : Edit(p) \/ \E op \in Ops : Read(p, op)) \/ CancelPending
    PROVE  Executing' /\ Working'
<1> USE DEF IInv
<1>1. UNCHANGED <<asked, exec, work>>
    BY DEF Edit, Read, Refused, Update, Submit, Delete, CancelPending
<1>2. Working' BY <1>1, WorkFrame
<1>3. exec \in [Runs -> Execs] /\ AskedOK /\ \A r \in Runs : SoundExec(exec[r]) /\ Undelivered(r)
    BY ExecutingIs
<1>4. current \in 0..MaxRuns /\ run \in [Runs -> RunRecords]
    BY DEF FormInv, FormTypeOK
<1>5. AskedOK' /\ \A r \in Runs : Undelivered(r)'
    <2>1. CASE UNCHANGED <<current, run>> BY <1>1, <1>3, <2>1 DEF AskedOK, Undelivered
    <2>2. ASSUME NEW p \in Editors, Submit(p) PROVE AskedOK' /\ \A r \in Runs : Undelivered(r)'
        <3>1. PICK rr : run' = [run EXCEPT ![current'] = rr] BY <2>2 DEF Submit
        <3>2. current' = current + 1 BY <2>2 DEF Submit
        <3>3. \A c \in Commands : asked[c] \in 0..MaxRuns /\ asked[c] <= current
            BY <1>3 DEF AskedOK
        <3>4. AskedOK' BY <1>1, <1>3, <1>4, <3>2, <3>3, ApprovalAssumption DEF AskedOK
        <3>5. ASSUME NEW r \in Runs PROVE Undelivered(r)'
            <4>1. CASE r = current' BY <1>1, <1>3, <1>4, <3>2, <4>1 DEF Undelivered, Runs
            <4>2. CASE r # current'
                <5>1. run'[r] = run[r] BY <1>4, <3>1, <4>2
                <5> QED BY <1>1, <1>3, <1>4, <3>2, <5>1 DEF Undelivered, Runs
            <4> QED BY <4>1, <4>2
        <3> QED BY <3>4, <3>5
    <2>3. ASSUME NEW p \in Editors, Delete(p) PROVE AskedOK' /\ \A r \in Runs : Undelivered(r)'
        BY <1>1, <1>3, <2>3 DEF Delete, NoRun, AskedOK, Undelivered
    <2>4. CASE CancelPending
        <3>1. PICK rr : /\ run' = [run EXCEPT ![current] = [rr EXCEPT !.start = "abandoned"]]
                        /\ rr = Skip(run[current])
            BY <2>4 DEF CancelPending
        <3>2. current \in Runs /\ UNCHANGED current BY <2>4 DEF CancelPending, HasRun
        <3>3. rr \in RunRecords BY <1>4, <3>1, <3>2, SkipSound DEF FormInv
        <3>4. run'[current].start = "abandoned" BY <1>4, <3>1, <3>2, <3>3 DEF RunRecords
        <3>5. \A r \in Runs : r # current => run'[r] = run[r] BY <1>4, <3>1
        <3> QED BY <1>1, <1>3, <3>2, <3>4, <3>5 DEF AskedOK, Undelivered
    <2> QED BY <2>1, <2>2, <2>3, <2>4 DEF Edit, Read, Refused, Update
<1> QED BY <1>1, <1>2, <1>5, ExecKept

\* The start of a run begins its execution.
LEMMA DeliverExec ==
    ASSUME IInv, NEW r \in Runs, Deliver(r)
    PROVE  Executing' /\ Working'
<1> USE DEF IInv
<1>1. UNCHANGED <<current, asked, work>> BY DEF Deliver
<1>2. /\ exec \in [Runs -> Execs] /\ AskedOK /\ AskedOK'
      /\ \A q \in Runs : SoundExec(exec[q]) /\ Undelivered(q)
    BY <1>1, ExecutingIs DEF AskedOK
<1>3. run \in [Runs -> RunRecords] /\ current \in 0..MaxRuns BY DEF FormInv, FormTypeOK
<1>4. exec[r].phase = "none" BY <1>2 DEF Deliver, Undelivered
<1>5. CASE r = current /\ Running(r)
    <2>1. /\ run' = [run EXCEPT ![r].start = "started"]
          /\ exec' = [exec EXCEPT ![r].phase = "reload"]
        BY <1>5 DEF Deliver
    <2> DEFINE ex == [exec[r] EXCEPT !.phase = "reload"]
    <2>2. ex \in Execs /\ ex.phase = "reload" /\ ex.tries = exec[r].tries /\ ex.key = exec[r].key
        <3>1. exec[r] \in Execs BY <1>2
        <3> QED BY <3>1 DEF Execs
    <2>3. exec' = [exec EXCEPT ![r] = ex] BY <2>1
    <2> HIDE DEF ex
    <2>4. SoundExec(ex) BY <1>2, <1>4, <2>2, ApprovalAssumption DEF SoundExec
    <2>5. exec' \in [Runs -> Execs] /\ \A q \in Runs : exec'[q] = IF q = r THEN ex ELSE exec[q]
        BY <1>2, <2>2, <2>3
    <2>6. /\ run'[r].start = "started" /\ \A q \in Runs : q # r => run'[q] = run[q]
        BY <1>3, <2>1 DEF RunRecords
    <2>7. \A q \in Runs : Undelivered(q)'
        BY <1>1, <1>2, <1>3, <1>5, <2>5, <2>6 DEF Undelivered, Runs
    <2>8. Executing' BY <1>2, <2>4, <2>5, <2>7, ExecutingIsPrime
    <2>9. Working' BY <1>1, <1>4, <2>5, WorkFrame
    <2> QED BY <2>8, <2>9
<1>6. CASE ~(r = current /\ Running(r))
    <2>1. run' = [run EXCEPT ![r].start = "abandoned"] /\ UNCHANGED exec BY <1>6 DEF Deliver
    <2>2. run'[r].start = "abandoned" /\ \A q \in Runs : q # r => run'[q] = run[q]
        BY <1>3, <2>1 DEF RunRecords
    <2>3. \A q \in Runs : Undelivered(q)' BY <1>1, <1>2, <2>1, <2>2 DEF Undelivered
    <2> QED BY <1>1, <1>2, <2>1, <2>3, ExecKept, WorkFrame
<1> QED BY <1>5, <1>6

LEMMA Appended ==
    ASSUME NEW S, NEW s \in Seq(S), NEW e \in S
    PROVE  Append(s, e) \in Seq(S) /\ Append(s, e) # <<>>
<1>1. Len(Append(s, e)) = Len(s) + 1 /\ Len(s) \in Nat /\ Append(s, e) \in Seq(S) OBVIOUS
<1>2. Len(Append(s, e)) # 0 BY <1>1
<1> QED BY <1>1, <1>2

\* Commands and their signals.
LEMMA SignalExec ==
    ASSUME IInv, NEW c \in Commands, Request(c) \/ Signal(c)
    PROVE  Executing' /\ Working'
<1> USE DEF IInv
<1>1. UNCHANGED <<current, run, work>> BY DEF Request, Signal
<1>2. /\ exec \in [Runs -> Execs] /\ AskedOK
      /\ \A q \in Runs : SoundExec(exec[q]) /\ Undelivered(q)
    BY ExecutingIs
<1>3. current \in 0..MaxRuns BY DEF FormInv, FormTypeOK
<1>4. \A d \in Commands : asked[d] \in 0..MaxRuns /\ asked[d] <= current BY <1>2 DEF AskedOK
<1>5. AskedOK'
    <2>1. PICK k \in {0, current} : asked' = [asked EXCEPT ![c] = k]
        BY DEF Request, Signal
    <2>2. k \in 0..MaxRuns /\ k <= current BY <1>3, <2>1, ApprovalAssumption
    <2> QED BY <1>1, <1>2, <1>4, <2>1, <2>2 DEF AskedOK
<1>6. CASE UNCHANGED exec
    <2>1. \A r \in Runs : Undelivered(r)' BY <1>1, <1>2, <1>6 DEF Undelivered
    <2> QED BY <1>1, <1>5, <1>6, <2>1, ExecKept, WorkFrame
<1>7. ASSUME asked[c] # 0, exec' = [exec EXCEPT ![asked[c]].queue = Append(@, c)]
      PROVE  Executing' /\ Working'
    <2>1. asked[c] \in Runs BY <1>4, <1>7 DEF Runs
    <2> DEFINE r == asked[c]
               q == Append(exec[r].queue, c)
               ex == [exec[r] EXCEPT !.queue = q]
    <2>2. exec[r] \in Execs BY <1>2, <2>1
    <2>3. exec[r].queue \in Seq(Commands) BY <2>2 DEF Execs
    <2>4. q \in Seq(Commands) /\ q # <<>> BY <2>3, Appended
    <2>5. exec' = [exec EXCEPT ![r] = ex] BY <1>7
    <2> HIDE DEF q
    <2>6. /\ ex \in Execs /\ ex.queue = q /\ ex.phase = exec[r].phase /\ ex.tries = exec[r].tries
          /\ ex.key = exec[r].key
        BY <2>2, <2>4 DEF Execs
    <2> HIDE DEF ex, r
    <2>7. r \in Runs BY <2>1 DEF r
    <2>8. SoundExec(ex) BY <1>2, <2>4, <2>6, <2>7 DEF SoundExec
    <2>9. Executing' BY <1>1, <1>5, <2>5, <2>6, <2>7, <2>8, ExecWritten
    <2>10. exec'[r] = ex /\ \A p \in Runs : p # r => exec'[p] = exec[p] BY <1>2, <2>5, <2>7
    <2> QED BY <1>1, <2>6, <2>9, <2>10, WorkFrame
<1> QED BY <1>6, <1>7 DEF Request, Signal

\* A step of one execution that does not begin or end an attempt.
LEMMA ExecOnly ==
    ASSUME IInv, NEW r \in Runs, NEW ex, SoundExec(ex), exec' = [exec EXCEPT ![r] = ex],
           UNCHANGED <<current, asked, run, work>>, exec[r].phase \notin {"none", "commit"}
    PROVE  Executing' /\ Working'
<1> USE DEF IInv
<1>1. exec \in [Runs -> Execs] /\ AskedOK BY ExecutingIs
<1>2. AskedOK' BY <1>1 DEF AskedOK
<1>3. Executing' BY <1>2, ExecWritten
<1>4. \A q \in Runs : q # r => exec'[q] = exec[q] BY <1>1
<1> QED BY <1>3, <1>4, WorkFrame

\* An execution with these fields.
Ex(ph, q, t, k, rem) == [phase |-> ph, queue |-> q, tries |-> t, key |-> k, reminded |-> rem]

LEMMA ExIs ==
    ASSUME NEW ph \in {"none", "wait", "apply", "commit", "load", "reload", "closed"},
           NEW q \in Seq(Commands), NEW t \in 0..MaxTries, NEW k \in (0..MaxRuns) \X Nat,
           NEW rem \in SUBSET (Runs \X Nat),
           ph \in {"apply", "commit", "load"} => q # <<>>,
           ph \in {"apply", "commit", "load", "reload"} => t < MaxTries,
           ph = "none" => t = 0, k[2] # 0 => k[1] \in Runs
    PROVE  /\ SoundExec(Ex(ph, q, t, k, rem)) /\ Ex(ph, q, t, k, rem).phase = ph
BY DEF Ex, SoundExec, Execs

\* The writes of the fields of an execution.
LEMMA WritePhase ==
    ASSUME NEW o \in Execs, NEW ph
    PROVE  [o EXCEPT !.phase = ph] = Ex(ph, o.queue, o.tries, o.key, o.reminded)
BY DEF Ex, Execs

LEMMA WriteTries ==
    ASSUME NEW o \in Execs, NEW ph, NEW t
    PROVE  /\ [o EXCEPT !.phase = ph, !.tries = t] = Ex(ph, o.queue, t, o.key, o.reminded)
           /\ [o EXCEPT !.tries = t, !.phase = ph] = Ex(ph, o.queue, t, o.key, o.reminded)
<1> DEFINE o1 == [o EXCEPT !.phase = ph]
           o2 == [o EXCEPT !.tries = t]
<1>1. o1 = Ex(ph, o.queue, o.tries, o.key, o.reminded)
      /\ o2 = Ex(o.phase, o.queue, t, o.key, o.reminded)
    BY DEF Ex, Execs
<1>2. /\ [o EXCEPT !.phase = ph, !.tries = t] = [o1 EXCEPT !.tries = t]
      /\ [o EXCEPT !.tries = t, !.phase = ph] = [o2 EXCEPT !.phase = ph]
    OBVIOUS
<1> HIDE DEF o1, o2
<1>3. [o1 EXCEPT !.tries = t] = Ex(ph, o.queue, t, o.key, o.reminded) BY <1>1 DEF Ex
<1>4. [o2 EXCEPT !.phase = ph] = Ex(ph, o.queue, t, o.key, o.reminded) BY <1>1 DEF Ex
<1> QED BY <1>2, <1>3, <1>4

LEMMA WriteQueue ==
    ASSUME NEW o \in Execs, NEW ph, NEW q
    PROVE  [o EXCEPT !.phase = ph, !.queue = q] = Ex(ph, q, o.tries, o.key, o.reminded)
<1> DEFINE o1 == [o EXCEPT !.phase = ph]
<1>1. o1 = Ex(ph, o.queue, o.tries, o.key, o.reminded) BY WritePhase
<1>2. [o EXCEPT !.phase = ph, !.queue = q] = [o1 EXCEPT !.queue = q] OBVIOUS
<1> HIDE DEF o1
<1>3. [o1 EXCEPT !.queue = q] = Ex(ph, q, o.tries, o.key, o.reminded) BY <1>1 DEF Ex
<1> QED BY <1>2, <1>3

LEMMA WriteKey ==
    ASSUME NEW o \in Execs, NEW ph, NEW k, NEW q
    PROVE  [o EXCEPT !.phase = ph, !.key = k, !.queue = q] = Ex(ph, q, o.tries, k, o.reminded)
<1> DEFINE o1 == [o EXCEPT !.phase = ph]
           o2 == [o1 EXCEPT !.key = k]
<1>1. o1 = Ex(ph, o.queue, o.tries, o.key, o.reminded) BY WritePhase
<1>2. [o EXCEPT !.phase = ph, !.key = k, !.queue = q] = [o2 EXCEPT !.queue = q] OBVIOUS
<1> HIDE DEF o1
<1>3. o2 = Ex(ph, o.queue, o.tries, k, o.reminded) BY <1>1 DEF Ex
<1> HIDE DEF o2
<1>4. [o2 EXCEPT !.queue = q] = Ex(ph, q, o.tries, k, o.reminded) BY <1>3 DEF Ex
<1> QED BY <1>2, <1>4

\* The fields of an execution.
LEMMA ExecFields ==
    ASSUME Executing, NEW r \in Runs
    PROVE  /\ exec[r].phase \in {"none", "wait", "apply", "commit", "load", "reload", "closed"}
           /\ exec[r].queue \in Seq(Commands)
           /\ exec[r].queue # <<>> => Tail(exec[r].queue) \in Seq(Commands)
           /\ exec[r].tries \in 0..MaxTries
           /\ exec[r].key \in (0..MaxRuns) \X Nat
           /\ exec[r].reminded \in SUBSET (Runs \X Nat)
           /\ SoundExec(exec[r]) /\ exec[r] \in Execs /\ exec \in [Runs -> Execs]
<1>1. SoundExec(exec[r]) /\ exec[r] \in Execs /\ exec \in [Runs -> Execs] BY ExecutingIs
<1>2. exec[r].queue \in Seq(Commands) /\ exec[r].tries \in 0..MaxTries
      /\ exec[r].phase \in {"none", "wait", "apply", "commit", "load", "reload", "closed"}
      /\ exec[r].key \in (0..MaxRuns) \X Nat /\ exec[r].reminded \in SUBSET (Runs \X Nat)
    BY <1>1 DEF Execs
<1>3. exec[r].queue # <<>> => Tail(exec[r].queue) \in Seq(Commands) BY <1>2
<1> QED BY <1>1, <1>2, <1>3

\* How an execution goes on between the attempts.
LEMMA ExecuteExec ==
    ASSUME IInv, NEW r \in Runs,
           Receive(r) \/ Load(r) \/ LoadFails(r) \/ Remind(r) \/ ReminderFails(r)
    PROVE  Executing' /\ Working'
<1> USE DEF IInv
<1>1. UNCHANGED <<current, asked, run, work>>
    BY DEF Receive, Load, LoadFails, Remind, ReminderFails, Settle, Move
<1> DEFINE old == exec[r]
<1>2. /\ old.phase \in {"none", "wait", "apply", "commit", "load", "reload", "closed"}
      /\ old.queue \in Seq(Commands)
      /\ old.queue # <<>> => Tail(old.queue) \in Seq(Commands)
      /\ old.tries \in 0..MaxTries
      /\ old.key \in (0..MaxRuns) \X Nat
      /\ old.reminded \in SUBSET (Runs \X Nat)
      /\ SoundExec(old) /\ old \in Execs /\ exec \in [Runs -> Execs]
    BY ExecFields
<1>3. old.key[2] # 0 => old.key[1] \in Runs BY <1>2 DEF SoundExec
<1>4. SUFFICES ASSUME old.phase \in {"wait", "load", "reload"}
               PROVE  \E ex : SoundExec(ex) /\ exec' = [exec EXCEPT ![r] = ex]
    <2>1. old.phase \in {"wait", "load", "reload"}
        BY DEF Receive, Load, LoadFails, Remind, ReminderFails
    <2>2. ASSUME NEW ex, SoundExec(ex), exec' = [exec EXCEPT ![r] = ex]
          PROVE  Executing' /\ Working'
        BY <1>1, <2>1, <2>2, ExecOnly
    <2> QED BY <2>1, <2>2
<1>5. CASE Receive(r)
    <2> DEFINE new == Ex("apply", old.queue, 0, old.key, old.reminded)
    <2>1. exec' = [exec EXCEPT ![r] = [old EXCEPT !.phase = "apply", !.tries = 0]]
        BY <1>2, <1>5 DEF Receive
    <2>2. exec' = [exec EXCEPT ![r] = new] BY <1>2, <2>1, WriteTries
    <2>3. old.queue # <<>> /\ 0 \in 0..MaxTries /\ 0 < MaxTries
        BY <1>5, ApprovalAssumption DEF Receive
    <2>4. SoundExec(new) BY <1>2, <1>3, <2>3, ExIs
    <2> QED BY <2>2, <2>4
<1>6. CASE LoadFails(r)
    <2> DEFINE ph == IF old.tries + 1 = MaxTries THEN "closed"
                     ELSE IF old.phase = "load" THEN "apply" ELSE old.phase
               t == old.tries + 1
               new == Ex(ph, old.queue, t, old.key, old.reminded)
    <2>1. exec' = [exec EXCEPT ![r] = [old EXCEPT !.tries = t, !.phase = ph]]
        BY <1>2, <1>6 DEF LoadFails
    <2>2. exec' = [exec EXCEPT ![r] = new] BY <1>2, <2>1, WriteTries
    <2>3. /\ old.phase \in {"load", "reload"} /\ old.tries < MaxTries /\ old.tries \in Nat
          /\ old.phase = "load" => old.queue # <<>>
        BY <1>2, <1>6, ApprovalAssumption DEF LoadFails, SoundExec
    <2>4. t \in 0..MaxTries /\ (ph # "closed" => t < MaxTries) BY <2>3, ApprovalAssumption
    <2>5. /\ ph \in {"apply", "reload", "closed"}
          /\ ph \in {"apply", "commit", "load"} => old.queue # <<>>
        BY <2>3
    <2> HIDE DEF ph, t
    <2>6. SoundExec(new) BY <1>2, <1>3, <2>4, <2>5, ExIs
    <2> QED BY <2>2, <2>6
<1>7. CASE ReminderFails(r)
    <2> DEFINE new == Ex("closed", old.queue, old.tries, old.key, old.reminded)
    <2>1. exec' = [exec EXCEPT ![r] = [old EXCEPT !.phase = "closed"]]
        BY <1>2, <1>7 DEF ReminderFails, Move
    <2>2. exec' = [exec EXCEPT ![r] = new] BY <1>2, <2>1, WritePhase
    <2>3. SoundExec(new) BY <1>2, <1>3, ExIs
    <2> QED BY <2>2, <2>3
<1>8. CASE Remind(r)
    <2> DEFINE told == old.reminded \cup {old.key}
               t == 0
               new == Ex("reload", old.queue, t, old.key, told)
    <2>1. exec' = [exec EXCEPT ![r] = [old EXCEPT !.phase = "reload", !.tries = t,
                                                  !.reminded = told]]
        BY <1>2, <1>8 DEF Remind
    <2>3. old.key \in Runs \X Nat BY <1>2, <1>3, <1>8 DEF Remind
    <2>4. told \in SUBSET (Runs \X Nat) /\ t \in 0..MaxTries /\ t < MaxTries
        BY <1>2, <2>3, ApprovalAssumption
    <2> HIDE DEF told, t
    <2> DEFINE set == [old EXCEPT !.phase = "reload", !.tries = t, !.reminded = told]
    <2>6. set = new
        <3> DEFINE o1 == [old EXCEPT !.phase = "reload", !.tries = t]
        <3>1. o1 = Ex("reload", old.queue, t, old.key, old.reminded) BY <1>2, WriteTries
        <3>2. set = [o1 EXCEPT !.reminded = told] OBVIOUS
        <3> HIDE DEF o1, set
        <3> QED BY <3>1, <3>2 DEF Ex
    <2>7. exec' = [exec EXCEPT ![r] = set] BY <2>1
    <2> HIDE DEF set, new
    <2>2. exec' = [exec EXCEPT ![r] = new] BY <2>6, <2>7
    <2> USE DEF new
    <2>5. SoundExec(new) BY <1>2, <1>3, <2>4, ExIs
    <2> QED BY <2>2, <2>5
<1>9. CASE Load(r)
    <2>1. old.phase = "load" => old.queue # <<>> BY <1>2 DEF SoundExec
    <2>2. CASE exec' = [exec EXCEPT ![r].phase = "closed"]
        <3> DEFINE new == Ex("closed", old.queue, old.tries, old.key, old.reminded)
        <3>1. exec' = [exec EXCEPT ![r] = [old EXCEPT !.phase = "closed"]] BY <1>2, <2>2
        <3>2. exec' = [exec EXCEPT ![r] = new] BY <1>2, <3>1, WritePhase
        <3>3. SoundExec(new) BY <1>2, <1>3, ExIs
        <3> QED BY <3>2, <3>3
    <2>3. CASE old.phase = "load" /\ Settle(r)
        <3> DEFINE q == Tail(old.queue)
                   new == Ex("wait", q, old.tries, old.key, old.reminded)
        <3>1. exec' = [exec EXCEPT ![r] = [old EXCEPT !.phase = "wait", !.queue = q]]
            BY <1>2, <2>3 DEF Settle, Settled
        <3>4. q \in Seq(Commands) BY <1>2, <2>1, <2>3
        <3> HIDE DEF q
        <3>2. exec' = [exec EXCEPT ![r] = new] BY <1>2, <3>1, WriteQueue
        <3>3. SoundExec(new) BY <1>2, <1>3, <3>4, ExIs
        <3> QED BY <3>2, <3>3
    <2>4. ASSUME form # "none", ~Over,
                 exec' = [exec EXCEPT ![r].phase = "wait", ![r].key = <<current, run[current].at>>,
                            ![r].queue = IF exec[r].phase = "load" THEN Tail(@) ELSE @]
          PROVE  \E ex : SoundExec(ex) /\ exec' = [exec EXCEPT ![r] = ex]
        <3> DEFINE q == IF old.phase = "load" THEN Tail(old.queue) ELSE old.queue
                   k == <<current, run[current].at>>
                   new == Ex("wait", q, old.tries, k, old.reminded)
        <3>1. exec' = [exec EXCEPT ![r] = [old EXCEPT !.phase = "wait", !.key = k, !.queue = q]]
            BY <1>2, <2>4
        <3>3. current \in Runs
            <4>1. Undelivered(r) BY ExecutingIs
            <4>2. ~(r > current) BY <1>4, <4>1 DEF Undelivered
            <4>3. current \in 0..MaxRuns BY DEF FormInv, FormTypeOK
            <4> QED BY <4>2, <4>3, ApprovalAssumption DEF Runs
        <3>4. run[current].at \in Nat BY <3>3 DEF FormInv, FormTypeOK, RunRecords
        <3>5. k \in (0..MaxRuns) \X Nat /\ (k[2] # 0 => k[1] \in Runs)
            BY <3>3, <3>4 DEF Runs
        <3>6. q \in Seq(Commands) BY <1>2, <2>1
        <3> HIDE DEF q, k
        <3> DEFINE set == [old EXCEPT !.phase = "wait", !.key = k, !.queue = q]
        <3>8. set = new
            <4> HIDE DEF old
            <4>1. old \in Execs BY <1>2
            <4> QED BY <4>1, WriteKey
        <3>9. exec' = [exec EXCEPT ![r] = set] BY <3>1
        <3> HIDE DEF set, new
        <3>2. exec' = [exec EXCEPT ![r] = new] BY <3>8, <3>9
        <3> USE DEF new
        <3>7. SoundExec(new) BY <1>2, <3>5, <3>6, ExIs
        <3> QED BY <3>2, <3>7
    <2> QED BY <1>9, <2>2, <2>3, <2>4 DEF Load, Move
<1> QED BY <1>5, <1>6, <1>7, <1>8, <1>9

\* An attempt begins.
LEMMA BeginExec ==
    ASSUME IInv, NEW r \in Runs, Begin(r)
    PROVE  Executing' /\ Working'
<1> USE DEF IInv
<1>1. UNCHANGED <<current, asked, run>> BY DEF Begin
<1> DEFINE old == exec[r]
<1>2. /\ old.phase \in {"none", "wait", "apply", "commit", "load", "reload", "closed"}
      /\ old.queue \in Seq(Commands)
      /\ old.queue # <<>> => Tail(old.queue) \in Seq(Commands)
      /\ old.tries \in 0..MaxTries
      /\ old.key \in (0..MaxRuns) \X Nat
      /\ old.reminded \in SUBSET (Runs \X Nat)
      /\ SoundExec(old) /\ old \in Execs /\ exec \in [Runs -> Execs]
    BY ExecFields
<1>3. /\ old.key[2] # 0 => old.key[1] \in Runs
      /\ old.phase = "apply" /\ old.queue # <<>> /\ old.tries < MaxTries
    BY <1>2 DEF SoundExec, Begin
<1>4. CASE Move(r, "load") /\ UNCHANGED work
    <2> DEFINE new == Ex("load", old.queue, old.tries, old.key, old.reminded)
    <2>1. exec' = [exec EXCEPT ![r] = [old EXCEPT !.phase = "load"]] BY <1>2, <1>4 DEF Move
    <2>2. exec' = [exec EXCEPT ![r] = new] BY <1>2, <2>1, WritePhase
    <2>3. SoundExec(new) BY <1>2, <1>3, ExIs
    <2> HIDE DEF new
    <2> QED BY <1>1, <1>3, <1>4, <2>2, <2>3, ExecOnly
<1>5. CASE Settle(r) /\ UNCHANGED work
    <2> DEFINE q == Tail(old.queue)
               new == Ex("wait", q, old.tries, old.key, old.reminded)
    <2>1. exec' = [exec EXCEPT ![r] = [old EXCEPT !.phase = "wait", !.queue = q]]
        BY <1>2, <1>5 DEF Settle, Settled
    <2>2. q \in Seq(Commands) BY <1>2, <1>3
    <2> HIDE DEF q
    <2>3. exec' = [exec EXCEPT ![r] = new] BY <1>2, <2>1, WriteQueue
    <2>4. SoundExec(new) BY <1>2, <1>3, <2>2, ExIs
    <2> HIDE DEF new
    <2> QED BY <1>1, <1>3, <1>5, <2>3, <2>4, ExecOnly
<1>6. ASSUME work' = work \cup {[via |-> r, cmd |-> Head(old.queue), run |-> 0, on |-> 0,
                                 live |-> TRUE]},
             Move(r, "commit")
      PROVE  Executing' /\ Working'
    <2> DEFINE new == Ex("commit", old.queue, old.tries, old.key, old.reminded)
               x == [via |-> r, cmd |-> Head(old.queue), run |-> 0, on |-> 0, live |-> TRUE]
    <2>1. exec' = [exec EXCEPT ![r] = [old EXCEPT !.phase = "commit"]] BY <1>2, <1>6 DEF Move
    <2>2. exec' = [exec EXCEPT ![r] = new] BY <1>2, <2>1, WritePhase
    <2>3. SoundExec(new) /\ new.phase = "commit" BY <1>2, <1>3, ExIs
    <2>4. x \in Attempts
        <3>1. Head(old.queue) \in Commands BY <1>2, <1>3
        <3>2. 0 \in 0..MaxRuns BY ApprovalAssumption
        <3> QED BY <3>1, <3>2 DEF Attempts
    <2>5. x.via = r /\ x.live /\ work' = work \cup {x} BY <1>6
    <2> HIDE DEF new, x
    <2>6. AskedOK' BY <1>1, ExecutingIs DEF AskedOK
    <2>7. Executing' BY <1>1, <1>3, <2>2, <2>3, <2>6, ExecWritten
    <2>8. exec'[r].phase = "commit" /\ \A q \in Runs : q # r => exec'[q] = exec[q]
        BY <1>2, <2>2, <2>3
    <2>9. \A y \in work : y.via \in Runs /\ ~(y.live /\ y.via = r)
        BY <1>3 DEF Working, Attempts
    <2>10. Working' BY <2>4, <2>5, <2>8, <2>9 DEF Working
    <2> QED BY <2>7, <2>10
<1> QED BY <1>4, <1>5, <1>6 DEF Begin

\* An attempt chooses the stage to decide on.
LEMMA ChooseExec ==
    ASSUME IInv, NEW x \in work, Choose(x)
    PROVE  Executing' /\ Working'
<1> USE DEF IInv
<1> DEFINE y == [x EXCEPT !.run = current, !.on = run[current].at]
<1>1. UNCHANGED <<current, asked, run, exec>> /\ work' = (work \ {x}) \cup {y}
    BY DEF Choose
<1>2. Executing'
    <2>1. AskedOK' /\ \A r \in Runs : Undelivered(r)'
        BY <1>1, ExecutingIs DEF AskedOK, Undelivered
    <2> QED BY <1>1, <2>1, ExecKept
<1>3. x \in Attempts BY DEF Working
<1>4. current \in 0..MaxRuns /\ run[current].at \in Nat
    BY DEF Choose, Started, HasRun, FormInv, FormTypeOK, RunRecords
<1>5. y \in Attempts /\ y.via = x.via /\ y.live = x.live BY <1>3, <1>4 DEF Attempts
<1> HIDE DEF y
<1>6. Working' BY <1>1, <1>5 DEF Working
<1> QED BY <1>2, <1>6

\* What an attempt leaves to the execution that waits for it.
LEMMA ReportExec ==
    ASSUME IInv, NEW x \in work, UNCHANGED <<current, asked>>,
           Report(x, Reloading(x.via)) \/ Report(x, Settled(x.via)),
           \A q \in Runs : /\ run'[q].start = run[q].start
                           /\ run[q].status = "none" => run'[q].status = "none"
    PROVE  Executing' /\ Working'
<1> USE DEF IInv
<1>1. x.via \in Runs BY DEF Working, Attempts
<1>2. AskedOK' BY ExecutingIs DEF AskedOK
<1>3. CASE ~x.live
    <2>1. UNCHANGED exec /\ work' = work \ {x} BY <1>3 DEF Report
    <2>2. \A r \in Runs : Undelivered(r)' BY <2>1, ExecutingIs DEF Undelivered
    <2>3. Working' BY <2>1 DEF Working
    <2> QED BY <1>2, <2>1, <2>2, <2>3, ExecKept
<1>4. CASE x.live
    <2> DEFINE r == x.via
               old == exec[r]
    <2>1. /\ old.queue \in Seq(Commands)
          /\ old.queue # <<>> => Tail(old.queue) \in Seq(Commands)
          /\ old.tries \in 0..MaxTries
          /\ old.key \in (0..MaxRuns) \X Nat
          /\ old.reminded \in SUBSET (Runs \X Nat)
          /\ SoundExec(old) /\ old \in Execs /\ exec \in [Runs -> Execs]
        BY <1>1, ExecFields
    <2>2. old.phase = "commit" BY <1>4 DEF Working
    <2>3. /\ old.key[2] # 0 => old.key[1] \in Runs
          /\ old.queue # <<>> /\ old.tries < MaxTries
        BY <2>1, <2>2 DEF SoundExec
    <2>4. \E ex : SoundExec(ex) /\ exec' = [exec EXCEPT ![r] = ex]
        <3>1. CASE Report(x, Reloading(x.via))
            <4> DEFINE new == Ex("load", old.queue, old.tries, old.key, old.reminded)
            <4>1. exec' = [exec EXCEPT ![r] = [old EXCEPT !.phase = "load"]]
                BY <1>4, <3>1 DEF Report, Reloading
            <4>2. exec' = [exec EXCEPT ![r] = new] BY <2>1, <4>1, WritePhase
            <4>3. SoundExec(new) BY <2>1, <2>3, ExIs
            <4> QED BY <4>2, <4>3
        <3>2. CASE Report(x, Settled(x.via))
            <4> DEFINE q == Tail(old.queue)
                       new == Ex("wait", q, old.tries, old.key, old.reminded)
            <4>1. exec' = [exec EXCEPT ![r] = [old EXCEPT !.phase = "wait", !.queue = q]]
                BY <1>1, <1>4, <2>1, <3>2 DEF Report, Settled
            <4>2. q \in Seq(Commands) BY <2>1, <2>3
            <4> HIDE DEF q
            <4>3. exec' = [exec EXCEPT ![r] = new] BY <2>1, <4>1, WriteQueue
            <4>4. SoundExec(new) BY <2>1, <2>3, <4>2, ExIs
            <4> QED BY <4>3, <4>4
        <3> QED BY <3>1, <3>2
    <2>5. PICK ex : SoundExec(ex) /\ exec' = [exec EXCEPT ![r] = ex] BY <2>4
    <2>6. Executing' BY <1>1, <1>2, <2>2, <2>5, ExecWritten
    <2>7. \A q \in Runs : q # r => exec'[q] = exec[q] BY <2>1, <2>5
    <2>8. work' = work \ {x} BY DEF Report
    <2> QED BY <1>4, <2>6, <2>7, <2>8, WorkEnded
<1> QED BY <1>3, <1>4

\* An attempt is given up, or what was given up comes to nothing.
LEMMA LoseExec ==
    ASSUME IInv, NEW x \in work, Lose(x) \/ Die(x)
    PROVE  Executing' /\ Working'
<1> USE DEF IInv
<1>1. UNCHANGED <<current, asked, run>> BY DEF Lose, Die
<1>2. x.via \in Runs /\ x \in Attempts BY DEF Working, Attempts
<1>3. AskedOK' BY <1>1, ExecutingIs DEF AskedOK
<1>4. CASE Die(x)
    <2>1. UNCHANGED exec /\ work' = work \ {x} BY <1>4 DEF Die
    <2>2. \A r \in Runs : Undelivered(r)' BY <1>1, <2>1, ExecutingIs DEF Undelivered
    <2>3. Working' BY <2>1 DEF Working
    <2> QED BY <1>3, <2>1, <2>2, <2>3, ExecKept
<1>5. CASE Lose(x)
    <2> DEFINE r == x.via
               old == exec[r]
               t == old.tries + 1
               ph == IF t = MaxTries THEN "closed" ELSE "apply"
               new == Ex(ph, old.queue, t, old.key, old.reminded)
    <2>1. /\ old.queue \in Seq(Commands) /\ old.tries \in 0..MaxTries
          /\ old.key \in (0..MaxRuns) \X Nat
          /\ old.reminded \in SUBSET (Runs \X Nat)
          /\ SoundExec(old) /\ old \in Execs /\ exec \in [Runs -> Execs]
        BY <1>2, ExecFields
    <2>2. x.live /\ old.phase = "commit" BY <1>5 DEF Lose, Working
    <2>3. /\ old.key[2] # 0 => old.key[1] \in Runs
          /\ old.queue # <<>> /\ old.tries < MaxTries
        BY <2>1, <2>2 DEF SoundExec
    <2>4. exec' = [exec EXCEPT ![r] = [old EXCEPT !.tries = t, !.phase = ph]]
        BY <1>2, <1>5, <2>1 DEF Lose
    <2>5. t \in 0..MaxTries /\ (ph # "closed" => t < MaxTries) /\ ph \in {"closed", "apply"}
        BY <2>1, <2>3, ApprovalAssumption
    <2> HIDE DEF t, ph
    <2>6. exec' = [exec EXCEPT ![r] = new] BY <2>1, <2>4, WriteTries
    <2>7. SoundExec(new) BY <2>1, <2>3, <2>5, ExIs
    <2> HIDE DEF new
    <2>8. Executing' BY <1>1, <1>2, <1>3, <2>2, <2>6, <2>7, ExecWritten
    <2>9. \A q \in Runs : q # r => exec'[q] = exec[q] BY <2>1, <2>6
    <2>10. CASE work' = work \ {x} BY <2>2, <2>8, <2>9, <2>10, WorkEnded
    <2>11. CASE work' = (work \ {x}) \cup {[x EXCEPT !.live = FALSE]}
        <3> DEFINE y == [x EXCEPT !.live = FALSE]
        <3>1. y \in Attempts /\ ~y.live BY <1>2 DEF Attempts
        <3> HIDE DEF y
        <3>2. work' = (work \ {x}) \cup {y} BY <2>11 DEF y
        <3>3. \A z \in work : z.via \in Runs BY DEF Working, Attempts
        <3> QED BY <2>2, <2>8, <2>9, <3>1, <3>2, <3>3 DEF Working
    <2> QED BY <1>5, <2>10, <2>11 DEF Lose
<1> QED BY <1>4, <1>5
-----------------------------------------------------------------------------
\* The inductive invariant, and what follows from it

LEMMA InvInit == Init => IInv
<1> SUFFICES ASSUME Init PROVE IInv OBVIOUS
<1>1. FormInv BY FormInit
<1>2. NoExec \in Execs /\ NoExec.phase = "none" /\ NoExec.tries = 0 /\ NoExec.key[2] = 0
    <2>1. <<0, 0>> \in (0..MaxRuns) \X Nat /\ 0 \in 0..MaxTries BY ApprovalAssumption
    <2>2. <<>> \in Seq(Commands) OBVIOUS
    <2> QED BY <2>1, <2>2 DEF NoExec, Execs
<1>3. Executing BY <1>2, ApprovalAssumption DEF Init, Executing
<1>4. Working BY DEF Init, Working
<1> QED BY <1>1, <1>3, <1>4 DEF IInv

LEMMA InvStep == IInv /\ [Next]_vars => IInv'
<1> SUFFICES ASSUME IInv, [Next]_vars PROVE IInv' OBVIOUS
<1>1. FormInv' BY FormStep DEF IInv, Working
<1>2. SUFFICES Executing' /\ Working' BY <1>1 DEF IInv
<1>3. CASE (\E p \in Editors : Edit(p) \/ \E op \in Ops : Read(p, op)) \/ CancelPending
    BY <1>3, EditExec
<1>4. ASSUME NEW r \in Runs, Deliver(r) PROVE Executing' /\ Working' BY <1>4, DeliverExec
<1>5. ASSUME NEW r \in Runs, Execute(r) \/ LoadFails(r) \/ Remind(r) \/ ReminderFails(r)
      PROVE  Executing' /\ Working'
    BY <1>5, BeginExec, ExecuteExec DEF Execute
<1>6. ASSUME NEW c \in Commands, Request(c) \/ Signal(c) PROVE Executing' /\ Working'
    BY <1>6, SignalExec
<1>7. ASSUME NEW x \in work, Commit(x) PROVE Executing' /\ Working'
    <2>1. x \in Attempts BY DEF IInv, Working
    <2>2. \A q \in Runs : run'[q].start = run[q].start
                          /\ (run[q].status = "none" => run'[q].status = "none")
        BY <1>7, <2>1, CommitStarts DEF IInv
    <2> QED BY <1>7, <2>2, ReportExec DEF Commit
<1>8. ASSUME NEW x \in work, Refuse(x) PROVE Executing' /\ Working'
    BY <1>8, ReportExec DEF Refuse
<1>9. ASSUME NEW x \in work, Choose(x) \/ Lose(x) \/ Die(x) PROVE Executing' /\ Working'
    BY <1>9, ChooseExec, LoseExec
<1>10. CASE UNCHANGED vars
    <2>1. UNCHANGED <<current, asked, run, exec, work>> BY <1>10 DEF vars
    <2>2. AskedOK' /\ \A r \in Runs : Undelivered(r)'
        BY <2>1, ExecutingIs DEF IInv, AskedOK, Undelivered
    <2> QED BY <2>1, <2>2, ExecKept, WorkFrame DEF IInv
<1> QED BY <1>3, <1>4, <1>5, <1>6, <1>7, <1>8, <1>9, <1>10 DEF Next, Attempt

\* Every reachable state satisfies the invariant.
THEOREM Invariant == Spec => []IInv
BY InvInit, InvStep, PTL DEF Spec

\* The state of forms, runs, executions and attempts is always well-typed.
THEOREM TypeCorrect == Spec => []TypeOK
<1>1. IInv => TypeOK BY DEF IInv, FormInv, FormTypeOK, Executing, Working, TypeOK
<1> QED BY <1>1, Invariant, PTL

\* The form, its latest run and the active stage always say the same.
THEOREM FormAndRunsAgree == Spec => []Agreement
<1>1. IInv => Agreement
    <2> SUFFICES ASSUME IInv PROVE Agreement OBVIOUS
    <2>1. Rounds /\ \A r \in Runs : AtLast(run[r]) BY DEF IInv, FormInv, SoundRun
    <2> QED BY <2>1 DEF Agreement, Rounds, AtLast
<1> QED BY <1>1, Invariant, PTL

\* No approver of a route is skipped, and an approved form went all the way.
THEOREM RouteFollowed == Spec => []ApprovedByRoute
<1>1. IInv => ApprovedByRoute
    <2> SUFFICES ASSUME IInv PROVE ApprovedByRoute OBVIOUS
    <2>1. \A r \in Runs : \A i : ApprovedBy(r, i) = ApprovedIn(run[r].log, i)
        BY DEF ApprovedBy, ApprovedIn
    <2>2. \A r \in Runs : \A i \in DOMAIN run[r].stages :
            Approved(run[r], i) /\ Follows(run[r], i)
        BY DEF IInv, FormInv, SoundRun
    <2>3. form = "approved" => current \in Runs /\ RouteEnded(run[current])
        BY DEF IInv, FormInv, Rounds
    <2> QED BY <2>1, <2>2, <2>3 DEF ApprovedByRoute, Approved, Follows, RouteEnded
<1> QED BY <1>1, Invariant, PTL

\* A stage that wants somebody new has nobody who approved an earlier one.
THEOREM ApproversDiffer == Spec => []DistinctApprovers
<1>1. IInv => DistinctApprovers
    <2> SUFFICES ASSUME IInv PROVE DistinctApprovers OBVIOUS
    <2>1. \A r \in Runs : \A i : ApprovedBy(r, i) = ApprovedIn(run[r].log, i)
        BY DEF ApprovedBy, ApprovedIn
    <2>2. \A r \in Runs : NewApprovers(run[r]) BY DEF IInv, FormInv, SoundRun
    <2> QED BY <2>1, <2>2 DEF DistinctApprovers, NewApprovers
<1> QED BY <1>1, Invariant, PTL

\* However often a command is signalled and retried, it is applied once.
THEOREM CommandsOnce == Spec => []AppliedOnce
<1>1. IInv => AppliedOnce
    BY DEF IInv, FormInv, SoundRun, LoggedOnce, AppliedOnce
<1> QED BY <1>1, Invariant, PTL
-----------------------------------------------------------------------------
\* The life of a form that nobody deletes and whose routes have an approver

\* A pending start belongs to a running run: only a started one is decided on.
Undecided ==
    /\ form # "none"
    /\ HasRun /\ run[current].start = "pending" => Running(current)
    /\ \A x \in work : x.run # 0 => x.run <= current /\ run[x.run].start # "pending"

LifeInv == IInv /\ Undecided

\* A decision is taken on a started run in review.
LEMMA CommitDecides ==
    ASSUME LifeInv, NEW x \in work, Commit(x)
    PROVE  \/ UNCHANGED <<form, run>>
           \/ /\ form = "in_review" /\ current \in Runs /\ run[current].start # "pending"
              /\ form' \in {"in_review", "approved", "rejected", "returned", "cancelled"}
<1> USE DEF LifeInv, IInv
<1>1. x \in Attempts BY DEF Working
<1>2. ASSUME Running(current) PROVE form = "in_review" /\ current \in Runs
    BY <1>2 DEF FormInv, Rounds, HasRun
<1>3. ASSUME ~Repeated(x), Approve(x) \/ Advance(x) \/ Decline(x)
      PROVE  /\ form = "in_review" /\ current \in Runs /\ run[current].start # "pending"
             /\ form' \in {"in_review", "approved", "rejected", "returned", "cancelled"}
    <2>1. Decidable(x) BY <1>3 DEF Approve, Advance, Decline
    <2>2. /\ x.run = current /\ Running(current) /\ x.run # 0
        BY <2>1 DEF Decidable
    <2>3. run[current].start # "pending" BY <2>2 DEF Undecided
    <2>4. form' \in {form, "approved", "rejected", "returned"}
        BY <1>3 DEF Approve, Advance, Decline, Write
    <2> QED BY <1>2, <2>2, <2>3, <2>4
<1>4. ASSUME Withdraw(x)
      PROVE  /\ form = "in_review" /\ current \in Runs /\ run[current].start # "pending"
             /\ form' \in {"in_review", "approved", "rejected", "returned", "cancelled"}
    <2>1. Running(current) /\ run[current].start = "started" /\ form' = "cancelled"
        BY <1>4 DEF Withdraw, Active, Started, Write
    <2> QED BY <1>2, <2>1
<1> QED BY <1>3, <1>4 DEF Commit

\* What the steps do to the form and the round, and what they keep.
LEMMA LifeStep ==
    ASSUME "delete" \notin Ops, End \notin First, LifeInv, [Next]_vars
    PROVE  Undecided' /\ [Lifecycle!LifeNext]_(Lifecycle!lvars)
<1> USE DEF LifeInv
<1>1. IInv' BY InvStep
<1>2. /\ FormTypeOK /\ Copies /\ Rounds /\ current \in 0..MaxRuns
      /\ run \in [Runs -> RunRecords] /\ work \subseteq Attempts
    BY DEF IInv, FormInv, FormTypeOK, Working
<1>3. \A x \in work : x.run # 0 => x.run \in Runs BY <1>2 DEF Attempts, Runs
<1>4. form # "none" BY DEF Undecided
<1> DEFINE Stutter == UNCHANGED <<form, current>>
<1>5. ASSUME UNCHANGED <<form, current, run>>,
             \A y \in work' : y.run # 0 => y \in work \/ \E x \in work : y.run = x.run
                                        \/ (y.run = current /\ Started)
      PROVE  Undecided' /\ Stutter
    <2>1. Started => current \in Nat /\ run[current].start = "started" BY <1>2 DEF Started
    <2> QED BY <1>2, <1>5, <2>1 DEF Undecided, HasRun
<1>6. ASSUME NEW p \in Editors, NEW op \in Ops, Read(p, op) PROVE Undecided' /\ Stutter
    BY <1>5, <1>6 DEF Read
<1>7. ASSUME NEW p \in Editors, Refused(p) PROVE Undecided' /\ Stutter
    BY <1>5, <1>7 DEF Refused
<1>8. ASSUME NEW p \in Editors, Update(p) PROVE Undecided' /\ Stutter
    <2>1. form = editing[p].status BY <1>2, <1>4, <1>8 DEF Update, Conflicts, Copies
    <2>2. UNCHANGED <<form, current, run, work>> BY <1>8, <2>1 DEF Update, Write
    <2> QED BY <1>5, <2>2
<1>9. ASSUME NEW p \in Editors, Submit(p)
      PROVE  Undecided' /\ Lifecycle!SubmitForm
    <2>1. form = editing[p].status BY <1>2, <1>4, <1>9 DEF Submit, Conflicts, Copies
    <2>2. form \in {"draft", "returned"} BY <1>2, <2>1 DEF FormTypeOK
    <2>3. PICK s \in First : /\ current < MaxRuns /\ current' = current + 1
                             /\ run' = [run EXCEPT ![current'] =
                                            Reach([NoRun EXCEPT !.status = "running"], s)]
                             /\ form' = "in_review" /\ UNCHANGED work
        BY <1>9, ApprovalAssumption DEF Submit, Write
    <2>4. s # End OBVIOUS
    <2> DEFINE rr == Reach([NoRun EXCEPT !.status = "running"], s)
    <2>5. current' \in Runs BY <1>2, <2>3, ApprovalAssumption DEF Runs
    <2>6. rr.status = "running"
        <3> DEFINE o == [NoRun EXCEPT !.status = "running"]
        <3>1. o \in RunRecords /\ o.status = "running" BY NoRunSound DEF RunRecords
        <3> HIDE DEF o
        <3>2. Reach(o, s).status = "running" BY <2>4, <3>1 DEF Reach, RunRecords
        <3> QED BY <3>2 DEF o
    <2> HIDE DEF rr
    <2>7. run'[current'] = rr /\ \A r \in Runs : r # current' => run'[r] = run[r]
        BY <1>2, <2>3, <2>5 DEF rr
    <2>8. \A x \in work : x.run # 0 =>
            x.run <= current /\ x.run # current' /\ x.run \in Nat /\ run'[x.run].start # "pending"
        BY <1>2, <1>3, <2>3, <2>7 DEF Undecided, Runs
    <2>9. Undecided'
        BY <1>2, <2>3, <2>5, <2>6, <2>7, <2>8 DEF Undecided, HasRun
    <2> QED BY <2>2, <2>3, <2>9 DEF Lifecycle!SubmitForm
<1>10. ASSUME NEW p \in Editors, Delete(p) PROVE FALSE
    BY <1>2, <1>10 DEF Delete, FormTypeOK
<1>11. ASSUME NEW r \in Runs, Deliver(r) PROVE Undecided' /\ Stutter
    <2>1. PICK s \in {"started", "abandoned"} : run' = [run EXCEPT ![r].start = s]
        BY <1>11 DEF Deliver
    <2>2. UNCHANGED <<form, current, work>> BY <1>11 DEF Deliver
    <2>3. run'[r].start # "pending" /\ run'[r].status = run[r].status
          /\ \A q \in Runs : q # r => run'[q] = run[q]
        BY <1>2, <2>1 DEF RunRecords
    <2> QED BY <1>3, <2>2, <2>3 DEF Undecided, HasRun
<1>12. ASSUME CancelPending PROVE Undecided' /\ Lifecycle!Decide
    <2>1. form = "in_review" /\ current \in Runs
        BY <1>2, <1>12 DEF CancelPending, Undecided, Rounds, HasRun
    <2> DEFINE sk == Skip(run[current])
    <2>2. /\ run' = [run EXCEPT ![current] = [sk EXCEPT !.start = "abandoned"]]
          /\ form' = "cancelled" /\ UNCHANGED <<current, work>>
        BY <1>12 DEF CancelPending, Write
    <2>3. sk \in RunRecords BY <1>2, <2>1, SkipSound DEF IInv, FormInv
    <2> HIDE DEF sk
    <2>4. run'[current].start = "abandoned" /\ \A q \in Runs : q # current => run'[q] = run[q]
        BY <1>2, <2>1, <2>2, <2>3 DEF RunRecords
    <2>5. Undecided' BY <1>3, <2>2, <2>4 DEF Undecided, HasRun
    <2> QED BY <2>1, <2>2, <2>5 DEF Lifecycle!Decide
<1>13. ASSUME NEW x \in work, Commit(x)
       PROVE  Undecided' /\ (Stutter \/ Lifecycle!Decide)
    <2>1. \/ UNCHANGED <<form, run>>
          \/ /\ form = "in_review" /\ current \in Runs /\ run[current].start # "pending"
             /\ form' \in {"in_review", "approved", "rejected", "returned", "cancelled"}
        BY <1>13, CommitDecides
    <2>2. UNCHANGED current /\ work' \subseteq work BY <1>13 DEF Commit, Report
    <2>3. \A q \in Runs : run'[q].start = run[q].start
        BY <1>2, <1>13, CommitStarts DEF IInv
    <2>4. Undecided'
        BY <1>3, <1>4, <2>1, <2>2, <2>3 DEF Undecided, HasRun
    <2>5. Stutter \/ Lifecycle!Decide BY <2>1, <2>2 DEF Lifecycle!Decide
    <2> QED BY <2>4, <2>5
<1>14. ASSUME NEW x \in work, Choose(x) PROVE Undecided' /\ Stutter
    <2>1. x.run = 0 /\ Started /\ UNCHANGED <<form, current, run>> BY <1>14 DEF Choose
    <2>2. \A y \in work' : y \in work \/ y.run = current BY <1>2, <1>14 DEF Choose, Attempts
    <2> QED BY <1>5, <2>1, <2>2
<1>15. ASSUME NEW x \in work, Refuse(x) \/ Lose(x) \/ Die(x) PROVE Undecided' /\ Stutter
    <2>1. UNCHANGED <<form, current, run>> BY <1>15 DEF Refuse, Lose, Die
    <2>2. x \in Attempts BY <1>2
    <2>3. \A y \in work' : y \in work \/ y.run = x.run
        BY <1>15, <2>2 DEF Refuse, Report, Lose, Die, Attempts
    <2> QED BY <1>5, <2>1, <2>3
<1>16. ASSUME NEW r \in Runs, Execute(r) \/ LoadFails(r) \/ Remind(r) \/ ReminderFails(r)
       PROVE  Undecided' /\ Stutter
    <2>1. UNCHANGED <<form, current, run>> /\ \A y \in work' : y \in work \/ y.run = 0
        BY <1>16 DEF Execute, Receive, Begin, Load, LoadFails, Remind, ReminderFails
    <2> QED BY <1>5, <2>1
<1>17. ASSUME NEW c \in Commands, Request(c) \/ Signal(c) PROVE Undecided' /\ Stutter
    BY <1>5, <1>17 DEF Request, Signal
<1>18. ASSUME UNCHANGED vars PROVE Undecided' /\ Stutter BY <1>5, <1>18 DEF vars
<1>19. Undecided' /\ (Stutter \/ Lifecycle!LifeNext)
    BY <1>6, <1>7, <1>8, <1>9, <1>10, <1>11, <1>12, <1>13, <1>14, <1>15, <1>16, <1>17, <1>18
    DEF Next, Edit, Attempt, Lifecycle!LifeNext
<1> QED BY <1>19 DEF Lifecycle!lvars

\* A form that is not deleted and has an approver on every route lives as
\* FormLifecycle says: edited only while it is with the applicant, one round
\* for each submission, one decision for each round.
THEOREM Refinement ==
    ASSUME "delete" \notin Ops, End \notin First
    PROVE  Spec => ImplementsLifecycle
<1>1. Init => LifeInv
    BY InvInit, ApprovalAssumption DEF Init, LifeInv, Undecided, HasRun, Runs
<1>2. LifeInv /\ [Next]_vars => LifeInv' BY InvStep, LifeStep DEF LifeInv
<1>3. Init => Lifecycle!LifeInit BY DEF Init, Lifecycle!LifeInit
<1>4. LifeInv /\ [Next]_vars => [Lifecycle!LifeNext]_(Lifecycle!lvars) BY LifeStep
<1> QED BY <1>1, <1>2, <1>3, <1>4, PTL DEF Spec, ImplementsLifecycle, Lifecycle!LifeSpec
-----------------------------------------------------------------------------
\* Signals stay with their submission, if attempts that are given up do not
\* commit and no form is deleted

LEMMA LogRange ==
    ASSUME NEW log \in Seq(Entries), NEW e \in Entries
    PROVE  Range(Append(log, e)) = Range(log) \cup {e}
<1> DEFINE more == Append(log, e)
           n == Len(log)
<1>1. /\ DOMAIN more = 1..n + 1 /\ DOMAIN log = 1..n /\ n \in Nat
      /\ more[n + 1] = e /\ \A j \in 1..n : more[j] = log[j]
    OBVIOUS
<1> HIDE DEF more, n
<1>2. n + 1 \in DOMAIN more BY <1>1
<1>3. \A j \in DOMAIN log : j \in DOMAIN more /\ more[j] = log[j] BY <1>1
<1>4. \A j \in DOMAIN more : j \in DOMAIN log \/ more[j] = e BY <1>1
<1> QED BY <1>1, <1>2, <1>3, <1>4 DEF more

\* What a commit adds to the log, and where.
LEMMA CommitLogs ==
    ASSUME FormInv, NEW x \in Attempts, Commit(x)
    PROVE  \/ Repeated(x) /\ UNCHANGED run
           \/ \E i \in Nat :
                /\ current \in Runs /\ run'[current].status # "none"
                /\ run'[current].log =
                    Append(run[current].log, [cmd |-> x.cmd, on |-> i, via |-> x.via])
                /\ \A q \in Runs : q # current => run'[q] = run[q]
<1>1. run \in [Runs -> RunRecords] BY DEF FormInv, FormTypeOK
<1>2. ASSUME ~Repeated(x), Decision(x), Decidable(x)
      PROVE  /\ x.run = current /\ current \in Runs /\ x.on \in DOMAIN run[x.run].stages
             /\ x.on \in Nat
             /\ \A vote \in {"approved", "rejected", "returned"} :
                    /\ Voted(x, vote) \in RunRecords /\ Voted(x, vote).status = "running"
                    /\ x.on \in DOMAIN Voted(x, vote).stages
                    /\ Voted(x, vote).log =
                        Append(run[current].log, [cmd |-> x.cmd, on |-> x.on, via |-> x.via])
    <2>1. /\ x.run = current /\ x.run \in Runs /\ run[x.run].status = "running"
          /\ x.on \in DOMAIN run[x.run].stages
        BY <1>2, DecidableIs
    <2>2. x.on \in Nat BY DEF Attempts
    <2>3. ASSUME NEW vote \in {"approved", "rejected", "returned"}
          PROVE  /\ Voted(x, vote) \in RunRecords /\ Voted(x, vote).status = "running"
                 /\ x.on \in DOMAIN Voted(x, vote).stages
                 /\ Voted(x, vote).log =
                        Append(run[current].log, [cmd |-> x.cmd, on |-> x.on, via |-> x.via])
        BY <1>1, <2>1, VotedIs
    <2> QED BY <2>1, <2>2, <2>3
<1>3. CASE ~Repeated(x) /\ Approve(x)
    <2> DEFINE v == Voted(x, "approved")
    <2>1. Decision(x) /\ Decidable(x) /\ run' = [run EXCEPT ![x.run] = v]
        BY <1>3 DEF Approve, Decision
    <2>2. /\ v \in RunRecords /\ v.status = "running" /\ x.run = current /\ current \in Runs
          /\ v.log = Append(run[current].log, [cmd |-> x.cmd, on |-> x.on, via |-> x.via])
          /\ x.on \in Nat
        BY <1>2, <1>3, <2>1
    <2> HIDE DEF v
    <2>3. run'[current] = v /\ \A q \in Runs : q # current => run'[q] = run[q]
        BY <1>1, <2>1, <2>2
    <2> QED BY <2>2, <2>3
<1>4. CASE ~Repeated(x) /\ Advance(x)
    <2> DEFINE v == Voted(x, "approved")
               m == Marked(v, x.on, "completed")
    <2>1. PICK next \in Follow[m.stages[x.on].stage] :
            Decision(x) /\ Decidable(x) /\ run' = [run EXCEPT ![x.run] = Reach(m, next)]
        BY <1>4 DEF Advance, Decision, Marked
    <2>2. /\ v \in RunRecords /\ v.status = "running" /\ x.run = current /\ current \in Runs
          /\ x.on \in DOMAIN v.stages /\ x.on \in Nat
          /\ v.log = Append(run[current].log, [cmd |-> x.cmd, on |-> x.on, via |-> x.via])
        BY <1>2, <1>4, <2>1
    <2> HIDE DEF v
    <2>3. m \in RunRecords /\ m.status = "running" /\ m.log = v.log BY <2>2, MarkedIs
    <2> HIDE DEF m
    <2> DEFINE rr == Reach(m, next)
    <2>4. rr.log = m.log /\ rr.status \in {"running", "completed"}
        BY <2>3 DEF Reach, RunRecords
    <2>5. run' = [run EXCEPT ![current] = rr] BY <2>1, <2>2
    <2> HIDE DEF rr
    <2>6. run'[current] = rr /\ \A q \in Runs : q # current => run'[q] = run[q]
        BY <1>1, <2>2, <2>5
    <2> QED BY <2>2, <2>3, <2>4, <2>6
<1>5. CASE ~Repeated(x) /\ Decline(x)
    <2>1. PICK verdict \in {"rejected", "returned"}, status \in {"completed", "returned"} :
            /\ Decision(x) /\ Decidable(x)
            /\ run' = [run EXCEPT ![x.run] =
                        [Voted(x, verdict) EXCEPT !.stages[x.on].status = "rejected",
                                                  !.at = 0, !.status = status]]
        BY <1>5 DEF Decline, Decision
    <2> DEFINE v == Voted(x, verdict)
               rr == [v EXCEPT !.stages[x.on].status = "rejected", !.at = 0, !.status = status]
    <2>2. /\ v \in RunRecords /\ x.run = current /\ current \in Runs /\ x.on \in Nat
          /\ v.log = Append(run[current].log, [cmd |-> x.cmd, on |-> x.on, via |-> x.via])
        BY <1>2, <1>5, <2>1
    <2>3. run' = [run EXCEPT ![current] = rr] BY <2>1, <2>2
    <2> HIDE DEF v
    <2>4. rr.log = v.log /\ rr.status = status BY <2>2 DEF RunRecords
    <2> HIDE DEF rr
    <2>5. run'[current] = rr /\ \A q \in Runs : q # current => run'[q] = run[q]
        BY <1>1, <2>2, <2>3
    <2> QED BY <2>1, <2>2, <2>4, <2>5
<1>6. CASE ~Repeated(x) /\ Withdraw(x)
    <2> DEFINE i == run[current].at
               rr == Skip(Logged(current, x, i))
    <2>1. current \in Runs /\ run' = [run EXCEPT ![current] = rr]
        BY <1>6 DEF Withdraw, Active, Started, HasRun
    <2>2. /\ rr.log = Append(run[current].log, [cmd |-> x.cmd, on |-> i, via |-> x.via])
          /\ rr.status = "cancelled" /\ i \in Nat
        BY <1>1, <2>1 DEF Skip, Logged, RunRecords
    <2> HIDE DEF rr, i
    <2>3. run'[current] = rr /\ \A q \in Runs : q # current => run'[q] = run[q]
        BY <1>1, <2>1
    <2> QED BY <2>1, <2>2, <2>3
<1> QED BY <1>3, <1>4, <1>5, <1>6 DEF Commit

\* The latest run while one of its attempts is at work.
LEMMA AtWork ==
    ASSUME PinnedInv, NEW x \in work
    PROVE  /\ x \in Attempts /\ x.live /\ x.via = current /\ current \in Runs
           /\ exec[current].phase = "commit" /\ exec[current].queue # <<>>
           /\ Running(current) /\ form = "in_review"
           /\ \A y \in work : y = x
<1> USE DEF PinnedInv, IInv
<1>1. x \in Attempts /\ x.live /\ x.via = current /\ current \in Runs
    BY DEF OwnWork, Working, Attempts
<1>2. exec[current].phase = "commit" BY <1>1 DEF Working
<1>3. Running(current) /\ exec[current].queue # <<>>
    BY <1>1, <1>2 DEF Applying, Executing
<1>4. form = "in_review" BY <1>3 DEF FormInv, Rounds, HasRun
<1>5. \A y \in work : y = x BY <1>1 DEF Working, OwnWork
<1> QED BY <1>1, <1>2, <1>3, <1>4, <1>5

\* The steps of the executions, of which only that of the latest run matters.
LEMMA PinnedExecute ==
    ASSUME PinnedInv, NEW r \in Runs,
           Execute(r) \/ LoadFails(r) \/ Remind(r) \/ ReminderFails(r)
    PROVE  Applying' /\ OwnWork'
<1> USE DEF PinnedInv, IInv
<1>1. UNCHANGED <<form, current, run>>
    BY DEF Execute, Receive, Begin, Load, LoadFails, Remind, ReminderFails
<1>2. /\ exec \in [Runs -> Execs] /\ r <= current
      /\ exec[r].phase \in {"apply", "commit", "load"} => exec[r].queue # <<>>
    <2>1. exec[r].phase # "none"
        BY DEF Execute, Receive, Begin, Load, LoadFails, Remind, ReminderFails
    <2>2. current \in Nat BY DEF FormInv, FormTypeOK
    <2> QED BY <2>1, <2>2 DEF Executing, Runs
<1>3. current \in Runs BY <1>2 DEF FormInv, FormTypeOK, Runs
<1>4. \A c : HasReceipt(current, c)' <=> HasReceipt(current, c) BY <1>1 DEF HasReceipt
<1>5. CASE r # current
    <2>1. exec'[current] = exec[current] /\ UNCHANGED work
        BY <1>2, <1>3, <1>5
        DEF Execute, Receive, Begin, Load, LoadFails, Remind, ReminderFails, Move, Settle,
            Settled, OfCurrentRun
    <2>2. Applying' BY <1>1, <1>4, <2>1 DEF Applying
    <2>3. OwnWork' BY <1>1, <2>1 DEF OwnWork
    <2> QED BY <2>2, <2>3
<1>6. CASE r = current
    <2>1. exec[r].phase # "commit"
        BY DEF Execute, Receive, Begin, Load, LoadFails, Remind, ReminderFails
    <2>2. work = {} BY <1>6, <2>1, AtWork
    <2>3. run[current].status # "none" /\ HasRun BY <1>3 DEF Applying, HasRun
    <2>4. CASE Receive(r)
        <3>1. /\ exec'[r].phase = "apply" /\ Running(current) /\ UNCHANGED work
            BY <1>2, <1>6, <1>3, <2>4 DEF Receive, Applying
        <3> QED BY <1>1, <1>6, <2>2, <2>3, <3>1 DEF Applying, OwnWork
    <2>5. CASE Begin(r)
        <3> DEFINE c == Head(exec[r].queue)
        <3>1. exec[r].phase = "apply" BY <2>5 DEF Begin
        <3>2. CASE HasReceipt(current, c) /\ Move(r, "load") /\ UNCHANGED work
            <4>1. exec'[r].phase = "load" /\ exec'[r].queue = exec[r].queue
                BY <1>2, <3>2 DEF Move, Execs
            <4> QED BY <1>1, <1>4, <1>6, <2>2, <2>3, <3>2, <4>1 DEF Applying, OwnWork
        <3>3. CASE /\ ~HasReceipt(current, c) /\ Move(r, "commit")
                   /\ work' = work \cup {[via |-> r, cmd |-> c, run |-> 0, on |-> 0,
                                          live |-> TRUE]}
            <4>1. exec'[r].phase = "commit" /\ exec'[r].queue = exec[r].queue
                BY <1>2, <3>3 DEF Move, Execs
            <4>2. Running(current) BY <1>3, <1>6, <3>1, <3>3 DEF Applying
            <4> QED BY <1>1, <1>6, <2>2, <2>3, <3>3, <4>1, <4>2 DEF Applying, OwnWork
        <3> QED BY <1>6, <2>3, <2>5, <3>2, <3>3 DEF Begin, OfCurrentRun
    <2>6. CASE Load(r)
        <3>1. UNCHANGED work BY <2>6 DEF Load
        <3>2. CASE ~Over
            <4>1. run[current].status \in {"none", "running", "completed", "returned", "cancelled"}
                BY <1>3 DEF FormInv, FormTypeOK, RunRecords
            <4>2. Running(current) BY <1>3, <2>3, <3>2, <4>1 DEF Over
            <4> QED BY <1>1, <2>2, <2>3, <3>1, <4>2 DEF Applying, OwnWork
        <3>3. CASE exec'[r].phase = "closed"
            BY <1>1, <1>6, <2>2, <2>3, <3>1, <3>3 DEF Applying, OwnWork
        <3>4. exec' = [exec EXCEPT ![r].phase = "closed"] => exec'[r].phase = "closed"
            BY <1>2 DEF Execs
        <3> QED BY <2>6, <3>2, <3>3, <3>4 DEF Load, Move
    <2>7. CASE LoadFails(r)
        <3>1. exec[r].phase \in {"load", "reload"} /\ UNCHANGED work BY <2>7 DEF LoadFails
        <3>2. /\ exec'[r].queue = exec[r].queue
              /\ exec'[r].phase \in {"closed", "reload"}
                 \/ (exec[r].phase = "load" /\ exec'[r].phase = "apply")
            BY <1>2, <2>7, <3>1 DEF LoadFails, Execs
        <3>3. exec[r].phase = "load" =>
                Running(current) \/ HasReceipt(current, Head(exec[r].queue))
            BY <1>3, <1>6 DEF Applying
        <3> QED BY <1>1, <1>4, <1>6, <2>2, <2>3, <3>1, <3>2, <3>3 DEF Applying, OwnWork
    <2>8. CASE Remind(r) \/ ReminderFails(r)
        <3>1. exec'[r].phase \in {"reload", "closed"} /\ UNCHANGED work
            BY <1>2, <2>8 DEF Remind, ReminderFails, Move, Execs
        <3> QED BY <1>1, <1>6, <2>2, <2>3, <3>1 DEF Applying, OwnWork
    <2> QED BY <2>4, <2>5, <2>6, <2>7, <2>8 DEF Execute
<1> QED BY <1>5, <1>6

\* Attempts, of which there is one, for the next signal of the latest run.
LEMMA PinnedAttempt ==
    ASSUME ~Overlap, PinnedInv, NEW x \in work, Attempt(x) \/ Lose(x) \/ Die(x)
    PROVE  Applying' /\ OwnWork' /\ Pinned'
<1> USE DEF PinnedInv, IInv
<1>1. /\ x \in Attempts /\ x.live /\ x.via = current /\ current \in Runs
      /\ exec[current].phase = "commit" /\ exec[current].queue # <<>>
      /\ Running(current) /\ \A y \in work : y = x
    BY AtWork
<1>2. exec \in [Runs -> Execs] /\ run \in [Runs -> RunRecords]
    BY DEF Executing, FormInv, FormTypeOK
<1>3. UNCHANGED current BY DEF Attempt, Choose, Commit, Refuse, Lose, Die
<1>4. CASE Choose(x)
    <2> DEFINE y == [x EXCEPT !.run = current, !.on = run[current].at]
    <2>1. UNCHANGED <<run, exec>> /\ work' = (work \ {x}) \cup {y} BY <1>4 DEF Choose
    <2>2. y.live = x.live /\ y.via = x.via /\ y.cmd = x.cmd /\ y.run = current
        BY <1>1 DEF Attempts
    <2> HIDE DEF y
    <2>3. OwnWork' BY <1>1, <1>3, <2>1, <2>2 DEF OwnWork
    <2> QED BY <1>3, <2>1, <2>3 DEF Applying, HasReceipt, Pinned
<1>5. CASE Commit(x)
    <2>1. /\ work' = {} /\ exec' = [exec EXCEPT ![current].phase = "load"]
        BY <1>1, <1>5 DEF Commit, Report, Reloading
    <2>2. exec'[current].phase = "load" /\ exec'[current].queue = exec[current].queue
        BY <1>1, <1>2, <2>1 DEF Execs
    <2>3. x.cmd = Head(exec[current].queue) /\ x.run \in {0, current} BY DEF OwnWork
    <2>4. CASE Repeated(x) /\ UNCHANGED run
        <3>1. HasReceipt(current, x.cmd) BY <2>3, <2>4 DEF Repeated
        <3> QED BY <1>1, <1>3, <2>1, <2>2, <2>3, <2>4, <3>1 DEF Applying, OwnWork, Pinned, HasReceipt
    <2>5. ASSUME NEW i \in Nat,
                 run'[current].status # "none",
                 run'[current].log =
                    Append(run[current].log, [cmd |-> x.cmd, on |-> i, via |-> x.via]),
                 \A q \in Runs : q # current => run'[q] = run[q]
          PROVE  Applying' /\ OwnWork' /\ Pinned'
        <3> DEFINE e == [cmd |-> x.cmd, on |-> i, via |-> x.via]
        <3>1. e \in Entries /\ e.cmd = x.cmd /\ e.via = current
            BY <1>1 DEF Attempts, Entries
        <3>2. run[current].log \in Seq(Entries) BY <1>1, <1>2 DEF RunRecords
        <3> HIDE DEF e
        <3>3. run'[current].log = Append(run[current].log, e) BY <2>5 DEF e
        <3> HIDE DEF Range
        <3>4. Range(run'[current].log) = Range(run[current].log) \cup {e}
            BY <3>1, <3>2, <3>3, LogRange
        <3>5. Pinned' BY <2>5, <3>1, <3>4 DEF Pinned
        <3>6. HasReceipt(current, x.cmd)' BY <1>3, <3>1, <3>4 DEF HasReceipt
        <3>7. Applying' BY <1>3, <2>2, <2>3, <2>5, <3>6 DEF Applying, HasReceipt
        <3> QED BY <2>1, <3>5, <3>7 DEF OwnWork
    <2> QED BY <1>1, <1>5, <2>4, <2>5, CommitLogs
<1>6. CASE Refuse(x)
    <2>1. /\ UNCHANGED run /\ work' = {}
          /\ exec' = [exec EXCEPT ![current].phase = "wait",
                                  ![current].queue = Tail(exec[current].queue)]
        BY <1>1, <1>2, <1>6 DEF Refuse, Report, Settled
    <2>2. exec'[current].phase = "wait" BY <1>1, <1>2, <2>1 DEF Execs
    <2>3. run[current].status # "none" BY <1>1
    <2> QED BY <1>1, <1>3, <2>1, <2>2, <2>3 DEF Applying, OwnWork, Pinned
<1>7. CASE Lose(x)
    <2>1. UNCHANGED run /\ work' = {} BY <1>1, <1>7 DEF Lose
    <2>2. exec'[current].phase \in {"apply", "closed"} BY <1>1, <1>2, <1>7 DEF Lose, Execs
    <2> QED BY <1>1, <1>3, <2>1, <2>2 DEF Applying, OwnWork, Pinned
<1>8. CASE Die(x) BY <1>1, <1>8 DEF Die
<1> QED BY <1>4, <1>5, <1>6, <1>7, <1>8 DEF Attempt

\* Editors, deliveries and cancelled starts.
LEMMA PinnedForm ==
    ASSUME "delete" \notin Ops, PinnedInv,
           \/ \E p \in Editors : Edit(p) \/ \E op \in Ops : Read(p, op)
           \/ CancelPending
           \/ \E r \in Runs : Deliver(r)
    PROVE  form' # "none" /\ Applying' /\ OwnWork' /\ Pinned'
<1> USE DEF PinnedInv, IInv
<1>1. /\ exec \in [Runs -> Execs] /\ run \in [Runs -> RunRecords] /\ current \in 0..MaxRuns
      /\ Copies /\ Rounds /\ FormTypeOK
    BY DEF Executing, FormInv, FormTypeOK
<1>2. UNCHANGED work
    BY DEF Edit, Read, Refused, Update, Submit, Delete, CancelPending, Deliver
<1>3. ASSUME UNCHANGED <<current, run, exec>>, form' # "none"
      PROVE  form' # "none" /\ Applying' /\ OwnWork' /\ Pinned'
    BY <1>2, <1>3 DEF Applying, OwnWork, Pinned, HasReceipt
<1>4. ASSUME NEW p \in Editors, Refused(p) \/ Update(p) \/ \E op \in Ops : Read(p, op)
      PROVE  UNCHANGED <<current, run, exec>> /\ form' # "none"
    BY <1>1, <1>4 DEF Refused, Update, Read, Write, FormTypeOK
<1>5. ASSUME NEW p \in Editors, Delete(p) PROVE FALSE BY <1>1, <1>5 DEF Delete, FormTypeOK
<1>6. ASSUME NEW p \in Editors, Submit(p)
      PROVE  form' # "none" /\ Applying' /\ OwnWork' /\ Pinned'
    <2>1. form = editing[p].status BY <1>1, <1>6 DEF Submit, Conflicts, Copies
    <2>2. form \in {"draft", "returned"} BY <1>1, <2>1 DEF FormTypeOK
    <2>3. work = {} BY <2>2, AtWork
    <2>4. PICK s \in First : /\ current < MaxRuns /\ current' = current + 1
                             /\ run' = [run EXCEPT ![current'] =
                                            Reach([NoRun EXCEPT !.status = "running"], s)]
                             /\ form' \in {"approved", "in_review"} /\ UNCHANGED exec
        BY <1>6 DEF Submit, Write
    <2> DEFINE o == [NoRun EXCEPT !.status = "running"]
               rr == Reach(o, s)
    <2>5. o \in RunRecords /\ o.status = "running" /\ o.log = <<>>
        BY NoRunSound DEF RunRecords, NoRun
    <2>6. run' = [run EXCEPT ![current'] = rr] BY <2>4
    <2> HIDE DEF o
    <2>7. rr.status # "none" /\ rr.log = <<>> BY <2>5 DEF Reach, RunRecords
    <2> HIDE DEF rr
    <2>8. current' \in Runs /\ current' > current BY <1>1, <2>4, ApprovalAssumption DEF Runs
    <2>9. run'[current'] = rr /\ \A q \in Runs : q # current' => run'[q] = run[q]
        BY <1>1, <2>6, <2>8
    <2>10. exec'[current'].phase = "none" BY <2>4, <2>8 DEF Executing
    <2>11. Applying' BY <2>7, <2>9, <2>10 DEF Applying
    <2>12. Pinned' BY <2>7, <2>9 DEF Pinned
    <2> QED BY <1>2, <2>3, <2>4, <2>11, <2>12 DEF OwnWork
<1>7. ASSUME NEW rr, NEW r \in Runs, run' = [run EXCEPT ![r] = rr], rr.log = run[r].log,
             rr.status # "none", form' # "none", UNCHANGED current,
             UNCHANGED exec \/ (r = current /\ exec' = [exec EXCEPT ![r].phase = "reload"]),
             exec[r].phase = "none" \/ UNCHANGED exec, exec[r].phase = "none" \/ r # current
      PROVE  form' # "none" /\ Applying' /\ OwnWork' /\ Pinned'
    <2>1. run'[r] = rr /\ \A q \in Runs : q # r => run'[q] = run[q] BY <1>1, <1>7
    <2>2. Pinned' BY <1>7, <2>1 DEF Pinned
    <2>3. CASE r # current
        <3>1. current \in Runs => run'[current] = run[current] /\ exec'[current] = exec[current]
            BY <1>7, <2>1, <2>3
        <3>2. Applying' BY <1>7, <3>1 DEF Applying, HasReceipt
        <3>3. OwnWork' BY <1>2, <1>7, <2>3 DEF OwnWork
        <3> QED BY <1>7, <2>2, <3>2, <3>3
    <2>4. CASE r = current
        <3>1. exec'[r].phase \in {"none", "reload"} BY <1>1, <1>7, <2>4 DEF Execs
        <3>2. work = {} BY <1>7, <2>4, AtWork
        <3>3. Applying' BY <1>7, <2>1, <2>4, <3>1 DEF Applying
        <3> QED BY <1>2, <1>7, <2>2, <3>2, <3>3 DEF OwnWork
    <2> QED BY <2>3, <2>4
<1>8. CASE CancelPending
    <2> DEFINE sk == Skip(run[current])
               rr == [sk EXCEPT !.start = "abandoned"]
    <2>1. /\ current \in Runs /\ run[current].status # "none" /\ run[current].start = "pending"
          /\ run' = [run EXCEPT ![current] = rr] /\ form' = "cancelled"
          /\ UNCHANGED <<current, exec>>
        BY <1>8 DEF CancelPending, HasRun, Write
    <2>2. sk \in RunRecords /\ sk.status = "cancelled" /\ sk.log = run[current].log
        <3>1. sk.log = run[current].log BY <1>1, <2>1 DEF Skip, RunRecords
        <3> QED BY <1>1, <2>1, <3>1, SkipSound DEF FormInv
    <2> HIDE DEF sk
    <2>3. rr.log = run[current].log /\ rr.status = "cancelled" BY <2>2 DEF RunRecords
    <2> HIDE DEF rr
    <2>4. exec[current].phase = "none" BY <2>1 DEF Executing
    <2> QED BY <1>7, <2>1, <2>3, <2>4
<1>9. ASSUME NEW r \in Runs, Deliver(r)
      PROVE  form' # "none" /\ Applying' /\ OwnWork' /\ Pinned'
    <2>1. PICK s \in {"started", "abandoned"} :
            /\ run' = [run EXCEPT ![r].start = s]
            /\ UNCHANGED exec \/ (r = current /\ exec' = [exec EXCEPT ![r].phase = "reload"])
        BY <1>9 DEF Deliver
    <2> DEFINE rr == [run[r] EXCEPT !.start = s]
    <2>2. rr.log = run[r].log /\ rr.status = run[r].status BY <1>1 DEF RunRecords
    <2>3. run' = [run EXCEPT ![r] = rr] BY <2>1
    <2> HIDE DEF rr
    <2>4. run[r].status # "none" /\ UNCHANGED <<form, current>> /\ exec[r].phase = "none"
        BY <1>9 DEF Deliver, Executing
    <2> QED BY <1>7, <2>1, <2>2, <2>3, <2>4
<1> QED BY <1>3, <1>4, <1>5, <1>6, <1>8, <1>9 DEF Edit

LEMMA PinnedStep ==
    ASSUME Orderly, PinnedInv, [Next]_vars
    PROVE  PinnedInv'
<1> USE DEF Orderly
<1>1. IInv' /\ form # "none" BY InvStep DEF PinnedInv
<1>2. SUFFICES form' # "none" /\ Applying' /\ OwnWork' /\ Pinned'
    BY <1>1 DEF PinnedInv
<1>3. UNCHANGED run => Pinned' BY DEF PinnedInv, Pinned
<1>4. ASSUME NEW r \in Runs, Execute(r) \/ LoadFails(r) \/ Remind(r) \/ ReminderFails(r)
      PROVE  form' # "none" /\ Applying' /\ OwnWork' /\ Pinned'
    <2>1. UNCHANGED <<form, run>>
        BY <1>4 DEF Execute, Receive, Begin, Load, LoadFails, Remind, ReminderFails
    <2> QED BY <1>1, <1>3, <1>4, <2>1, PinnedExecute
<1>5. ASSUME NEW x \in work, Attempt(x) \/ Lose(x) \/ Die(x)
      PROVE  form' # "none" /\ Applying' /\ OwnWork' /\ Pinned'
    <2>1. x \in Attempts BY DEF PinnedInv, IInv, Working
    <2>2. form' # "none"
        BY <1>1, <1>5, <2>1
        DEF Attempt, Choose, Commit, Refuse, Lose, Die, Approve, Advance, Decline, Withdraw, Write
    <2> QED BY <1>5, <2>2, PinnedAttempt
<1>6. ASSUME NEW c \in Commands, Request(c) \/ Signal(c)
      PROVE  form' # "none" /\ Applying' /\ OwnWork' /\ Pinned'
    <2>1. UNCHANGED <<form, current, run, work>> BY <1>6 DEF Request, Signal
    <2>2. exec \in [Runs -> Execs] BY DEF PinnedInv, IInv, Executing
    <2>3. \A r \in Runs : /\ exec'[r].phase = exec[r].phase
                          /\ exec[r].queue # <<>> =>
                                Head(exec'[r].queue) = Head(exec[r].queue)
        <3>1. CASE UNCHANGED exec BY <3>1
        <3>2. ASSUME exec' = [exec EXCEPT ![asked[c]].queue = Append(@, c)], NEW r \in Runs
              PROVE  /\ exec'[r].phase = exec[r].phase
                     /\ exec[r].queue # <<>> => Head(exec'[r].queue) = Head(exec[r].queue)
            <4>1. CASE r # asked[c]
                <5>1. exec'[r] = exec[r] BY <2>2, <3>2, <4>1
                <5> QED BY <5>1
            <4>2. CASE r = asked[c]
                <5>1. exec[r] \in Execs /\ exec[r].queue \in Seq(Commands) BY <2>2 DEF Execs
                <5> DEFINE q == exec[r].queue
                           more == Append(q, c)
                <5>2. q # <<>> => Head(more) = Head(q) BY <5>1
                <5> HIDE DEF more
                <5>3. exec' = [exec EXCEPT ![r].queue = more] BY <3>2, <4>2 DEF more
                <5>4. exec'[r].queue = more /\ exec'[r].phase = exec[r].phase
                    BY <2>2, <5>1, <5>3 DEF Execs
                <5> QED BY <5>2, <5>4
            <4> QED BY <4>1, <4>2
        <3> QED BY <1>6, <3>1, <3>2 DEF Request, Signal
    <2>4. \A d : HasReceipt(current, d)' <=> HasReceipt(current, d) BY <2>1 DEF HasReceipt
    <2>5. \A r \in Runs : exec[r].phase \in {"apply", "commit", "load"} => exec[r].queue # <<>>
        BY DEF PinnedInv, IInv, Executing
    <2>6. Applying' BY <2>1, <2>3, <2>4, <2>5 DEF PinnedInv, Applying
    <2>7. OwnWork'
        <3>1. SUFFICES ASSUME NEW x \in work
                       PROVE  /\ x.live /\ x.via = current /\ x.run \in {0, current}
                              /\ x.cmd = Head(exec'[current].queue)
            BY <2>1 DEF OwnWork
        <3>2. current \in Runs /\ exec[current].queue # <<>> BY AtWork
        <3> QED BY <2>3, <3>2 DEF PinnedInv, OwnWork
    <2> QED BY <1>1, <1>3, <2>1, <2>6, <2>7
<1>7. CASE UNCHANGED vars
    BY <1>7 DEF vars, PinnedInv, Applying, OwnWork, Pinned, HasReceipt
<1> QED BY <1>4, <1>5, <1>6, <1>7, PinnedForm DEF Next

\* If an attempt that was given up does not commit and no form is deleted, a
\* signal never changes the run of another submission.
THEOREM SignalsStay ==
    ASSUME Orderly
    PROVE  Spec => []Pinned
<1>1. Init => PinnedInv
    <2>1. Init => IInv BY InvInit
    <2>2. Init => form # "none" /\ current \notin Runs /\ work = {} /\ Pinned
        BY DEF Init, Runs, NoRun, Pinned
    <2> QED BY <2>1, <2>2 DEF PinnedInv, Applying, OwnWork
<1>2. PinnedInv /\ [Next]_vars => PinnedInv' BY PinnedStep
<1>3. PinnedInv => Pinned BY DEF PinnedInv
<1> QED BY <1>1, <1>2, <1>3, PTL DEF Spec
=============================================================================
