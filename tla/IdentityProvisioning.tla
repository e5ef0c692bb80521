------------------------ MODULE IdentityProvisioning ------------------------
(***************************************************************************)
(* Login identities.  An account is provisioned in Keycloak through an     *)
(* outbox of its own (src/internal/service/identity_provisioning.go,       *)
(* src/internal/jobs/identity_provisioning.go): a worker looks the user up *)
(* by e-mail, creates or updates it (src/internal/platform/auth), and      *)
(* links its subject to the account in user_identities.  A login through   *)
(* Google links a subject too (src/internal/service/identity_service.go).  *)
(*                                                                         *)
(* The calls to Keycloak and the statements on the tables are steps of     *)
(* their own: nothing locks them together.  A claim has a lease but no     *)
(* token, and a worker that is overtaken still writes its result.          *)
(***************************************************************************)
EXTENDS Naturals

CONSTANTS
    Logins, Staffers, Mails,    \* account ids, employee ids, e-mail addresses
    Nobody,                     \* no account or employee
    NoUser,                     \* an address without a Keycloak user
    Jobs,                       \* the outbox events that may be appended
    Provisioners,               \* worker loops and the fast path of a request
    MaxTries                    \* identityProvisioningDefaultMaxRetries

ASSUME IdpAssumption ==
    /\ Jobs # {} /\ Mails # {}
    /\ Nobody \notin Logins \cup Staffers
    /\ NoUser \notin [account : Logins \cup {Nobody}, employee : Staffers \cup {Nobody}]
    /\ MaxTries \in Nat \ {0}

VARIABLES
    job,        \* identity_provisioning_outbox
    person,     \* Keycloak: per address the owner named by the user's attributes
    link,       \* user_identities: the account the address' user is linked to
    desk,       \* what each worker is doing
    sso,        \* a login through Google between its check and its write
    raced       \* addresses whose link was overwritten unseen

idpVars == <<job, person, link, desk, sso, raced>>

Unclaimed == [account |-> Nobody, employee |-> Nobody]  \* a user without our attributes
Owners == [account : Logins \cup {Nobody}, employee : Staffers \cup {Nobody}]
Steps == {"look", "update", "create", "verify", "check", "bind",
          "succeeded", "retry", "failed"}

IdpTypeOK ==
    /\ job \in [Jobs -> [status : {"absent", "pending", "processing", "succeeded", "failed"},
                         account : Logins \cup {Nobody}, employee : Staffers \cup {Nobody},
                         mail : Mails, tries : 0..MaxTries, live : BOOLEAN]]
    /\ person \in [Mails -> Owners \cup {NoUser}]
    /\ link \in [Mails -> Logins \cup {Nobody}]
    /\ desk \in [Provisioners -> [step : Steps \cup {"idle"}, job : Jobs,
                                 tries : 0 .. MaxTries - 1, seen : Logins \cup {Nobody}]]
    /\ sso \in [step : {"idle", "bind"}, account : Logins \cup {Nobody}, mail : Mails,
                seen : Logins \cup {Nobody}]
    /\ raced \subseteq Mails

AtRest == [step |-> "idle", job |-> CHOOSE i \in Jobs : TRUE, tries |-> 0, seen |-> Nobody]
NoLoginPending == [step |-> "idle", account |-> Nobody,
                   mail |-> CHOOSE m \in Mails : TRUE, seen |-> Nobody]

IdpInit ==
    /\ job = [i \in Jobs |-> [status |-> "absent", account |-> Nobody, employee |-> Nobody,
                              mail |-> CHOOSE m \in Mails : TRUE, tries |-> 0, live |-> FALSE]]
    /\ person = [m \in Mails |-> NoUser]
    /\ link = [m \in Mails |-> Nobody]
    /\ desk = [w \in Provisioners |-> AtRest]
    /\ sso = NoLoginPending
    /\ raced = {}

-----------------------------------------------------------------------------
\* The outbox

\* An employee got an account, or an account got an invitation.
AppendJob(i) ==
    /\ job[i].status = "absent"
    /\ \E a \in Logins, e \in Staffers, m \in Mails :
        job' = [job EXCEPT ![i] = [status |-> "pending", account |-> a, employee |-> e,
                                   mail |-> m, tries |-> 0, live |-> FALSE]]
    /\ UNCHANGED <<person, link, desk, sso, raced>>

\* Mutant: only pending rows are claimed.
Due_PendingOnly(i) == job[i].status = "pending" /\ job[i].tries < MaxTries

Due(i) ==
    /\ \/ job[i].status = "pending"
       \/ job[i].status = "processing" /\ ~job[i].live
    /\ job[i].tries < MaxTries

\* Batches are of one row: the rows behind a row that cannot be written wait
\* for the end of their leases, as after Abandon.
ClaimJob(w) ==
    /\ desk[w].step = "idle"
    /\ \E i \in Jobs :
        /\ Due(i)
        /\ job' = [job EXCEPT ![i].status = "processing", ![i].live = TRUE]
        /\ desk' = [desk EXCEPT ![w] = [step |-> "look", job |-> i, tries |-> job[i].tries,
                                        seen |-> Nobody]]
    /\ UNCHANGED <<person, link, sso, raced>>

ClaimEnds(i) ==
    /\ job[i].status = "processing" /\ job[i].live
    /\ job' = [job EXCEPT ![i].live = FALSE]
    /\ UNCHANGED <<person, link, desk, sso, raced>>

-----------------------------------------------------------------------------
\* EnsureUser

JobOf(w) == job[desk[w].job]
Goes(w, s) == desk' = [desk EXCEPT ![w].step = s]

\* The user belongs to another account, unless it is that of the same employee.
OwnedByOther(j, u) ==
    /\ u.account \notin {Nobody, j.account}
    /\ u.employee # j.employee

LookUp(w) ==
    LET u == person[JobOf(w).mail] IN
    /\ desk[w].step = "look"
    /\ Goes(w, IF u = NoUser THEN "create"
               ELSE IF OwnedByOther(JobOf(w), u) THEN "failed" ELSE "update")
    /\ UNCHANGED <<job, person, link, sso, raced>>

Takes(w) == person' = [person EXCEPT ![JobOf(w).mail] =
                         [account |-> JobOf(w).account, employee |-> JobOf(w).employee]]

UpdateUser(w) ==
    /\ desk[w].step = "update"
    /\ Takes(w)
    /\ Goes(w, "check")
    /\ UNCHANGED <<job, link, sso, raced>>

\* An address has one user.  A creation that is refused goes on with the user there
\* is, whose attributes it leaves as they are.
CreateUser(w) ==
    /\ desk[w].step = "create"
    /\ IF person[JobOf(w).mail] = NoUser THEN Takes(w) ELSE UNCHANGED person
    /\ Goes(w, "verify")
    /\ UNCHANGED <<job, link, sso, raced>>

VerifyUser(w) ==
    /\ desk[w].step = "verify"
    /\ Goes(w, IF OwnedByOther(JobOf(w), person[JobOf(w).mail]) THEN "failed" ELSE "check")
    /\ UNCHANGED <<job, person, link, sso, raced>>

\* Keycloak does not answer, or its answer to a write is lost, or the invitation
\* cannot be sent.
KeycloakFails(w) ==
    /\ desk[w].step \in {"look", "update", "create", "verify"}
    /\ Goes(w, "retry")
    /\ \/ UNCHANGED person
       \/ desk[w].step = "update" /\ Takes(w)
       \/ desk[w].step = "create" /\ person[JobOf(w).mail] = NoUser /\ Takes(w)
    /\ UNCHANGED <<job, link, sso, raced>>

-----------------------------------------------------------------------------
\* The link and the result

\* Mutant: an identity that is linked already is taken over.
MayLink_Always(m, a) == TRUE

MayLink(m, a) == link[m] \in {Nobody, a}

\* Mutant: an identity that somebody has counts as linked.
AfterCheck_Done(m, a) == IF MayLink(m, a) THEN "bind" ELSE "succeeded"

AfterCheck(m, a) == IF MayLink(m, a) THEN "bind" ELSE "failed"

CheckLink(w) ==
    LET m == JobOf(w).mail IN
    /\ desk[w].step = "check"
    /\ desk' = [desk EXCEPT ![w].step = AfterCheck(m, JobOf(w).account), ![w].seen = link[m]]
    /\ UNCHANGED <<job, person, link, sso, raced>>

\* UpsertUserIdentity: the account is overwritten, whatever was checked before.
Bound(m, a, seen) ==
    /\ link' = [link EXCEPT ![m] = a]
    /\ raced' = IF link[m] \in {a, seen} THEN raced ELSE raced \cup {m}

BindIdentity(w) ==
    /\ desk[w].step = "bind"
    /\ Bound(JobOf(w).mail, JobOf(w).account, desk[w].seen)
    /\ Goes(w, "succeeded")
    /\ UNCHANGED <<job, person, sso>>

\* Status and retry_count after the attempt that began with n tries.
Result(s, n) ==
    CASE s = "retry" /\ n + 1 >= MaxTries -> [status |-> "failed", tries |-> n + 1]
      [] s = "retry" /\ n + 1 < MaxTries -> [status |-> "pending", tries |-> n + 1]
      [] OTHER -> [status |-> s, tries |-> n]

\* The row is updated by its id alone.
RecordJob(w) ==
    LET i == desk[w].job  r == Result(desk[w].step, desk[w].tries) IN
    /\ desk[w].step \in {"succeeded", "retry", "failed"}
    /\ job' = [job EXCEPT ![i].status = r.status, ![i].tries = r.tries, ![i].live = FALSE]
    /\ desk' = [desk EXCEPT ![w] = AtRest]
    /\ UNCHANGED <<person, link, sso, raced>>

\* A database error or a crash: the row waits for the end of its lease.
Abandon(w) ==
    /\ desk[w].step # "idle"
    /\ desk' = [desk EXCEPT ![w] = AtRest]
    /\ UNCHANGED <<job, person, link, sso, raced>>

-----------------------------------------------------------------------------
\* Logins through Google

\* Keycloak creates a user of its own when somebody logs in through Google first.
Federate(m) ==
    /\ person[m] = NoUser
    /\ person' = [person EXCEPT ![m] = Unclaimed]
    /\ UNCHANGED <<job, link, desk, sso, raced>>

\* VerifyGoogleSSOLogin: an active account with the address is found, and the
\* link is checked; then it is written.
BeginLogin(m) ==
    /\ sso.step = "idle" /\ person[m] # NoUser
    /\ \E a \in Logins :
        /\ MayLink(m, a)
        /\ sso' = [step |-> "bind", account |-> a, mail |-> m, seen |-> link[m]]
    /\ UNCHANGED <<job, person, link, desk, raced>>

EndLogin ==
    /\ sso.step = "bind"
    /\ Bound(sso.mail, sso.account, sso.seen)
    /\ sso' = NoLoginPending
    /\ UNCHANGED <<job, person, desk>>

-----------------------------------------------------------------------------
Provision(w) ==
    \/ LookUp(w) \/ UpdateUser(w) \/ CreateUser(w) \/ VerifyUser(w)
    \/ CheckLink(w) \/ BindIdentity(w) \/ RecordJob(w)

IdpNext ==
    \/ \E i \in Jobs : AppendJob(i) \/ ClaimEnds(i)
    \/ \E w \in Provisioners : ClaimJob(w) \/ Provision(w) \/ KeycloakFails(w) \/ Abandon(w)
    \/ \E m \in Mails : Federate(m) \/ BeginLogin(m)
    \/ EndLogin

IdpSpec == IdpInit /\ [][IdpNext]_idpVars

\* The ticker of some worker fires, leases end, and a stage that workers keep
\* coming to is passed at last, with success or not.
Works(S) == \E w \in Provisioners : desk[w].step \in S /\ (Provision(w) \/ KeycloakFails(w))

IdpFairness ==
    /\ \A i \in Jobs : WF_idpVars(ClaimEnds(i))
    /\ WF_idpVars(\E w \in Provisioners : ClaimJob(w))
    /\ SF_idpVars(Works({"look"}))
    /\ SF_idpVars(Works({"update", "create", "verify"}))
    /\ SF_idpVars(Works({"check"}))
    /\ SF_idpVars(Works({"bind"}))
    /\ SF_idpVars(Works({"succeeded", "retry", "failed"}))

-----------------------------------------------------------------------------
\* Properties

\* An event that counts as succeeded has linked the identity to its account, and
\* the link still stands, unless a check and a write of two bindings crossed.
SucceededHolds ==
    \A i \in Jobs :
        job[i].status = "succeeded" =>
            link[job[i].mail] = job[i].account \/ job[i].mail \in raced

\* Where Keycloak names another account than the one the identity is linked to,
\* an event of that account is unfinished or failed: somebody can see it.
DisagreementVisible ==
    \A m \in Mails \ raced :
        link[m] # Nobody /\ person[m].account \notin {Nobody, link[m]} =>
            \E i \in Jobs :
                /\ job[i].mail = m /\ job[i].account = person[m].account
                /\ job[i].status # "succeeded"

\* Every event is decided, through crashes, lost leases and failing calls.
JobsEnd ==
    \A i \in Jobs : job[i].status = "pending" ~> job[i].status \in {"succeeded", "failed"}
=============================================================================
