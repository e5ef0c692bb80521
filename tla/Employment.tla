----------------------------- MODULE Employment -----------------------------
(***************************************************************************)
(* Employees and their login accounts                                      *)
(* (src/internal/service/hr_service.go, hr_employee_core_service.go,       *)
(* hr_employee_export_lifecycle_service.go, hr_relationship_service.go and *)
(* the employee part of ehrms_service.go).  Every operation is one         *)
(* transaction: it reads the employee, reads the account, and writes both  *)
(* rows whole, with the relationship tuples that follow from the change.   *)
(* The transactions are READ COMMITTED: the account row has a version that *)
(* is checked when it is written, the employee row has none.               *)
(*                                                                         *)
(* Onboarding and probation are active here.  Whether an e-mail address    *)
(* is free or belongs to some account is a choice of the action.           *)
(***************************************************************************)
EXTENDS RelationshipSync

CONSTANTS
    Employees, Accounts, NoAccount, NoEmployee,
    Admins      \* requests of HR and runs of the eHRMS synchronisation

Member(a) == <<"member", a>>
Owner(e, a) == <<"owner", e, a>>
StaffTuples == {Member(a) : a \in Accounts}
                 \cup {Owner(e, a) : e \in Employees, a \in Accounts}

ASSUME EmploymentAssumption ==
    /\ NoAccount \notin Accounts /\ NoEmployee \notin Employees
    /\ StaffTuples \subseteq Tuples

VARIABLES
    emp,        \* the employees: status and account_id
    acct,       \* the accounts: status and employee_id
    tx,         \* what each request is doing and what it has read
    crossed     \* employees whose row was written back over a newer one

staffVars == <<emp, acct, tx, crossed>>
empVars == <<relVars, emp, acct, tx, crossed>>

Kinds == {"create_active", "create_pending", "update", "delete", "status", "suspend",
          "resign", "reinstate", "invite", "sync_active", "sync_resigned"}

Employee == [status : {"absent", "active", "suspended", "resigned", "deleted"},
             account : Accounts \cup {NoAccount}]
Account == [status : {"absent", "pending_invite", "active", "disabled"},
            employee : Employees \cup {NoEmployee}]

NoRow == [status |-> "absent", account |-> NoAccount]
NoLogin == [status |-> "absent", employee |-> NoEmployee]
Idle0 == [step |-> "idle", kind |-> "status", e |-> NoEmployee, row |-> NoRow,
          account |-> NoAccount, login |-> NoLogin, newest |-> TRUE]

StaffTypeOK ==
    /\ emp \in [Employees -> Employee]
    /\ acct \in [Accounts -> Account]
    /\ tx \in [Admins -> [step : {"idle", "read", "write"}, kind : Kinds,
                          e : Employees \cup {NoEmployee}, row : Employee,
                          account : Accounts \cup {NoAccount}, login : Account,
                          newest : BOOLEAN]]
    /\ crossed \subseteq Employees

StaffInit ==
    /\ emp = [e \in Employees |-> NoRow]
    /\ acct = [a \in Accounts |-> NoLogin]
    /\ tx = [p \in Admins |-> Idle0]
    /\ crossed = {}

-----------------------------------------------------------------------------
\* What an operation asks before it begins

Terminal(s) == s \in {"resigned", "deleted"}
Usable(s) == s \notin {"absent", "disabled"}

\* An account an employee may be given: it exists, is nobody else's, and is not
\* disabled unless the employee has left.
Linkable(a, e, s) ==
    /\ acct[a].status # "absent"
    /\ acct[a].employee \in {NoEmployee, e}
    /\ acct[a].status = "disabled" => Terminal(s)
    /\ \A f \in Employees \ {e} : emp[f].account # a

\* Whether operation k may begin for employee e, and leave it with account a.
Admitted(k, e, a) ==
    LET s == emp[e].status  own == emp[e].account IN
    CASE k \in {"create_active", "create_pending"} ->
            /\ s = "absent"
            /\ IF a = NoAccount THEN TRUE
               ELSE acct[a].status = "absent" \/ Linkable(a, e, "active")
      [] k = "update" -> s # "absent" /\ IF a = NoAccount THEN TRUE ELSE Linkable(a, e, s)
      [] k = "delete" -> s \notin {"absent", "deleted"} /\ a = own
      [] k \in {"status", "suspend"} -> s \in {"active", "suspended"} /\ a = own
      [] k = "resign" -> s \in {"active", "suspended", "resigned"} /\ a = own
      [] k = "reinstate" -> s = "resigned" /\ a = own
      [] k = "invite" ->
            /\ s \in {"active", "suspended"}
            /\ IF own # NoAccount THEN a = own
               ELSE a # NoAccount /\ acct[a].status = "absent"
      [] k = "sync_active" -> own # NoAccount => a = own
      [] k = "sync_resigned" -> a = own

\* A request for one of the operations ks.
Open(p, ks) ==
    /\ tx[p].step = "idle"
    /\ \E k \in ks, e \in Employees, a \in Accounts \cup {NoAccount} :
        /\ Admitted(k, e, a)
        /\ tx' = [tx EXCEPT ![p] = [step |-> "read", kind |-> k, e |-> e, row |-> emp[e],
                                    account |-> a, login |-> NoLogin, newest |-> TRUE]]
    /\ UNCHANGED <<relVars, emp, acct, crossed>>

\* The account is read after the employee: another transaction may have
\* committed in between.
ReadAccount(p) ==
    /\ tx[p].step = "read"
    /\ tx' = [tx EXCEPT ![p].step = "write",
                        ![p].login = IF tx[p].account = NoAccount THEN NoLogin
                                     ELSE acct[tx[p].account]]
    /\ UNCHANGED <<relVars, emp, acct, crossed>>

-----------------------------------------------------------------------------
\* What it writes

NewStatus(k, s) ==
    CASE k \in {"create_active", "create_pending", "status", "reinstate", "sync_active"} -> "active"
      [] k = "suspend" -> "suspended"
      [] k \in {"resign", "sync_resigned"} -> "resigned"
      [] k = "delete" -> "deleted"
      [] OTHER -> s

\* The account as operation k leaves it.
NewLogin(k, e, login) ==
    CASE k \in {"delete", "resign"} -> [login EXCEPT !.status = "disabled"]
      [] k = "reinstate" -> [login EXCEPT !.status = "active"]
      [] k = "invite" -> [status |-> "pending_invite", employee |-> e]
      [] OTHER -> [status |-> IF login.status # "absent" THEN login.status
                              ELSE IF k = "create_active" THEN "active" ELSE "pending_invite",
                   employee |-> e]

WritesAccount(p) == tx[p].account # NoAccount /\ tx[p].kind \notin {"status", "suspend"}

\* syncAccountTenantMembershipTuple
MembershipChanges(a, before, after) ==
    IF Usable(before) = Usable(after) THEN << >>
    ELSE <<[op |-> IF Usable(after) THEN "write" ELSE "delete", tuple |-> Member(a)]>>

\* Mutant: the tuple of the account the employee had before is forgotten.
OwnerChanges_NoDelete(e, before, after) ==
    IF before = after \/ after = NoAccount THEN << >>
    ELSE <<[op |-> "write", tuple |-> Owner(e, after)]>>

\* touchEmployeeAuthzIfNeeded, for the owner relation of the employee
OwnerChanges(e, before, after) ==
    IF before = after THEN << >>
    ELSE (IF before = NoAccount THEN << >>
          ELSE <<[op |-> "delete", tuple |-> Owner(e, before)]>>)
      \o (IF after = NoAccount THEN << >>
          ELSE <<[op |-> "write", tuple |-> Owner(e, after)]>>)

\* Mutant: a version of 0 for every account, "no check".
VersionMatches_Blind(p) == TRUE

\* expected_version: the account is as the transaction read it.
VersionMatches(p) == tx[p].newest

\* The unique index of employees on account_id.
AccountFree(e, a) == a = NoAccount \/ \A f \in Employees \ {e} : emp[f].account # a

\* Who else has read account a and not written it yet holds an old version now.
Closed(p, wrote) ==
    [q \in Admins |->
        IF q = p THEN Idle0
        ELSE IF wrote /\ tx[q].step = "write" /\ tx[q].account = tx[p].account
             THEN [tx[q] EXCEPT !.newest = FALSE] ELSE tx[q]]

Commit(p) ==
    LET t == tx[p]
        next == [status |-> NewStatus(t.kind, t.row.status), account |-> t.account]
        login == NewLogin(t.kind, t.e, t.login)
    IN
    /\ t.step = "write"
    /\ WritesAccount(p) => VersionMatches(p)
    /\ AccountFree(t.e, t.account)
    /\ t.row.status = "absent" => emp[t.e].status = "absent"
    /\ emp' = [emp EXCEPT ![t.e] = next]
    /\ acct' = IF WritesAccount(p) THEN [acct EXCEPT ![t.account] = login] ELSE acct
    /\ crossed' = IF emp[t.e] # t.row THEN crossed \cup {t.e} ELSE crossed
    /\ tx' = Closed(p, WritesAccount(p))
    /\ ApplyChanges(
        (IF WritesAccount(p)
         THEN MembershipChanges(t.account, t.login.status, login.status) ELSE << >>)
        \o OwnerChanges(t.e, t.row.account, t.account))

\* A version conflict, a unique index, any other error, a crash: nothing of the
\* transaction stays.
Rollback(p) ==
    /\ tx[p].step # "idle"
    /\ tx' = [tx EXCEPT ![p] = Idle0]
    /\ UNCHANGED <<relVars, emp, acct, crossed>>

Request(p, ks) == Open(p, ks) \/ ReadAccount(p) \/ Commit(p) \/ Rollback(p)

Staff == \E p \in Admins : Request(p, Kinds)

\* Org units, groups, roles and grants have tuples of their own.
OtherTuples ==
    /\ \E op \in {"write", "delete"}, t \in Tuples \ StaffTuples :
        ApplyChanges(<<[op |-> op, tuple |-> t]>>)
    /\ UNCHANGED staffVars

Delivery == Pipeline /\ UNCHANGED staffVars

EmpInit == RelInit /\ StaffInit

EmpNext == Staff \/ OtherTuples \/ Delivery

EmpSpec == EmpInit /\ [][EmpNext]_empVars

-----------------------------------------------------------------------------
\* Properties

\* The tenant membership tuple is there exactly as long as the account is not
\* disabled, however transactions on the account overlap.
MembershipFollowsAccount ==
    \A a \in Accounts : Member(a) \in local <=> Usable(acct[a].status)

\* An employee's account names the employee, and the owner tuples are those of
\* that account and no other, unless two transactions on the employee crossed.
LinksAgree ==
    \A e \in Employees \ crossed :
        /\ emp[e].account # NoAccount => acct[emp[e].account].employee = e
        /\ \A a \in Accounts : Owner(e, a) \in local <=> emp[e].account = a

\* A login that was taken away comes back by reinstatement or invitation, and
\* never because somebody wrote back an account he had read before.
DisabledStays ==
    [][\A a \in Accounts :
        acct[a].status = "disabled" /\ acct'[a].status # "disabled" =>
            \E p \in Admins : tx[p].kind \in {"reinstate", "invite"} /\ tx[p].account = a]_empVars
=============================================================================
