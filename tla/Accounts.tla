------------------------------ MODULE Accounts ------------------------------
(***************************************************************************)
(* Accounts and companies under concurrent requests.                       *)
(*                                                                         *)
(* A request goes through the phases of its handler: AccessTokenGuard      *)
(* reads the caller's row and the guards and TenantScopeService decide on  *)
(* that copy (admitted), the handler reads what it checks (checked), and   *)
(* writes (done, or "inserting" between the two writes of                  *)
(* OperatorsService.create).  Rows may change between the phases; each     *)
(* write stands alone and the unique index on User.email applies to it.    *)
(***************************************************************************)
EXTENDS Access, Integers

CONSTANTS Users, NoUser,        \* ids, and no id
          Emails, NoEmail,
          Slots,                \* requests in flight at the same time
          MaxRequests,          \* bound: requests ever sent
          FirstAdmin, FirstOperator, FirstCompany, FirstEmail, SecondEmail

ASSUME AccountsAssumption ==
  /\ NoUser \notin Users /\ NoEmail \notin Emails
  /\ MaxRequests \in Nat
  /\ FirstAdmin \in Users /\ FirstOperator \in Users /\ FirstAdmin # FirstOperator
  /\ FirstCompany \in Operators
  /\ FirstEmail \in Emails /\ SecondEmail \in Emails /\ FirstEmail # SecondEmail

VARIABLES users,        \* rows of User, by id; a deleted id is never used again
          operators,    \* status of every company; its identity stands for name and slug
          requests,     \* what each slot is working on
          sent          \* number of requests so far

vars == <<users, operators, requests, sent>>

Statuses == {"none", "ACTIVE", "SUSPENDED"}
Kinds == {"register", "createStaff", "updateStaff", "deleteStaff", "createOperator",
          "changeRole", "deleteAccount", "suspend", "activate", "serve"}

User == [state : {"unborn", "live", "gone"}, email : Emails \cup {NoEmail}, role : Roles,
         operatorId : Operators \cup {NoOperator}]

Request == [phase : {"idle", "admitted", "checked", "inserting"}, kind : Kinds,
            by : Users \cup {NoUser}, role : Roles, operatorId : Operators \cup {NoOperator},
            reach : SUBSET Operators, linked : SUBSET Operators,
            crosses : BOOLEAN, active : BOOLEAN,
            target : Users \cup {NoUser}, company : Operators \cup {NoOperator},
            email : Emails \cup {NoEmail}, newRole : Roles]

Unborn == [state |-> "unborn", email |-> NoEmail, role |-> "USER",
           operatorId |-> NoOperator]

Account(email, role, operatorId) ==
  [state |-> "live", email |-> email, role |-> role, operatorId |-> operatorId]

\* A request as it arrives, with what the guard knows of its sender.
Call(kind, u, role, operatorId) ==
  [phase |-> "admitted", kind |-> kind, by |-> u, role |-> role, operatorId |-> operatorId,
   reach |-> {}, linked |-> {}, crosses |-> FALSE, active |-> FALSE,
   target |-> NoUser, company |-> NoOperator, email |-> NoEmail, newRole |-> "USER"]

Idle == [phase |-> "idle", kind |-> "serve", by |-> NoUser, role |-> "USER",
         operatorId |-> NoOperator, reach |-> {}, linked |-> {}, crosses |-> FALSE,
         active |-> FALSE, target |-> NoUser, company |-> NoOperator, email |-> NoEmail, newRole |-> "USER"]

Live(u) == u \in Users /\ users[u].state = "live"
EmailFree(email) == \A u \in Users : Live(u) => users[u].email # email
Active(o) == o \in Operators /\ operators[o] = "ACTIVE"

\* However sign-up, staff accounts, changes of e-mail and new companies race, two
\* accounts never share an e-mail (login finds one).
EmailsIdentifyAccounts ==
  \A u, v \in Users : Live(u) /\ Live(v) /\ users[u].email = users[v].email => u = v

\* An installation in use: an ADMIN, the OPERATOR of a company, and any other accounts
\* (changes of role leave every combination of role and company behind).
Init == /\ users \in [Users -> {Unborn} \cup
                              {Account(email, role, o) : email \in Emails, role \in Roles,
                                                         o \in {NoOperator, FirstCompany}}]
        /\ EmailsIdentifyAccounts
        /\ users[FirstAdmin] = Account(FirstEmail, "ADMIN", NoOperator)
        /\ users[FirstOperator] = Account(SecondEmail, "OPERATOR", FirstCompany)
        /\ operators = [o \in Operators |-> IF o = FirstCompany THEN "ACTIVE" ELSE "none"]
        /\ requests = [s \in Slots |-> Idle]
        /\ sent = 0

-----------------------------------------------------------------------------
(* Requests arrive. *)

Free(s) == requests[s].phase = "idle" /\ sent < MaxRequests

Send(s, request) == /\ requests' = [requests EXCEPT ![s] = request]
                    /\ sent' = sent + 1
                    /\ UNCHANGED <<users, operators>>

\* No access token is needed.
Anonymous(kind) == Call(kind, NoUser, "USER", NoOperator)

\* The access token of a live account, and what validateAccessTokenUser reads of it.
As(u, kind) == Call(kind, u, users[u].role, users[u].operatorId)

Admitted == [role \in Roles |-> {e \in Endpoints : Admits(e, role)}]

\* The companies u may name through endpoints of this name.
CompaniesOf(u, name) ==
  UNION {Companies(e.scope, users[u], asked, asked) :
           e \in {x \in Admitted[users[u].role] : x.name = name},
           asked \in Operators \cup {NoOperator}}

MayCall(u, name) == \E e \in Admitted[users[u].role] : e.name = name

Register(s, email) == Send(s, [Anonymous("register") EXCEPT !.email = email])

DeleteAccount(s, u) == Live(u) /\ Send(s, [As(u, "deleteAccount") EXCEPT !.target = u])

ChangeRole(s, u, target, role) ==
  /\ Live(u) /\ MayCall(u, "changeUserRole")
  /\ Send(s, [As(u, "changeRole") EXCEPT !.target = target, !.newRole = role])

StatusPath(kind) == IF kind = "suspend" THEN "suspendOperator"
                    ELSE "activateOperator"

SetStatus(s, u, o, kind) ==
  /\ Live(u) /\ MayCall(u, StatusPath(kind))
  /\ Send(s, [As(u, kind) EXCEPT !.company = o])

\* email is NoEmail when no administrator of the company is given.
CreateOperator(s, u, o, email) ==
  /\ Live(u) /\ MayCall(u, "createOperator")
  /\ Send(s, [As(u, "createOperator") EXCEPT !.company = o, !.email = email])

CreateStaff(s, u, o, email) ==
  /\ Live(u) /\ o \in CompaniesOf(u, "createStaff")
  /\ Send(s, [As(u, "createStaff") EXCEPT !.reach = {o}, !.company = o, !.email = email])

UpdateStaff(s, u, o, target, email) ==
  /\ Live(u) /\ o \in CompaniesOf(u, "updateStaff")
  /\ Send(s, [As(u, "updateStaff") EXCEPT !.reach = {o}, !.company = o,
                                          !.target = target, !.email = email])

DeleteStaff(s, u, o, target) ==
  /\ Live(u) /\ o \in CompaniesOf(u, "deleteStaff")
  /\ Send(s, [As(u, "deleteStaff") EXCEPT !.reach = {o}, !.company = o, !.target = target])

\* Any endpoint, as far as its rows are concerned: what it may touch is decided on the
\* copy of the caller.  Endpoints with the same rule are sent once.
Rules == [role \in Roles |-> {[scope |-> e.scope, asks |-> e.asks,
                               active |-> e.suspended = "refused",
                               crosses |-> e = OperatorStats,
                               links |-> LinkedByTrip(e.name)] : e \in Admitted[role]}]

Serve(s, u, rule, asked, owner, linked) ==
  /\ Live(u)
  /\ asked # NoOperator => rule.asks
  /\ LET reach == Touched(rule.scope, users[u], asked, owner, linked)
     IN /\ reach # {}
        /\ Send(s, [As(u, "serve") EXCEPT !.reach = reach, !.linked = linked,
                                          !.active = rule.active, !.crosses = rule.crosses])

-----------------------------------------------------------------------------
(* The handler reads, and goes on or refuses. *)

IsStaffOf(u, o) == Live(u) /\ users[u].role = "STAFF" /\ users[u].operatorId = o

\* Mutant: an administrator may demote the own account.
AcceptsOwnDemotion(q) ==
  CASE q.kind = "changeRole" -> Live(q.target)
    [] q.kind = "register" -> EmailFree(q.email)
    [] OTHER -> TRUE

Accepts(q) ==
  CASE q.kind = "register" -> EmailFree(q.email)
    [] q.kind = "createStaff" -> Active(q.company) /\ EmailFree(q.email)
    [] q.kind \in {"updateStaff", "deleteStaff"} ->
         Active(q.company) /\ IsStaffOf(q.target, q.company)
    [] q.kind = "createOperator" -> operators[q.company] = "none"
    [] q.kind = "changeRole" ->
         Live(q.target) /\ ~(q.target = q.by /\ q.newRole # "ADMIN")
    [] q.kind = "deleteAccount" -> Live(q.target)
    [] q.kind \in {"suspend", "activate"} -> operators[q.company] # "none"
    [] OTHER -> q.active /\ q.role # "ADMIN" => \A o \in q.reach : Active(o)

Check(s) ==
  LET q == requests[s]
  IN /\ q.phase = "admitted"
     /\ requests' = [requests EXCEPT ![s] = IF Accepts(q)
                                            THEN [q EXCEPT !.phase = "checked"]
                                            ELSE Idle]
     /\ UNCHANGED <<users, operators, sent>>

-----------------------------------------------------------------------------
(* The handler writes.  A row that is gone, or an e-mail or a company that *)
(* has appeared since, fails the write and ends the request.               *)

Finish(s) == requests' = [requests EXCEPT ![s] = Idle]

\* Mutant: no unique index, the check of the handler is all there is.
InsertUnchecked(account) ==
  \E u \in Users : users[u].state = "unborn" /\ users' = [users EXCEPT ![u] = account]

\* INSERT INTO "User"; the id is new.
Insert(account) ==
  IF EmailFree(account.email)
  THEN \E u \in Users : /\ users[u].state = "unborn"
                        /\ users' = [users EXCEPT ![u] = account]
  ELSE UNCHANGED users

Update(u, account) ==
  IF Live(u) THEN users' = [users EXCEPT ![u] = account] ELSE UNCHANGED users

Checked(s, kinds) == requests[s].phase = "checked" /\ requests[s].kind \in kinds

WriteRegister(s) ==
  /\ Checked(s, {"register"})
  /\ Insert(Account(requests[s].email, "USER", NoOperator))
  /\ Finish(s) /\ UNCHANGED <<operators, sent>>

WriteCreateStaff(s) ==
  /\ Checked(s, {"createStaff"})
  /\ Insert(Account(requests[s].email, "STAFF", requests[s].company))
  /\ Finish(s) /\ UNCHANGED <<operators, sent>>

WriteUpdateStaff(s) ==
  LET q == requests[s]
  IN /\ Checked(s, {"updateStaff"})
     /\ IF \A u \in Users \ {q.target} : Live(u) => users[u].email # q.email
        THEN Update(q.target, [users[q.target] EXCEPT !.email = q.email])
        ELSE UNCHANGED users
     /\ Finish(s) /\ UNCHANGED <<operators, sent>>

WriteDelete(s) ==
  /\ Checked(s, {"deleteStaff", "deleteAccount"})
  /\ Update(requests[s].target,
            [users[requests[s].target] EXCEPT !.state = "gone", !.email = NoEmail])
  /\ Finish(s) /\ UNCHANGED <<operators, sent>>

WriteRole(s) ==
  /\ Checked(s, {"changeRole"})
  /\ Update(requests[s].target,
            [users[requests[s].target] EXCEPT !.role = requests[s].newRole])
  /\ Finish(s) /\ UNCHANGED <<operators, sent>>

WriteStatus(s) ==
  LET q == requests[s]
  IN /\ Checked(s, {"suspend", "activate"})
     /\ operators' = [operators EXCEPT ![q.company] =
                        IF q.kind = "suspend" THEN "SUSPENDED" ELSE "ACTIVE"]
     /\ Finish(s) /\ UNCHANGED <<users, sent>>

\* The company is committed before its administrator is inserted.
WriteOperator(s) ==
  LET q == requests[s]
      free == operators[q.company] = "none"
  IN /\ Checked(s, {"createOperator"})
     /\ operators' = IF free THEN [operators EXCEPT ![q.company] = "ACTIVE"] ELSE operators
     /\ requests' = [requests EXCEPT ![s] =
                       IF free /\ q.email # NoEmail
                       THEN [q EXCEPT !.phase = "inserting"] ELSE Idle]
     /\ UNCHANGED <<users, sent>>

WriteOperatorAdmin(s) ==
  /\ requests[s].phase = "inserting"
  /\ Insert(Account(requests[s].email, "OPERATOR", requests[s].company))
  /\ Finish(s) /\ UNCHANGED <<operators, sent>>

Respond(s) ==
  /\ Checked(s, {"serve"})
  /\ Finish(s) /\ UNCHANGED <<users, operators, sent>>

\* The process dies; nothing of a request in flight is left but its writes.
Crash == /\ \E s \in Slots : requests[s].phase # "idle"
         /\ requests' = [s \in Slots |-> Idle]
         /\ UNCHANGED <<users, operators, sent>>

-----------------------------------------------------------------------------
Receive(s) ==
  /\ Free(s)
  /\ \/ \E email \in Emails : Register(s, email)
     \/ \E u \in Users :
          \/ DeleteAccount(s, u)
          \/ \E target \in Users, role \in Roles : ChangeRole(s, u, target, role)
          \/ \E o \in Operators :
               \/ \E kind \in {"suspend", "activate"} : SetStatus(s, u, o, kind)
               \/ \E email \in Emails \cup {NoEmail} : CreateOperator(s, u, o, email)
               \/ \E email \in Emails : CreateStaff(s, u, o, email)
               \/ \E target \in Users :
                    \/ DeleteStaff(s, u, o, target)
                    \/ \E email \in Emails : UpdateStaff(s, u, o, target, email)
               \/ \E rule \in Rules[users[u].role], asked \in Operators \cup {NoOperator} :
                    \E linked \in rule.links : Serve(s, u, rule, asked, o, linked)

Write(s) == \/ WriteRegister(s) \/ WriteCreateStaff(s) \/ WriteUpdateStaff(s)
            \/ WriteDelete(s) \/ WriteRole(s) \/ WriteStatus(s)
            \/ WriteOperator(s) \/ WriteOperatorAdmin(s) \/ Respond(s)

Next == Crash \/ \E s \in Slots : Receive(s) \/ Check(s) \/ Write(s)

Spec == Init /\ [][Next]_vars

-----------------------------------------------------------------------------
(* Properties *)

TypeOK == /\ users \in [Users -> User]
          /\ operators \in [Operators -> Statuses]
          /\ requests \in [Slots -> Request]
          /\ sent \in Nat

\* A request of anyone but an ADMIN touches the company its account belongs to now,
\* although the decision was taken on an earlier copy of the row.  There are two
\* exceptions: the statistics of one company by id (getOperatorStats), and the bus and
\* the route that createTrip and updateTrip put a trip on, which may be any company's
\* (TenantScopeService; TripsService.create and update compare no company).
CompaniesAreKeptApart ==
  \A s \in Slots :
    LET q == requests[s]
    IN q.by \in Users /\ q.role # "ADMIN" /\ ~q.crosses
         => q.reach \subseteq {users[q.by].operatorId} \cup q.linked

\* Whom a company has: live accounts, and accounts on their way to it.
Lost(o) ==
  /\ operators[o] # "none"
  /\ \A u \in Users : Live(u) => users[u].operatorId # o
  /\ \A s \in Slots :
       /\ requests[s].phase # "idle" /\ requests[s].kind = "createStaff"
            => requests[s].company # o
       /\ requests[s].phase = "inserting" => requests[s].company # o

\* A company left without any account (its administrator's e-mail was taken, the server
\* stopped between the two writes, or all accounts were deleted) never gets one again:
\* it cannot be created anew, and only its own OPERATOR could add staff.
LostCompaniesStayLost == [][\A o \in Operators : Lost(o) => Lost(o)']_vars

Admins == {u \in Users : Live(u) /\ users[u].role = "ADMIN"}

\* The last administrator leaves by deleting the account, or falls to a request of
\* someone who is no administrator any more or to one that read the account as STAFF;
\* never to an administrator in office (changeUserRole).
LastAdminFallsToARaceOnly ==
  [][Admins # {} /\ Admins' = {} =>
       \E s \in Slots :
         /\ requests[s].phase = "checked" /\ requests'[s].phase = "idle"
         /\ \/ requests[s].kind \in {"deleteAccount", "deleteStaff"}
            \/ requests[s].kind = "changeRole" /\ requests[s].by \notin Admins]_vars
=============================================================================
