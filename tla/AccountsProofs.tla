--------------------------- MODULE AccountsProofs ---------------------------
(***************************************************************************)
(* Accounts for any number of users, companies, e-mails and requests: the  *)
(* e-mails stay unique, and the companies are kept apart although every    *)
(* decision is taken on a copy of the caller's row; a company that lost    *)
(* its accounts stays lost, and the last administrator falls to a race or  *)
(* to a deletion only.                                                     *)
(***************************************************************************)
EXTENDS Accounts, TLAPS

USE OperatorsAssumption, AccountsAssumption

-----------------------------------------------------------------------------
(* The table of endpoints. *)

\* Which scopes an endpoint has that not only the ADMIN may call.
Scopes == {"own", "profile", "list", "required", "create", "resource"}

\* The groups that OPERATOR and STAFF reach have scoped endpoints only.
LEMMA ScopedGroups ==
  \A e \in OverviewEndpoints \cup BookingEndpoints \cup PointEndpoints \cup MoneyEndpoints
           \cup BusEndpoints \cup RouteEndpoints \cup TripEndpoints \cup StaffEndpoints :
    e.scope \in Scopes
  <1>1. \A e \in OverviewEndpoints : e.scope \in Scopes
    BY DEF OverviewEndpoints, Endpoint, Asked, Fixed, Scopes
  <1>2. \A e \in BookingEndpoints : e.scope \in Scopes
    BY DEF BookingEndpoints, Endpoint, Asked, Fixed, Scopes
  <1>3. \A e \in PointEndpoints : e.scope \in Scopes
    BY DEF PointEndpoints, Endpoint, Asked, Fixed, Scopes
  <1>4. \A e \in MoneyEndpoints : e.scope \in Scopes
    BY DEF MoneyEndpoints, Endpoint, Asked, Fixed, Scopes
  <1>5. \A e \in BusEndpoints : e.scope \in Scopes
    BY DEF BusEndpoints, Endpoint, Asked, Fixed, Scopes
  <1>6. \A e \in RouteEndpoints : e.scope \in Scopes
    BY DEF RouteEndpoints, Endpoint, Asked, Fixed, Scopes
  <1>7. \A e \in TripEndpoints : e.scope \in Scopes
    BY DEF TripEndpoints, Endpoint, Asked, Fixed, Scopes
  <1>8. \A e \in StaffEndpoints : e.scope \in Scopes
    BY DEF StaffEndpoints, Endpoint, Asked, Fixed, Scopes
  <1> QED
    BY <1>1, <1>2, <1>3, <1>4, <1>5, <1>6, <1>7, <1>8

\* The others ask for permissions that only the ADMIN has.
LEMMA PlatformGroups ==
  ASSUME NEW role \in Roles, NEW e \in UserEndpoints \cup OperatorEndpoints,
         Admits(e, role)
  PROVE  role = "ADMIN"
  <1>1. e.needs = {"MANAGE_USERS"} \/ e.needs = {"MANAGE_OPERATORS"}
    BY DEF UserEndpoints, OperatorEndpoints, Endpoint, Fixed
  <1>2. e.needs # {}
    BY <1>1
  <1>3. PICK p \in e.needs : p \in RolePermissions(role)
    BY <1>2 DEF Admits
  <1>4. p \in {"MANAGE_USERS", "MANAGE_OPERATORS"}
    BY <1>1, <1>3
  <1> QED
    BY <1>3, <1>4 DEF RolePermissions, Roles

\* Whoever is not ADMIN is admitted to scoped endpoints, and to the statistics by id.
LEMMA ScopedUnlessAdmin ==
  ASSUME NEW role \in Roles, role # "ADMIN", NEW e \in Admitted[role], e # OperatorStats
  PROVE  e.scope \in Scopes
  <1>1. e \in Endpoints /\ Admits(e, role)
    BY DEF Admitted
  <1>2. CASE e \in DashboardEndpoints
    BY <1>1, <1>2, ScopedGroups, PlatformGroups DEF DashboardEndpoints
  <1>3. CASE e \in AdminEndpoints
    <2>1. e.roles = {"ADMIN"}
      BY <1>3 DEF AdminEndpoints, AdminDesk, AdminFleet, AdminUsers, AdminBuses,
               AdminTrips, AdminCreates, AdminOnly, Alias
    <2> QED
      BY <1>1, <2>1 DEF Admits
  <1>4. CASE e \in OperatorAlias \cup StaffAlias
    <2>1. PICK d \in OverviewEndpoints \cup BookingEndpoints \cup BusEndpoints
                     \cup RouteEndpoints \cup TripEndpoints \cup StaffEndpoints :
            \E r \in {"OPERATOR", "STAFF"} :
              e.scope = d.scope
      BY <1>4 DEF OperatorAlias, StaffAlias, Alias
    <2>2. d.scope \in Scopes
      BY <2>1, ScopedGroups
    <2> QED
      BY <2>1, <2>2
  <1> QED
    BY <1>1, <1>2, <1>3, <1>4 DEF Endpoints

\* A scoped endpoint touches the caller's company at most.
LEMMA ScopedReach ==
  ASSUME NEW caller, caller.role # "ADMIN", NEW scope \in Scopes, NEW asked, NEW owner
  PROVE  Companies(scope, caller, asked, owner) \subseteq {caller.operatorId}
  <1>1. EffectiveOperatorId(caller, asked) \in {caller.operatorId, Refused}
    BY DEF EffectiveOperatorId, IsPlatformAdmin
  <1>2. EffectiveOperatorId(caller, asked) = NoOperator => caller.operatorId \notin Operators
    BY <1>1
  <1>3. EffectiveOperatorId(caller, asked) # NoOperator
    BY <1>1 DEF EffectiveOperatorId, IsPlatformAdmin, HasOperatorContext
  <1> QED
    BY <1>1, <1>3 DEF Companies, Scopes, IsPlatformAdmin, HasOperatorContext, OwnsResource

\* With the rows it links it touches the companies of their owners besides.
LEMMA LinkedReach ==
  ASSUME NEW caller, caller.role # "ADMIN", NEW scope \in Scopes, NEW asked, NEW owner,
         NEW linked
  PROVE  Touched(scope, caller, asked, owner, linked) \subseteq {caller.operatorId} \cup linked
  BY ScopedReach DEF Touched

\* Reach never leaves the known companies.
LEMMA ReachType ==
  ASSUME NEW caller, NEW scope, NEW asked, NEW owner \in Operators,
         NEW linked \in SUBSET Operators
  PROVE  Touched(scope, caller, asked, owner, linked) \subseteq Operators
  BY DEF Companies, Touched

LEMMA LinkedType ==
  ASSUME NEW name
  PROVE  LinkedByTrip(name) \subseteq SUBSET Operators
  BY DEF LinkedByTrip
-----------------------------------------------------------------------------
(* The inductive invariant. *)

\* A request's copy of its caller's company is the company of the row, and what the
\* request may touch was decided for it.
CopiesHold ==
  \A s \in Slots :
    LET q == requests[s]
    IN q.by \in Users =>
         /\ users[q.by].state # "unborn"
         /\ users[q.by].operatorId = q.operatorId
         /\ q.role # "ADMIN" /\ ~q.crosses => q.reach \subseteq {q.operatorId} \cup q.linked

IInv == TypeOK /\ EmailsIdentifyAccounts /\ CopiesHold

\* Sending a request keeps the invariant if its copy of the caller is right.
LEMMA SendKeeps ==
  ASSUME IInv, NEW s \in Slots, NEW q \in Request, Send(s, q),
         q.by \in Users =>
           /\ users[q.by].state # "unborn"
           /\ users[q.by].operatorId = q.operatorId
           /\ q.role # "ADMIN" /\ ~q.crosses => q.reach \subseteq {q.operatorId} \cup q.linked
  PROVE  IInv'
  <1> USE DEF IInv, Send
  <1>1. TypeOK'
    BY DEF TypeOK
  <1>2. EmailsIdentifyAccounts'
    BY DEF EmailsIdentifyAccounts, Live
  <1>3. CopiesHold'
    BY DEF CopiesHold, TypeOK
  <1> QED
    BY <1>1, <1>2, <1>3

\* What As and Anonymous put into a request.
LEMMA AsType ==
  ASSUME TypeOK, NEW u \in Users, NEW kind \in Kinds
  PROVE  /\ As(u, kind) \in Request
         /\ As(u, kind).by = u /\ As(u, kind).role = users[u].role
         /\ As(u, kind).operatorId = users[u].operatorId
         /\ As(u, kind).reach = {} /\ As(u, kind).crosses = FALSE
  BY DEF As, Call, Request, TypeOK, User, Roles

\* The endpoints of one name are reached for the caller's own company, or by the ADMIN.
LEMMA CompaniesOfOwn ==
  ASSUME TypeOK, NEW u \in Users, NEW name, name # OperatorStats.name,
         users[u].role # "ADMIN"
  PROVE  CompaniesOf(u, name) \subseteq {users[u].operatorId}
  <1>1. users[u].role \in Roles
    BY DEF TypeOK, User
  <1>2. \A e \in Admitted[users[u].role] : e.name = name => e.scope \in Scopes
    BY <1>1, ScopedUnlessAdmin
  <1> QED
    BY <1>2, ScopedReach DEF CompaniesOf

LEMMA ReceiveKeeps ==
  ASSUME IInv, NEW s \in Slots, Receive(s)
  PROVE  IInv'
  <1> USE DEF IInv
  <1>a. \A u \in Users : Live(u) => users[u].state # "unborn"
    BY DEF Live
  <1>1. ASSUME NEW email \in Emails, Register(s, email)
        PROVE  IInv'
    <2>1. [Anonymous("register") EXCEPT !.email = email] \in Request
      BY DEF Anonymous, Call, Request, Kinds, Roles
    <2>2. [Anonymous("register") EXCEPT !.email = email].by = NoUser
      BY DEF Anonymous, Call
    <2> QED
      BY <1>1, <2>1, <2>2, SendKeeps DEF Register
  <1>2. ASSUME NEW u \in Users, DeleteAccount(s, u)
        PROVE  IInv'
    <2> DEFINE q == [As(u, "deleteAccount") EXCEPT !.target = u]
    <2>a. /\ As(u, "deleteAccount") \in Request /\ As(u, "deleteAccount").by = u
          /\ As(u, "deleteAccount").role = users[u].role
          /\ As(u, "deleteAccount").operatorId = users[u].operatorId
          /\ As(u, "deleteAccount").reach = {}
      BY AsType DEF Kinds
    <2>1. /\ q \in Request /\ q.by = u /\ q.operatorId = users[u].operatorId
          /\ q.reach = {}
      BY <2>a DEF Request
    <2> QED
      BY <1>2, <1>a, <2>1, SendKeeps DEF DeleteAccount
  <1>3. ASSUME NEW u \in Users, NEW target \in Users, NEW role \in Roles,
               ChangeRole(s, u, target, role)
        PROVE  IInv'
    <2> DEFINE q == [As(u, "changeRole") EXCEPT !.target = target, !.newRole = role]
    <2>a. /\ As(u, "changeRole") \in Request /\ As(u, "changeRole").by = u
          /\ As(u, "changeRole").role = users[u].role
          /\ As(u, "changeRole").operatorId = users[u].operatorId
          /\ As(u, "changeRole").reach = {}
      BY AsType DEF Kinds
    <2>1. /\ q \in Request /\ q.by = u /\ q.operatorId = users[u].operatorId
          /\ q.reach = {}
      BY <2>a DEF Request
    <2> QED
      BY <1>3, <1>a, <2>1, SendKeeps DEF ChangeRole
  <1>4. ASSUME NEW u \in Users, NEW o \in Operators, NEW kind \in {"suspend", "activate"},
               SetStatus(s, u, o, kind)
        PROVE  IInv'
    <2> DEFINE q == [As(u, kind) EXCEPT !.company = o]
    <2>0. kind \in Kinds
      BY DEF Kinds
    <2>a. /\ As(u, kind) \in Request /\ As(u, kind).by = u
          /\ As(u, kind).role = users[u].role
          /\ As(u, kind).operatorId = users[u].operatorId
          /\ As(u, kind).reach = {}
      BY AsType, <2>0
    <2>1. /\ q \in Request /\ q.by = u /\ q.operatorId = users[u].operatorId
          /\ q.reach = {}
      BY <2>a DEF Request
    <2> QED
      BY <1>4, <1>a, <2>1, SendKeeps DEF SetStatus
  <1>5. ASSUME NEW u \in Users, NEW o \in Operators, NEW email \in Emails \cup {NoEmail},
               CreateOperator(s, u, o, email)
        PROVE  IInv'
    <2> DEFINE q == [As(u, "createOperator") EXCEPT !.company = o, !.email = email]
    <2>a. /\ As(u, "createOperator") \in Request /\ As(u, "createOperator").by = u
          /\ As(u, "createOperator").role = users[u].role
          /\ As(u, "createOperator").operatorId = users[u].operatorId
          /\ As(u, "createOperator").reach = {}
      BY AsType DEF Kinds
    <2>1. /\ q \in Request /\ q.by = u /\ q.operatorId = users[u].operatorId
          /\ q.reach = {}
      BY <2>a DEF Request
    <2> QED
      BY <1>5, <1>a, <2>1, SendKeeps DEF CreateOperator
  <1>b. "createStaff" # OperatorStats.name /\ "updateStaff" # OperatorStats.name
        /\ "deleteStaff" # OperatorStats.name
    BY DEF OperatorStats, Fixed, Endpoint
  <1>6. ASSUME NEW u \in Users, NEW o \in Operators, NEW email \in Emails,
               CreateStaff(s, u, o, email)
        PROVE  IInv'
    <2> DEFINE q == [As(u, "createStaff") EXCEPT !.reach = {o}, !.company = o,
                                                 !.email = email]
    <2>a. /\ As(u, "createStaff") \in Request /\ As(u, "createStaff").by = u
          /\ As(u, "createStaff").role = users[u].role
          /\ As(u, "createStaff").operatorId = users[u].operatorId
          /\ As(u, "createStaff").reach = {}
      BY AsType DEF Kinds
    <2>1. /\ q \in Request /\ q.by = u /\ q.operatorId = users[u].operatorId
          /\ q.role = users[u].role /\ q.reach = {o}
      BY <2>a DEF Request
    <2>2. users[u].role # "ADMIN" => o = users[u].operatorId
      BY <1>6, <1>b, CompaniesOfOwn DEF CreateStaff
    <2> QED
      BY <1>6, <1>a, <2>1, <2>2, SendKeeps DEF CreateStaff
  <1>7. ASSUME NEW u \in Users, NEW o \in Operators, NEW target \in Users,
               NEW email \in Emails, UpdateStaff(s, u, o, target, email)
        PROVE  IInv'
    <2> DEFINE q == [As(u, "updateStaff") EXCEPT !.reach = {o}, !.company = o,
                                                 !.target = target, !.email = email]
    <2>a. /\ As(u, "updateStaff") \in Request /\ As(u, "updateStaff").by = u
          /\ As(u, "updateStaff").role = users[u].role
          /\ As(u, "updateStaff").operatorId = users[u].operatorId
          /\ As(u, "updateStaff").reach = {}
      BY AsType DEF Kinds
    <2>1. /\ q \in Request /\ q.by = u /\ q.operatorId = users[u].operatorId
          /\ q.role = users[u].role /\ q.reach = {o}
      BY <2>a DEF Request
    <2>2. users[u].role # "ADMIN" => o = users[u].operatorId
      BY <1>7, <1>b, CompaniesOfOwn DEF UpdateStaff
    <2> QED
      BY <1>7, <1>a, <2>1, <2>2, SendKeeps DEF UpdateStaff
  <1>8. ASSUME NEW u \in Users, NEW o \in Operators, NEW target \in Users,
               DeleteStaff(s, u, o, target)
        PROVE  IInv'
    <2> DEFINE q == [As(u, "deleteStaff") EXCEPT !.reach = {o}, !.company = o,
                                                 !.target = target]
    <2>a. /\ As(u, "deleteStaff") \in Request /\ As(u, "deleteStaff").by = u
          /\ As(u, "deleteStaff").role = users[u].role
          /\ As(u, "deleteStaff").operatorId = users[u].operatorId
          /\ As(u, "deleteStaff").reach = {}
      BY AsType DEF Kinds
    <2>1. /\ q \in Request /\ q.by = u /\ q.operatorId = users[u].operatorId
          /\ q.role = users[u].role /\ q.reach = {o}
      BY <2>a DEF Request
    <2>2. users[u].role # "ADMIN" => o = users[u].operatorId
      BY <1>8, <1>b, CompaniesOfOwn DEF DeleteStaff
    <2> QED
      BY <1>8, <1>a, <2>1, <2>2, SendKeeps DEF DeleteStaff
  <1>9. ASSUME NEW u \in Users, NEW rule \in Rules[users[u].role],
               NEW asked \in Operators \cup {NoOperator}, NEW o \in Operators,
               NEW linked \in rule.links, Serve(s, u, rule, asked, o, linked)
        PROVE  IInv'
    <2> DEFINE reach == Touched(rule.scope, users[u], asked, o, linked)
               q == [As(u, "serve") EXCEPT !.reach = reach, !.linked = linked,
                                           !.active = rule.active,
                                           !.crosses = rule.crosses]
    <2>0. users[u].role \in Roles
      BY DEF TypeOK, User
    <2>1. PICK e \in Admitted[users[u].role] :
            /\ rule.scope = e.scope /\ rule.crosses = (e = OperatorStats)
            /\ rule.active = (e.suspended = "refused") /\ rule.links = LinkedByTrip(e.name)
      BY <2>0 DEF Rules
    <2>2. rule.active \in BOOLEAN /\ rule.crosses \in BOOLEAN
      BY <2>1
    <2>b. linked \subseteq Operators
      BY <2>1, LinkedType
    <2>3. reach \subseteq Operators
      BY <2>b, ReachType
    <2>a. /\ As(u, "serve") \in Request /\ As(u, "serve").by = u
          /\ As(u, "serve").role = users[u].role
          /\ As(u, "serve").operatorId = users[u].operatorId
          /\ As(u, "serve").reach = {}
      BY AsType DEF Kinds
    <2>4. /\ q \in Request /\ q.by = u /\ q.operatorId = users[u].operatorId
          /\ q.role = users[u].role /\ q.reach = reach /\ q.linked = linked
          /\ q.crosses = rule.crosses
      BY <2>a, <2>b, <2>2, <2>3 DEF Request
    <2>5. users[u].role # "ADMIN" /\ e # OperatorStats
            => reach \subseteq {users[u].operatorId} \cup linked
      BY <2>0, <2>1, ScopedUnlessAdmin, LinkedReach
    <2>6. Live(u) /\ Send(s, q)
      BY <1>9 DEF Serve
    <2> QED
      BY <1>a, <2>1, <2>4, <2>5, <2>6, SendKeeps
  <1> QED
    BY <1>1, <1>2, <1>3, <1>4, <1>5, <1>6, <1>7, <1>8, <1>9 DEF Receive

LEMMA IdleType == Idle \in Request /\ Idle.by = NoUser
  BY DEF Idle, Request, Kinds, Roles

\* A step of a request under way may change its phase, or end it.
LEMMA PhaseKeeps ==
  ASSUME IInv, NEW s \in Slots, UNCHANGED <<users, operators, sent>>,
         \/ requests' = [requests EXCEPT ![s] = Idle]
         \/ \E phase \in {"checked", "inserting"} :
              requests' = [requests EXCEPT ![s] = [requests[s] EXCEPT !.phase = phase]]
  PROVE  IInv'
  <1> USE DEF IInv
  <1>1. TypeOK'
    <2>1. CASE requests' = [requests EXCEPT ![s] = Idle]
      BY <2>1, IdleType DEF TypeOK
    <2>2. ASSUME NEW phase \in {"checked", "inserting"},
                 requests' = [requests EXCEPT ![s] = [requests[s] EXCEPT !.phase = phase]]
          PROVE  TypeOK'
      <3>1. [requests[s] EXCEPT !.phase = phase] \in Request
        BY DEF TypeOK, Request
      <3> QED
        BY <2>2, <3>1 DEF TypeOK
    <2> QED
      BY <2>1, <2>2
  <1>2. EmailsIdentifyAccounts'
    BY DEF EmailsIdentifyAccounts, Live
  <1>3. ASSUME NEW t \in Slots
        PROVE  \/ requests'[t] = Idle
               \/ /\ requests'[t].by = requests[t].by
                  /\ requests'[t].role = requests[t].role
                  /\ requests'[t].operatorId = requests[t].operatorId
                  /\ requests'[t].reach = requests[t].reach
                  /\ requests'[t].linked = requests[t].linked
                  /\ requests'[t].crosses = requests[t].crosses
    <2>1. requests[t] \in Request /\ requests[s] \in Request
      BY DEF TypeOK
    <2> QED
      BY <2>1 DEF TypeOK, Request
  <1>4. CopiesHold'
    BY <1>3, IdleType DEF CopiesHold
  <1> QED
    BY <1>1, <1>2, <1>4

\* A write ends its request and changes accounts in one of three ways: not at all, one
\* that lives on, or one that is born; company and e-mail of the others stay.
LEMMA WriteKeeps ==
  ASSUME IInv, NEW s \in Slots, Finish(s), operators' \in [Operators -> Statuses],
         UNCHANGED sent,
         \/ UNCHANGED users
         \/ \E u \in Users, account \in User :
              /\ users' = [users EXCEPT ![u] = account]
              /\ account.state # "unborn"
              /\ users[u].state # "unborn" => account.operatorId = users[u].operatorId
              /\ account.state = "live" =>
                   \A v \in Users \ {u} : Live(v) => users[v].email # account.email
  PROVE  IInv'
  <1> USE DEF IInv
  <1>1. requests' \in [Slots -> Request]
    BY IdleType DEF TypeOK, Finish
  <1>2. \A t \in Slots : requests'[t] = requests[t] \/ requests'[t].by = NoUser
    BY IdleType DEF TypeOK, Finish
  <1>3. CASE UNCHANGED users
    <2>1. TypeOK' /\ EmailsIdentifyAccounts'
      BY <1>1, <1>3 DEF TypeOK, EmailsIdentifyAccounts, Live
    <2>2. CopiesHold'
      BY <1>2, <1>3 DEF CopiesHold
    <2> QED
      BY <2>1, <2>2
  <1>4. ASSUME NEW u \in Users, NEW account \in User,
               users' = [users EXCEPT ![u] = account], account.state # "unborn",
               users[u].state # "unborn" => account.operatorId = users[u].operatorId,
               account.state = "live" =>
                 \A v \in Users \ {u} : Live(v) => users[v].email # account.email
        PROVE  IInv'
    <2>1. TypeOK'
      BY <1>1, <1>4 DEF TypeOK
    <2>2. EmailsIdentifyAccounts'
      BY <1>4 DEF EmailsIdentifyAccounts, Live, TypeOK
    <2>3. CopiesHold'
      BY <1>2, <1>4 DEF CopiesHold, TypeOK
    <2> QED
      BY <2>1, <2>2, <2>3
  <1> QED
    BY <1>3, <1>4

\* INSERT INTO "User" of a typed account is such a change.
LEMMA InsertKeeps ==
  ASSUME IInv, NEW s \in Slots, Finish(s), UNCHANGED <<operators, sent>>,
         NEW account \in User, account.state = "live", Insert(account)
  PROVE  IInv'
  <1>1. \/ UNCHANGED users
        \/ \E u \in Users : /\ users' = [users EXCEPT ![u] = account]
                            /\ users[u].state = "unborn"
                            /\ EmailFree(account.email)
    BY DEF Insert
  <1>2. operators' \in [Operators -> Statuses]
    BY DEF IInv, TypeOK
  <1> QED
    BY <1>1, <1>2, WriteKeeps DEF EmailFree

LEMMA AccountType ==
  ASSUME NEW email \in Emails \cup {NoEmail}, NEW role \in Roles,
         NEW o \in Operators \cup {NoOperator}
  PROVE  Account(email, role, o) \in User /\ Account(email, role, o).state = "live"
  BY DEF Account, User

LEMMA WriteStepKeeps ==
  ASSUME IInv, NEW s \in Slots, Write(s)
  PROVE  IInv'
  <1> DEFINE q == requests[s]
  <1>t. /\ q \in Request /\ q.email \in Emails \cup {NoEmail}
        /\ q.company \in Operators \cup {NoOperator} /\ q.newRole \in Roles
        /\ "USER" \in Roles /\ "STAFF" \in Roles /\ "OPERATOR" \in Roles
        /\ NoOperator \in Operators \cup {NoOperator}
        /\ operators \in [Operators -> Statuses]
    BY DEF IInv, TypeOK, Request, Roles
  <1>1. CASE WriteRegister(s)
    BY <1>1, <1>t, AccountType, InsertKeeps DEF WriteRegister
  <1>2. CASE WriteCreateStaff(s)
    BY <1>2, <1>t, AccountType, InsertKeeps DEF WriteCreateStaff
  <1>3. CASE WriteUpdateStaff(s)
    <2>1. CASE UNCHANGED users
      BY <1>3, <1>t, <2>1, WriteKeeps DEF WriteUpdateStaff
    <2>2. CASE users' # users
      <3> DEFINE u == q.target
                 account == [users[u] EXCEPT !.email = q.email]
      <3>1. /\ Live(u) /\ users' = [users EXCEPT ![u] = account]
            /\ \A v \in Users \ {u} : Live(v) => users[v].email # q.email
        BY <1>3, <2>2 DEF WriteUpdateStaff, Update
      <3>2. u \in Users /\ users[u] \in User
        BY <3>1 DEF Live, IInv, TypeOK
      <3>3. /\ account \in User /\ account.state = users[u].state
            /\ account.operatorId = users[u].operatorId /\ account.email = q.email
        BY <1>t, <3>2 DEF User
      <3>4. users[u].state = "live"
        BY <3>1 DEF Live
      <3>5. Finish(s) /\ UNCHANGED <<operators, sent>>
        BY <1>3 DEF WriteUpdateStaff
      <3>6. users[u].state # "unborn" /\ account.state # "unborn"
        BY <3>2, <3>3, <3>4
      <3> HIDE DEF account, u
      <3>7. \E v \in Users, a \in User :
              /\ users' = [users EXCEPT ![v] = a]
              /\ a.state # "unborn"
              /\ users[v].state # "unborn" => a.operatorId = users[v].operatorId
              /\ a.state = "live" =>
                   \A w \in Users \ {v} : Live(w) => users[w].email # a.email
        <4>1. \A w \in Users \ {u} : Live(w) => users[w].email # account.email
          BY <3>1, <3>3
        <4>2. users' = [users EXCEPT ![u] = account]
          BY <3>1
        <4>3. account.operatorId = users[u].operatorId /\ account \in User /\ u \in Users
          BY <3>2, <3>3
        <4> QED
          BY <3>6, <4>1, <4>2, <4>3, Zenon
      <3>8. operators' \in [Operators -> Statuses] /\ UNCHANGED sent
        BY <1>t, <3>5
      <3> QED
        BY <3>5, <3>7, <3>8, WriteKeeps
    <2> QED
      BY <2>1, <2>2
  <1>4. CASE WriteDelete(s)
    <2>1. CASE UNCHANGED users
      BY <1>4, <1>t, <2>1, WriteKeeps DEF WriteDelete
    <2>2. CASE users' # users
      <3> DEFINE u == q.target
                 account == [users[u] EXCEPT !.state = "gone", !.email = NoEmail]
      <3>1. Live(u) /\ users' = [users EXCEPT ![u] = account]
        BY <1>4, <2>2 DEF WriteDelete, Update
      <3>2. u \in Users /\ users[u] \in User
        BY <3>1 DEF Live, IInv, TypeOK
      <3>3. /\ account \in User /\ account.state = "gone"
            /\ account.operatorId = users[u].operatorId
        BY <3>2 DEF User
      <3> QED
        BY <1>4, <1>t, <3>1, <3>2, <3>3, WriteKeeps DEF WriteDelete
    <2> QED
      BY <2>1, <2>2
  <1>5. CASE WriteRole(s)
    <2>1. CASE UNCHANGED users
      BY <1>5, <1>t, <2>1, WriteKeeps DEF WriteRole
    <2>2. CASE users' # users
      <3> DEFINE u == q.target
                 account == [users[u] EXCEPT !.role = q.newRole]
      <3>1. Live(u) /\ users' = [users EXCEPT ![u] = account]
        BY <1>5, <2>2 DEF WriteRole, Update
      <3>2. u \in Users /\ users[u] \in User /\ users[u].state = "live"
        BY <3>1 DEF Live, IInv, TypeOK
      <3>3. /\ account \in User /\ account.state = "live"
            /\ account.operatorId = users[u].operatorId
            /\ account.email = users[u].email
        BY <1>t, <3>2 DEF User
      <3>4. \A v \in Users \ {u} : Live(v) => users[v].email # account.email
        BY <3>1, <3>2, <3>3 DEF IInv, EmailsIdentifyAccounts
      <3>5. Finish(s) /\ UNCHANGED <<operators, sent>>
        BY <1>5 DEF WriteRole
      <3>6. users[u].state # "unborn" /\ account.state # "unborn"
        BY <3>2, <3>3
      <3> HIDE DEF account
      <3> QED
        BY <1>t, <3>1, <3>2, <3>3, <3>4, <3>5, <3>6, WriteKeeps, ZenonT(60)
    <2> QED
      BY <2>1, <2>2
  <1>6. CASE WriteStatus(s)
    <2>1. operators' \in [Operators -> Statuses]
      BY <1>6, <1>t DEF WriteStatus, Statuses
    <2> QED
      BY <1>6, <2>1, WriteKeeps DEF WriteStatus
  <1>7. CASE WriteOperator(s)
    <2>1. operators' \in [Operators -> Statuses]
      BY <1>7, <1>t DEF WriteOperator, Statuses
    <2>2. CASE requests' = [requests EXCEPT ![s] = Idle]
      BY <1>7, <2>1, <2>2, WriteKeeps DEF WriteOperator, Finish
    <2>3. CASE requests' = [requests EXCEPT ![s] = [q EXCEPT !.phase = "inserting"]]
      <3>1. [q EXCEPT !.phase = "inserting"] \in Request
        BY <1>t DEF Request
      <3>2. \A t \in Slots : /\ requests'[t].by = requests[t].by
                              /\ requests'[t].role = requests[t].role
                              /\ requests'[t].operatorId = requests[t].operatorId
                              /\ requests'[t].reach = requests[t].reach
                              /\ requests'[t].linked = requests[t].linked
                              /\ requests'[t].crosses = requests[t].crosses
        BY <1>t, <2>3 DEF Request, IInv, TypeOK
      <3>3. TypeOK' /\ EmailsIdentifyAccounts'
        BY <1>7, <2>1, <2>3, <3>1
           DEF WriteOperator, IInv, TypeOK, EmailsIdentifyAccounts, Live
      <3>4. CopiesHold'
        BY <1>7, <3>2 DEF WriteOperator, IInv, CopiesHold
      <3> QED
        BY <3>3, <3>4 DEF IInv
    <2> QED
      BY <1>7, <2>2, <2>3 DEF WriteOperator
  <1>8. CASE WriteOperatorAdmin(s)
    BY <1>8, <1>t, AccountType, InsertKeeps DEF WriteOperatorAdmin
  <1>9. CASE Respond(s)
    BY <1>9, <1>t, WriteKeeps DEF Respond
  <1> QED
    BY <1>1, <1>2, <1>3, <1>4, <1>5, <1>6, <1>7, <1>8, <1>9 DEF Write

LEMMA StepKeeps == IInv /\ [Next]_vars => IInv'
  <1> SUFFICES ASSUME IInv, [Next]_vars PROVE IInv'
    OBVIOUS
  <1>1. CASE Crash
    BY <1>1, IdleType
       DEF Crash, IInv, TypeOK, EmailsIdentifyAccounts, CopiesHold, Live
  <1>2. ASSUME NEW s \in Slots, Check(s)
        PROVE  IInv'
    BY <1>2, PhaseKeeps DEF Check
  <1>3. CASE UNCHANGED vars
    BY <1>3 DEF vars, IInv, TypeOK, EmailsIdentifyAccounts, CopiesHold, Live
  <1> QED
    BY <1>1, <1>2, <1>3, ReceiveKeeps, WriteStepKeeps DEF Next

LEMMA InitHolds == Init => IInv
  <1> SUFFICES ASSUME Init PROVE IInv
    OBVIOUS
  <1>1. users \in [Users -> User]
    <2>1. Unborn \in User
      BY DEF Unborn, User, Roles
    <2>2. \A email \in Emails, role \in Roles, o \in {NoOperator, FirstCompany} :
            Account(email, role, o) \in User
      BY AccountType
    <2> QED
      BY <2>1, <2>2 DEF Init
  <1>2. TypeOK
    BY <1>1, IdleType DEF Init, TypeOK, Statuses
  <1>3. CopiesHold
    BY IdleType DEF Init, CopiesHold
  <1> QED
    BY <1>2, <1>3 DEF Init, IInv

-----------------------------------------------------------------------------
LEMMA Invariance == Spec => []IInv
  BY InitHolds, StepKeeps, PTL DEF Spec

\* Rows and requests keep their types (the tables User and Operator).
THEOREM AccountsTypeCorrect == Spec => []TypeOK
  BY Invariance, PTL DEF IInv

\* No two accounts share an e-mail, however requests race for it (register, createStaff,
\* updateStaff, OperatorsService.create).
THEOREM EmailsAreUnique == Spec => []EmailsIdentifyAccounts
  BY Invariance, PTL DEF IInv

\* A request that is not an ADMIN's touches its account's own company only, besides the
\* statistics by id and the bus and route it puts a trip on; decided on a copy of the
\* row and still true when it is carried out (TenantScopeService, TripsService).
THEOREM KeptApart == Spec => []CompaniesAreKeptApart
  <1>1. IInv => CompaniesAreKeptApart
    BY DEF IInv, CopiesHold, CompaniesAreKeptApart
  <1> QED
    BY <1>1, Invariance, PTL

-----------------------------------------------------------------------------
(* A company that has lost every account.                                  *)

\* No group but the staff endpoints has a handler of this name.
LEMMA StaffIsCreatedByStaffEndpoints ==
  \A e \in OverviewEndpoints \cup UserEndpoints \cup BookingEndpoints \cup PointEndpoints
           \cup MoneyEndpoints \cup BusEndpoints \cup RouteEndpoints \cup TripEndpoints
           \cup OperatorEndpoints \cup {OperatorStats} : e.name # "createStaff"
  <1>1. \A e \in OverviewEndpoints \cup UserEndpoints \cup OperatorEndpoints
                 \cup {OperatorStats} : e.name # "createStaff"
    BY DEF OverviewEndpoints, UserEndpoints, OperatorEndpoints, OperatorStats,
           Endpoint, Fixed
  <1>2. \A e \in BookingEndpoints : e.name # "createStaff"
    BY DEF BookingEndpoints, Endpoint, Asked, Fixed
  <1>3. \A e \in PointEndpoints : e.name # "createStaff"
    BY DEF PointEndpoints, Endpoint, Asked, Fixed
  <1>4. \A e \in MoneyEndpoints \cup BusEndpoints : e.name # "createStaff"
    BY DEF MoneyEndpoints, BusEndpoints, Endpoint, Asked, Fixed
  <1>5. \A e \in RouteEndpoints \cup TripEndpoints : e.name # "createStaff"
    BY DEF RouteEndpoints, TripEndpoints, Endpoint, Asked, Fixed
  <1> QED
    BY <1>1, <1>2, <1>3, <1>4, <1>5

\* The ADMIN may look at the staff of a company and not add to it.
LEMMA AdminAddsNoStaff ==
  ASSUME NEW e \in Admitted["ADMIN"]
  PROVE  e.name # "createStaff"
  <1>1. e \in Endpoints /\ Admits(e, "ADMIN")
    BY DEF Admitted, Roles
  <1>2. CASE e \in DashboardEndpoints \ StaffEndpoints
    BY <1>2, StaffIsCreatedByStaffEndpoints DEF DashboardEndpoints
  <1>3. CASE e \in StaffEndpoints
    <2>1. e.name = "createStaff" => e.needs = {"MANAGE_STAFF"}
      BY <1>3 DEF StaffEndpoints, Endpoint
    <2>2. "MANAGE_STAFF" \notin RolePermissions("ADMIN")
      BY DEF RolePermissions, PlatformAdminPermissions
    <2> QED
      BY <1>1, <2>1, <2>2 DEF Admits
  <1>4. CASE e \in OperatorAlias \cup StaffAlias
    <2>1. e.roles = {"OPERATOR"} \/ e.roles = {"STAFF"}
      BY <1>4 DEF OperatorAlias, StaffAlias, Alias
    <2> QED
      BY <1>1, <2>1 DEF Admits
  <1>5. CASE e \in AdminDesk \cup AdminFleet
    BY <1>5, StaffIsCreatedByStaffEndpoints
       DEF AdminDesk, AdminFleet, Alias, Except
  <1>6. CASE e \in AdminUsers \cup AdminBuses \cup AdminTrips \cup AdminCreates
    BY <1>6 DEF AdminUsers, AdminBuses, AdminTrips, AdminCreates, AdminOnly
  <1> QED
    BY <1>1, <1>2, <1>3, <1>4, <1>5, <1>6 DEF Endpoints, AdminEndpoints

\* Staff are added to the company of a live account that is not an ADMIN's.
LEMMA StaffJoinTheCallersCompany ==
  ASSUME TypeOK, NEW u \in Users, NEW o \in CompaniesOf(u, "createStaff")
  PROVE  users[u].operatorId = o
  <1>1. "createStaff" # OperatorStats.name
    BY DEF OperatorStats, Fixed, Endpoint
  <1>2. CASE users[u].role = "ADMIN"
    BY <1>2, AdminAddsNoStaff DEF CompaniesOf
  <1>3. CASE users[u].role # "ADMIN"
    BY <1>1, <1>3, CompaniesOfOwn
  <1> QED
    BY <1>2, <1>3

\* Sending a request that would not add staff to a lost company leaves it lost.
LEMMA SendLeavesLost ==
  ASSUME TypeOK, NEW o \in Operators, Lost(o), NEW s \in Slots, NEW q, Send(s, q),
         q.phase = "admitted", q.kind = "createStaff" => q.company # o
  PROVE  Lost(o)'
  <1>1. \A t \in Slots : requests'[t] = IF t = s THEN q ELSE requests[t]
    BY DEF Send, TypeOK
  <1> QED
    BY <1>1 DEF Send, Lost, Live

\* Every request but createStaff leaves the company as it is.
LEMMA ReceiveLeavesLost ==
  ASSUME TypeOK, NEW o \in Operators, Lost(o), NEW s \in Slots, Receive(s)
  PROVE  Lost(o)'
  <1>1. ASSUME NEW email \in Emails, Register(s, email)
        PROVE  Lost(o)'
    BY <1>1, SendLeavesLost DEF Register, Anonymous, Call
  <1>2. ASSUME NEW u \in Users, NEW c \in Operators, NEW email \in Emails,
               CreateStaff(s, u, c, email)
        PROVE  Lost(o)'
    <2> DEFINE q == [As(u, "createStaff") EXCEPT !.reach = {c}, !.company = c,
                                                 !.email = email]
    <2>1. users[u].operatorId = c /\ Live(u)
      BY <1>2, StaffJoinTheCallersCompany DEF CreateStaff
    <2>2. c # o
      BY <2>1 DEF Lost
    <2>3. q.phase = "admitted" /\ q.company = c
      BY DEF As, Call
    <2>4. Send(s, q)
      BY <1>2 DEF CreateStaff
    <2> HIDE DEF q
    <2> QED
      BY <2>2, <2>3, <2>4, SendLeavesLost
  <1>3. ASSUME NEW q, Send(s, q), q.phase = "admitted", q.kind # "createStaff"
        PROVE  Lost(o)'
    BY <1>3, SendLeavesLost
  <1>4. ASSUME NEW u \in Users, DeleteAccount(s, u)
        PROVE  Lost(o)'
    BY <1>4, <1>3 DEF DeleteAccount, As, Call
  <1>5. ASSUME NEW u \in Users, NEW target \in Users, NEW role \in Roles,
               ChangeRole(s, u, target, role)
        PROVE  Lost(o)'
    BY <1>5, <1>3 DEF ChangeRole, As, Call
  <1>6. ASSUME NEW u \in Users, NEW c \in Operators, NEW kind \in {"suspend", "activate"},
               SetStatus(s, u, c, kind)
        PROVE  Lost(o)'
    BY <1>6, <1>3 DEF SetStatus, As, Call
  <1>7. ASSUME NEW u \in Users, NEW c \in Operators, NEW email \in Emails \cup {NoEmail},
               CreateOperator(s, u, c, email)
        PROVE  Lost(o)'
    BY <1>7, <1>3 DEF CreateOperator, As, Call
  <1>8. ASSUME NEW u \in Users, NEW c \in Operators, NEW target \in Users,
               DeleteStaff(s, u, c, target)
        PROVE  Lost(o)'
    BY <1>8, <1>3 DEF DeleteStaff, As, Call
  <1>9. ASSUME NEW u \in Users, NEW c \in Operators, NEW target \in Users,
               NEW email \in Emails, UpdateStaff(s, u, c, target, email)
        PROVE  Lost(o)'
    BY <1>9, <1>3 DEF UpdateStaff, As, Call
  <1>10. ASSUME NEW u \in Users, NEW rule \in Rules[users[u].role],
                NEW asked \in Operators \cup {NoOperator}, NEW c \in Operators,
                NEW linked \in rule.links, Serve(s, u, rule, asked, c, linked)
         PROVE  Lost(o)'
    BY <1>10, <1>3 DEF Serve, As, Call
  <1> QED
    BY <1>1, <1>2, <1>4, <1>5, <1>6, <1>7, <1>8, <1>9, <1>10 DEF Receive

\* The end of a request leaves a company lost if the account it wrote is not of it.
LEMMA FinishLeavesLost ==
  ASSUME TypeOK, NEW o \in Operators, Lost(o), NEW s \in Slots, Finish(s),
         operators'[o] # "none",
         \/ UNCHANGED users
         \/ \E u \in Users : \E account :
              /\ users' = [users EXCEPT ![u] = account]
              /\ account.state = "live" => account.operatorId # o
  PROVE  Lost(o)'
  <1>1. \A u \in Users : Live(u)' => users'[u].operatorId # o
    BY DEF Lost, Live, TypeOK
  <1>2. \A t \in Slots : requests'[t] = IF t = s THEN Idle ELSE requests[t]
    BY DEF Finish, TypeOK
  <1>3. Idle.phase = "idle"
    BY DEF Idle
  <1> QED
    BY <1>1, <1>2, <1>3 DEF Lost

LEMMA InsertLeavesLost ==
  ASSUME TypeOK, NEW o \in Operators, Lost(o), NEW s \in Slots, Finish(s),
         UNCHANGED operators, NEW email, NEW role, NEW c, c # o,
         Insert(Account(email, role, c))
  PROVE  Lost(o)'
  <1>1. Account(email, role, c).operatorId # o
    BY DEF Account
  <1>2. operators'[o] # "none"
    BY DEF Lost
  <1> QED
    BY <1>1, <1>2, FinishLeavesLost DEF Insert

LEMMA UpdateLeavesLost ==
  ASSUME TypeOK, NEW o \in Operators, Lost(o), NEW s \in Slots, Finish(s),
         UNCHANGED operators, NEW u, NEW account, Update(u, account),
         account.operatorId = users[u].operatorId
  PROVE  Lost(o)'
  <1>1. operators'[o] # "none"
    BY DEF Lost
  <1>2. Live(u) => u \in Users /\ account.operatorId # o
    BY DEF Lost, Live
  <1> QED
    BY <1>1, <1>2, FinishLeavesLost DEF Update

LEMMA WriteLeavesLost ==
  ASSUME TypeOK, NEW o \in Operators, Lost(o), NEW s \in Slots, Write(s)
  PROVE  Lost(o)'
  <1> DEFINE q == requests[s]
  <1>t. q \in Request /\ NoOperator # o /\ o \in Operators
    BY DEF TypeOK, Request
  <1>1. CASE WriteRegister(s)
    BY <1>1, <1>t, InsertLeavesLost DEF WriteRegister
  <1>2. CASE WriteCreateStaff(s)
    <2>1. q.company # o
      BY <1>2 DEF WriteCreateStaff, Checked, Lost
    <2> QED
      BY <1>2, <2>1, InsertLeavesLost DEF WriteCreateStaff
  <1>3. CASE WriteUpdateStaff(s)
    <2>1. operators'[o] # "none" /\ Finish(s) /\ UNCHANGED operators
      BY <1>3 DEF WriteUpdateStaff, Lost
    <2>2. CASE UNCHANGED users
      BY <2>1, <2>2, FinishLeavesLost
    <2>3. CASE Live(q.target)
               /\ Update(q.target, [users[q.target] EXCEPT !.email = q.email])
      <3>1. users[q.target] \in User
        BY <2>3 DEF Live, TypeOK
      <3>2. [users[q.target] EXCEPT !.email = q.email].operatorId
              = users[q.target].operatorId
        BY <3>1 DEF User
      <3> QED
        BY <2>1, <2>3, <3>2, UpdateLeavesLost
    <2> QED
      BY <1>3, <2>2, <2>3 DEF WriteUpdateStaff, Update
  <1>4. CASE WriteDelete(s)
    <2>1. operators'[o] # "none" /\ Finish(s) /\ UNCHANGED operators
      BY <1>4 DEF WriteDelete, Lost
    <2>2. CASE UNCHANGED users
      BY <2>1, <2>2, FinishLeavesLost
    <2> DEFINE account == [users[q.target] EXCEPT !.state = "gone", !.email = NoEmail]
    <2>3. CASE Live(q.target) /\ Update(q.target, account)
      <3>1. users[q.target] \in User
        BY <2>3 DEF Live, TypeOK
      <3>2. account.operatorId = users[q.target].operatorId
        BY <3>1 DEF User
      <3> HIDE DEF account
      <3> QED
        BY <2>1, <2>3, <3>2, UpdateLeavesLost
    <2> QED
      BY <1>4, <2>2, <2>3 DEF WriteDelete, Update
  <1>5. CASE WriteRole(s)
    <2>1. operators'[o] # "none" /\ Finish(s) /\ UNCHANGED operators
      BY <1>5 DEF WriteRole, Lost
    <2>2. CASE UNCHANGED users
      BY <2>1, <2>2, FinishLeavesLost
    <2> DEFINE account == [users[q.target] EXCEPT !.role = q.newRole]
    <2>3. CASE Live(q.target) /\ Update(q.target, account)
      <3>1. users[q.target] \in User
        BY <2>3 DEF Live, TypeOK
      <3>2. account.operatorId = users[q.target].operatorId
        BY <3>1 DEF User
      <3> HIDE DEF account
      <3> QED
        BY <2>1, <2>3, <3>2, UpdateLeavesLost
    <2> QED
      BY <1>5, <2>2, <2>3 DEF WriteRole, Update
  <1>6. CASE WriteStatus(s)
    <2>1. operators'[o] # "none"
      BY <1>6 DEF WriteStatus, Lost, TypeOK
    <2> QED
      BY <1>6, <2>1, FinishLeavesLost DEF WriteStatus
  <1>7. CASE WriteOperator(s)
    \* The company exists, so it is not the one created here.
    <2>1. operators[q.company] = "none" => q.company # o
      BY DEF Lost
    <2>2. operators'[o] # "none"
      BY <1>7, <2>1 DEF WriteOperator, Lost, TypeOK
    <2>3. CASE requests' = [requests EXCEPT ![s] = Idle]
      BY <1>7, <2>2, <2>3, FinishLeavesLost DEF WriteOperator, Finish
    <2>4. CASE operators[q.company] = "none"
               /\ requests' = [requests EXCEPT ![s] = [q EXCEPT !.phase = "inserting"]]
      <3>1. /\ [q EXCEPT !.phase = "inserting"].company = q.company
            /\ [q EXCEPT !.phase = "inserting"].kind = q.kind
        BY <1>t DEF Request
      <3>2. \A t \in Slots : requests'[t] = IF t = s THEN [q EXCEPT !.phase = "inserting"]
                                            ELSE requests[t]
        BY <2>4 DEF TypeOK
      <3>3. UNCHANGED users
        BY <1>7 DEF WriteOperator
      <3> QED
        BY <2>1, <2>2, <2>4, <3>1, <3>2, <3>3 DEF Lost, Live
    <2> QED
      BY <1>7, <2>3, <2>4 DEF WriteOperator
  <1>8. CASE WriteOperatorAdmin(s)
    <2>1. q.company # o
      BY <1>8 DEF WriteOperatorAdmin, Lost
    <2> QED
      BY <1>8, <2>1, InsertLeavesLost DEF WriteOperatorAdmin
  <1>9. CASE Respond(s)
    BY <1>9, FinishLeavesLost DEF Respond, Lost
  <1> QED
    BY <1>1, <1>2, <1>3, <1>4, <1>5, <1>6, <1>7, <1>8, <1>9 DEF Write

LEMMA StepLeavesLost ==
  ASSUME TypeOK, NEW o \in Operators, Lost(o), [Next]_vars
  PROVE  Lost(o)'
  <1>1. CASE Crash
    <2>1. Idle.phase = "idle" /\ \A s \in Slots : requests'[s] = Idle
      BY <1>1 DEF Crash, Idle
    <2> QED
      BY <1>1, <2>1 DEF Crash, Lost, Live
  <1>2. ASSUME NEW s \in Slots, Check(s)
        PROVE  Lost(o)'
    <2> DEFINE r == requests[s]
    <2>1. \A t \in Slots : \/ requests'[t] = requests[t]
                           \/ requests'[t].phase = "idle"
                           \/ /\ requests[t].phase = "admitted"
                              /\ requests'[t].phase = "checked"
                              /\ requests'[t].kind = requests[t].kind
                              /\ requests'[t].company = requests[t].company
      <3>1. r \in Request
        BY DEF TypeOK
      <3>2. /\ [r EXCEPT !.phase = "checked"].phase = "checked"
            /\ [r EXCEPT !.phase = "checked"].kind = r.kind
            /\ [r EXCEPT !.phase = "checked"].company = r.company
            /\ Idle.phase = "idle"
        BY <3>1 DEF Request, Idle
      <3>3. /\ requests'[s] \in {Idle, [r EXCEPT !.phase = "checked"]}
            /\ r.phase = "admitted"
            /\ \A t \in Slots \ {s} : requests'[t] = requests[t]
        BY <1>2 DEF Check, TypeOK
      <3> QED
        BY <3>2, <3>3
    <2> QED
      BY <1>2, <2>1 DEF Check, Lost, Live
  <1>3. CASE UNCHANGED vars
    BY <1>3 DEF vars, Lost, Live
  <1> QED
    BY <1>1, <1>2, <1>3, ReceiveLeavesLost, WriteLeavesLost DEF Next

\* A company without accounts stays without: it exists, so it is not created anew, and
\* staff are added by an account it does not have (OperatorsService.create,
\* TenantScopeService.requireEffectiveOperatorId).
THEOREM LostStayLost == Spec => LostCompaniesStayLost
  <1>1. TypeOK /\ [Next]_vars => [\A o \in Operators : Lost(o) => Lost(o)']_vars
    <2> SUFFICES ASSUME TypeOK, [Next]_vars, NEW o \in Operators, Lost(o)
                 PROVE  Lost(o)'
      OBVIOUS
    <2> QED
      BY StepLeavesLost
  <1> QED
    BY <1>1, AccountsTypeCorrect, PTL DEF Spec, LostCompaniesStayLost

-----------------------------------------------------------------------------
(* The last administrator.                                                 *)

\* A change of role past its check is no administrator's own demotion.
NoOwnDemotion ==
  \A s \in Slots :
    LET q == requests[s]
    IN q.phase = "checked" /\ q.kind = "changeRole"
         => ~(q.target = q.by /\ q.newRole # "ADMIN")

\* A request arrives with nothing decided yet.
LEMMA ReceiveSends ==
  ASSUME NEW s \in Slots, Receive(s)
  PROVE  \E q : Send(s, q) /\ q.phase = "admitted"
  <1> DEFINE Sent == \E q : Send(s, q) /\ q.phase = "admitted"
  <1>1. ASSUME NEW q, Send(s, q), q.phase = "admitted"
        PROVE  Sent
    BY <1>1
  <1>2. ASSUME NEW email \in Emails, Register(s, email)
        PROVE  Sent
    BY <1>2, <1>1 DEF Register, Anonymous, Call
  <1>3. ASSUME NEW u \in Users, DeleteAccount(s, u)
        PROVE  Sent
    BY <1>3, <1>1 DEF DeleteAccount, As, Call
  <1>4. ASSUME NEW u \in Users, NEW target \in Users, NEW role \in Roles,
               ChangeRole(s, u, target, role)
        PROVE  Sent
    BY <1>4, <1>1 DEF ChangeRole, As, Call
  <1>5. ASSUME NEW u \in Users, NEW o \in Operators,
               \/ \E kind \in {"suspend", "activate"} : SetStatus(s, u, o, kind)
               \/ \E email \in Emails \cup {NoEmail} : CreateOperator(s, u, o, email)
        PROVE  Sent
    BY <1>5, <1>1 DEF SetStatus, CreateOperator, As, Call
  <1>6. ASSUME NEW u \in Users, NEW o \in Operators, NEW target \in Users,
               NEW email \in Emails,
               \/ CreateStaff(s, u, o, email)
               \/ DeleteStaff(s, u, o, target)
               \/ UpdateStaff(s, u, o, target, email)
        PROVE  Sent
    BY <1>6, <1>1 DEF CreateStaff, DeleteStaff, UpdateStaff, As, Call
  <1>7. ASSUME NEW u \in Users, NEW rule \in Rules[users[u].role],
               NEW asked \in Operators \cup {NoOperator}, NEW o \in Operators,
               NEW linked \in rule.links, Serve(s, u, rule, asked, o, linked)
        PROVE  Sent
    BY <1>7, <1>1 DEF Serve, As, Call
  <1> QED
    BY <1>2, <1>3, <1>4, <1>5, <1>6, <1>7, AccountsAssumption DEF Receive

\* Only the check lets a request past.
LEMMA DemotionStepKeeps ==
  TypeOK /\ NoOwnDemotion /\ [Next]_vars => NoOwnDemotion'
  <1> SUFFICES ASSUME TypeOK, NoOwnDemotion, [Next]_vars, NEW t \in Slots
               PROVE  LET q == requests'[t]
                      IN q.phase = "checked" /\ q.kind = "changeRole"
                           => ~(q.target = q.by /\ q.newRole # "ADMIN")
    BY DEF NoOwnDemotion
  <1>i. Idle.phase = "idle"
    BY DEF Idle
  <1>1. CASE Crash
    BY <1>1, <1>i DEF Crash
  <1>2. ASSUME NEW s \in Slots, Receive(s)
        PROVE  requests'[t] = requests[t] \/ requests'[t].phase = "admitted"
    BY <1>2, ReceiveSends DEF Send, TypeOK
  <1>3. ASSUME NEW s \in Slots, Check(s)
        PROVE  LET q == requests'[t]
               IN q.phase = "checked" /\ q.kind = "changeRole"
                    => ~(q.target = q.by /\ q.newRole # "ADMIN")
    <2> DEFINE r == requests[s]
               p == [r EXCEPT !.phase = "checked"]
    <2>1. r \in Request
      BY DEF TypeOK
    <2>2. /\ p.kind = r.kind /\ p.target = r.target /\ p.by = r.by
          /\ p.newRole = r.newRole
      BY <2>1 DEF Request
    <2>3. CASE t # s
      <3>1. requests'[t] = requests[t]
        BY <1>3, <2>3 DEF Check, TypeOK
      <3> QED
        BY <3>1 DEF NoOwnDemotion
    <2>4. CASE t = s /\ Accepts(r)
      <3>1. requests'[t] = p
        BY <1>3, <2>4 DEF Check, TypeOK
      <3>2. r.kind = "changeRole" => ~(r.target = r.by /\ r.newRole # "ADMIN")
        BY <2>4 DEF Accepts
      <3> QED
        BY <2>2, <3>1, <3>2
    <2>5. CASE t = s /\ ~Accepts(r)
      BY <1>3, <1>i, <2>5 DEF Check, TypeOK
    <2> QED
      BY <2>3, <2>4, <2>5
  <1>4. ASSUME NEW s \in Slots, Write(s)
        PROVE  requests'[t] = requests[t] \/ requests'[t].phase \in {"idle", "inserting"}
    <2>1. CASE Finish(s)
      BY <2>1, <1>i DEF Finish, TypeOK
    <2>2. CASE WriteOperator(s)
      <3>1. requests[s] \in Request
        BY DEF TypeOK
      <3>2. [requests[s] EXCEPT !.phase = "inserting"].phase = "inserting"
        BY <3>1 DEF Request
      <3> QED
        BY <2>2, <3>2, <1>i DEF WriteOperator, TypeOK
    <2> QED
      BY <1>4, <2>1, <2>2
         DEF Write, WriteRegister, WriteCreateStaff, WriteUpdateStaff, WriteDelete,
             WriteRole, WriteStatus, WriteOperatorAdmin, Respond
  <1>5. CASE requests'[t] = requests[t] \/ requests'[t].phase # "checked"
    BY <1>5 DEF NoOwnDemotion
  <1>6. CASE UNCHANGED vars
    BY <1>6, <1>5 DEF vars
  <1> QED
    BY <1>1, <1>2, <1>3, <1>4, <1>5, <1>6 DEF Next

LEMMA OwnDemotionsAreRefused == Spec => []NoOwnDemotion
  <1>1. Init => NoOwnDemotion
    <2>1. Idle.phase = "idle"
      BY DEF Idle
    <2> QED
      BY <2>1 DEF Init, NoOwnDemotion
  <1> QED
    BY <1>1, DemotionStepKeeps, AccountsTypeCorrect, PTL DEF Spec

\* Who is an administrator changes for the one account that is written.
LEMMA OneAdminAtATime ==
  ASSUME TypeOK, NEW u, NEW account, Update(u, account)
  PROVE  /\ Admins \ {u} \subseteq Admins'
         /\ account.state = "live" /\ account.role = "ADMIN" => Admins \subseteq Admins'
  BY DEF Admins, Update, Live, TypeOK

\* An account that is born takes nobody's place.
LEMMA InsertKeepsAdmins ==
  ASSUME TypeOK, NEW account, Insert(account)
  PROVE  Admins \subseteq Admins'
  BY DEF Admins, Insert, Live, TypeOK

\* What ends the rule of the last administrator.
LEMMA LastAdminStep ==
  ASSUME TypeOK, NoOwnDemotion, Next, Admins # {}, Admins' = {}
  PROVE  \E s \in Slots :
           /\ requests[s].phase = "checked" /\ requests'[s].phase = "idle"
           /\ \/ requests[s].kind \in {"deleteAccount", "deleteStaff"}
              \/ requests[s].kind = "changeRole" /\ requests[s].by \notin Admins
  <1>1. users' # users
    BY DEF Admins, Live
  <1>2. PICK s \in Slots : Write(s)
    <2>1. ASSUME NEW s \in Slots, Receive(s)
          PROVE  FALSE
      BY <1>1, <2>1, ReceiveSends DEF Send
    <2> QED
      BY <1>1, <2>1 DEF Next, Crash, Check
  <1> DEFINE q == requests[s]
  <1>t. q \in Request
    BY DEF TypeOK
  <1>f. Finish(s) => requests'[s].phase = "idle"
    BY DEF Finish, TypeOK, Idle
  <1>3. CASE WriteRegister(s) \/ WriteCreateStaff(s) \/ WriteOperatorAdmin(s)
    BY <1>3, InsertKeepsAdmins DEF WriteRegister, WriteCreateStaff, WriteOperatorAdmin
  <1>4. CASE WriteUpdateStaff(s)
    <2> DEFINE account == [users[q.target] EXCEPT !.email = q.email]
    <2>1. Live(q.target) /\ Update(q.target, account)
      BY <1>1, <1>4 DEF WriteUpdateStaff, Update
    <2>2. users[q.target] \in User
      BY <2>1 DEF Live, TypeOK
    <2>3. account.state = users[q.target].state /\ account.role = users[q.target].role
      BY <2>2 DEF User
    <2> HIDE DEF account
    <2>4. Admins \ {q.target} = {}
      BY <2>1, OneAdminAtATime
    <2>5. account.state = "live" /\ account.role = "ADMIN"
      <3>1. q.target \in Admins
        BY <2>4
      <3> QED
        BY <2>3, <3>1 DEF Admins, Live
    <2> QED
      BY <2>1, <2>5, OneAdminAtATime
  <1>5. CASE WriteDelete(s)
    BY <1>5, <1>f DEF WriteDelete, Checked
  <1>6. CASE WriteRole(s)
    <2> DEFINE account == [users[q.target] EXCEPT !.role = q.newRole]
    <2>1. Live(q.target) /\ Update(q.target, account)
      BY <1>1, <1>6 DEF WriteRole, Update
    <2>2. users[q.target] \in User
      BY <2>1 DEF Live, TypeOK
    <2>3. account.state = users[q.target].state /\ account.role = q.newRole
      BY <2>2, <1>t DEF User
    <2> HIDE DEF account
    <2>4. Admins \ {q.target} = {}
      BY <2>1, OneAdminAtATime
    <2>5. q.newRole # "ADMIN"
      BY <2>1, <2>3, OneAdminAtATime DEF Live
    <2>6. q.phase = "checked" /\ q.kind = "changeRole"
      BY <1>6 DEF WriteRole, Checked
    <2>7. q.by # q.target
      BY <2>5, <2>6 DEF NoOwnDemotion
    <2> QED
      BY <1>6, <1>f, <2>4, <2>6, <2>7 DEF WriteRole
  <1>7. CASE WriteStatus(s) \/ WriteOperator(s) \/ Respond(s)
    BY <1>1, <1>7 DEF WriteStatus, WriteOperator, Respond
  <1> QED
    BY <1>2, <1>3, <1>4, <1>5, <1>6, <1>7 DEF Write

\* The last administrator falls to a deletion or to a request of someone who is no
\* administrator by then, never to one in office (changeUserRole).
THEOREM LastAdminFalls == Spec => LastAdminFallsToARaceOnly
  <1> DEFINE Falls == Admins # {} /\ Admins' = {} =>
                        \E s \in Slots :
                          /\ requests[s].phase = "checked" /\ requests'[s].phase = "idle"
                          /\ \/ requests[s].kind \in {"deleteAccount", "deleteStaff"}
                             \/ requests[s].kind = "changeRole" /\ requests[s].by \notin Admins
  <1>1. TypeOK /\ NoOwnDemotion /\ [Next]_vars => [Falls]_vars
    BY LastAdminStep
  <1> QED
    BY <1>1, AccountsTypeCorrect, OwnDemotionsAreRefused, PTL
       DEF Spec, LastAdminFallsToARaceOnly
=============================================================================
