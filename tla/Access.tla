------------------------------- MODULE Access -------------------------------
(***************************************************************************)
(* Who may call what, and for which company: the permissions of the roles, *)
(* the endpoints of the back office with their guards, and the rules of    *)
(* TenantScopeService.  Every endpoint is a record                         *)
(*   name    the handler                                                   *)
(*   roles   the roles RolesGuard lets through                             *)
(*   needs   permissions, one of which PermissionsGuard asks for; {} none  *)
(*   scope   how the company is found, see Companies                       *)
(*   suspended  what becomes of a suspended company, "refused" or "served" *)
(*   asks    whether the caller may name a company                         *)
(* No rows are kept here; Accounts runs these rules beside the actions     *)
(* that change roles, accounts and companies.                              *)
(***************************************************************************)
EXTENDS FiniteSets

CONSTANTS Operators,    \* the companies
          NoOperator,   \* operatorId null, or not given
          Refused       \* the ForbiddenException of resolveEffectiveOperatorId

ASSUME OperatorsAssumption ==
  NoOperator \notin Operators /\ Refused \notin Operators /\ NoOperator # Refused

Roles == {"ADMIN", "OPERATOR", "STAFF", "USER"}

PlatformAdminPermissions ==
  {"VIEW_DASHBOARD", "MANAGE_OPERATORS", "MANAGE_USERS", "VIEW_BUSES", "VIEW_ROUTES",
   "VIEW_TRIPS", "VIEW_BOOKINGS", "VIEW_PAYMENTS", "VIEW_REFUNDS", "VIEW_STAFF"}

\* Mutant: the permission table before ADMIN was made read-only for companies.
RolePermissionsForAll(role) ==
  CASE role = "ADMIN" -> PlatformAdminPermissions \cup {"MANAGE_STAFF"}
    [] role = "OPERATOR" -> {"VIEW_DASHBOARD", "MANAGE_STAFF", "BOOK_TICKET"}
    [] role = "STAFF" -> {"VIEW_DASHBOARD", "BOOK_TICKET"}
    [] OTHER -> {}

RolePermissions(role) ==
  CASE role = "ADMIN" -> PlatformAdminPermissions
    [] role = "OPERATOR" -> {"VIEW_DASHBOARD", "MANAGE_BUSES", "MANAGE_ROUTES",
                             "MANAGE_TRIPS", "MANAGE_BOOKINGS", "MANAGE_PAYMENTS",
                             "MANAGE_REFUNDS", "MANAGE_STAFF", "BOOK_TICKET"}
    [] role = "STAFF" -> {"VIEW_DASHBOARD", "MANAGE_BOOKINGS", "BOOK_TICKET"}
    [] OTHER -> {}

-----------------------------------------------------------------------------
(* The endpoints of DashboardController. *)

Endpoint(name, needs, scope, suspended, asks) ==
  [name |-> name, roles |-> Roles, needs |-> needs, scope |-> scope,
   suspended |-> suspended, asks |-> asks]

Asked(name, needs, scope) == Endpoint(name, needs, scope, "served", TRUE)
Fixed(name, needs, scope) == Endpoint(name, needs, scope, "served", FALSE)

OverviewEndpoints ==
  {Endpoint("getDashboardStats", {"VIEW_DASHBOARD"}, "own", "refused", FALSE),
   Fixed("getProfile", {"VIEW_DASHBOARD"}, "profile")}

UserEndpoints ==
  {Fixed("getUsers", {"MANAGE_USERS"}, "any"),
   Fixed("changeUserRole", {"MANAGE_USERS"}, "any")}

BookingEndpoints ==
  {Asked("getBookings", {"VIEW_BOOKINGS", "MANAGE_BOOKINGS"}, "list"),
   Fixed("cancelBooking", {"MANAGE_BOOKINGS"}, "resource"),
   Fixed("lockSeatsForBooking", {"BOOK_TICKET"}, "resource"),
   Fixed("releaseSeatsForBooking", {"BOOK_TICKET"}, "resource"),
   Fixed("extendSeatsForBooking", {"BOOK_TICKET"}, "resource"),
   Fixed("createManualBooking", {"BOOK_TICKET"}, "resource"),
   Asked("getBookingRoutes", {"BOOK_TICKET"}, "list"),
   Asked("searchTripsForBooking", {"BOOK_TICKET"}, "list")}

PointEndpoints ==
  {Fixed("getRoutePoints", {"VIEW_ROUTES", "MANAGE_ROUTES", "BOOK_TICKET"},
         "resource"),
   Asked("createBoardingPoint", {"MANAGE_ROUTES"}, "required"),
   Asked("updateBoardingPoint", {"MANAGE_ROUTES"}, "required"),
   Asked("deleteBoardingPoint", {"MANAGE_ROUTES"}, "required"),
   Asked("createDroppingPoint", {"MANAGE_ROUTES"}, "required"),
   Asked("updateDroppingPoint", {"MANAGE_ROUTES"}, "required"),
   Asked("deleteDroppingPoint", {"MANAGE_ROUTES"}, "required")}

MoneyEndpoints ==
  {Asked("getPayments", {"VIEW_PAYMENTS", "MANAGE_PAYMENTS"}, "list"),
   Asked("getRefunds", {"VIEW_REFUNDS", "MANAGE_REFUNDS"}, "list"),
   Fixed("approveRefund", {"MANAGE_REFUNDS"}, "resource"),
   Fixed("rejectRefund", {"MANAGE_REFUNDS"}, "resource"),
   Fixed("syncSslRefund", {"MANAGE_REFUNDS"}, "resource")}

BusEndpoints ==
  {Asked("getBuses", {"VIEW_BUSES", "MANAGE_BUSES"}, "list"),
   Asked("createBus", {"MANAGE_BUSES"}, "create"),
   Fixed("updateBus", {"MANAGE_BUSES"}, "resource"),
   Fixed("deleteBus", {"MANAGE_BUSES"}, "resource"),
   Fixed("createSeatsForBus", {"MANAGE_BUSES"}, "resource")}

RouteEndpoints ==
  {Asked("getRoutes", {"VIEW_ROUTES", "MANAGE_ROUTES"}, "list"),
   Asked("createRoute", {"MANAGE_ROUTES"}, "create"),
   Fixed("updateRoute", {"MANAGE_ROUTES"}, "resource"),
   Fixed("deleteRoute", {"MANAGE_ROUTES"}, "resource")}

TripEndpoints ==
  {Asked("getTrips", {"VIEW_TRIPS", "MANAGE_TRIPS"}, "list"),
   Asked("createTrip", {"MANAGE_TRIPS"}, "create"),
   Fixed("updateTrip", {"MANAGE_TRIPS"}, "resource"),
   Fixed("cancelTrip", {"MANAGE_TRIPS"}, "resource")}

OperatorEndpoints ==
  {Fixed(name, {"MANAGE_OPERATORS"}, "any") :
     name \in {"getOperators", "getOperator", "createOperator",
               "updateOperator", "suspendOperator",
               "activateOperator"}}

\* The id of the path is taken as it is, for every role with VIEW_DASHBOARD.
OperatorStats ==
  Fixed("getOperatorStats", {"VIEW_DASHBOARD", "MANAGE_OPERATORS"}, "any")

StaffEndpoints ==
  {Endpoint("getStaff", {"VIEW_STAFF", "MANAGE_STAFF"}, "required", "refused", TRUE),
   Endpoint("createStaff", {"MANAGE_STAFF"}, "required", "refused", TRUE),
   Endpoint("updateStaff", {"MANAGE_STAFF"}, "required", "refused", TRUE),
   Endpoint("deleteStaff", {"MANAGE_STAFF"}, "required", "refused", TRUE)}

DashboardEndpoints ==
  OverviewEndpoints \cup UserEndpoints \cup BookingEndpoints \cup PointEndpoints
  \cup MoneyEndpoints \cup BusEndpoints \cup RouteEndpoints \cup TripEndpoints
  \cup OperatorEndpoints \cup {OperatorStats} \cup StaffEndpoints

-----------------------------------------------------------------------------
(* The older paths call the same handlers past RolesGuard alone, and name  *)
(* no company except in the filters of bookings, payments, refunds, trips. *)

Filtered == {"getBookings", "getPayments", "getRefunds", "getTrips",
             "createBus", "createRoute", "createTrip"}

Alias(role, endpoints) ==
  {[name |-> e.name, roles |-> {role}, needs |-> {}, scope |-> e.scope,
    suspended |-> e.suspended, asks |-> e.name \in Filtered] : e \in endpoints}

Except(endpoints, names) == {e \in endpoints : e.name \notin names}

AdminDesk ==
  Alias("ADMIN",
        Except(OverviewEndpoints \cup UserEndpoints \cup BookingEndpoints
               \cup MoneyEndpoints,
               {"getProfile", "lockSeatsForBooking", "releaseSeatsForBooking",
                "extendSeatsForBooking", "getBookingRoutes", "searchTripsForBooking"}))

AdminFleet ==
  Alias("ADMIN", BusEndpoints \cup RouteEndpoints \cup TripEndpoints
                 \cup OperatorEndpoints \cup {OperatorStats})

OperatorAlias ==
  Alias("OPERATOR", OverviewEndpoints \cup BusEndpoints \cup RouteEndpoints
                    \cup TripEndpoints \cup StaffEndpoints
                    \cup {e \in BookingEndpoints : e.name = "getBookings"})

StaffAlias ==
  Alias("STAFF", {e \in OverviewEndpoints \cup BookingEndpoints :
                    e.name \in {"getDashboardStats", "getBookings", "createManualBooking"}})

\* Controllers of their own for the platform's administrator.
AdminOnly(names) ==
  {[name |-> name, roles |-> {"ADMIN"}, needs |-> {}, scope |-> "any",
    suspended |-> "served", asks |-> FALSE] : name \in names}

AdminUsers == AdminOnly({"getUsers", "getUser", "changeUserRole", "getAdminStats"})
AdminBuses == AdminOnly({"updateBus", "deleteBus"})
AdminTrips == AdminOnly({"createTrip", "updateTrip", "cancelTrip", "seedAndGenerate",
                         "generateDaily", "generateForToday"})
AdminCreates == AdminOnly({"createBus", "createRoute", "createSeatsForBus"})

AdminEndpoints == AdminDesk \cup AdminFleet \cup AdminUsers \cup AdminBuses
                  \cup AdminTrips \cup AdminCreates

Endpoints == DashboardEndpoints \cup OperatorAlias \cup StaffAlias \cup AdminEndpoints

-----------------------------------------------------------------------------
(* TenantScopeService.  A caller has the fields role and operatorId.       *)

\* RolesGuard and PermissionsGuard.
Admits(e, role) ==
  /\ role \in e.roles
  /\ e.needs = {} \/ e.needs \cap RolePermissions(role) # {}

IsPlatformAdmin(caller) == caller.role = "ADMIN"

HasOperatorContext(caller) ==
  caller.role \in {"OPERATOR", "STAFF"} /\ caller.operatorId \in Operators

\* Mutant: the company asked for is taken without comparing it.
EffectiveOperatorIdAsAsked(caller, asked) ==
  IF IsPlatformAdmin(caller) \/ (HasOperatorContext(caller) /\ asked # NoOperator)
  THEN asked
  ELSE IF HasOperatorContext(caller) THEN caller.operatorId ELSE Refused

EffectiveOperatorId(caller, asked) ==
  IF IsPlatformAdmin(caller) THEN asked
  ELSE IF HasOperatorContext(caller) /\ asked \in {NoOperator, caller.operatorId}
  THEN caller.operatorId
  ELSE Refused

OwnsResource(caller, owner) ==
  IsPlatformAdmin(caller) \/ (HasOperatorContext(caller) /\ owner = caller.operatorId)

\* The companies whose rows a request addresses, {} if it is refused: asked is the
\* company it names, owner the company of the row or path it addresses.
Companies(scope, caller, asked, owner) ==
  LET effective == EffectiveOperatorId(caller, asked)
      own == {caller.operatorId} \cap Operators
  IN CASE scope = "any" -> Operators
       [] scope = "own" ->
            IF IsPlatformAdmin(caller) THEN Operators
            ELSE IF HasOperatorContext(caller) THEN own ELSE {}
       [] scope = "profile" -> IF HasOperatorContext(caller) THEN own ELSE {}
       [] scope = "list" ->
            IF effective = NoOperator THEN Operators ELSE {effective} \cap Operators
       [] scope \in {"required", "create"} -> {effective} \cap Operators
       [] scope = "resource" ->
            IF OwnsResource(caller, owner) THEN {owner} ELSE {}
       [] OTHER -> {}

\* The owners of the bus and the route that a trip is put on: a new trip names both, an
\* edited one may name either.  TripsService asks only whether the two rows exist.
LinkedByTrip(name) ==
  LET pairs == {{bus, route} : bus, route \in Operators}
  IN CASE name = "createTrip" -> pairs
       [] name = "updateTrip" -> pairs \cup {{}}
       [] OTHER -> {{}}

\* The companies whose rows a request touches that also links rows of these companies.
Touched(scope, caller, asked, owner, linked) ==
  LET addressed == Companies(scope, caller, asked, owner)
  IN IF addressed = {} THEN {} ELSE addressed \cup linked
=============================================================================
