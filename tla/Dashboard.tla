----------------------------- MODULE Dashboard -----------------------------
(***************************************************************************)
(* The pages of the dashboard: where its redirects, menus and links lead,  *)
(* which page opens for whom, what a page asks of the server when it       *)
(* opens, and what its buttons may ask afterwards.  The answers are those  *)
(* of the endpoints of Access; client and server keep the permissions of   *)
(* the roles in two equal tables.                                          *)
(*                                                                         *)
(* A caller has the fields role and operatorId; a place is a page and the  *)
(* company of the path, NoOperator for the paths without one.              *)
(***************************************************************************)
EXTENDS Access, Naturals

At(page, company) == [page |-> page, company |-> company]

PlatformPages == {"index", "dashboard", "users", "operators"}
HubPages == {"overview", "bus", "route", "trip", "staff", "manage", "booking", "search",
             "seats", "summary", "confirm", "payment", "refund"}

Places == {At(page, NoOperator) : page \in PlatformPages \cup (HubPages \ {"overview"})
                                           \cup {"home"}}
          \cup {At(page, o) : page \in HubPages, o \in Operators}

IsHub(at) == at.company \in Operators

-----------------------------------------------------------------------------
(* Redirects.  last is the company the ADMIN looked at last, or NoOperator *)

OwnCompany(caller) == At("overview", caller.operatorId)

Landing(caller, last) ==
  IF IsPlatformAdmin(caller)
  THEN IF last \in Operators THEN At("overview", last) ELSE At("operators", NoOperator)
  ELSE IF caller.operatorId \in Operators THEN OwnCompany(caller)
  ELSE At("dashboard", NoOperator)

\* After the login form, when no page was asked for.
AfterLogin(caller) ==
  CASE caller.role = "ADMIN" -> At("index", NoOperator)
    [] caller.role \in {"OPERATOR", "STAFF"} ->
         IF caller.operatorId \in Operators THEN OwnCompany(caller)
         ELSE At("dashboard", NoOperator)
    [] OTHER -> At("home", NoOperator)

\* A path without company that belongs to one.
FlatRedirect(caller, page) ==
  IF IsPlatformAdmin(caller) THEN At("operators", NoOperator)
  ELSE IF caller.operatorId \in Operators THEN At(page, caller.operatorId)
  ELSE At("dashboard", NoOperator)

\* One redirect; a place that renders is its own.
Redirect(caller, at, last) ==
  IF at.page = "home" THEN at
  ELSE IF caller.role \notin {"ADMIN", "OPERATOR", "STAFF"} THEN At("home", NoOperator)
  ELSE IF at.page = "index" THEN Landing(caller, last)
  ELSE IF at.page = "dashboard" /\ ~IsPlatformAdmin(caller) /\ caller.operatorId \in Operators
    THEN OwnCompany(caller)
  ELSE IF at.page = "operators" /\ ~IsPlatformAdmin(caller)
    THEN IF caller.operatorId \in Operators THEN OwnCompany(caller)
         ELSE At("dashboard", NoOperator)
  ELSE IF at.page \in HubPages /\ ~IsHub(at) THEN FlatRedirect(caller, at.page)
  ELSE IF IsHub(at) /\ ~IsPlatformAdmin(caller)
          /\ caller.operatorId \in Operators \ {at.company}
    THEN OwnCompany(caller)
  ELSE IF IsHub(at) /\ at.page = "booking" THEN At("search", at.company)
  ELSE at

\* Where the browser is after any number of redirects: none takes more than four.
Settled(caller, at, last) ==
  LET next(place) == Redirect(caller, place, last)
  IN next(next(next(next(at))))

-----------------------------------------------------------------------------
(* Which page opens.                                                       *)

\* Mutant: the hub's pages are gated on the dashboard permission alone.
GateOfDashboard(page) ==
  CASE page = "users" -> {"MANAGE_USERS"}
    [] page \in HubPages \ {"overview"} -> {"VIEW_DASHBOARD"}
    [] OTHER -> {}

Gate(page) ==
  CASE page = "users" -> {"MANAGE_USERS"}
    [] page = "operators" -> {"MANAGE_OPERATORS"}
    [] page = "bus" -> {"VIEW_BUSES", "MANAGE_BUSES"}
    [] page = "route" -> {"VIEW_ROUTES", "MANAGE_ROUTES"}
    [] page = "trip" -> {"VIEW_TRIPS", "MANAGE_TRIPS"}
    [] page = "staff" -> {"VIEW_STAFF", "MANAGE_STAFF"}
    [] page = "manage" -> {"VIEW_BOOKINGS", "MANAGE_BOOKINGS"}
    [] page \in {"search", "seats", "summary", "confirm"} -> {"BOOK_TICKET"}
    [] page = "payment" -> {"VIEW_PAYMENTS", "MANAGE_PAYMENTS"}
    [] page = "refund" -> {"VIEW_REFUNDS", "MANAGE_REFUNDS"}
    [] OTHER -> {}

Can(caller, permissions) ==
  permissions = {} \/ permissions \cap RolePermissions(caller.role) # {}

\* A gate that does not open renders nothing.
Opens(caller, at) == Can(caller, Gate(at.page))

-----------------------------------------------------------------------------
(* Links.                                                                  *)

PlatformMenu == {[page |-> "dashboard", permissions |-> {"VIEW_DASHBOARD"}],
                 [page |-> "operators", permissions |-> {"MANAGE_OPERATORS"}],
                 [page |-> "users", permissions |-> {"MANAGE_USERS"}]}

\* Mutant: the tabs are shown to everybody who may see the dashboard.
HubTabsForAll ==
  {[page |-> page, permissions |-> {"VIEW_DASHBOARD"}] : page \in HubPages \ {"search"}}

HubTabs ==
  {[page |-> "overview", permissions |-> {"VIEW_DASHBOARD"}],
   [page |-> "bus", permissions |-> {"VIEW_BUSES", "MANAGE_BUSES"}],
   [page |-> "route", permissions |-> {"VIEW_ROUTES", "MANAGE_ROUTES"}],
   [page |-> "trip", permissions |-> {"VIEW_TRIPS", "MANAGE_TRIPS"}],
   [page |-> "manage", permissions |-> {"VIEW_BOOKINGS", "MANAGE_BOOKINGS"}],
   [page |-> "booking", permissions |-> {"BOOK_TICKET"}],
   [page |-> "payment", permissions |-> {"VIEW_PAYMENTS", "MANAGE_PAYMENTS"}],
   [page |-> "refund", permissions |-> {"VIEW_REFUNDS", "MANAGE_REFUNDS"}],
   [page |-> "staff", permissions |-> {"VIEW_STAFF", "MANAGE_STAFF"}]}

Menu(caller) ==
  IF IsPlatformAdmin(caller) THEN {At(item.page, NoOperator) : item \in PlatformMenu}
  ELSE IF caller.operatorId \in Operators
  THEN {At(tab.page, caller.operatorId) : tab \in {x \in HubTabs : Can(caller, x.permissions)}}
  ELSE {At("dashboard", NoOperator)}

\* Buttons of the statistics and of the list of companies, and the steps of a booking.
Buttons(caller, at) ==
  CASE at.page = "dashboard" /\ IsPlatformAdmin(caller) ->
         {At(page, NoOperator) : page \in {"bus", "trip", "booking", "refund"}}
    [] at.page = "operators" -> {At("overview", o) : o \in Operators}
    [] at.page = "search" -> {At("seats", at.company)}
    [] at.page = "seats" -> {At("summary", at.company)}
    [] at.page = "summary" -> {At("confirm", at.company), At("booking", at.company),
                               At("seats", at.company)}
    [] at.page = "confirm" -> {At("booking", at.company)}
    [] OTHER -> {}

\* The switch of companies keeps the page.
Switch(caller, at) ==
  IF IsHub(at) /\ IsPlatformAdmin(caller)
  THEN {At(at.page, o) : o \in Operators} \cup {At("operators", NoOperator)}
  ELSE {}

Links(caller, at) == Menu(caller) \cup Buttons(caller, at) \cup Switch(caller, at)

\* The printer symbol beside a confirmed booking.
PrintLink(at) == At("confirm", at.company)

-----------------------------------------------------------------------------
(* What the pages ask of the server.                                       *)

(* A page loads what it shows when it opens, and offers what its buttons   *)
(* and forms send.                                                         *)

Page(loads, offers) == [loads |-> loads, offers |-> offers]

\* isPlatformReadOnly hides what changes the rows of a company from the ADMIN.
Hidden(caller, offers) == IF IsPlatformAdmin(caller) THEN {} ELSE offers

StatisticsPage(caller) == Page({"getDashboardStats"}, {})

OverviewPage(caller) ==
  Page(IF IsPlatformAdmin(caller) THEN {"getOperatorStats"} ELSE {"getDashboardStats"}, {})

UsersPage(caller) == Page({"getUsers"}, {"changeUserRole"})

OperatorsPage(caller) ==
  Page({"getOperators"}, {"createOperator", "suspendOperator", "activateOperator"})

BusesPage(caller) ==
  Page({"getBuses"}, Hidden(caller, {"createBus", "updateBus", "deleteBus"}))

\* The panel of a route's points opens for the ADMIN too, to be looked at.
RoutePointsPanel(caller) ==
  Hidden(caller, {"createBoardingPoint", "updateBoardingPoint", "deleteBoardingPoint",
                  "createDroppingPoint", "updateDroppingPoint", "deleteDroppingPoint"})
  \cup {"getRoutePoints"}

RoutePage(caller) ==
  Page({"getRoutes"}, Hidden(caller, {"createRoute", "updateRoute", "deleteRoute"})
                      \cup RoutePointsPanel(caller))

TripPage(caller) == Page({"getTrips", "getBuses", "getRoutes"},
                         Hidden(caller, {"createTrip", "updateTrip", "cancelTrip"}))

StaffPage(caller) ==
  Page({"getStaff"}, Hidden(caller, {"createStaff", "updateStaff", "deleteStaff"}))

BookingPage(caller) ==
  Page({"getBookings", "getBookingRoutes"}, Hidden(caller, {"cancelBooking"}))

PaymentPage(caller) == Page({"getPayments"}, {})

RefundPage(caller) ==
  Page({"getRefunds"}, Hidden(caller, {"approveRefund", "rejectRefund", "syncSslRefund"}))

TripSearchPage(caller) == Page({"getBookingRoutes"}, {"searchTripsForBooking"})

SummaryPage(caller) == Page({"getRoutePoints"}, {"createManualBooking"})

\* The seats come from the public endpoint of the trip; the ticket was handed over.
PageAt(caller, at) ==
  CASE at.page = "dashboard" -> StatisticsPage(caller)
    [] at.page = "overview" -> OverviewPage(caller)
    [] at.page = "users" -> UsersPage(caller)
    [] at.page = "operators" -> OperatorsPage(caller)
    [] at.page = "bus" -> BusesPage(caller)
    [] at.page = "route" -> RoutePage(caller)
    [] at.page = "trip" -> TripPage(caller)
    [] at.page = "staff" -> StaffPage(caller)
    [] at.page = "manage" -> BookingPage(caller)
    [] at.page = "payment" -> PaymentPage(caller)
    [] at.page = "refund" -> RefundPage(caller)
    [] at.page = "search" -> TripSearchPage(caller)
    [] at.page = "summary" -> SummaryPage(caller)
    [] OTHER -> Page({}, {})

\* The frame of a company's pages, with the ADMIN's switch of companies.
Frame(caller) ==
  IF IsPlatformAdmin(caller)
  THEN Page({"getOperator", "getOperators"}, {"suspendOperator", "activateOperator"})
  ELSE Page({"getProfile"}, {})

Requests(caller, at) ==
  LET page == PageAt(caller, at)
      frame == IF IsHub(at) THEN Frame(caller) ELSE Page({}, {})
  IN page.loads \cup page.offers \cup frame.loads \cup frame.offers

\* The server answers: some endpoint of the name admits the role, and the company the
\* page names (in the query, or by the rows it shows) is one it works for.
Served(caller, at, name) ==
  \E e \in Endpoints :
    /\ e.name = name /\ Admits(e, caller.role)
    /\ Companies(e.scope, caller, IF e.asks THEN at.company ELSE NoOperator, at.company)
         # {}
=============================================================================
