------------------------------ MODULE Schedule ------------------------------
(***************************************************************************)
(* The fleet and the timetable an installation starts with                 *)
(* (BusSeederService, RouteSeederService, TripGeneratorService), and how   *)
(* the drawer of the bus page and BusesService change a bus and its seats  *)
(* when none of them is sold.  Fleet has the statements of these handlers  *)
(* and what may come between them.                                         *)
(***************************************************************************)
EXTENDS SeatLayout

Types == {"AC", "NON_AC", "SLEEPER"}
Classes == {"BUSINESS", "ECONOMY"}

\* What a form or a request says of a bus.
Kind(type, class, capacity) == [type |-> type, class |-> class, capacity |-> capacity]

\* createForBus without columnsPerRow.
CoachOf(kind) == Coach(kind.class, kind.type = "SLEEPER", kind.capacity, 0)

SeatsFor(kind) == Generated(CoachOf(kind))

-----------------------------------------------------------------------------
(* Where the buses go and when                                             *)

Cities == {"Gaibandha", "Rangpur", "Bogra", "Chittagong", "Sylhet", "Cox's Bazar"}

\* RouteSeederService.seedRoutes.
SeededRoutes == ({"Dhaka"} \X Cities) \cup (Cities \X {"Dhaka"})

\* fallbackRouteDefs.
FallbackRoutes == {<<"Dhaka", "Gaibandha">>, <<"Gaibandha", "Dhaka">>}

\* Mutant of SupportedRoute: the way back is forgotten.
SupportedRouteOut(route) == route[1] = "Dhaka" /\ route[2] \in Cities

\* isSupportedRoute: trips are generated for it.
SupportedRoute(route) == \/ route[1] = "Dhaka" /\ route[2] \in Cities
                         \/ route[1] \in Cities /\ route[2] = "Dhaka"

\* The seeds have the same four buses for each company.
SeededBuses == {Kind("AC", "BUSINESS", 28), Kind("AC", "ECONOMY", 36),
                Kind("NON_AC", "ECONOMY", 40), Kind("SLEEPER", "BUSINESS", 36)}

\* fallbackBusDefs, when there is no bus at all.
FallbackBuses == {Kind("AC", "BUSINESS", 28), Kind("NON_AC", "ECONOMY", 40),
                  Kind("SLEEPER", "BUSINESS", 36)}

\* scheduleSlots: the hour, and the buses that leave then.
Slots == {[hour |-> 7, types |-> {"NON_AC"}, classes |-> Classes],
          [hour |-> 10, types |-> {"AC"}, classes |-> {"ECONOMY"}],
          [hour |-> 15, types |-> {"AC"}, classes |-> {"BUSINESS"}],
          [hour |-> 19, types |-> {"NON_AC"}, classes |-> Classes],
          [hour |-> 23, types |-> {"SLEEPER"}, classes |-> Classes]}

TripHours == 6

\* createTripsForDate: on each day and on each route.
Departures(kind) ==
  {slot.hour : slot \in {s \in Slots : kind.type \in s.types /\ kind.class \in s.classes}}

\* getTicketPrice.
Price(kind) == IF kind.type = "SLEEPER" THEN 1400
               ELSE IF kind.type = "NON_AC" THEN 700
               ELSE IF kind.class = "BUSINESS" THEN 1000 ELSE 800

-----------------------------------------------------------------------------
(* Editing a bus                                                           *)

\* A bus, and the kind its seats were generated for.
Outfitted(kind) == [kind |-> kind, seats |-> kind]

DefaultForm == Kind("AC", "ECONOMY", 40)

\* handleFormChange: the capacity follows type and class.
Adjusted(kind) == IF kind.type = "SLEEPER" THEN [kind EXCEPT !.capacity = 36]
                  ELSE IF kind.class = "BUSINESS" THEN [kind EXCEPT !.capacity = 28]
                  ELSE kind

\* The field for the capacity is open to seaters of economy class only.
Changes(form, capacities) ==
  {Adjusted([form EXCEPT !.type = type]) : type \in Types}
    \cup {Adjusted([form EXCEPT !.class = class]) : class \in Classes}
    \cup IF form.type = "SLEEPER" \/ form.class = "BUSINESS" THEN {}
         ELSE {[form EXCEPT !.capacity = n] : n \in capacities}

\* handleSaveBus.
Payload(form) == Adjusted(form)

\* normalizeCreateDto, normalizeUpdateDto: a payload of the drawer has all fields.
Stored(payload) ==
  IF payload.class = "BUSINESS" THEN [payload EXCEPT !.capacity = 28] ELSE payload

\* BusesService.create.
Created(payload) == Outfitted(Stored(payload))

\* Mutant of Updated: a new capacity alone does not change the seats.
UpdatedOnClass(bus, payload) ==
  LET kind == Stored(payload)
  IN IF kind.class # bus.kind.class THEN Outfitted(kind) ELSE [bus EXCEPT !.kind = kind]

\* BusesService.update.
Updated(bus, payload) ==
  LET kind == Stored(payload)
  IN IF kind.class # bus.kind.class \/ kind.capacity # bus.kind.capacity
       THEN Outfitted(kind) ELSE [bus EXCEPT !.kind = kind]
=============================================================================
