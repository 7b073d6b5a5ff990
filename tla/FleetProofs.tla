----------------------------- MODULE FleetProofs -----------------------------
(***************************************************************************)
(* Theorems about Fleet for any buses, schedule and number of requests:    *)
(* the types, one trip per bus and departure, what is sold stays good,     *)
(* seats fit their bus and go in crashes only, generations leave no gap.   *)
(* IInv adds what sales need: seats belong to a bus that is there, the     *)
(* rows of BookingSeat name the seats that are sold, and requests under    *)
(* way know of a sale or a move that they would miss.  SInv is what one    *)
(* bus and the requests at its seats know of each other, GInv what a       *)
(* generation has still to check or to insert.                             *)
(***************************************************************************)
EXTENDS Fleet, TLAPS

LEMMA TripTypes ==
  ASSUME TypeOK, NEW t \in Trips
  PROVE /\ trips[t] \in Trip /\ sales[t] \in Sale /\ rows[t] \in SUBSET Buses
        /\ t[1] \in Departures /\ t[2] \in Buses
        /\ trips[t].state # "none" => trips[t].bus \in Buses /\ trips[t].departure \in Departures
        /\ trips[t].state # "none" => trips[t] # NoRow
BY DEF TypeOK, Trips, Trip, NoRow

LEMMA IdleType == Idle \in Request
  BY DEF Idle, Request, Kinds, Phases, SeatKinds

LEMMA FreeType == Free \in Sale
  BY DEF Free, Sale

LEMMA TypeInit == Init => TypeOK
<1>1. SUFFICES ASSUME Init PROVE TypeOK
  OBVIOUS
<1>2. /\ [state |-> "there", size |-> FirstSize] \in Bus
      /\ [state |-> "none", size |-> NoSize] \in Bus
  BY FleetAssumption DEF Bus
<1>3. buses \in [Buses -> Bus]
  BY <1>1, <1>2, Zenon DEF Init
<1>4. \A b \in Buses : [size |-> buses[b].size, batch |-> 0] \in Seats
  BY <1>3 DEF Bus, Seats
<1>5. seats \in [Buses -> Seats]
  BY <1>1, <1>4, Zenon DEF Init
<1>6. /\ [state |-> "SCHEDULED", bus |-> FirstBus, departure |-> FirstDeparture] \in Trip
      /\ NoRow \in Trip
  BY FleetAssumption DEF Trip
<1>7. trips \in [Trips -> Trip]
  BY <1>1, <1>6, Zenon DEF Init
<1>8. sales \in [Trips -> Sale] /\ requests \in [Workers -> Request]
  BY <1>1, FreeType, IdleType, Zenon DEF Init
<1>9. rows \in [Trips -> SUBSET Buses]
  BY <1>1, Zenon DEF Init
<1> QED
  BY <1>1, <1>3, <1>5, <1>7, <1>8, <1>9 DEF Init, TypeOK

-----------------------------------------------------------------------------
(* Types.                                                                  *)

LEMMA BeginType ==
  ASSUME TypeOK, NEW w \in Workers, NEW request \in Request, Begin(w, request)
  PROVE requests' \in [Workers -> Request] /\ sent' \in Nat
  BY DEF TypeOK, Begin

LEMMA EndType ==
  ASSUME TypeOK, NEW w \in Workers, End(w)
  PROVE requests' \in [Workers -> Request]
  BY IdleType DEF TypeOK, End

LEMMA PhaseType ==
  ASSUME NEW r \in Request, NEW phase \in Phases
  PROVE [r EXCEPT !.phase = phase] \in Request
  BY DEF Request

LEMMA SizeType ==
  ASSUME NEW r \in Request, NEW size \in Sizes \cup {NoSize}
  PROVE [r EXCEPT !.size = size] \in Request
  BY DEF Request

LEMMA GoType ==
  ASSUME TypeOK, NEW w \in Workers, NEW phase \in Phases, Go(w, phase)
  PROVE requests' \in [Workers -> Request]
<1>1. [requests[w] EXCEPT !.phase = phase] \in Request
  BY PhaseType DEF TypeOK
<1>2. requests' = [requests EXCEPT ![w] = [requests[w] EXCEPT !.phase = phase]]
  BY DEF Go
<1> QED BY <1>1, <1>2 DEF TypeOK

LEMMA ShiftedType == TypeOK => Shifted \in [Workers -> Request]
<1>1. ASSUME NEW r \in Request PROVE [r EXCEPT !.shifted = TRUE] \in Request
  BY DEF Request
<1>2. ASSUME TypeOK, NEW w \in Workers PROVE requests[w] \in Request
  BY <1>2 DEF TypeOK
<1> QED BY <1>1, <1>2, Zenon DEF Shifted

\* A step that leaves the rows alone and keeps the types of requests.
LEMMA RequestsType ==
  ASSUME TypeOK, requests' \in [Workers -> Request], sent' \in Nat,
         UNCHANGED <<buses, seats, trips, rows, sales>>,
         cut' \in SUBSET Buses, disturbed' \in SUBSET Buses, UNCHANGED <<late, moved>>
  PROVE TypeOK'
  BY DEF TypeOK

LEMMA FailType ==
  ASSUME TypeOK, NEW w \in Workers, NEW b \in Buses, Fail(w, b)
  PROVE TypeOK'
  BY EndType, RequestsType DEF Fail, TypeOK

LEMMA ReadingType ==
  ASSUME TypeOK, NEW w \in Workers, NEW request \in Request, BeginReading(w, request)
  PROVE TypeOK'
  BY BeginType, RequestsType DEF BeginReading, TypeOK, history

LEMMA SeatingType ==
  ASSUME TypeOK, NEW w \in Workers, NEW request \in Request, request.bus \in Buses,
         BeginSeating(w, request),
         buses' \in [Buses -> Bus], seats' \in [Buses -> Seats]
  PROVE TypeOK'
<1>1. requests' \in [Workers -> Request] /\ sent' \in Nat
  BY BeginType DEF BeginSeating
<1>2. disturbed' \in SUBSET Buses
  BY DEF BeginSeating, TypeOK
<1> QED BY <1>1, <1>2 DEF BeginSeating, TypeOK

-----------------------------------------------------------------------------
(* The requests that begin. *)

\* The fields of a request, whatever its kind.
Fields == [kind : Kinds, phase : Phases, bus : Buses \cup {NoBus},
           trip : Trips \cup {NoTrip}, departure : Departures \cup {NoDeparture},
           size : Sizes \cup {NoSize}, force : BOOLEAN, changed : BOOLEAN,
           batch : Nat, want : SUBSET (Departures \X Buses),
           todo : SUBSET (Departures \X Buses), list : SUBSET (Departures \X Buses),
           shifted : BOOLEAN]

LEMMA IdleFields == Idle \in Fields
<1>1. "none" \in Kinds /\ "idle" \in Phases
  BY DEF Kinds, Phases
<1> QED BY <1>1 DEF Idle, Fields

LEMMA FieldsRequest ==
  ASSUME NEW q \in Fields, q.kind \in SeatKinds \cup {"lock"} => q.bus \in Buses,
         q.kind = "updateTrip" => q.departure \in Departures
  PROVE q \in Request
  BY DEF Fields, Request

LEMMA CreateBusRequest ==
  ASSUME NEW b \in Buses, NEW q,
         q = [Idle EXCEPT !.kind = "createBus", !.phase = "seating", !.bus = b]
  PROVE q \in Request /\ q.kind \in SeatKinds /\ q.phase = "seating" /\ q.bus = b
<1>1. "createBus" \in Kinds /\ "createBus" \in SeatKinds /\ "seating" \in Phases
  BY DEF Kinds, SeatKinds, Phases
<1>2. q \in Fields /\ q.kind = "createBus" /\ q.phase = "seating" /\ q.bus = b
  BY <1>1, IdleFields DEF Fields
<1> QED BY <1>1, <1>2, FieldsRequest

UpdateBusRequest(b, size) ==
  [Idle EXCEPT !.kind = "updateBus", !.phase = "read", !.bus = b,
               !.size = size, !.changed = (size # buses[b].size), !.force = TRUE]

LEMMA UpdateBusBegins ==
  ASSUME NEW b \in Buses, NEW size \in Sizes
  PROVE LET q == UpdateBusRequest(b, size)
        IN /\ q \in Request /\ q.kind \in SeatKinds /\ q.phase = "read" /\ q.bus = b
           /\ q.size = size /\ q.changed = (size # buses[b].size)
<1> DEFINE q == UpdateBusRequest(b, size)
<1>1. "updateBus" \in Kinds /\ "updateBus" \in SeatKinds /\ "read" \in Phases
  BY DEF Kinds, SeatKinds, Phases
<1>2. q \in Fields
  BY <1>1, IdleFields DEF Fields, UpdateBusRequest
<1>3. /\ q.kind = "updateBus" /\ q.phase = "read" /\ q.bus = b /\ q.size = size
      /\ q.changed = (size # buses[b].size)
  BY IdleFields DEF Fields, UpdateBusRequest
<1> HIDE DEF q
<1>4. q \in Request
  BY <1>1, <1>2, <1>3, FieldsRequest
<1> QED BY <1>1, <1>3, <1>4 DEF q

LEMMA CreateSeatsRequest ==
  ASSUME NEW b \in Buses, NEW force \in BOOLEAN, NEW q,
         q = [Idle EXCEPT !.kind = "createSeats", !.phase = "seating", !.bus = b,
                          !.force = force]
  PROVE q \in Request /\ q.kind \in SeatKinds /\ q.phase = "seating" /\ q.bus = b
<1>1. "createSeats" \in Kinds /\ "createSeats" \in SeatKinds /\ "seating" \in Phases
  BY DEF Kinds, SeatKinds, Phases
<1>2. q \in Fields /\ q.kind = "createSeats" /\ q.phase = "seating" /\ q.bus = b
  BY <1>1, IdleFields DEF Fields
<1> QED BY <1>1, <1>2, FieldsRequest

LEMMA UpdateTripRequest ==
  ASSUME NEW t \in Trips, NEW d \in Departures, NEW b \in Buses, NEW q,
         q = [Idle EXCEPT !.kind = "updateTrip", !.phase = "read", !.trip = t,
                          !.departure = d, !.bus = b]
  PROVE q \in Request /\ q.kind \notin SeatKinds /\ q.phase = "read"
<1>1. "updateTrip" \in Kinds /\ "updateTrip" \notin SeatKinds \cup {"lock"} /\ "read" \in Phases
  BY DEF Kinds, SeatKinds, Phases
<1>2. q \in Fields /\ q.kind = "updateTrip" /\ q.phase = "read" /\ q.departure = d
  BY <1>1, IdleFields DEF Fields
<1> QED BY <1>1, <1>2, FieldsRequest

LEMMA CancelTripRequest ==
  ASSUME NEW t \in Trips, NEW q,
         q = [Idle EXCEPT !.kind = "cancelTrip", !.phase = "counted", !.trip = t]
  PROVE q \in Request /\ q.kind \notin SeatKinds /\ q.phase = "counted"
<1>1. /\ "cancelTrip" \in Kinds /\ "cancelTrip" \notin SeatKinds \cup {"lock"}
      /\ "counted" \in Phases
  BY DEF Kinds, SeatKinds, Phases
<1>2. q \in Fields /\ q.kind = "cancelTrip" /\ q.phase = "counted"
  BY <1>1, IdleFields DEF Fields
<1> QED BY <1>1, <1>2, FieldsRequest

LEMMA LockRequest ==
  ASSUME NEW t \in Trips, NEW b \in Buses, NEW n \in Nat, NEW q,
         q = [Idle EXCEPT !.kind = "lock", !.phase = "read", !.trip = t, !.bus = b,
                          !.batch = n]
  PROVE q \in Request /\ q.kind \notin SeatKinds /\ q.phase = "read"
<1>1. "lock" \in Kinds /\ "lock" \notin SeatKinds /\ "read" \in Phases
  BY DEF Kinds, SeatKinds, Phases
<1>2. q \in Fields /\ q.kind = "lock" /\ q.phase = "read" /\ q.bus = b
  BY <1>1, IdleFields DEF Fields
<1> QED BY <1>1, <1>2, FieldsRequest

LEMMA GenerationRequest ==
  ASSUME NEW force \in BOOLEAN, NEW q,
         \/ q = [Idle EXCEPT !.kind = "generate", !.phase = "ready", !.force = force]
         \/ q = [Idle EXCEPT !.kind = "rebuild", !.phase = "read", !.force = force]
  PROVE /\ q \in Request /\ q.kind \in {"generate", "rebuild"} /\ q.kind \notin SeatKinds
        /\ q.phase \in {"ready", "read"}
<1>1. /\ {"generate", "rebuild"} \subseteq Kinds /\ {"ready", "read"} \subseteq Phases
      /\ "generate" \notin SeatKinds \cup {"lock"} /\ "rebuild" \notin SeatKinds \cup {"lock"}
  BY DEF Kinds, SeatKinds, Phases
<1>2. ASSUME q = [Idle EXCEPT !.kind = "generate", !.phase = "ready", !.force = force]
      PROVE q \in Fields /\ q.kind = "generate" /\ q.phase = "ready"
  BY <1>1, <1>2, IdleFields DEF Fields
<1>3. ASSUME q = [Idle EXCEPT !.kind = "rebuild", !.phase = "read", !.force = force]
      PROVE q \in Fields /\ q.kind = "rebuild" /\ q.phase = "read"
  BY <1>1, <1>3, IdleFields DEF Fields
<1> QED BY <1>1, <1>2, <1>3, FieldsRequest

LEMMA ArriveType ==
  ASSUME TypeOK, NEW w \in Workers, Arrive(w)
  PROVE TypeOK'
<1>1. ASSUME NEW b \in Buses, NEW size \in Sizes, CreateBus(w, b, size) PROVE TypeOK'
  <2>1. [state |-> "there", size |-> size] \in Bus
    BY DEF Bus
  <2>2. buses' \in [Buses -> Bus] /\ seats' \in [Buses -> Seats]
    BY <1>1, <2>1 DEF CreateBus, TypeOK
  <2> DEFINE q == [Idle EXCEPT !.kind = "createBus", !.phase = "seating", !.bus = b]
  <2>3. q \in Request /\ q.bus \in Buses
    BY CreateBusRequest
  <2> QED BY <1>1, <2>2, <2>3, SeatingType DEF CreateBus
<1>2. ASSUME NEW b \in Buses, NEW size \in Sizes, UpdateBus(w, b, size) PROVE TypeOK'
  <2> DEFINE q == UpdateBusRequest(b, size)
  <2>1. q \in Request /\ q.bus \in Buses
    BY UpdateBusBegins
  <2>2. BeginSeating(w, q) /\ UNCHANGED <<buses, seats>>
    BY <1>2 DEF UpdateBus, UpdateBusRequest
  <2> HIDE DEF q
  <2> QED BY <2>1, <2>2, SeatingType DEF TypeOK
<1>3. ASSUME NEW b \in Buses, NEW force \in BOOLEAN, CreateSeats(w, b, force) PROVE TypeOK'
  <2> DEFINE q == [Idle EXCEPT !.kind = "createSeats", !.phase = "seating", !.bus = b,
                               !.force = force]
  <2>1. q \in Request /\ q.bus \in Buses
    BY CreateSeatsRequest
  <2>2. BeginSeating(w, q) /\ UNCHANGED <<buses, seats>>
    BY <1>3 DEF CreateSeats
  <2> HIDE DEF q
  <2> QED BY <2>1, <2>2, SeatingType DEF TypeOK
<1>4. ASSUME NEW t \in Trips, NEW d \in Departures, NEW b \in Buses, UpdateTrip(w, t, d, b)
      PROVE TypeOK'
  BY <1>4, UpdateTripRequest, ReadingType DEF UpdateTrip
<1>5. ASSUME NEW t \in Trips, CancelTrip(w, t) PROVE TypeOK'
  BY <1>5, CancelTripRequest, ReadingType DEF CancelTrip
<1>6. ASSUME NEW t \in Trips, Lock(w, t) PROVE TypeOK'
  <2>1. trips[t].bus \in Buses
    BY <1>6, TripTypes DEF Lock, Exists
  <2>2. seats[trips[t].bus].batch \in Nat
    BY <1>6, <2>1 DEF Lock, Exists, TypeOK, Seats
  <2> QED BY <1>6, <2>1, <2>2, LockRequest, ReadingType DEF Lock
<1>7. ASSUME NEW force \in BOOLEAN, Generate(w, force) \/ Rebuild(w, force) PROVE TypeOK'
  BY <1>7, GenerationRequest, ReadingType DEF Generate, Rebuild
<1> QED
  BY <1>1, <1>2, <1>3, <1>4, <1>5, <1>6, <1>7, Zenon DEF Arrive

\* What a request that works on seats holds.
LEMMA SeatingBus ==
  ASSUME TypeOK, NEW w \in Workers, There(requests[w].bus)
  PROVE /\ requests[w].bus \in Buses /\ requests[w].size \in Sizes \cup {NoSize}
        /\ seats[requests[w].bus] \in Seats
  BY DEF TypeOK, Request, There

LEMMA RequestTypes ==
  ASSUME TypeOK, NEW w \in Workers
  PROVE /\ requests[w] \in Request
        /\ requests[w].size \in Sizes \cup {NoSize}
        /\ requests[w].list \in SUBSET (Departures \X Buses)
        /\ requests[w].todo \in SUBSET (Departures \X Buses)
  BY DEF TypeOK, Request

LEMMA NewIdType ==
  ASSUME NEW d \in Departures, NEW b \in Buses, Fresh(d, b) # {}
  PROVE /\ NewId(d, b) \in Trips /\ trips[NewId(d, b)].state = "none"
        /\ NewId(d, b)[1] = d /\ NewId(d, b)[2] = b
  BY Zenon DEF NewId, Fresh

LEMMA MadeType ==
  ASSUME NEW t \in Trips
  PROVE Made(t) \in Trip
<1>1. t[1] \in Departures /\ t[2] \in Buses
  BY DEF Trips
<1> QED BY <1>1 DEF Made, Trip

LEMMA SeatsType ==
  ASSUME TypeOK, NEW w \in Workers,
         WriteBus(w) \/ CountSeats(w) \/ AskLocks(w) \/ DeleteSeats(w) \/ InsertSeats(w)
  PROVE TypeOK'
<1> DEFINE r == requests[w]
           b == r.bus
<1>0. r \in Request /\ r.size \in Sizes \cup {NoSize} /\ b \in Buses
  BY RequestTypes DEF WriteBus, CountSeats, AskLocks, DeleteSeats, InsertSeats, Seating,
                      Request, SeatKinds
<1>1. CASE WriteBus(w)
  <2>1. requests' \in [Workers -> Request]
    BY <1>1, EndType, GoType DEF WriteBus, Phases
  <2>2. [buses[b] EXCEPT !.size = r.size] \in Bus
    BY <1>0 DEF TypeOK, Bus
  <2>3. buses' \in [Buses -> Bus]
    BY <1>1, <2>2 DEF WriteBus, TypeOK
  <2> QED BY <1>1, <2>1, <2>3 DEF WriteBus, TypeOK, history
<1>2. CASE CountSeats(w)
  <2> DEFINE phase == IF seats[b].size # NoSize THEN "counted" ELSE "emptied"
  <2>0. phase \in Phases /\ buses[b].size \in Sizes \cup {NoSize}
    BY <1>0 DEF TypeOK, Bus, Phases
  <2>1. [[r EXCEPT !.phase = phase] EXCEPT !.size = buses[b].size] \in Request
    <3> HIDE DEF phase, b, r
    <3>1. [r EXCEPT !.phase = phase] \in Request
      BY <1>0, <2>0, PhaseType
    <3> QED BY <2>0, <3>1, SizeType
  <2>2. CASE Fail(w, b)
    BY <2>2, <1>0, FailType
  <2>3. CASE requests' = [requests EXCEPT ![w].phase = phase, ![w].size = buses[b].size]
             /\ UNCHANGED <<buses, seats, trips, rows, sales, sent, history>>
    <3>1. requests' \in [Workers -> Request]
      BY <2>1, <2>3 DEF TypeOK
    <3> QED BY <2>3, <3>1 DEF TypeOK, history
  <2> QED BY <1>2, <2>2, <2>3 DEF CountSeats
<1>3. CASE AskLocks(w)
  <2>1. CASE Fail(w, b)
    BY <2>1, <1>0, FailType
  <2>2. CASE Go(w, "unheld") /\ UNCHANGED <<buses, seats, trips, rows, sales, sent, history>>
    <3>1. requests' \in [Workers -> Request]
      BY <2>2, GoType DEF Phases
    <3> QED BY <2>2, <3>1 DEF TypeOK, history
  <2> QED BY <1>3, <2>1, <2>2 DEF AskLocks
<1>4. CASE DeleteSeats(w)
  <2>1. CASE Fail(w, b)
    BY <2>1, <1>0, FailType
  <2>2. CASE /\ seats' = [seats EXCEPT ![b].size = NoSize] /\ Go(w, "emptied")
             /\ UNCHANGED <<buses, trips, rows, sales, sent, history>>
    <3>1. requests' \in [Workers -> Request]
      BY <2>2, GoType DEF Phases
    <3>2. [seats[b] EXCEPT !.size = NoSize] \in Seats
      BY <1>0 DEF TypeOK, Seats
    <3> QED BY <2>2, <3>1, <3>2 DEF TypeOK, history
  <2> QED BY <1>4, <2>1, <2>2 DEF DeleteSeats
<1>5. CASE InsertSeats(w)
  <2>1. CASE Fail(w, b)
    BY <2>1, <1>0, FailType
  <2>2. CASE /\ seats' = [seats EXCEPT ![b] = [size |-> r.size, batch |-> @.batch + 1]]
             /\ End(w) /\ UNCHANGED <<buses, trips, rows, sales, sent, history>>
    <3>1. requests' \in [Workers -> Request]
      BY <2>2, EndType
    <3>2. [size |-> r.size, batch |-> seats[b].batch + 1] \in Seats
      BY <1>0 DEF TypeOK, Seats
    <3> QED BY <2>2, <3>1, <3>2 DEF TypeOK, history
  <2> QED BY <1>5, <2>1, <2>2 DEF InsertSeats
<1> QED BY <1>1, <1>2, <1>3, <1>4, <1>5

LEMMA TripsType ==
  ASSUME TypeOK, NEW w \in Workers,
         WriteTrip(w) \/ WriteCancel(w) \/ DeleteAllTrips(w)
  PROVE TypeOK'
<1>1. CASE WriteTrip(w)
  <2> DEFINE r == requests[w]
             t == r.trip
  <2>1. CASE /\ Movable(t, r.departure, r.bus)
             /\ trips' = [trips EXCEPT ![t].bus = r.bus, ![t].departure = r.departure]
             /\ requests' = [Shifted EXCEPT ![w] = Idle]
    <3>1. t \in Trips /\ r.bus \in Buses /\ trips[t].state \in {"SCHEDULED", "CANCELLED"}
      BY <2>1 DEF Movable, Exists, There
    <3>2. trips[t] \in Trip /\ trips[t] # NoRow /\ r.departure \in Departures \cup {NoDeparture}
      BY <3>1, RequestTypes, TripTypes DEF Request
    <3>3. r.departure \in Departures
      BY <1>1 DEF WriteTrip, TypeOK, Request
    <3>4. [[trips[t] EXCEPT !.bus = r.bus] EXCEPT !.departure = r.departure] \in Trip
      BY <3>1, <3>2, <3>3 DEF Trip
    <3>5. trips' \in [Trips -> Trip]
      BY <2>1, <3>1, <3>4 DEF TypeOK
    <3>6. requests' \in [Workers -> Request]
      BY <2>1, ShiftedType, IdleType
    <3>7. moved' \in SUBSET Trips
      BY <1>1, <3>1 DEF WriteTrip, TypeOK
    <3> QED BY <1>1, <3>5, <3>6, <3>7 DEF WriteTrip, TypeOK
  <2>2. CASE End(w) /\ UNCHANGED <<trips, moved>>
    BY <1>1, <2>2, EndType DEF WriteTrip, TypeOK
  <2> QED BY <1>1, <2>1, <2>2 DEF WriteTrip
<1>2. CASE WriteCancel(w)
  <2> DEFINE t == requests[w].trip
  <2>1. ASSUME Exists(t) PROVE [trips[t] EXCEPT !.state = "CANCELLED"] \in Trip
    BY <2>1 DEF Exists, TypeOK, Trip, NoRow
  <2>2. trips' \in [Trips -> Trip]
    BY <1>2, <2>1 DEF WriteCancel, TypeOK
  <2> QED BY <1>2, <2>2, EndType DEF WriteCancel, TypeOK, history
<1>3. CASE DeleteAllTrips(w)
  <2>1. ASSUME NEW t \in Trips, Exists(t) PROVE [trips[t] EXCEPT !.state = "gone"] \in Trip
    BY <2>1 DEF Exists, TypeOK, Trip, NoRow
  <2>2. trips' \in [Trips -> Trip]
    BY <1>3, <2>1 DEF DeleteAllTrips, TypeOK
  <2>3. [Shifted[w] EXCEPT !.phase = "ready"] \in Request
    BY ShiftedType, PhaseType DEF Phases
  <2>4. requests' \in [Workers -> Request]
    BY <1>3, <2>3, ShiftedType DEF DeleteAllTrips
  <2> QED BY <1>3, <2>2, <2>4, FreeType DEF DeleteAllTrips, TypeOK, history
<1> QED BY <1>1, <1>2, <1>3

LEMMA ListType ==
  ASSUME NEW r \in Request, NEW want \in SUBSET (Departures \X Buses),
         NEW todo \in SUBSET (Departures \X Buses), NEW list \in SUBSET (Departures \X Buses)
  PROVE /\ [r EXCEPT !.todo = todo] \in Request /\ [r EXCEPT !.list = list] \in Request
        /\ [r EXCEPT !.want = want] \in Request /\ [r EXCEPT !.shifted = FALSE] \in Request
<1>1. [r EXCEPT !.todo = todo] \in Request BY DEF Request
<1>2. [r EXCEPT !.list = list] \in Request BY DEF Request
<1>3. [r EXCEPT !.want = want] \in Request BY DEF Request
<1>4. [r EXCEPT !.shifted = FALSE] \in Request BY DEF Request
<1> QED BY <1>1, <1>2, <1>3, <1>4

LEMMA GeneratorType ==
  ASSUME TypeOK, NEW w \in Workers,
         ReadBuses(w) \/ CheckNext(w) \/ InsertTrips(w) \/ Report(w)
  PROVE TypeOK'
<1> DEFINE r == requests[w]
<1>0. /\ r \in Request /\ r.list \in SUBSET (Departures \X Buses)
      /\ r.todo \in SUBSET (Departures \X Buses)
  BY RequestTypes
<1>1. CASE ReadBuses(w)
  <2> DEFINE pairs == Departures \X {b \in Buses : There(b)}
             todo == IF r.force THEN {} ELSE pairs
             list == IF r.force THEN pairs ELSE {}
  <2>1. /\ pairs \in SUBSET (Departures \X Buses) /\ todo \in SUBSET (Departures \X Buses)
        /\ list \in SUBSET (Departures \X Buses)
    OBVIOUS
  <2>2. /\ requests' = [requests EXCEPT ![w] =
             [[[[[r EXCEPT !.phase = "listing"] EXCEPT !.want = pairs] EXCEPT !.shifted = FALSE]
                EXCEPT !.todo = todo] EXCEPT !.list = list]]
        /\ UNCHANGED <<buses, seats, trips, rows, sales, sent, history>>
    BY <1>1, Zenon DEF ReadBuses
  <2> HIDE DEF pairs, todo, list, r
  <2>3. [r EXCEPT !.phase = "listing"] \in Request
    BY <1>0, PhaseType DEF Phases
  <2>4. [[[[[r EXCEPT !.phase = "listing"] EXCEPT !.want = pairs] EXCEPT !.shifted = FALSE]
            EXCEPT !.todo = todo] EXCEPT !.list = list] \in Request
    BY <2>1, <2>3, ListType
  <2>5. requests' \in [Workers -> Request]
    BY <2>2, <2>4 DEF TypeOK
  <2> QED BY <2>2, <2>5 DEF TypeOK, history
<1>2. CASE CheckNext(w)
  <2> DEFINE p == CHOOSE p \in r.todo : TRUE
             list == IF Taken(p[1], p[2]) THEN r.list ELSE r.list \cup {p}
  <2>1. p \in r.todo
    BY <1>2 DEF CheckNext
  <2>2. /\ requests' = [requests EXCEPT ![w] =
             [[r EXCEPT !.todo = r.todo \ {p}] EXCEPT !.list = list]]
        /\ UNCHANGED <<buses, seats, trips, rows, sales, sent, history>>
    BY <1>2, Zenon DEF CheckNext, Check
  <2>3. r.todo \ {p} \in SUBSET (Departures \X Buses) /\ list \in SUBSET (Departures \X Buses)
    BY <1>0, <2>1
  <2> HIDE DEF p, list, r
  <2>4. [[r EXCEPT !.todo = r.todo \ {p}] EXCEPT !.list = list] \in Request
    BY <1>0, <2>3, ListType
  <2>5. requests' \in [Workers -> Request]
    BY <2>2, <2>4 DEF TypeOK
  <2> QED BY <2>2, <2>5 DEF TypeOK, history
<1>3. CASE InsertTrips(w)
  <2>1. requests' \in [Workers -> Request]
    BY <1>3, EndType, GoType DEF InsertTrips, Phases
  <2>2. trips' \in [Trips -> Trip]
    BY <1>3, MadeType DEF InsertTrips, TypeOK
  <2> QED BY <1>3, <2>1, <2>2 DEF InsertTrips, TypeOK, history
<1>4. CASE Report(w)
  BY <1>4, EndType DEF Report, TypeOK, history
<1> QED BY <1>1, <1>2, <1>3, <1>4

LEMMA InsertLockType ==
  ASSUME TypeOK, NEW w \in Workers, InsertLock(w)
  PROVE TypeOK'
<1> DEFINE r == requests[w]
           t == r.trip
<1>1. CASE UNCHANGED <<sales, rows, late>>
  BY <1>1, EndType DEF InsertLock, TypeOK
<1>2. CASE /\ Lockable(r)
           /\ sales' = [sales EXCEPT ![t] = [stage |-> "locked", bus |-> r.bus]]
           /\ rows' = [rows EXCEPT ![t] = @ \cup {r.bus}]
           /\ late' = IF Cancelling(t) THEN late \cup {t} ELSE late
  <2>1. t \in Trips /\ r.bus \in Buses
    BY <1>2, RequestTypes DEF Lockable, Exists, InsertLock, Request
  <2>2. [stage |-> "locked", bus |-> r.bus] \in Sale
    BY <2>1 DEF Sale
  <2> QED BY <1>2, <2>1, <2>2, EndType DEF InsertLock, TypeOK
<1> QED BY <1>1, <1>2 DEF InsertLock

LEMMA ProceedType ==
  ASSUME TypeOK, NEW w \in Workers, Proceed(w)
  PROVE TypeOK'
  BY SeatsType, TripsType, GeneratorType, InsertLockType, Zenon DEF Proceed

LEMMA AtOnceType ==
  ASSUME TypeOK, AtOnce
  PROVE TypeOK'
<1>1. ASSUME NEW b \in Buses, DeleteBus(b) PROVE TypeOK'
  <2>1. [state |-> "gone", size |-> NoSize] \in Bus
    BY DEF Bus
  <2>2. [seats[b] EXCEPT !.size = NoSize] \in Seats
    BY DEF TypeOK, Seats
  <2> QED BY <1>1, <2>1, <2>2 DEF DeleteBus, TypeOK, history
<1>2. ASSUME NEW d \in Departures, NEW b \in Buses, CreateTrip(d, b) PROVE TypeOK'
  <2>1. NewId(d, b) \in Trips
    BY <1>2, NewIdType DEF CreateTrip
  <2> QED BY <1>2, <2>1, MadeType DEF CreateTrip, TypeOK, history
<1> QED BY <1>1, <1>2 DEF AtOnce

LEMMA SellType ==
  ASSUME TypeOK, Sell
  PROVE TypeOK'
<1> SUFFICES ASSUME NEW t \in Trips, Start(t) \/ Confirm(t) \/ GiveBack(t)
             PROVE TypeOK'
  BY DEF Sell
<1>1. [sales[t] EXCEPT !.stage = "pending"] \in Sale
  BY DEF TypeOK, Sale
<1>2. [sales[t] EXCEPT !.stage = "confirmed"] \in Sale
  BY DEF TypeOK, Sale
<1>3. CASE Start(t)
  BY <1>1, <1>3 DEF Start, TypeOK, history
<1>4. CASE Confirm(t)
  BY <1>2, <1>4 DEF Confirm, TypeOK, history
<1>5. CASE GiveBack(t)
  <2>1. rows' \in [Trips -> SUBSET Buses]
    BY <1>5 DEF GiveBack, TypeOK
  <2>2. sales' \in [Trips -> Sale]
    BY <1>5, FreeType DEF GiveBack, TypeOK
  <2> QED BY <1>5, <2>1, <2>2 DEF GiveBack, TypeOK
<1> QED BY <1>3, <1>4, <1>5

LEMMA CrashType ==
  ASSUME TypeOK, NEW w \in Workers, Crash(w)
  PROVE TypeOK'
<1>1. Seating(w) => requests[w].bus \in Buses
  BY DEF TypeOK, Request, Seating
<1> QED BY <1>1, EndType DEF Crash, TypeOK

LEMMA TypeNext == TypeOK /\ [Next]_vars => TypeOK'
<1>1. ASSUME TypeOK, UNCHANGED vars PROVE TypeOK'
  BY <1>1 DEF TypeOK, vars, history
<1> QED
  BY <1>1, ArriveType, ProceedType, CrashType, AtOnceType, SellType, Zenon DEF Next

\* Rows, seats, sales and requests keep their types.
THEOREM FleetTypes == Spec => []TypeOK
  BY TypeInit, TypeNext, PTL DEF Spec

-----------------------------------------------------------------------------
(* One trip of a bus per departure: only steps that make or move a trip matter. *)

LEMMA TripsKeepPlaces ==
  ASSUME OneTripPerDeparture,
         \A t \in Trips : (trips'[t].state \in {"SCHEDULED", "CANCELLED"}) =>
           /\ Exists(t) /\ trips'[t].bus = trips[t].bus
           /\ trips'[t].departure = trips[t].departure
  PROVE OneTripPerDeparture'
  BY DEF OneTripPerDeparture, Exists

LEMMA MoveKeepsOneTrip ==
  ASSUME TypeOK, OneTripPerDeparture, NEW w \in Workers, WriteTrip(w)
  PROVE OneTripPerDeparture'
<1> DEFINE r == requests[w]
           t == r.trip
<1>1. CASE UNCHANGED trips
  BY <1>1, TripsKeepPlaces DEF Exists
<1>2. CASE /\ Movable(t, r.departure, r.bus)
           /\ trips' = [trips EXCEPT ![t].bus = r.bus, ![t].departure = r.departure]
  <2>1. t \in Trips
    BY <1>2 DEF Movable, Exists
  <2>2. trips[t] \in Trip /\ trips[t].state \in {"SCHEDULED", "CANCELLED"}
    BY <1>2, <2>1, TripTypes DEF Movable, Exists
  <2>3. /\ trips'[t].bus = r.bus /\ trips'[t].departure = r.departure
        /\ \A u \in Trips : u # t => trips'[u] = trips[u]
    BY <1>2, <2>1, <2>2 DEF TypeOK, Trip, NoRow
  <2>4. \A u \in Trips : (/\ trips[u].state \in {"SCHEDULED", "CANCELLED"}
                          /\ trips[u].bus = r.bus /\ trips[u].departure = r.departure)
                            => u = t
    BY <1>2 DEF Movable, Exists
  <2> QED BY <2>3, <2>4 DEF OneTripPerDeparture, Exists
<1> QED BY <1>1, <1>2 DEF WriteTrip

LEMMA CreateKeepsOneTrip ==
  ASSUME TypeOK, OneTripPerDeparture, NEW d \in Departures, NEW b \in Buses,
         CreateTrip(d, b)
  PROVE OneTripPerDeparture'
<1> DEFINE n == NewId(d, b)
<1>1. n \in Trips /\ n[1] = d /\ n[2] = b
  BY NewIdType DEF CreateTrip
<1>2. trips' = [trips EXCEPT ![n] = Made(n)] /\ ~Taken(d, b)
  BY DEF CreateTrip
<1> HIDE DEF n
<1>3. /\ trips'[n].bus = b /\ trips'[n].departure = d
      /\ \A u \in Trips : u # n => trips'[u] = trips[u]
  BY <1>1, <1>2 DEF TypeOK, Made
<1> QED BY <1>2, <1>3 DEF OneTripPerDeparture, Exists, Taken

LEMMA InsertKeepsOneTrip ==
  ASSUME TypeOK, OneTripPerDeparture, NEW w \in Workers, InsertTrips(w)
  PROVE OneTripPerDeparture'
<1> DEFINE new == {p \in requests[w].list : ~Taken(p[1], p[2])}
<1>1. CASE UNCHANGED trips
  BY <1>1, TripsKeepPlaces DEF Exists
<1>2. CASE trips' = [t \in Trips |-> IF <<t[1], t[2]>> \in new /\ t = NewId(t[1], t[2])
                                     THEN Made(t) ELSE trips[t]]
  <2> DEFINE made(t) == <<t[1], t[2]>> \in new /\ t = NewId(t[1], t[2])
  <2>1. ASSUME NEW t \in Trips, made(t)
        PROVE trips'[t].bus = t[2] /\ trips'[t].departure = t[1] /\ ~Taken(t[1], t[2])
    BY <1>2, <2>1 DEF Made
  <2>2. ASSUME NEW t \in Trips, ~made(t)
        PROVE trips'[t] = trips[t]
    BY <1>2, <2>2
  <2>3. ASSUME NEW t \in Trips, NEW u \in Trips, made(t), made(u), t[1] = u[1], t[2] = u[2]
        PROVE t = u
    BY <2>3
  <2> HIDE DEF made
  <2> QED BY <2>1, <2>2, <2>3 DEF OneTripPerDeparture, Exists, Taken
<1> QED BY <1>1, <1>2 DEF InsertTrips

LEMMA OneTripNext == TypeOK /\ OneTripPerDeparture /\ [Next]_vars => OneTripPerDeparture'
<1> SUFFICES ASSUME TypeOK, OneTripPerDeparture, [Next]_vars PROVE OneTripPerDeparture'
  OBVIOUS
<1>1. ASSUME UNCHANGED trips PROVE OneTripPerDeparture'
  BY <1>1, TripsKeepPlaces DEF Exists
<1>2. ASSUME NEW w \in Workers, Arrive(w) \/ Crash(w) PROVE UNCHANGED trips
  BY <1>2 DEF Arrive, CreateBus, UpdateBus, CreateSeats, UpdateTrip, CancelTrip, Lock,
              Generate, Rebuild, BeginSeating, BeginReading, Crash
<1>3. ASSUME NEW w \in Workers, WriteCancel(w) PROVE OneTripPerDeparture'
  <2>1. \A t \in Trips : /\ Exists(t)' => Exists(t)
                         /\ trips'[t].bus = trips[t].bus
                         /\ trips'[t].departure = trips[t].departure
    BY <1>3 DEF WriteCancel, TypeOK, Trip, NoRow, Exists
  <2> QED BY <2>1, TripsKeepPlaces DEF Exists
<1>4. ASSUME NEW w \in Workers, DeleteAllTrips(w) PROVE OneTripPerDeparture'
  <2>1. \A t \in Trips : ~(trips'[t].state \in {"SCHEDULED", "CANCELLED"})
    BY <1>4 DEF DeleteAllTrips, TypeOK, Trip, NoRow, Exists
  <2> QED BY <2>1, TripsKeepPlaces
<1>5. ASSUME NEW w \in Workers,
             \/ WriteBus(w) \/ CountSeats(w) \/ AskLocks(w) \/ DeleteSeats(w)
             \/ InsertSeats(w) \/ ReadBuses(w) \/ CheckNext(w) \/ Report(w) \/ InsertLock(w)
      PROVE UNCHANGED trips
  BY <1>5 DEF WriteBus, CountSeats, AskLocks, DeleteSeats, InsertSeats, ReadBuses,
              CheckNext, Report, InsertLock, Fail
<1>6. ASSUME NEW w \in Workers, Proceed(w) PROVE OneTripPerDeparture'
  BY <1>1, <1>3, <1>4, <1>5, <1>6, MoveKeepsOneTrip, InsertKeepsOneTrip, Zenon DEF Proceed
<1>7. CASE AtOnce
  BY <1>1, <1>7, CreateKeepsOneTrip DEF AtOnce, DeleteBus
<1>8. CASE Sell \/ UNCHANGED vars
  BY <1>1, <1>8 DEF Sell, Start, Confirm, GiveBack, vars
<1> QED BY <1>1, <1>2, <1>6, <1>7, <1>8, Zenon DEF Next

\* No two trips of a bus leave on one route at the same time, whatever the midnight job,
\* the ADMIN's generation and the edits of trips do at once.
THEOREM FleetOneTripPerDeparture == Spec => []OneTripPerDeparture
<1>1. Init => OneTripPerDeparture
  BY DEF Init, OneTripPerDeparture, Exists, NoRow
<1> QED BY <1>1, OneTripNext, FleetTypes, PTL DEF Spec

-----------------------------------------------------------------------------
(* What is sold stays good.                                                *)

SeatsHaveABus == \A b \in Buses : seats[b].size # NoSize => There(b)
RowsHaveSeats == \A t \in Trips : \A b \in rows[t] : seats[b].size # NoSize
SalesHaveRows == \A t \in Trips : Sold(t) => Exists(t) /\ sales[t].bus \in rows[t]
SalesKnowTheirTrip ==
  \A t \in Trips : Sold(t) => /\ trips[t].bus = sales[t].bus \/ t \in moved
                              /\ trips[t].state = "SCHEDULED" \/ t \in late

\* A lock under way has its trip's bus, or the trip counts as moved.
LocksKnowTheirBus ==
  \A w \in Workers : requests[w].kind = "lock" =>
    LET t == requests[w].trip
    IN t \in Trips /\ trips[t].state # "none"
       /\ (trips[t].bus = requests[w].bus \/ t \in moved)

\* A sale that began under a cancellation counts as late.
CancellationsAreKnown ==
  \A w \in Workers : requests[w].kind = "cancelTrip" =>
    LET t == requests[w].trip IN t \in Trips /\ (Sold(t) => t \in late)

IInv == /\ TypeOK
        /\ SeatsHaveABus /\ RowsHaveSeats /\ SalesHaveRows /\ SalesKnowTheirTrip
        /\ LocksKnowTheirBus /\ CancellationsAreKnown

\* No request becomes a lock or a cancellation; those under way stay what they are.
SameErrands ==
  \A v \in Workers : requests'[v].kind \in {"lock", "cancelTrip"} =>
    /\ requests'[v].kind = requests[v].kind
    /\ requests'[v].trip = requests[v].trip
    /\ requests'[v].bus = requests[v].bus

LEMMA EndSame ==
  ASSUME TypeOK, NEW w \in Workers, End(w) PROVE SameErrands
  BY DEF SameErrands, End, Idle, TypeOK

LEMMA GoSame ==
  ASSUME TypeOK, NEW w \in Workers, NEW phase, Go(w, phase) PROVE SameErrands
<1>1. requests[w] \in Request
  BY RequestTypes
<1> QED BY <1>1 DEF SameErrands, Go, TypeOK, Request

LEMMA BeginSame ==
  ASSUME TypeOK, NEW w \in Workers, NEW request, Begin(w, request),
         request.kind \notin {"lock", "cancelTrip"}
  PROVE SameErrands
  BY DEF SameErrands, Begin, TypeOK

LEMMA ShiftedSame ==
  ASSUME TypeOK, NEW v \in Workers
  PROVE /\ Shifted[v].kind = requests[v].kind /\ Shifted[v].trip = requests[v].trip
        /\ Shifted[v].bus = requests[v].bus
<1>1. requests[v] \in Request
  BY RequestTypes
<1> QED BY <1>1 DEF Shifted, Request

LEMMA SalesUntouched ==
  ASSUME IInv, UNCHANGED <<trips, rows, sales, late, moved>>, SameErrands
  PROVE SalesHaveRows' /\ SalesKnowTheirTrip' /\ LocksKnowTheirBus' /\ CancellationsAreKnown'
<1>1. SalesHaveRows' /\ SalesKnowTheirTrip'
  BY DEF IInv, SalesHaveRows, SalesKnowTheirTrip, Sold, Exists
<1>2. LocksKnowTheirBus'
  BY DEF IInv, LocksKnowTheirBus, SameErrands
<1>3. CancellationsAreKnown'
  BY DEF IInv, CancellationsAreKnown, SameErrands, Sold
<1> QED BY <1>1, <1>2, <1>3

LEMMA SeatsUntouched ==
  ASSUME IInv, UNCHANGED seats, \A b \in Buses : There(b) => There(b)',
         \A t \in Trips : rows'[t] \in SUBSET rows[t]
  PROVE SeatsHaveABus' /\ RowsHaveSeats'
  BY DEF IInv, SeatsHaveABus, RowsHaveSeats

LEMMA RequestsOnly ==
  ASSUME IInv, TypeOK', UNCHANGED <<buses, seats, trips, rows, sales, late, moved>>,
         SameErrands
  PROVE IInv'
<1>1. SeatsHaveABus' /\ RowsHaveSeats'
  BY SeatsUntouched DEF There
<1> QED BY <1>1, SalesUntouched DEF IInv

LEMMA ArriveKeeps ==
  ASSUME IInv, NEW w \in Workers, Arrive(w)
  PROVE IInv'
<1>0. TypeOK /\ TypeOK'
  BY ArriveType DEF IInv
<1>1. ASSUME NEW b \in Buses, NEW size \in Sizes, CreateBus(w, b, size) PROVE IInv'
  <2>1. SameErrands
    BY <1>0, <1>1, BeginSame DEF CreateBus, BeginSeating, Idle
  <2>2. \A c \in Buses : There(c) => There(c)'
    BY <1>0, <1>1 DEF CreateBus, There, TypeOK
  <2>3. UNCHANGED <<seats, trips, rows, sales, late, moved>>
    BY <1>1 DEF CreateBus, BeginSeating
  <2>4. SeatsHaveABus' /\ RowsHaveSeats'
    BY <2>2, <2>3, SeatsUntouched
  <2> QED BY <1>0, <2>1, <2>3, <2>4, SalesUntouched DEF IInv
<1>2. ASSUME NEW b \in Buses, NEW size \in Sizes, UpdateBus(w, b, size) PROVE IInv'
  <2>1. SameErrands
    BY <1>0, <1>2, BeginSame DEF UpdateBus, BeginSeating, Idle
  <2> QED BY <1>0, <1>2, <2>1, RequestsOnly DEF UpdateBus, BeginSeating
<1>3. ASSUME NEW b \in Buses, NEW force \in BOOLEAN, CreateSeats(w, b, force) PROVE IInv'
  <2>1. SameErrands
    BY <1>0, <1>3, BeginSame DEF CreateSeats, BeginSeating, Idle
  <2> QED BY <1>0, <1>3, <2>1, RequestsOnly DEF CreateSeats, BeginSeating
<1>4. ASSUME NEW t \in Trips, NEW d \in Departures, NEW b \in Buses, UpdateTrip(w, t, d, b)
      PROVE IInv'
  <2>1. SameErrands
    BY <1>0, <1>4, BeginSame DEF UpdateTrip, BeginReading, Idle
  <2> QED BY <1>0, <1>4, <2>1, RequestsOnly DEF UpdateTrip, BeginReading, history
<1>5. ASSUME NEW t \in Trips, CancelTrip(w, t) PROVE IInv'
  <2>1. /\ requests' = [requests EXCEPT ![w] = [Idle EXCEPT !.kind = "cancelTrip",
                                                !.phase = "counted", !.trip = t]]
        /\ UNCHANGED <<buses, seats, trips, rows, sales, late, moved>> /\ ~Sold(t)
    BY <1>5 DEF CancelTrip, BeginReading, Begin, history
  <2>2. /\ requests'[w].kind = "cancelTrip" /\ requests'[w].trip = t
        /\ \A v \in Workers : v # w => requests'[v] = requests[v]
    BY <1>0, <2>1 DEF TypeOK, Idle
  <2>3. LocksKnowTheirBus'
    BY <2>1, <2>2 DEF IInv, LocksKnowTheirBus
  <2>4. CancellationsAreKnown'
    BY <2>1, <2>2 DEF IInv, CancellationsAreKnown, Sold
  <2>5. SeatsHaveABus' /\ RowsHaveSeats' /\ SalesHaveRows' /\ SalesKnowTheirTrip'
    BY <2>1 DEF IInv, SeatsHaveABus, RowsHaveSeats, SalesHaveRows, SalesKnowTheirTrip,
                Sold, There, Exists
  <2> QED BY <1>0, <2>3, <2>4, <2>5 DEF IInv
<1>6. ASSUME NEW t \in Trips, Lock(w, t) PROVE IInv'
  <2>1. /\ requests' = [requests EXCEPT ![w] =
             [Idle EXCEPT !.kind = "lock", !.phase = "read", !.trip = t,
                          !.bus = trips[t].bus, !.batch = seats[trips[t].bus].batch]]
        /\ UNCHANGED <<buses, seats, trips, rows, sales, late, moved>> /\ Exists(t)
    BY <1>6 DEF Lock, BeginReading, Begin, history
  <2>2. /\ requests'[w].kind = "lock" /\ requests'[w].trip = t
        /\ requests'[w].bus = trips[t].bus
        /\ \A v \in Workers : v # w => requests'[v] = requests[v]
    BY <1>0, <2>1 DEF TypeOK, Idle
  <2>3. LocksKnowTheirBus'
    BY <2>1, <2>2 DEF IInv, LocksKnowTheirBus, Exists
  <2>4. CancellationsAreKnown'
    BY <2>1, <2>2 DEF IInv, CancellationsAreKnown, Sold
  <2>5. SeatsHaveABus' /\ RowsHaveSeats' /\ SalesHaveRows' /\ SalesKnowTheirTrip'
    BY <2>1 DEF IInv, SeatsHaveABus, RowsHaveSeats, SalesHaveRows, SalesKnowTheirTrip,
                Sold, There, Exists
  <2> QED BY <1>0, <2>3, <2>4, <2>5 DEF IInv
<1>7. ASSUME NEW force \in BOOLEAN, Generate(w, force) \/ Rebuild(w, force) PROVE IInv'
  <2>1. SameErrands
    BY <1>0, <1>7, BeginSame DEF Generate, Rebuild, BeginReading, Idle
  <2> QED BY <1>0, <1>7, <2>1, RequestsOnly DEF Generate, Rebuild, BeginReading, history
<1> QED
  BY <1>1, <1>2, <1>3, <1>4, <1>5, <1>6, <1>7, Zenon DEF Arrive

\* A step of a request about seats, and the deletion of a bus.
LEMMA SeatsKeep ==
  ASSUME IInv, NEW w \in Workers,
         WriteBus(w) \/ CountSeats(w) \/ AskLocks(w) \/ DeleteSeats(w) \/ InsertSeats(w)
  PROVE IInv'
<1> DEFINE r == requests[w]
           b == r.bus
<1>0. TypeOK /\ TypeOK' /\ r \in Request
  BY SeatsType, RequestTypes DEF IInv
<1>1. UNCHANGED <<trips, rows, sales, late, moved>>
  BY DEF WriteBus, CountSeats, AskLocks, DeleteSeats, InsertSeats, Fail, history
<1>2. SameErrands
  <2>1. CASE CountSeats(w) /\ ~End(w)
    BY <1>0, <2>1 DEF CountSeats, Fail, SameErrands, TypeOK, Request
  <2>2. CASE End(w)
    BY <1>0, <2>2, EndSame
  <2>3. CASE \E phase \in Phases : Go(w, phase)
    BY <1>0, <2>3, GoSame
  <2> QED
    BY <2>1, <2>2, <2>3 DEF WriteBus, AskLocks, DeleteSeats, InsertSeats, Fail, Phases
<1>3. SeatsHaveABus' /\ RowsHaveSeats'
  <2>1. CASE UNCHANGED seats
    <3>1. \A c \in Buses : There(c) => There(c)'
      BY <1>0 DEF WriteBus, CountSeats, AskLocks, DeleteSeats, InsertSeats, Fail, There,
                  TypeOK, Bus
    <3> QED BY <1>1, <2>1, <3>1, SeatsUntouched
  <2>2. CASE DeleteSeats(w) /\ ~Referred(b) /\ seats' = [seats EXCEPT ![b].size = NoSize]
    <3>1. \A c \in Buses : c # b => seats'[c] = seats[c]
      BY <1>0, <2>2 DEF TypeOK
    <3>2. \A c \in Buses : seats'[c].size # NoSize => seats[c].size # NoSize
      BY <1>0, <2>2, <3>1 DEF TypeOK, Seats
    <3>3. UNCHANGED buses
      BY <2>2 DEF DeleteSeats, Fail
    <3>4. \A t \in Trips : \A c \in rows[t] : c # b /\ c \in Buses
      BY <1>0, <2>2 DEF Referred, TypeOK
    <3> QED BY <1>1, <3>1, <3>2, <3>3, <3>4 DEF IInv, SeatsHaveABus, RowsHaveSeats, There
  <2>3. CASE /\ There(b) /\ seats[b].size = NoSize /\ UNCHANGED buses
             /\ seats' = [seats EXCEPT ![b] = [size |-> r.size, batch |-> @.batch + 1]]
    <3>1. \A c \in Buses : c # b => seats'[c] = seats[c]
      BY <1>0, <2>3 DEF TypeOK
    <3>2. \A t \in Trips : \A c \in rows[t] : c # b /\ c \in Buses
      BY <1>0, <2>3 DEF IInv, RowsHaveSeats, TypeOK
    <3> QED BY <1>1, <2>3, <3>1, <3>2 DEF IInv, SeatsHaveABus, RowsHaveSeats, There
  <2> QED
    BY <2>1, <2>2, <2>3 DEF WriteBus, CountSeats, AskLocks, DeleteSeats, InsertSeats, Fail
<1> QED BY <1>0, <1>1, <1>2, <1>3, SalesUntouched DEF IInv

LEMMA DeleteBusKeeps ==
  ASSUME IInv, NEW b \in Buses, DeleteBus(b)
  PROVE IInv'
<1>1. TypeOK /\ TypeOK'
  BY AtOnceType DEF IInv, AtOnce
<1>2. /\ UNCHANGED <<trips, rows, sales, requests, late, moved>>
      /\ seats' = [seats EXCEPT ![b].size = NoSize]
      /\ buses' = [buses EXCEPT ![b] = [state |-> "gone", size |-> NoSize]]
      /\ ~Referred(b)
  BY DEF DeleteBus, history
<1>3. SameErrands
  BY <1>2 DEF SameErrands
<1>4. /\ \A c \in Buses : c # b => seats'[c] = seats[c] /\ buses'[c] = buses[c]
      /\ seats'[b].size = NoSize
  BY <1>1, <1>2 DEF TypeOK, Seats
<1>5. \A t \in Trips : \A c \in rows[t] : c # b /\ c \in Buses
  BY <1>1, <1>2 DEF Referred, TypeOK
<1>6. SeatsHaveABus' /\ RowsHaveSeats'
  BY <1>2, <1>4, <1>5 DEF IInv, SeatsHaveABus, RowsHaveSeats, There
<1> QED BY <1>1, <1>2, <1>3, <1>6, SalesUntouched DEF IInv

\* A step that leaves seats, sales and cancellations alone and only makes new trips.
LEMMA NewTripsKeep ==
  ASSUME IInv, TypeOK', UNCHANGED <<buses, seats, rows, sales, late, moved>>, SameErrands,
         \A t \in Trips : trips[t].state # "none" => trips'[t] = trips[t]
  PROVE IInv'
<1>1. SeatsHaveABus' /\ RowsHaveSeats'
  BY SeatsUntouched DEF There
<1>2. \A t \in Trips : Sold(t) => trips'[t] = trips[t]
  BY DEF IInv, SalesHaveRows, Exists
<1>3. SalesHaveRows' /\ SalesKnowTheirTrip'
  BY <1>2 DEF IInv, SalesHaveRows, SalesKnowTheirTrip, Sold, Exists
<1>4. LocksKnowTheirBus'
  BY DEF IInv, LocksKnowTheirBus, SameErrands
<1>5. CancellationsAreKnown'
  BY DEF IInv, CancellationsAreKnown, SameErrands, Sold
<1> QED BY <1>1, <1>3, <1>4, <1>5 DEF IInv

LEMMA CreateTripKeeps ==
  ASSUME IInv, NEW d \in Departures, NEW b \in Buses, CreateTrip(d, b)
  PROVE IInv'
<1>1. TypeOK /\ TypeOK'
  BY AtOnceType DEF IInv, AtOnce
<1>2. NewId(d, b) \in Trips /\ trips[NewId(d, b)].state = "none"
  BY NewIdType DEF CreateTrip
<1>3. \A t \in Trips : trips[t].state # "none" => trips'[t] = trips[t]
  BY <1>1, <1>2 DEF CreateTrip, TypeOK
<1>4. SameErrands
  BY DEF CreateTrip, SameErrands
<1> QED BY <1>1, <1>3, <1>4, NewTripsKeep DEF CreateTrip, history

LEMMA GeneratorKeeps ==
  ASSUME IInv, NEW w \in Workers,
         ReadBuses(w) \/ CheckNext(w) \/ InsertTrips(w) \/ Report(w)
  PROVE IInv'
<1>0. TypeOK /\ TypeOK' /\ requests[w] \in Request
  BY GeneratorType, RequestTypes DEF IInv
<1>1. SameErrands
  <2>1. CASE ReadBuses(w)
    BY <1>0, <2>1, ZenonT(60) DEF ReadBuses, SameErrands, TypeOK, Request
  <2>2. CASE CheckNext(w)
    BY <1>0, <2>2 DEF CheckNext, Check, SameErrands, TypeOK, Request
  <2>3. CASE InsertTrips(w)
    BY <1>0, <2>3, EndSame, GoSame DEF InsertTrips
  <2>4. CASE Report(w)
    BY <1>0, <2>4, EndSame DEF Report
  <2> QED BY <2>1, <2>2, <2>3, <2>4
<1>2. CASE InsertTrips(w)
  <2>1. ASSUME NEW t \in Trips, trips[t].state # "none" PROVE trips'[t] = trips[t]
    <3> DEFINE new == {p \in requests[w].list : ~Taken(p[1], p[2])}
    <3>1. CASE UNCHANGED trips
      BY <3>1
    <3>2. CASE /\ \A p \in new : Fresh(p[1], p[2]) # {}
               /\ trips' = [u \in Trips |->
                              IF <<u[1], u[2]>> \in new /\ u = NewId(u[1], u[2])
                              THEN Made(u) ELSE trips[u]]
      <4>1. CASE <<t[1], t[2]>> \in new /\ t = NewId(t[1], t[2])
        <5>1. t[1] \in Departures /\ t[2] \in Buses /\ Fresh(t[1], t[2]) # {}
          BY <3>2, <4>1, <1>0, TripTypes
        <5>2. trips[t].state = "none"
          BY <4>1, <5>1, NewIdType
        <5> QED BY <2>1, <5>2
      <4>2. CASE ~(<<t[1], t[2]>> \in new /\ t = NewId(t[1], t[2]))
        BY <3>2, <4>2
      <4> QED BY <4>1, <4>2
    <3> QED BY <1>2, <3>1, <3>2 DEF InsertTrips
  <2> QED BY <1>0, <1>1, <1>2, <2>1, NewTripsKeep DEF InsertTrips, history
<1>3. CASE ReadBuses(w) \/ CheckNext(w) \/ Report(w)
  BY <1>0, <1>1, <1>3, RequestsOnly DEF ReadBuses, CheckNext, Report, history
<1> QED BY <1>2, <1>3

LEMMA WriteTripKeeps ==
  ASSUME IInv, NEW w \in Workers, WriteTrip(w)
  PROVE IInv'
<1> DEFINE r == requests[w]
           t == r.trip
<1>0. TypeOK /\ TypeOK' /\ r \in Request
  BY TripsType, RequestTypes DEF IInv
<1>1. UNCHANGED <<buses, seats, rows, sales, late>>
  BY DEF WriteTrip
<1>2. SeatsHaveABus' /\ RowsHaveSeats'
  BY <1>1, SeatsUntouched DEF There
<1>3. CASE End(w) /\ UNCHANGED <<trips, moved>>
  BY <1>0, <1>1, <1>3, EndSame, RequestsOnly
<1>4. CASE /\ Movable(t, r.departure, r.bus)
           /\ trips' = [trips EXCEPT ![t].bus = r.bus, ![t].departure = r.departure]
           /\ moved' = IF trips[t].bus # r.bus /\ (Sold(t) \/ Locking(t))
                       THEN moved \cup {t} ELSE moved
           /\ requests' = [Shifted EXCEPT ![w] = Idle]
  <2>1. t \in Trips /\ trips[t] \in Trip /\ trips[t].state \in {"SCHEDULED", "CANCELLED"}
    BY <1>4, <1>0, TripTypes DEF Movable, Exists
  <2>2. /\ trips'[t].state = trips[t].state /\ trips'[t].bus = r.bus
        /\ \A u \in Trips : u # t => trips'[u] = trips[u]
    BY <1>0, <1>4, <2>1 DEF TypeOK, Trip, NoRow
  <2>3. \A u \in moved : u \in moved'
    BY <1>4
  <2>4. SameErrands
    BY <1>0, <1>4, ShiftedSame, ShiftedType DEF SameErrands, Idle
  <2>5. SalesHaveRows' /\ SalesKnowTheirTrip'
    BY <1>1, <1>4, <2>1, <2>2, <2>3 DEF IInv, SalesHaveRows, SalesKnowTheirTrip, Sold, Exists
  <2>6. LocksKnowTheirBus'
    <3> SUFFICES ASSUME NEW v \in Workers, requests'[v].kind = "lock"
                 PROVE LET u == requests'[v].trip
                       IN u \in Trips /\ trips'[u].state # "none"
                          /\ (trips'[u].bus = requests'[v].bus \/ u \in moved')
      BY DEF LocksKnowTheirBus
    <3>1. /\ requests[v].kind = "lock" /\ requests'[v].trip = requests[v].trip
          /\ requests'[v].bus = requests[v].bus
      BY <2>4 DEF SameErrands
    <3> DEFINE u == requests[v].trip
    <3>2. /\ u \in Trips /\ trips[u].state # "none"
          /\ trips[u].bus = requests[v].bus \/ u \in moved
      BY <3>1 DEF IInv, LocksKnowTheirBus
    <3>3. CASE u # t
      BY <2>2, <2>3, <3>1, <3>2, <3>3
    <3>4. CASE u = t
      <4>1. Locking(t)
        BY <3>1, <3>4 DEF Locking
      <4>2. trips'[t].bus = trips[t].bus \/ t \in moved'
        BY <1>4, <2>2, <4>1
      <4> QED BY <2>2, <2>3, <3>1, <3>2, <3>4, <4>2
    <3> QED BY <3>3, <3>4
  <2>7. CancellationsAreKnown'
    BY <1>1, <2>4 DEF IInv, CancellationsAreKnown, SameErrands, Sold
  <2> QED BY <1>0, <1>2, <2>5, <2>6, <2>7 DEF IInv
<1> QED BY <1>3, <1>4 DEF WriteTrip

LEMMA WriteCancelKeeps ==
  ASSUME IInv, NEW w \in Workers, WriteCancel(w)
  PROVE IInv'
<1> DEFINE t == requests[w].trip
<1>0. TypeOK /\ TypeOK'
  BY TripsType DEF IInv
<1>1. UNCHANGED <<buses, seats, rows, sales, late, moved>> /\ SameErrands
  BY <1>0, EndSame DEF WriteCancel, history
<1>2. SeatsHaveABus' /\ RowsHaveSeats'
  BY <1>1, SeatsUntouched DEF There
<1>3. t \in Trips /\ (Sold(t) => t \in late)
  BY DEF IInv, CancellationsAreKnown, WriteCancel
<1>4. /\ \A u \in Trips : u # t => trips'[u] = trips[u]
      /\ trips'[t].bus = trips[t].bus
      /\ Exists(t) => trips'[t].state = "CANCELLED"
      /\ ~Exists(t) => trips'[t] = trips[t]
  BY <1>0, <1>3 DEF WriteCancel, TypeOK, Trip, NoRow, Exists
<1>5. SalesHaveRows' /\ SalesKnowTheirTrip'
  BY <1>1, <1>3, <1>4 DEF IInv, SalesHaveRows, SalesKnowTheirTrip, Sold, Exists
<1>6. LocksKnowTheirBus'
  BY <1>1, <1>4 DEF IInv, LocksKnowTheirBus, SameErrands, Exists
<1>7. CancellationsAreKnown'
  BY <1>1 DEF IInv, CancellationsAreKnown, SameErrands, Sold
<1> QED BY <1>0, <1>2, <1>5, <1>6, <1>7 DEF IInv

LEMMA DeleteAllTripsKeeps ==
  ASSUME IInv, NEW w \in Workers, DeleteAllTrips(w)
  PROVE IInv'
<1>0. TypeOK /\ TypeOK'
  BY TripsType DEF IInv
<1>1. /\ UNCHANGED <<buses, seats, late, moved>>
      /\ \A t \in Trips : rows'[t] = {} /\ sales'[t] = Free
  BY DEF DeleteAllTrips, history
<1>2. SeatsHaveABus' /\ RowsHaveSeats'
  BY <1>1, SeatsUntouched DEF There
<1>3. SameErrands
  <2>1. Shifted[w] \in Request
    BY <1>0, ShiftedType
  <2>2. requests' = [Shifted EXCEPT ![w] = [Shifted[w] EXCEPT !.phase = "ready"]]
    BY DEF DeleteAllTrips
  <2> QED BY <1>0, <2>1, <2>2, ShiftedSame, ShiftedType DEF SameErrands, Request
<1>4. \A t \in Trips : ~Sold(t)'
  BY <1>1 DEF Sold, Free
<1>5. \A t \in Trips : /\ trips'[t].bus = trips[t].bus
                       /\ trips[t].state # "none" => trips'[t].state # "none"
  BY <1>0 DEF DeleteAllTrips, TypeOK, Trip, NoRow, Exists
<1>6. SalesHaveRows' /\ SalesKnowTheirTrip' /\ CancellationsAreKnown'
  BY <1>3, <1>4 DEF IInv, SalesHaveRows, SalesKnowTheirTrip, CancellationsAreKnown,
                    SameErrands
<1>7. LocksKnowTheirBus'
  BY <1>1, <1>3, <1>5 DEF IInv, LocksKnowTheirBus, SameErrands
<1> QED BY <1>0, <1>2, <1>6, <1>7 DEF IInv

LEMMA InsertLockKeeps ==
  ASSUME IInv, NEW w \in Workers, InsertLock(w)
  PROVE IInv'
<1> DEFINE r == requests[w]
           t == r.trip
<1>0. TypeOK /\ TypeOK' /\ r.kind = "lock"
  BY InsertLockType DEF IInv, InsertLock
<1>1. UNCHANGED <<buses, seats, trips, moved>> /\ SameErrands
  BY <1>0, EndSame DEF InsertLock
<1>2. t \in Trips /\ (trips[t].bus = r.bus \/ t \in moved)
  BY <1>0 DEF IInv, LocksKnowTheirBus
<1>3. LocksKnowTheirBus'
  BY <1>1 DEF IInv, LocksKnowTheirBus, SameErrands
<1>4. CASE UNCHANGED <<sales, rows, late>>
  BY <1>0, <1>1, <1>4, RequestsOnly
<1>5. CASE /\ Lockable(r)
           /\ sales' = [sales EXCEPT ![t] = [stage |-> "locked", bus |-> r.bus]]
           /\ rows' = [rows EXCEPT ![t] = @ \cup {r.bus}]
           /\ late' = IF Cancelling(t) THEN late \cup {t} ELSE late
  <2>1. /\ sales'[t].bus = r.bus /\ rows'[t] = rows[t] \cup {r.bus}
        /\ \A u \in Trips : u # t => sales'[u] = sales[u] /\ rows'[u] = rows[u]
    BY <1>0, <1>2, <1>5 DEF TypeOK
  <2>2. Exists(t) /\ seats[r.bus].size # NoSize
    BY <1>5 DEF Lockable
  <2>3. SeatsHaveABus' /\ RowsHaveSeats'
    BY <1>1, <2>1, <2>2 DEF IInv, SeatsHaveABus, RowsHaveSeats, There
  <2>4. SalesHaveRows'
    BY <1>1, <2>1, <2>2 DEF IInv, SalesHaveRows, Sold, Exists
  <2>5. late \in SUBSET late' /\ (trips[t].state = "CANCELLED" => t \in late')
    BY <1>5 DEF Cancelling
  <2>6. SalesKnowTheirTrip'
    BY <1>1, <1>2, <2>1, <2>2, <2>5 DEF IInv, SalesKnowTheirTrip, Sold, Exists
  <2>7. CancellationsAreKnown'
    <3> SUFFICES ASSUME NEW v \in Workers, requests'[v].kind = "cancelTrip"
                 PROVE requests'[v].trip \in Trips
                       /\ (sales'[requests'[v].trip].stage # "free"
                             => requests'[v].trip \in late')
      BY DEF CancellationsAreKnown, Sold
    <3>1. requests[v].kind = "cancelTrip" /\ requests'[v].trip = requests[v].trip
      BY <1>1 DEF SameErrands
    <3>2. requests[v].trip \in Trips /\ (Sold(requests[v].trip) => requests[v].trip \in late)
      BY <3>1 DEF IInv, CancellationsAreKnown
    <3>3. CASE requests[v].trip = t
      BY <1>5, <3>1, <3>2, <3>3 DEF Cancelling
    <3>4. CASE requests[v].trip # t
      BY <2>1, <2>5, <3>1, <3>2, <3>4 DEF Sold
    <3> QED BY <3>3, <3>4
  <2> QED BY <1>0, <1>3, <2>3, <2>4, <2>6, <2>7 DEF IInv
<1> QED BY <1>4, <1>5 DEF InsertLock

LEMMA SellKeeps ==
  ASSUME IInv, Sell
  PROVE IInv'
<1>0. TypeOK /\ TypeOK'
  BY SellType DEF IInv
<1> SUFFICES ASSUME NEW t \in Trips, Start(t) \/ Confirm(t) \/ GiveBack(t)
             PROVE IInv'
  BY DEF Sell
<1>1. UNCHANGED <<buses, seats, trips, requests>>
  BY DEF Start, Confirm, GiveBack, history
<1>2. \A u \in Trips : rows'[u] \in SUBSET rows[u]
  BY <1>0 DEF Start, Confirm, GiveBack, TypeOK
<1>3. SeatsHaveABus' /\ RowsHaveSeats'
  BY <1>1, <1>2, SeatsUntouched DEF There
<1>4. \A u \in Trips : u # t => /\ sales'[u] = sales[u] /\ rows'[u] = rows[u]
                                /\ (u \in late) = (u \in late')
                                /\ (u \in moved) = (u \in moved')
  BY <1>0 DEF Start, Confirm, GiveBack, TypeOK, history
<1>5. Sold(t)' => /\ Sold(t) /\ sales'[t].bus = sales[t].bus
                  /\ UNCHANGED <<rows, late, moved>>
  BY <1>0 DEF Start, Confirm, GiveBack, Sold, Free, TypeOK, Sale, history
<1>6. SalesHaveRows' /\ SalesKnowTheirTrip'
  BY <1>1, <1>4, <1>5 DEF IInv, SalesHaveRows, SalesKnowTheirTrip, Sold, Exists
<1>7. CancellationsAreKnown'
  BY <1>1, <1>4, <1>5 DEF IInv, CancellationsAreKnown, Sold
<1>8. Locking(t) => (t \in moved => t \in moved')
  BY DEF Start, Confirm, GiveBack, history
<1>9. LocksKnowTheirBus'
  BY <1>1, <1>4, <1>8 DEF IInv, LocksKnowTheirBus, Locking
<1> QED BY <1>0, <1>3, <1>6, <1>7, <1>9 DEF IInv

LEMMA CrashKeeps ==
  ASSUME IInv, NEW w \in Workers, Crash(w)
  PROVE IInv'
  BY CrashType, EndSame, RequestsOnly DEF IInv, Crash

LEMMA IInvNext == IInv /\ [Next]_vars => IInv'
<1>1. ASSUME IInv, UNCHANGED vars PROVE IInv'
  <2>1. TypeOK' /\ SameErrands
    BY <1>1, TypeNext DEF IInv, vars, SameErrands
  <2> QED BY <1>1, <2>1, RequestsOnly DEF vars, history
<1>2. ASSUME IInv, NEW w \in Workers, Proceed(w) PROVE IInv'
  BY <1>2, SeatsKeep, WriteTripKeeps, WriteCancelKeeps, DeleteAllTripsKeeps, GeneratorKeeps,
     InsertLockKeeps, Zenon DEF Proceed
<1>3. ASSUME IInv, AtOnce PROVE IInv'
  BY <1>3, DeleteBusKeeps, CreateTripKeeps, Zenon DEF AtOnce
<1> QED
  BY <1>1, <1>2, <1>3, ArriveKeeps, CrashKeeps, SellKeeps, Zenon DEF Next

\* Sold seats keep their bus, their layout and their trip, whatever is edited,
\* regenerated, generated or deleted at the same time, but for trips that update moved
\* and sales that a cancellation had not seen.
THEOREM FleetTicketsStayGood == Spec => []TicketsStayGood
<1>1. Init => IInv
  <2>1. ASSUME Init PROVE SeatsHaveABus
    BY <2>1 DEF Init, SeatsHaveABus, There
  <2>2. ASSUME Init
        PROVE RowsHaveSeats /\ SalesHaveRows /\ SalesKnowTheirTrip /\ LocksKnowTheirBus
              /\ CancellationsAreKnown
    BY <2>2 DEF Init, RowsHaveSeats, SalesHaveRows, SalesKnowTheirTrip, LocksKnowTheirBus,
                CancellationsAreKnown, Sold, Free, Idle
  <2> QED BY <2>1, <2>2, TypeInit DEF IInv
<1>2. IInv => TicketsStayGood
  <2> SUFFICES ASSUME IInv, NEW t \in Trips, Sold(t)
               PROVE /\ Exists(t) /\ There(sales[t].bus) /\ seats[sales[t].bus].size # NoSize
                     /\ trips[t].bus = sales[t].bus \/ t \in moved
                     /\ trips[t].state = "SCHEDULED" \/ t \in late
    BY DEF TicketsStayGood
  <2>1. Exists(t) /\ sales[t].bus \in rows[t] /\ rows[t] \in SUBSET Buses
    BY TripTypes DEF IInv, SalesHaveRows
  <2> QED BY <2>1 DEF IInv, RowsHaveSeats, SeatsHaveABus, SalesKnowTheirTrip
<1> QED BY <1>1, <1>2, IInvNext, PTL DEF Spec
-----------------------------------------------------------------------------
(* Seats and their bus.  Each bus is looked at on its own: a step works on *)
(* the seats of one bus and leaves the others as they are.                 *)

SeatPhases == {"read", "seating", "counted", "unheld", "emptied"}

\* What a request about the seats of b holds.
WorkFits(b) ==
  /\ There(b) => buses[b].size \in Sizes
  /\ \A w \in SeatingOf(b) : /\ requests[w].phase \in SeatPhases
                             /\ requests[w].phase # "seating" => requests[w].size \in Sizes

LostToCrash(b) ==
  There(b) /\ seats[b].size = NoSize =>
    b \in cut \/ \E w \in SeatingOf(b) : requests[w].phase \in {"seating", "emptied"}

\* One request at a time knows what the bus has and writes what it will have.
Orderly(b) ==
  /\ \A v, w \in SeatingOf(b) : v = w
  /\ There(b) /\ SeatingOf(b) = {} => seats[b].size = buses[b].size
  /\ \A w \in SeatingOf(b) : There(b) =>
       /\ requests[w].phase = "read" =>
            /\ seats[b].size = buses[b].size
            /\ requests[w].changed = (requests[w].size # buses[b].size)
       /\ requests[w].phase \in {"counted", "unheld", "emptied"} =>
            requests[w].size = buses[b].size

BusFits(b) == /\ WorkFits(b) /\ LostToCrash(b)
              /\ b \notin disturbed => Orderly(b)

\* Only generations list departures.
ListsAreGenerations ==
  \A w \in Workers : requests[w].phase \in {"ready", "listing", "done"} =>
    requests[w].kind \in {"generate", "rebuild"}

SInv == TypeOK /\ ListsAreGenerations /\ \A b \in Buses : BusFits(b)

\* The step leaves v's work on the seats of b as it is.
SameWork(v, b) ==
  /\ (v \in SeatingOf(b))' = (v \in SeatingOf(b))
  /\ v \in SeatingOf(b) => /\ requests'[v].phase = requests[v].phase
                           /\ requests'[v].size = requests[v].size
                           /\ requests'[v].changed = requests[v].changed

LEMMA SeatingOfWorkers ==
  ASSUME NEW b
  PROVE /\ \A v : v \in SeatingOf(b) <=>
                    v \in Workers /\ requests[v].kind \in SeatKinds /\ requests[v].bus = b
        /\ \A v : v \in SeatingOf(b)' <=>
                    v \in Workers /\ requests'[v].kind \in SeatKinds /\ requests'[v].bus = b
  BY DEF SeatingOf, Seating

LEMMA OtherBusFits ==
  ASSUME NEW b \in Buses, BusFits(b), buses'[b] = buses[b], seats'[b] = seats[b],
         cut \in SUBSET cut', disturbed \in SUBSET disturbed',
         \A v \in Workers : SameWork(v, b)
  PROVE BusFits(b)'
<1>1. There(b)' = There(b) /\ SeatingOf(b)' = SeatingOf(b)
  <2>1. \A v : v \in SeatingOf(b)' <=> v \in SeatingOf(b)
    BY SeatingOfWorkers DEF SameWork
  <2>2. SeatingOf(b)' = SeatingOf(b)
    BY <2>1
  <2> QED BY <2>2 DEF There
<1>2. \A v \in SeatingOf(b) : /\ requests'[v].phase = requests[v].phase
                              /\ requests'[v].size = requests[v].size
                              /\ requests'[v].changed = requests[v].changed
  BY SeatingOfWorkers DEF SameWork
<1> DEFINE working == SeatingOf(b)
<1>3. WorkFits(b)'
  BY <1>1, <1>2 DEF BusFits, WorkFits
<1>4. LostToCrash(b)'
  BY <1>1, <1>2 DEF BusFits, LostToCrash
<1>5. b \notin disturbed' => Orderly(b)'
  BY <1>1, <1>2 DEF BusFits, Orderly
<1> QED BY <1>3, <1>4, <1>5 DEF BusFits

\* A step of one request, or of none, that works on no seats.
LEMMA AsideFits ==
  ASSUME SInv, TypeOK', ListsAreGenerations',
         UNCHANGED <<buses, seats, cut, disturbed>>,
         \A v \in Workers : \A b \in Buses : SameWork(v, b)
  PROVE SInv'
  BY OtherBusFits, Zenon DEF SInv

LEMMA AloneFits ==
  ASSUME NEW w \in Workers, NEW b,
         \A v \in Workers : v # w => requests'[v] = requests[v],
         w \notin SeatingOf(b), w \notin SeatingOf(b)'
  PROVE \A v \in Workers : SameWork(v, b)
  BY SeatingOfWorkers DEF SameWork

\* The steps of requests that work on no seats.
LEMMA AsideSame ==
  ASSUME TypeOK, NEW w \in Workers, requests[w].kind \notin SeatKinds,
         requests'[w].kind \notin SeatKinds,
         \A v \in Workers : v # w => requests'[v] = requests[v]
  PROVE \A v \in Workers : \A b \in Buses : SameWork(v, b)
  BY AloneFits, SeatingOfWorkers

LEMMA IdleIsAside ==
  ASSUME SInv, NEW w \in Workers, requests[w].phase = "idle"
  PROVE requests[w].kind \notin SeatKinds
<1> SUFFICES ASSUME requests[w].kind \in SeatKinds PROVE FALSE
  OBVIOUS
<1>1. requests[w].bus \in Buses
  BY DEF SInv, TypeOK, Request
<1>2. w \in SeatingOf(requests[w].bus)
  BY SeatingOfWorkers
<1> QED BY <1>1, <1>2 DEF SInv, BusFits, WorkFits, SeatPhases

LEMMA EndFacts ==
  ASSUME TypeOK, NEW w \in Workers, End(w)
  PROVE /\ requests'[w].kind = "none" /\ requests'[w].phase = "idle"
        /\ \A v \in Workers : v # w => requests'[v] = requests[v]
  BY DEF End, Idle, TypeOK

LEMMA GoFacts ==
  ASSUME TypeOK, NEW w \in Workers, NEW phase, Go(w, phase)
  PROVE /\ requests'[w].kind = requests[w].kind /\ requests'[w].bus = requests[w].bus
        /\ requests'[w].size = requests[w].size
        /\ requests'[w].changed = requests[w].changed /\ requests'[w].phase = phase
        /\ \A v \in Workers : v # w => requests'[v] = requests[v]
<1>1. requests[w] \in Request
  BY RequestTypes
<1> QED BY <1>1 DEF Go, TypeOK, Request

LEMMA BeginFacts ==
  ASSUME TypeOK, NEW w \in Workers, NEW request, Begin(w, request)
  PROVE /\ requests[w].phase = "idle" /\ requests'[w] = request
        /\ \A v \in Workers : v # w => requests'[v] = requests[v]
  BY DEF Begin, TypeOK

LEMMA ShiftedFacts ==
  ASSUME TypeOK, NEW v \in Workers
  PROVE /\ Shifted[v].kind = requests[v].kind /\ Shifted[v].bus = requests[v].bus
        /\ Shifted[v].phase = requests[v].phase /\ Shifted[v].size = requests[v].size
        /\ Shifted[v].changed = requests[v].changed
        /\ requests[v].kind \in {"generate", "rebuild"} => Shifted[v].shifted
        /\ requests[v].kind \notin {"generate", "rebuild"} => Shifted[v] = requests[v]
<1>1. requests[v] \in Request
  BY RequestTypes
<1> QED BY <1>1 DEF Shifted, Request

-----------------------------------------------------------------------------
\* One step of the request that works on the seats of b; a failed one counts.
LEMMA FailFits ==
  ASSUME TypeOK, NEW w \in Workers, NEW b \in Buses, requests[w].bus = b, BusFits(b),
         Fail(w, b), There(b) => seats[b].size # NoSize \/ b \in cut
                               \/ requests[w].phase \notin {"seating", "emptied"}
  PROVE BusFits(b)'
<1>1. /\ requests'[w].kind = "none" /\ \A v \in Workers : v # w => requests'[v] = requests[v]
      /\ UNCHANGED <<buses, seats, cut>> /\ b \in disturbed'
  BY EndFacts DEF Fail
<1>2. SeatingOf(b)' = SeatingOf(b) \ {w}
  BY <1>1, SeatingOfWorkers DEF SeatKinds
<1>3. \A v \in SeatingOf(b)' : requests'[v] = requests[v] /\ v \in SeatingOf(b)
  BY <1>1, <1>2, SeatingOfWorkers
<1>4. WorkFits(b)'
  BY <1>1, <1>3 DEF BusFits, WorkFits, There
<1>5. LostToCrash(b)'
  BY <1>1, <1>2, SeatingOfWorkers DEF BusFits, LostToCrash, There
<1> QED BY <1>1, <1>4, <1>5 DEF BusFits

LEMMA WriteBusFits ==
  ASSUME TypeOK, NEW w \in Workers, NEW b \in Buses, requests[w].bus = b, BusFits(b),
         WriteBus(w)
  PROVE BusFits(b)'
<1> DEFINE r == requests[w]
<1>1. w \in SeatingOf(b) /\ r.phase = "read" /\ UNCHANGED <<seats, cut, disturbed>>
  BY SeatingOfWorkers DEF WriteBus, SeatKinds, history
<1>2. r.size \in Sizes
  BY <1>1 DEF BusFits, WorkFits
<1>3. /\ There(b)' = There(b)
      /\ There(b) => buses'[b].size = r.size
      /\ \A v \in Workers : v # w => requests'[v] = requests[v]
  <2>1. \A v \in Workers : v # w => requests'[v] = requests[v]
    BY EndFacts, GoFacts DEF WriteBus
  <2>2. CASE There(b)
    BY <2>1, <2>2 DEF WriteBus, There, TypeOK, Bus
  <2>3. CASE ~There(b)
    BY <2>1, <2>3 DEF WriteBus, There
  <2> QED BY <2>2, <2>3
<1>4. CASE There(b) /\ r.changed
  <2>1. /\ requests'[w].phase = "seating" /\ requests'[w].kind \in SeatKinds
        /\ requests'[w].bus = b
    BY <1>1, <1>4, GoFacts, SeatingOfWorkers DEF WriteBus
  <2>2. SeatingOf(b)' = SeatingOf(b)
    <3>1. \A v : v \in SeatingOf(b)' <=> v \in SeatingOf(b)
      BY <1>1, <1>3, <2>1, SeatingOfWorkers
    <3>2. SeatingOf(b)' = SeatingOf(b)
      BY <3>1
    <3> QED BY <3>2
  <2>3. \A v \in SeatingOf(b) : v = w \/ requests'[v] = requests[v]
    BY <1>3, SeatingOfWorkers
  <2>4. WorkFits(b)' /\ LostToCrash(b)'
    BY <1>1, <1>2, <1>3, <1>4, <2>1, <2>2, <2>3
       DEF BusFits, WorkFits, LostToCrash, SeatPhases
  <2>5. b \notin disturbed' => Orderly(b)'
    BY <1>1, <1>3, <2>1, <2>2 DEF BusFits, Orderly
  <2> QED BY <2>4, <2>5 DEF BusFits
<1>5. CASE ~(There(b) /\ r.changed)
  <2>1. requests'[w].kind \notin SeatKinds
    BY <1>5, EndFacts DEF WriteBus, SeatKinds
  <2>2. SeatingOf(b)' = SeatingOf(b) \ {w}
    BY <1>3, <2>1, SeatingOfWorkers
  <2>3. \A v \in SeatingOf(b)' : requests'[v] = requests[v] /\ v \in SeatingOf(b)
    BY <1>3, <2>2, SeatingOfWorkers
  <2>4. WorkFits(b)'
    BY <1>2, <1>3, <2>3 DEF BusFits, WorkFits
  <2>5. LostToCrash(b)'
    BY <1>1, <1>3, <2>2, <2>3, SeatingOfWorkers DEF BusFits, LostToCrash
  <2>6. b \notin disturbed' => Orderly(b)'
    BY <1>1, <1>3, <1>5, <2>2, <2>3 DEF BusFits, Orderly
  <2> QED BY <2>4, <2>5, <2>6 DEF BusFits
<1> QED BY <1>4, <1>5

\* A step that keeps the request at the seats, with the size the bus has.
LEMMA WorkingFits ==
  ASSUME TypeOK, NEW w \in Workers, NEW b \in Buses, w \in SeatingOf(b), BusFits(b),
         requests'[w].kind \in SeatKinds, requests'[w].bus = b,
         requests'[w].phase \in {"counted", "unheld", "emptied"},
         requests'[w].size \in Sizes,
         b \notin disturbed /\ There(b) => requests'[w].size = buses[b].size,
         There(b) /\ seats'[b].size = NoSize =>
           b \in cut \/ requests'[w].phase = "emptied"
             \/ (seats[b].size = NoSize /\ requests[w].phase \notin {"seating", "emptied"}),
         \A v \in Workers : v # w => requests'[v] = requests[v],
         UNCHANGED <<buses, cut, disturbed>>
  PROVE BusFits(b)'
<1>1. SeatingOf(b)' = SeatingOf(b) /\ There(b)' = There(b)
  <2>1. \A v : v \in SeatingOf(b)' <=> v \in SeatingOf(b)
    BY SeatingOfWorkers
  <2>2. SeatingOf(b)' = SeatingOf(b)
    BY <2>1
  <2> QED BY <2>2 DEF There
<1>2. \A v \in SeatingOf(b) : v = w \/ requests'[v] = requests[v]
  BY SeatingOfWorkers
<1>3. WorkFits(b)'
  BY <1>1, <1>2 DEF BusFits, WorkFits, SeatPhases
<1>4. LostToCrash(b)'
  BY <1>1, <1>2 DEF BusFits, LostToCrash
<1>5. b \notin disturbed' => Orderly(b)'
  <2>1. b \notin disturbed => \A v \in SeatingOf(b) : v = w
    BY DEF BusFits, Orderly
  <2>2. requests'[w].phase # "read"
    OBVIOUS
  <2> QED BY <1>1, <2>1, <2>2 DEF Orderly
<1> QED BY <1>3, <1>4, <1>5 DEF BusFits

LEMMA CountSeatsFits ==
  ASSUME TypeOK, NEW w \in Workers, NEW b \in Buses, requests[w].bus = b, BusFits(b),
         CountSeats(w)
  PROVE BusFits(b)'
<1> DEFINE r == requests[w]
           some == seats[b].size # NoSize
           phase == IF some THEN "counted" ELSE "emptied"
<1>1. r.phase = "seating" /\ w \in SeatingOf(b)
  BY SeatingOfWorkers DEF CountSeats, Seating
<1>2. CASE ~(There(b) /\ (some => r.force)) /\ Fail(w, b)
  BY <1>2, FailFits
<1>3. CASE /\ There(b)
           /\ requests' = [requests EXCEPT ![w].phase = phase, ![w].size = buses[b].size]
           /\ UNCHANGED <<buses, seats, trips, rows, sales, sent, history>>
  <2>1. /\ requests'[w].phase = phase /\ requests'[w].size = buses[b].size
        /\ requests'[w].kind = r.kind /\ requests'[w].bus = b
        /\ \A v \in Workers : v # w => requests'[v] = requests[v]
    <3>1. r \in Request
      BY RequestTypes
    <3> QED BY <1>3, <3>1 DEF TypeOK, Request
  <2>2. buses[b].size \in Sizes
    BY <1>3 DEF BusFits, WorkFits
  <2>3. phase \in {"counted", "unheld", "emptied"} /\ (seats[b].size = NoSize => phase = "emptied")
    OBVIOUS
  <2>4. UNCHANGED <<buses, seats, cut, disturbed>>
    BY <1>3 DEF history
  <2>5. r.kind \in SeatKinds
    BY <1>1, SeatingOfWorkers
  <2> HIDE DEF phase
  <2> QED BY <1>1, <2>1, <2>2, <2>3, <2>4, <2>5, WorkingFits
<1> QED BY <1>2, <1>3 DEF CountSeats

LEMMA AskLocksFits ==
  ASSUME TypeOK, NEW w \in Workers, NEW b \in Buses, requests[w].bus = b, BusFits(b),
         AskLocks(w)
  PROVE BusFits(b)'
<1>1. requests[w].phase = "counted" /\ w \in SeatingOf(b)
  BY SeatingOfWorkers DEF AskLocks, Seating
<1>2. CASE Fail(w, b)
  BY <1>1, <1>2, FailFits
<1>3. CASE Go(w, "unheld") /\ UNCHANGED <<buses, seats, trips, rows, sales, sent, history>>
  <2>1. /\ requests[w].size \in Sizes /\ requests[w].kind \in SeatKinds
        /\ b \notin disturbed /\ There(b) => requests[w].size = buses[b].size
    BY <1>1, SeatingOfWorkers DEF BusFits, WorkFits, Orderly
  <2> QED BY <1>1, <1>3, <2>1, GoFacts, WorkingFits DEF history
<1> QED BY <1>2, <1>3 DEF AskLocks

LEMMA DeleteSeatsFits ==
  ASSUME TypeOK, NEW w \in Workers, NEW b \in Buses, requests[w].bus = b, BusFits(b),
         DeleteSeats(w)
  PROVE BusFits(b)'
<1>1. requests[w].phase = "unheld" /\ w \in SeatingOf(b)
  BY SeatingOfWorkers DEF DeleteSeats, Seating
<1>2. CASE Fail(w, b)
  BY <1>1, <1>2, FailFits
<1>3. CASE Go(w, "emptied") /\ UNCHANGED <<buses, trips, rows, sales, sent, history>>
  <2>1. /\ requests[w].size \in Sizes /\ requests[w].kind \in SeatKinds
        /\ b \notin disturbed /\ There(b) => requests[w].size = buses[b].size
    BY <1>1, SeatingOfWorkers DEF BusFits, WorkFits, Orderly
  <2> QED BY <1>1, <1>3, <2>1, GoFacts, WorkingFits DEF history
<1> QED BY <1>2, <1>3 DEF DeleteSeats

LEMMA InsertSeatsFits ==
  ASSUME TypeOK, NEW w \in Workers, NEW b \in Buses, requests[w].bus = b, BusFits(b),
         InsertSeats(w)
  PROVE BusFits(b)'
<1> DEFINE r == requests[w]
<1>1. r.phase = "emptied" /\ w \in SeatingOf(b)
  BY SeatingOfWorkers DEF InsertSeats, Seating
<1>2. CASE ~(There(b) /\ seats[b].size = NoSize) /\ Fail(w, b)
  BY <1>2, FailFits
<1>3. CASE /\ There(b)
           /\ seats' = [seats EXCEPT ![b] = [size |-> r.size, batch |-> @.batch + 1]]
           /\ End(w) /\ UNCHANGED <<buses, trips, rows, sales, sent, history>>
  <2>1. seats'[b].size = r.size /\ r.size \in Sizes /\ UNCHANGED <<buses, cut, disturbed>>
    BY <1>1, <1>3 DEF TypeOK, BusFits, WorkFits, history
  <2>2. /\ requests'[w].kind \notin SeatKinds
        /\ \A v \in Workers : v # w => requests'[v] = requests[v]
    BY <1>3, EndFacts DEF SeatKinds
  <2>3. SeatingOf(b)' = SeatingOf(b) \ {w}
    BY <2>2, SeatingOfWorkers
  <2>4. \A v \in SeatingOf(b)' : requests'[v] = requests[v] /\ v \in SeatingOf(b)
    BY <2>2, <2>3, SeatingOfWorkers
  <2>5. WorkFits(b)'
    BY <2>1, <2>4 DEF BusFits, WorkFits, There
  <2>6. LostToCrash(b)'
    BY <2>1, FleetAssumption DEF LostToCrash
  <2>7. b \notin disturbed' => Orderly(b)'
    <3>1. b \notin disturbed => SeatingOf(b)' = {} /\ r.size = buses[b].size
      BY <1>1, <1>3, <2>3 DEF BusFits, Orderly
    <3> QED BY <2>1, <3>1 DEF Orderly
  <2> QED BY <2>5, <2>6, <2>7 DEF BusFits
<1> QED BY <1>2, <1>3 DEF InsertSeats

\* The steps at the seats, seen from every bus.
LEMMA SeatStepsFit ==
  ASSUME SInv, NEW w \in Workers,
         WriteBus(w) \/ CountSeats(w) \/ AskLocks(w) \/ DeleteSeats(w) \/ InsertSeats(w)
  PROVE SInv'
<1> DEFINE r == requests[w]
           b == r.bus
<1>0. TypeOK /\ TypeOK' /\ r \in Request /\ r.kind \in SeatKinds /\ b \in Buses
  BY SeatsType, RequestTypes
     DEF SInv, WriteBus, CountSeats, AskLocks, DeleteSeats, InsertSeats, Seating, SeatKinds,
         Request
<1>1. /\ requests'[w].kind \notin SeatKinds \/ requests'[w].bus = b
      /\ requests'[w].phase \notin {"ready", "listing", "done"}
      /\ \A v \in Workers : v # w => requests'[v] = requests[v]
  <2>1. CASE End(w)
    BY <1>0, <2>1, EndFacts DEF SeatKinds
  <2>2. CASE \E phase \in SeatPhases : Go(w, phase)
    BY <1>0, <2>2, GoFacts DEF SeatPhases
  <2>3. CASE \E phase \in {"counted", "emptied"} :
               requests' = [requests EXCEPT ![w].phase = phase, ![w].size = buses[b].size]
    BY <1>0, <2>3 DEF TypeOK, Request
  <2> QED
    BY <2>1, <2>2, <2>3 DEF WriteBus, CountSeats, AskLocks, DeleteSeats, InsertSeats, Fail,
                            SeatPhases
<1>2. ASSUME NEW c \in Buses, c # b PROVE BusFits(c)'
  <2>1. buses'[c] = buses[c] /\ seats'[c] = seats[c]
    BY <1>0, <1>2 DEF WriteBus, CountSeats, AskLocks, DeleteSeats, InsertSeats, Fail, TypeOK
  <2>2. cut \in SUBSET cut' /\ disturbed \in SUBSET disturbed'
    BY DEF WriteBus, CountSeats, AskLocks, DeleteSeats, InsertSeats, Fail, history
  <2>3. w \notin SeatingOf(c) /\ w \notin SeatingOf(c)'
    BY <1>1, <1>2, SeatingOfWorkers
  <2>4. \A v \in Workers : SameWork(v, c)
    BY <1>1, <2>3, AloneFits
  <2> QED BY <2>1, <2>2, <2>4, OtherBusFits DEF SInv
<1>3. ASSUME NEW c \in Buses, c = b PROVE BusFits(c)'
  BY <1>0, <1>3, WriteBusFits, CountSeatsFits, AskLocksFits, DeleteSeatsFits,
     InsertSeatsFits DEF SInv
<1>4. ListsAreGenerations'
  BY <1>1 DEF SInv, ListsAreGenerations
<1> QED BY <1>0, <1>2, <1>3, <1>4 DEF SInv

\* A request about seats begins.  If it is the only one, it knows the bus.
LEMMA SeatingBeginsFit ==
  ASSUME SInv, TypeOK', NEW w \in Workers, NEW b \in Buses, NEW request \in Request,
         BeginSeating(w, request), request.kind \in SeatKinds, request.bus = b,
         UNCHANGED seats, There(b)',
         \A c \in Buses : c # b => buses'[c] = buses[c],
         \/ UNCHANGED buses /\ There(b) /\ request.phase \in {"read", "seating"}
         \/ buses'[b].size \in Sizes /\ request.phase = "seating",
         request.phase = "read" => /\ request.size \in Sizes
                                   /\ request.changed = (request.size # buses[b].size)
  PROVE SInv'
<1>0. TypeOK /\ requests[w].kind \notin SeatKinds
  BY IdleIsAside DEF SInv, BeginSeating, Begin
<1>1. /\ requests'[w] = request
      /\ \A v \in Workers : v # w => requests'[v] = requests[v]
      /\ UNCHANGED cut /\ disturbed \in SUBSET disturbed'
      /\ SeatingOf(b) # {} => b \in disturbed'
  BY <1>0, BeginFacts DEF BeginSeating
<1>2. SeatingOf(b)' = SeatingOf(b) \cup {w}
  <2>1. \A v : v \in SeatingOf(b)' <=> v \in SeatingOf(b) \cup {w}
    BY <1>1, SeatingOfWorkers
  <2>2. SeatingOf(b)' = SeatingOf(b) \cup {w}
    BY <2>1
  <2> QED BY <2>2
<1>3. \A v \in SeatingOf(b)' : v # w => requests'[v] = requests[v] /\ v \in SeatingOf(b)
  BY <1>1, <1>2, SeatingOfWorkers
<1>4. ASSUME NEW c \in Buses, c # b PROVE BusFits(c)'
  <2>1. w \notin SeatingOf(c) /\ w \notin SeatingOf(c)'
    BY <1>0, <1>1, <1>4, SeatingOfWorkers
  <2>2. \A v \in Workers : SameWork(v, c)
    BY <1>1, <2>1, AloneFits
  <2> QED BY <1>1, <1>4, <2>2, OtherBusFits DEF SInv
<1>5. WorkFits(b)'
  BY <1>1, <1>3 DEF SInv, BusFits, WorkFits, SeatPhases
<1>6. LostToCrash(b)'
  <2>1. CASE request.phase = "seating"
    BY <1>1, <1>2, <2>1 DEF LostToCrash
  <2>2. CASE UNCHANGED buses /\ There(b)
    <3>1. There(b) /\ seats[b].size = NoSize =>
            b \in cut \/ \E v \in SeatingOf(b) : requests[v].phase \in {"seating", "emptied"}
      BY DEF SInv, BusFits, LostToCrash
    <3>2. w \notin SeatingOf(b)
      BY <1>0, SeatingOfWorkers
    <3>3. \A v \in SeatingOf(b) : requests'[v] = requests[v] /\ v \in SeatingOf(b)'
      BY <1>1, <1>2, <3>2, SeatingOfWorkers
    <3> QED BY <1>1, <2>2, <3>1, <3>3 DEF LostToCrash
  <2> QED BY <2>1, <2>2
<1>7. b \notin disturbed' => Orderly(b)'
  <2>1. b \notin disturbed' => SeatingOf(b) = {} /\ SeatingOf(b)' = {w} /\ b \notin disturbed
    BY <1>1, <1>2
  <2>2. b \notin disturbed' /\ request.phase = "read" => seats[b].size = buses[b].size
    BY <2>1 DEF SInv, BusFits, Orderly
  <2> QED BY <1>1, <2>1, <2>2 DEF Orderly
<1>8. ListsAreGenerations'
  BY <1>1 DEF SInv, ListsAreGenerations
<1> QED BY <1>4, <1>5, <1>6, <1>7, <1>8 DEF SInv, BusFits

\* A request about anything else begins.
LEMMA ReadingBeginsFit ==
  ASSUME SInv, TypeOK', NEW w \in Workers, NEW request, BeginReading(w, request),
         request.kind \notin SeatKinds,
         request.phase \notin {"ready", "listing", "done"}
           \/ request.kind \in {"generate", "rebuild"}
  PROVE SInv'
<1>1. TypeOK /\ requests[w].kind \notin SeatKinds
  BY IdleIsAside DEF SInv, BeginReading, Begin
<1>2. /\ requests'[w] = request
      /\ \A v \in Workers : v # w => requests'[v] = requests[v]
      /\ UNCHANGED <<buses, seats, cut, disturbed>>
  BY <1>1, BeginFacts DEF BeginReading, history
<1>3. ListsAreGenerations'
  BY <1>2 DEF SInv, ListsAreGenerations
<1> QED BY <1>1, <1>2, <1>3, AsideSame, AsideFits

LEMMA ArriveFits ==
  ASSUME SInv, NEW w \in Workers, Arrive(w)
  PROVE SInv'
<1>0. TypeOK /\ TypeOK'
  BY ArriveType DEF SInv
<1>1. ASSUME NEW b \in Buses, NEW size \in Sizes, CreateBus(w, b, size) PROVE SInv'
  <2> DEFINE q == [Idle EXCEPT !.kind = "createBus", !.phase = "seating", !.bus = b]
  <2>1. /\ q \in Request /\ q.bus = b /\ q.kind \in SeatKinds /\ q.phase = "seating"
    BY CreateBusRequest
  <2>2. /\ buses'[b].size = size /\ There(b)'
        /\ \A c \in Buses : c # b => buses'[c] = buses[c]
    BY <1>0, <1>1 DEF CreateBus, TypeOK, There
  <2>3. BeginSeating(w, q) /\ UNCHANGED seats
    BY <1>1 DEF CreateBus
  <2> HIDE DEF q
  <2> QED BY <1>0, <2>1, <2>2, <2>3, SeatingBeginsFit
<1>2. ASSUME NEW b \in Buses, NEW size \in Sizes, UpdateBus(w, b, size) PROVE SInv'
  <2> DEFINE q == UpdateBusRequest(b, size)
  <2>1. /\ q \in Request /\ q.bus = b /\ q.kind \in SeatKinds /\ q.phase = "read"
        /\ q.size = size /\ q.changed = (size # buses[b].size)
    BY UpdateBusBegins
  <2>2. BeginSeating(w, q) /\ UNCHANGED <<buses, seats>> /\ There(b) /\ There(b)'
    BY <1>2 DEF UpdateBus, UpdateBusRequest, There
  <2> HIDE DEF q
  <2>3. PICK request \in Request : request = q
    BY <2>1
  <2> QED BY <1>0, <2>1, <2>2, <2>3, SeatingBeginsFit
<1>3. ASSUME NEW b \in Buses, NEW force \in BOOLEAN, CreateSeats(w, b, force) PROVE SInv'
  <2> DEFINE q == [Idle EXCEPT !.kind = "createSeats", !.phase = "seating", !.bus = b,
                               !.force = force]
  <2>1. q \in Request /\ q.bus = b /\ q.kind \in SeatKinds /\ q.phase = "seating"
    BY CreateSeatsRequest
  <2>2. BeginSeating(w, q) /\ UNCHANGED <<buses, seats>> /\ There(b) /\ There(b)'
    BY <1>3 DEF CreateSeats, There
  <2> HIDE DEF q
  <2> QED BY <1>0, <2>1, <2>2, SeatingBeginsFit
<1>4. ASSUME NEW t \in Trips, NEW d \in Departures, NEW b \in Buses, UpdateTrip(w, t, d, b)
      PROVE SInv'
  <2> DEFINE q == [Idle EXCEPT !.kind = "updateTrip", !.phase = "read", !.trip = t,
                               !.departure = d, !.bus = b]
  <2>1. q.kind \notin SeatKinds /\ q.phase = "read"
    BY DEF Idle, SeatKinds
  <2>2. BeginReading(w, q)
    BY <1>4 DEF UpdateTrip
  <2> HIDE DEF q
  <2> QED BY <1>0, <2>1, <2>2, ReadingBeginsFit
<1>5. ASSUME NEW t \in Trips, CancelTrip(w, t) PROVE SInv'
  <2> DEFINE q == [Idle EXCEPT !.kind = "cancelTrip", !.phase = "counted", !.trip = t]
  <2>1. q.kind \notin SeatKinds /\ q.phase = "counted"
    BY DEF Idle, SeatKinds
  <2>2. BeginReading(w, q)
    BY <1>5 DEF CancelTrip
  <2> HIDE DEF q
  <2> QED BY <1>0, <2>1, <2>2, ReadingBeginsFit
<1>6. ASSUME NEW t \in Trips, Lock(w, t) PROVE SInv'
  <2> DEFINE q(b, n) == [Idle EXCEPT !.kind = "lock", !.phase = "read", !.trip = t,
                                     !.bus = b, !.batch = n]
  <2>1. \A b, n : q(b, n).kind \notin SeatKinds /\ q(b, n).phase = "read"
    BY DEF Idle, SeatKinds
  <2>2. BeginReading(w, q(trips[t].bus, seats[trips[t].bus].batch))
    BY <1>6 DEF Lock
  <2> HIDE DEF q
  <2>3. PICK b, n : BeginReading(w, q(b, n))
    BY <2>2
  <2> QED BY <1>0, <2>1, <2>3, ReadingBeginsFit
<1>7. ASSUME NEW force \in BOOLEAN, Generate(w, force) \/ Rebuild(w, force) PROVE SInv'
  <2> DEFINE q == [Idle EXCEPT !.kind = "generate", !.phase = "ready", !.force = force]
             p == [Idle EXCEPT !.kind = "rebuild", !.phase = "read", !.force = force]
  <2>1. /\ q.kind \notin SeatKinds /\ q.kind \in {"generate", "rebuild"}
        /\ p.kind \notin SeatKinds /\ p.kind \in {"generate", "rebuild"}
    BY DEF Idle, SeatKinds
  <2>2. BeginReading(w, q) \/ BeginReading(w, p)
    BY <1>7 DEF Generate, Rebuild
  <2> HIDE DEF q, p
  <2> QED BY <1>0, <2>1, <2>2, ReadingBeginsFit
<1> QED BY <1>1, <1>2, <1>3, <1>4, <1>5, <1>6, <1>7, Zenon DEF Arrive

\* Requests about trips, and locks.
LEMMA TripStepsFit ==
  ASSUME SInv, NEW w \in Workers,
         \/ WriteTrip(w) \/ WriteCancel(w) \/ DeleteAllTrips(w)
         \/ ReadBuses(w) \/ CheckNext(w) \/ InsertTrips(w) \/ Report(w) \/ InsertLock(w)
  PROVE SInv'
<1> DEFINE r == requests[w]
<1>0. TypeOK /\ TypeOK' /\ r \in Request
  BY TripsType, GeneratorType, InsertLockType, RequestTypes DEF SInv
<1>1. UNCHANGED <<buses, seats, cut, disturbed>>
  BY DEF WriteTrip, WriteCancel, DeleteAllTrips, ReadBuses, CheckNext, InsertTrips, Report,
         InsertLock, history
<1>2. r.kind \notin SeatKinds
  BY DEF SInv, ListsAreGenerations, WriteTrip, WriteCancel, DeleteAllTrips, ReadBuses,
         CheckNext, InsertTrips, Report, InsertLock, SeatKinds
<1>3. CASE End(w)
  <2>1. ListsAreGenerations'
    BY <1>0, <1>3, EndFacts DEF SInv, ListsAreGenerations
  <2>2. requests'[w].kind \notin SeatKinds
    BY <1>0, <1>3, EndFacts DEF SeatKinds
  <2> QED BY <1>0, <1>1, <1>2, <1>3, <2>1, <2>2, EndFacts, AsideSame, AsideFits
<1>4. CASE /\ r.kind \in {"generate", "rebuild"}
           /\ requests'[w].kind = r.kind
           /\ \A v \in Workers : v # w => requests'[v] = requests[v]
  <2>1. ListsAreGenerations'
    BY <1>4 DEF SInv, ListsAreGenerations
  <2> QED BY <1>0, <1>1, <1>2, <1>4, <2>1, AsideSame, AsideFits
<1>5. CASE WriteTrip(w) /\ ~End(w)
  <2>1. /\ requests'[w] = Idle
        /\ \A v \in Workers : v # w => requests'[v] = Shifted[v]
    BY <1>0, <1>5, ShiftedType DEF WriteTrip
  <2>2. ASSUME NEW v \in Workers, NEW b \in Buses PROVE SameWork(v, b)
    BY <1>0, <1>2, <2>1, ShiftedFacts, SeatingOfWorkers DEF SameWork, Idle, SeatKinds
  <2>3. ListsAreGenerations'
    BY <1>0, <2>1, ShiftedFacts DEF SInv, ListsAreGenerations, Idle
  <2> QED BY <1>0, <1>1, <2>2, <2>3, AsideFits
<1>6. CASE DeleteAllTrips(w)
  <2>1. /\ requests'[w] = [Shifted[w] EXCEPT !.phase = "ready"]
        /\ \A v \in Workers : v # w => requests'[v] = Shifted[v]
    BY <1>0, <1>6, ShiftedType DEF DeleteAllTrips
  <2>2. Shifted[w] \in Request
    BY <1>0, ShiftedType
  <2>3. requests'[w].kind = r.kind /\ r.kind = "rebuild"
    BY <1>0, <1>6, <2>1, <2>2, ShiftedFacts DEF Request, DeleteAllTrips
  <2>4. ASSUME NEW v \in Workers, NEW b \in Buses PROVE SameWork(v, b)
    <3>1. CASE v = w
      BY <1>2, <2>3, <3>1, SeatingOfWorkers DEF SameWork
    <3>2. CASE v # w
      BY <1>0, <2>1, <3>2, ShiftedFacts, SeatingOfWorkers DEF SameWork
    <3> QED BY <3>1, <3>2
  <2>5. ListsAreGenerations'
    <3> SUFFICES ASSUME NEW v \in Workers, requests'[v].phase \in {"ready", "listing", "done"}
                 PROVE requests'[v].kind \in {"generate", "rebuild"}
      BY DEF ListsAreGenerations
    <3>1. CASE v = w
      BY <2>3, <3>1
    <3>2. CASE v # w
      BY <1>0, <2>1, <3>2, ShiftedFacts DEF SInv, ListsAreGenerations
    <3> QED BY <3>1, <3>2
  <2> QED BY <1>0, <1>1, <2>4, <2>5, AsideFits
<1>7. CASE ReadBuses(w) \/ CheckNext(w) \/ InsertTrips(w)
  <2>1. r.kind \in {"generate", "rebuild"}
    BY <1>7 DEF SInv, ListsAreGenerations, ReadBuses, CheckNext, InsertTrips
  <2>2. End(w) \/ /\ requests'[w].kind = r.kind
                  /\ \A v \in Workers : v # w => requests'[v] = requests[v]
    <3>1. CASE ReadBuses(w)
      BY <1>0, <3>1, ZenonT(60) DEF ReadBuses, TypeOK, Request
    <3>2. CASE CheckNext(w)
      BY <1>0, <3>2 DEF CheckNext, Check, TypeOK, Request
    <3>3. CASE InsertTrips(w)
      BY <1>0, <3>3, GoFacts DEF InsertTrips
    <3> QED BY <1>7, <3>1, <3>2, <3>3
  <2> QED BY <1>3, <1>4, <2>1, <2>2
<1> QED
  BY <1>3, <1>5, <1>6, <1>7 DEF WriteCancel, Report, InsertLock

LEMMA DeleteBusFits ==
  ASSUME SInv, NEW b \in Buses, DeleteBus(b)
  PROVE SInv'
<1>0. TypeOK /\ TypeOK'
  BY AtOnceType DEF SInv, AtOnce
<1>1. /\ UNCHANGED <<requests, cut, disturbed>> /\ ~There(b)'
      /\ \A c \in Buses : c # b => buses'[c] = buses[c] /\ seats'[c] = seats[c]
  BY <1>0 DEF DeleteBus, There, TypeOK, history
<1>2. \A c \in Buses : SeatingOf(c)' = SeatingOf(c)
  BY <1>1 DEF SeatingOf, Seating
<1>3. ASSUME NEW c \in Buses, c # b PROVE BusFits(c)'
  BY <1>1, <1>2, <1>3, OtherBusFits DEF SInv, SameWork
<1>4. BusFits(b)'
  BY <1>1, <1>2 DEF SInv, BusFits, WorkFits, LostToCrash, Orderly
<1>5. ListsAreGenerations'
  BY <1>1 DEF SInv, ListsAreGenerations
<1> QED BY <1>0, <1>3, <1>4, <1>5 DEF SInv

\* A crash at the seats of a bus counts; in "read" nothing is written yet.
LEMMA CrashFits ==
  ASSUME SInv, NEW w \in Workers, Crash(w)
  PROVE SInv'
<1> DEFINE r == requests[w]
<1>0. TypeOK /\ TypeOK'
  BY CrashType DEF SInv
<1>1. /\ requests'[w].kind = "none" /\ requests'[w].phase = "idle"
      /\ \A v \in Workers : v # w => requests'[v] = requests[v]
      /\ UNCHANGED <<buses, seats>>
      /\ cut \in SUBSET cut' /\ disturbed \in SUBSET disturbed'
  BY <1>0, EndFacts DEF Crash
<1>2. ListsAreGenerations'
  BY <1>1 DEF SInv, ListsAreGenerations
<1>3. ASSUME NEW c \in Buses, w \notin SeatingOf(c) PROVE BusFits(c)'
  <2>1. w \notin SeatingOf(c)'
    BY <1>1, SeatingOfWorkers DEF SeatKinds
  <2>2. \A v \in Workers : SameWork(v, c)
    BY <1>1, <1>3, <2>1, AloneFits
  <2> QED BY <1>1, <2>2, OtherBusFits DEF SInv
<1>4. ASSUME NEW c \in Buses, w \in SeatingOf(c) PROVE BusFits(c)'
  <2>1. r.phase = "read" \/ (c \in cut' /\ c \in disturbed')
    BY <1>4, SeatingOfWorkers DEF SInv, BusFits, WorkFits, SeatPhases, Crash, Seating
  <2>2. SeatingOf(c)' = SeatingOf(c) \ {w}
    <3>1. \A v : v \in SeatingOf(c)' <=> v \in SeatingOf(c) \ {w}
      BY <1>1, SeatingOfWorkers DEF SeatKinds
    <3>2. SeatingOf(c)' = SeatingOf(c) \ {w}
      BY <3>1
    <3> QED BY <3>2
  <2>3. \A v \in SeatingOf(c)' : requests'[v] = requests[v] /\ v \in SeatingOf(c)
    BY <1>1, <2>2, SeatingOfWorkers
  <2>4. WorkFits(c)'
    BY <1>1, <2>3 DEF SInv, BusFits, WorkFits, There
  <2>5. LostToCrash(c)'
    <3>1. CASE c \in cut'
      BY <3>1 DEF LostToCrash
    <3>2. CASE r.phase = "read"
      BY <1>1, <2>2, <2>3, <3>2 DEF SInv, BusFits, LostToCrash, There
    <3> QED BY <2>1, <3>1, <3>2
  <2>6. c \notin disturbed' => Orderly(c)'
    <3>1. CASE c \in disturbed'
      BY <3>1
    <3>2. CASE r.phase = "read"
      BY <1>1, <1>4, <2>2, <2>3, <3>2 DEF SInv, BusFits, Orderly, There
    <3> QED BY <2>1, <3>1, <3>2
  <2> QED BY <2>4, <2>5, <2>6 DEF BusFits
<1> QED BY <1>0, <1>2, <1>3, <1>4 DEF SInv

LEMMA SInvNext == SInv /\ [Next]_vars => SInv'
<1>1. ASSUME SInv, TypeOK', UNCHANGED <<buses, seats, requests, cut, disturbed>> PROVE SInv'
  <2>1. ListsAreGenerations'
    BY <1>1 DEF SInv, ListsAreGenerations
  <2>2. ASSUME NEW b \in Buses PROVE SeatingOf(b)' = SeatingOf(b)
    BY <1>1 DEF SeatingOf, Seating
  <2> QED BY <1>1, <2>1, <2>2, AsideFits DEF SameWork
<1>2. ASSUME SInv, NEW w \in Workers, Proceed(w) PROVE SInv'
  BY <1>2, SeatStepsFit, TripStepsFit, Zenon DEF Proceed
<1>3. ASSUME SInv, AtOnce PROVE SInv'
  <2>1. ASSUME NEW d \in Departures, NEW b \in Buses, CreateTrip(d, b) PROVE SInv'
    <3>1. UNCHANGED <<buses, seats, requests, cut, disturbed>>
      BY <2>1 DEF CreateTrip, history
    <3> QED BY <1>1, <1>3, <3>1, AtOnceType DEF SInv
  <2> QED BY <1>3, <2>1, DeleteBusFits, Zenon DEF AtOnce
<1>4. ASSUME SInv, Sell \/ UNCHANGED vars PROVE SInv'
  <2>1. UNCHANGED <<buses, seats, requests, cut, disturbed>>
    BY <1>4 DEF Sell, Start, Confirm, GiveBack, vars, history
  <2>2. TypeOK'
    BY <1>4, SellType, TypeNext DEF SInv
  <2> QED BY <1>1, <1>4, <2>1, <2>2
<1> QED BY <1>2, <1>3, <1>4, ArriveFits, CrashFits, Zenon DEF Next

LEMMA SInvInit == Init => SInv
<1> SUFFICES ASSUME Init PROVE SInv
  OBVIOUS
<1>1. ListsAreGenerations
  BY DEF Init, Idle, ListsAreGenerations
<1>2. ASSUME NEW b \in Buses PROVE BusFits(b)
  <2>1. SeatingOf(b) = {}
    BY DEF Init, Idle, SeatingOf, Seating, SeatKinds
  <2>2. There(b) => buses[b].size \in Sizes /\ seats[b].size = buses[b].size
    BY FleetAssumption DEF Init, There
  <2> QED BY <2>1, <2>2, FleetAssumption DEF BusFits, WorkFits, LostToCrash, Orderly
<1> QED BY <1>1, <1>2, TypeInit DEF SInv

LEMMA SInvInvariant == Spec => []SInv
BY SInvInit, SInvNext, PTL DEF Spec

\* Refusals and requests that overtake each other never leave a bus without seats: only
\* a crash between the statements does, or a request that is still at work.
THEOREM FleetSeatsAreLostToCrashesOnly == Spec => []SeatsAreLostToCrashesOnly
<1>1. SInv => SeatsAreLostToCrashesOnly
  BY DEF SInv, BusFits, LostToCrash, SeatsAreLostToCrashesOnly
<1> QED BY <1>1, SInvInvariant, PTL

\* A bus has the seats of its class and capacity when nobody works on them, unless a
\* change of them failed, crashed or met another one.
THEOREM FleetSeatsFitTheBus == Spec => []SeatsFitTheBus
<1>1. SInv => SeatsFitTheBus
  BY DEF SInv, BusFits, Orderly, SeatsFitTheBus
<1> QED BY <1>1, SInvInvariant, PTL

-----------------------------------------------------------------------------
(* Generations leave no gap.                                               *)

\* What a generation has read is still to be checked, on its list or taken; once it
\* has inserted, taken.  A trip that leaves its place marks the generation.
Accounted(w) ==
  requests[w].phase \in {"listing", "done"} /\ ~requests[w].shifted =>
    \A p \in requests[w].want :
      \/ Taken(p[1], p[2])
      \/ requests[w].phase = "listing" /\ p \in requests[w].todo \cup requests[w].list

GInv == SInv /\ \A w \in Workers : Accounted(w)

TripsStay == \A t \in Trips : Exists(t) => /\ Exists(t)' /\ trips'[t].bus = trips[t].bus
                                           /\ trips'[t].departure = trips[t].departure

LEMMA TakenStays ==
  ASSUME TripsStay, NEW d, NEW b, Taken(d, b)
  PROVE Taken(d, b)'
  BY DEF TripsStay, Taken

\* Requests but w's stay, and w's lists nothing or what it did.
LEMMA ListsStay ==
  ASSUME GInv, NEW w \in Workers, TripsStay, SInv',
         \A v \in Workers : v # w => requests'[v] = requests[v],
         requests'[w].phase \notin {"listing", "done"} \/ requests'[w] = requests[w]
  PROVE GInv'
<1> SUFFICES ASSUME NEW v \in Workers, requests'[v].phase \in {"listing", "done"},
                    ~requests'[v].shifted
             PROVE \A p \in requests'[v].want :
                     \/ Taken(p[1], p[2])'
                     \/ /\ requests'[v].phase = "listing"
                        /\ p \in requests'[v].todo \cup requests'[v].list
  BY DEF GInv, Accounted
<1>1. requests'[v] = requests[v]
  OBVIOUS
<1>2. Accounted(v)
  BY DEF GInv
<1> QED BY <1>1, <1>2, TakenStays DEF Accounted

LEMMA ArriveAccounted ==
  ASSUME GInv, NEW w \in Workers, Arrive(w)
  PROVE GInv'
<1>0. TypeOK
  BY DEF GInv, SInv
<1>1. \E q : /\ Begin(w, q) /\ UNCHANGED trips
             /\ q.phase \in {"seating", "read", "counted", "ready"}
  <2> DEFINE Begun(q) == /\ Begin(w, q) /\ UNCHANGED trips
                         /\ q.phase \in {"seating", "read", "counted", "ready"}
  <2>1. ASSUME NEW b \in Buses, NEW size \in Sizes, CreateBus(w, b, size) PROVE \E q : Begun(q)
    <3> DEFINE q == [Idle EXCEPT !.kind = "createBus", !.phase = "seating", !.bus = b]
    <3>1. q.phase = "seating"
      BY CreateBusRequest
    <3>2. Begin(w, q) /\ UNCHANGED trips
      BY <2>1 DEF CreateBus, BeginSeating
    <3> HIDE DEF q
    <3> QED BY <3>1, <3>2
  <2>2. ASSUME NEW b \in Buses, NEW size \in Sizes, UpdateBus(w, b, size) PROVE \E q : Begun(q)
    <3> DEFINE q == UpdateBusRequest(b, size)
    <3>1. q.phase = "read"
      BY UpdateBusBegins
    <3>2. Begin(w, q) /\ UNCHANGED trips
      BY <2>2 DEF UpdateBus, UpdateBusRequest, BeginSeating
    <3> HIDE DEF q
    <3> QED BY <3>1, <3>2
  <2>3. ASSUME NEW b \in Buses, NEW force \in BOOLEAN, CreateSeats(w, b, force)
        PROVE \E q : Begun(q)
    <3> DEFINE q == [Idle EXCEPT !.kind = "createSeats", !.phase = "seating", !.bus = b,
                                 !.force = force]
    <3>1. q.phase = "seating"
      BY CreateSeatsRequest
    <3>2. Begin(w, q) /\ UNCHANGED trips
      BY <2>3 DEF CreateSeats, BeginSeating
    <3> HIDE DEF q
    <3> QED BY <3>1, <3>2
  <2>4. ASSUME NEW t \in Trips, NEW d \in Departures, NEW b \in Buses, UpdateTrip(w, t, d, b)
        PROVE \E q : Begun(q)
    BY <2>4, UpdateTripRequest DEF UpdateTrip, BeginReading
  <2>5. ASSUME NEW t \in Trips, CancelTrip(w, t) PROVE \E q : Begun(q)
    BY <2>5, CancelTripRequest DEF CancelTrip, BeginReading
  <2>6. ASSUME NEW t \in Trips, Lock(w, t) PROVE \E q : Begun(q)
    <3> DEFINE q == [Idle EXCEPT !.kind = "lock", !.phase = "read", !.trip = t,
                                 !.bus = trips[t].bus, !.batch = seats[trips[t].bus].batch]
    <3>1. q.phase = "read"
      BY DEF Idle
    <3>2. Begin(w, q) /\ UNCHANGED trips
      BY <2>6 DEF Lock, BeginReading
    <3> HIDE DEF q
    <3> QED BY <3>1, <3>2
  <2>7. ASSUME NEW force \in BOOLEAN, Generate(w, force) \/ Rebuild(w, force)
        PROVE \E q : Begun(q)
    BY <2>7, GenerationRequest DEF Generate, Rebuild, BeginReading
  <2> HIDE DEF Begun
  <2>8. \E q : Begun(q)
    BY <2>1, <2>2, <2>3, <2>4, <2>5, <2>6, <2>7, Zenon DEF Arrive
  <2> QED BY <2>8 DEF Begun
<1>2. /\ requests'[w].phase \notin {"listing", "done"} /\ UNCHANGED trips
      /\ \A v \in Workers : v # w => requests'[v] = requests[v]
  BY <1>0, <1>1, BeginFacts
<1>3. TripsStay
  BY <1>2 DEF TripsStay, Exists
<1> QED BY <1>2, <1>3, ArriveFits, ListsStay DEF GInv

LEMMA SeatStepsAccounted ==
  ASSUME GInv, NEW w \in Workers,
         WriteBus(w) \/ CountSeats(w) \/ AskLocks(w) \/ DeleteSeats(w) \/ InsertSeats(w)
  PROVE GInv'
<1>0. TypeOK /\ requests[w] \in Request
  BY RequestTypes DEF GInv, SInv
<1>1. /\ requests'[w].phase \notin {"listing", "done"}
      /\ \A v \in Workers : v # w => requests'[v] = requests[v]
  <2>1. CASE End(w)
    BY <1>0, <2>1, EndFacts
  <2>2. CASE \E phase \in SeatPhases : Go(w, phase)
    BY <1>0, <2>2, GoFacts DEF SeatPhases
  <2>3. CASE \E phase \in {"counted", "emptied"} :
               requests' = [requests EXCEPT ![w].phase = phase,
                                            ![w].size = buses[requests[w].bus].size]
    BY <1>0, <2>3 DEF TypeOK, Request
  <2> QED
    BY <2>1, <2>2, <2>3 DEF WriteBus, CountSeats, AskLocks, DeleteSeats, InsertSeats, Fail,
                            SeatPhases
<1>2. TripsStay
  BY DEF TripsStay, Exists, WriteBus, CountSeats, AskLocks, DeleteSeats, InsertSeats, Fail
<1> QED BY <1>1, <1>2, SeatStepsFit, ListsStay DEF GInv

\* A step that ends a request and keeps the trips that exist.
LEMMA EndAccounted ==
  ASSUME GInv, NEW w \in Workers, TripsStay, SInv', End(w)
  PROVE GInv'
<1>1. TypeOK
  BY DEF GInv, SInv
<1> QED BY <1>1, EndFacts, ListsStay

\* A trip that leaves its place marks every generation under way.
LEMMA MovesAccounted ==
  ASSUME GInv, SInv', NEW w \in Workers,
         requests'[w].phase \notin {"listing", "done"},
         \A v \in Workers : v # w => requests'[v] = Shifted[v]
  PROVE GInv'
<1> SUFFICES ASSUME NEW v \in Workers, requests'[v].phase \in {"listing", "done"}
             PROVE requests'[v].shifted
  BY DEF GInv, Accounted
<1>1. TypeOK
  BY DEF GInv, SInv
<1> QED BY <1>1, ShiftedFacts DEF GInv, SInv, ListsAreGenerations

LEMMA ReadBusesAccounted ==
  ASSUME GInv, NEW w \in Workers, ReadBuses(w)
  PROVE GInv'
<1> DEFINE pairs == Departures \X {b \in Buses : There(b)}
<1>0. TypeOK /\ requests[w] \in Request /\ SInv'
  BY RequestTypes, TripStepsFit DEF GInv, SInv
<1>1. /\ requests'[w].want = pairs
      /\ requests'[w].phase = "listing"
      /\ pairs \subseteq requests'[w].todo \cup requests'[w].list
      /\ \A v \in Workers : v # w => requests'[v] = requests[v]
      /\ UNCHANGED trips
  BY <1>0 DEF ReadBuses, TypeOK, Request
<1>2. Accounted(w)'
  BY <1>1 DEF Accounted
<1>3. ASSUME NEW v \in Workers, v # w PROVE Accounted(v)'
  BY <1>1, <1>3 DEF GInv, Accounted, Taken, Exists
<1> QED BY <1>0, <1>2, <1>3 DEF GInv

LEMMA CheckNextAccounted ==
  ASSUME GInv, NEW w \in Workers, CheckNext(w)
  PROVE GInv'
<1> DEFINE r == requests[w]
           q == CHOOSE p \in r.todo : TRUE
<1>0. TypeOK /\ r \in Request /\ SInv'
  BY RequestTypes, TripStepsFit DEF GInv, SInv
<1>1. q \in r.todo
  BY Zenon DEF CheckNext
<1>2. /\ requests'[w].want = r.want /\ requests'[w].phase = r.phase /\ r.phase = "listing"
      /\ requests'[w].shifted = r.shifted /\ requests'[w].todo = r.todo \ {q}
      /\ requests'[w].list = IF Taken(q[1], q[2]) THEN r.list ELSE r.list \cup {q}
      /\ \A v \in Workers : v # w => requests'[v] = requests[v]
      /\ UNCHANGED trips
  <2> HIDE DEF q
  <2>1. Check(w, q) /\ r.phase = "listing" /\ UNCHANGED trips
    BY DEF CheckNext, q
  <2> QED BY <1>0, <2>1 DEF Check, TypeOK, Request
<1>3. \A d, b : Taken(d, b)' = Taken(d, b)
  BY <1>2 DEF Taken, Exists
<1>4. Accounted(w)'
  <2> HIDE DEF q
  <2> SUFFICES ASSUME ~r.shifted, NEW p \in r.want
               PROVE Taken(p[1], p[2])' \/ p \in requests'[w].todo \cup requests'[w].list
    BY <1>2 DEF Accounted
  <2>1. Taken(p[1], p[2]) \/ p \in r.todo \cup r.list
    BY <1>2 DEF GInv, Accounted
  <2>2. CASE p = q
    BY <1>2, <1>3, <2>2
  <2>3. CASE p # q
    BY <1>2, <1>3, <2>1, <2>3
  <2> QED BY <2>2, <2>3
<1>5. ASSUME NEW v \in Workers, v # w PROVE Accounted(v)'
  BY <1>2, <1>3, <1>5 DEF GInv, Accounted
<1> QED BY <1>0, <1>4, <1>5 DEF GInv

\* createMany inserts what is not taken, or takes nothing.
LEMMA InsertTripsAccounted ==
  ASSUME GInv, NEW w \in Workers, InsertTrips(w)
  PROVE GInv'
<1> DEFINE r == requests[w]
           new == {p \in r.list : ~Taken(p[1], p[2])}
           made(t) == <<t[1], t[2]>> \in new /\ t = NewId(t[1], t[2])
<1>0. TypeOK /\ r \in Request /\ SInv' /\ r.list \in SUBSET (Departures \X Buses)
  BY RequestTypes, TripStepsFit DEF GInv, SInv
<1>1. CASE End(w) /\ UNCHANGED trips
  BY <1>0, <1>1, EndAccounted DEF TripsStay, Exists
<1>2. CASE /\ \A p \in new : Fresh(p[1], p[2]) # {}
           /\ trips' = [t \in Trips |-> IF made(t) THEN Made(t) ELSE trips[t]]
           /\ Go(w, "done")
  <2> HIDE DEF new
  <2>1. ASSUME NEW p \in new
        PROVE /\ p[1] \in Departures /\ p[2] \in Buses /\ p = <<p[1], p[2]>>
              /\ NewId(p[1], p[2]) \in Trips /\ trips[NewId(p[1], p[2])].state = "none"
              /\ NewId(p[1], p[2])[1] = p[1] /\ NewId(p[1], p[2])[2] = p[2]
    <3>1. p \in Departures \X Buses
      BY <1>0 DEF new
    <3>2. p[1] \in Departures /\ p[2] \in Buses /\ p = <<p[1], p[2]>>
      BY <3>1
    <3> QED BY <1>2, <3>2, NewIdType
  <2>2. TripsStay
    <3> SUFFICES ASSUME NEW t \in Trips, Exists(t) PROVE trips'[t] = trips[t]
      BY DEF TripsStay, Exists
    <3>1. ASSUME <<t[1], t[2]>> \in new, t = NewId(t[1], t[2]) PROVE FALSE
      <4>1. trips[NewId(t[1], t[2])].state = "none"
        BY <2>1, <3>1, Zenon
      <4> QED BY <3>1, <4>1 DEF Exists
    <3>2. ~made(t)
      BY <3>1
    <3> QED BY <1>2, <3>2
  <2>3. ASSUME NEW p \in new PROVE Taken(p[1], p[2])'
    <3> DEFINE t == NewId(p[1], p[2])
    <3>1. /\ t \in Trips /\ t[1] = p[1] /\ t[2] = p[2]
      BY <2>1
    <3>2. made(t)
      BY <2>1, <3>1
    <3> HIDE DEF made, t
    <3>3. trips'[t] = Made(t)
      BY <1>2, <3>1, <3>2
    <3>4. /\ trips'[t].state = "SCHEDULED" /\ trips'[t].bus = p[2]
          /\ trips'[t].departure = p[1]
      BY <3>1, <3>3 DEF Made
    <3> QED BY <3>1, <3>4 DEF Taken, Exists
  <2>4. /\ requests'[w].want = r.want /\ requests'[w].shifted = r.shifted
        /\ requests'[w].phase = "done" /\ r.phase = "listing" /\ r.todo = {}
        /\ \A v \in Workers : v # w => requests'[v] = requests[v]
    BY <1>0, <1>2 DEF InsertTrips, Go, TypeOK, Request
  <2>5. Accounted(w)'
    <3> SUFFICES ASSUME ~r.shifted, NEW p \in r.want PROVE Taken(p[1], p[2])'
      BY <2>4 DEF Accounted
    <3>1. Taken(p[1], p[2]) \/ p \in r.list
      BY <2>4 DEF GInv, Accounted
    <3>2. CASE Taken(p[1], p[2])
      BY <2>2, <3>2, TakenStays
    <3>3. CASE p \in r.list /\ ~Taken(p[1], p[2])
      BY <2>3, <3>3 DEF new
    <3> QED BY <3>1, <3>2, <3>3
  <2>6. ASSUME NEW v \in Workers, v # w PROVE Accounted(v)'
    <3>1. Accounted(v) /\ requests'[v] = requests[v]
      BY <2>4, <2>6 DEF GInv
    <3> QED BY <2>2, <3>1, TakenStays DEF Accounted
  <2> QED BY <1>0, <2>5, <2>6 DEF GInv
<1> QED BY <1>1, <1>2 DEF InsertTrips

LEMMA TripStepsAccounted ==
  ASSUME GInv, NEW w \in Workers,
         WriteTrip(w) \/ WriteCancel(w) \/ DeleteAllTrips(w) \/ Report(w) \/ InsertLock(w)
  PROVE GInv'
<1>0. TypeOK /\ SInv'
  BY TripStepsFit DEF GInv, SInv
<1>1. CASE requests' = [Shifted EXCEPT ![w] = Idle]
  <2>1. requests'[w] = Idle /\ \A v \in Workers : v # w => requests'[v] = Shifted[v]
    BY <1>0, <1>1, ShiftedType
  <2> QED BY <1>0, <2>1, MovesAccounted DEF Idle
<1>2. CASE DeleteAllTrips(w)
  <2>1. /\ requests'[w] = [Shifted[w] EXCEPT !.phase = "ready"]
        /\ \A v \in Workers : v # w => requests'[v] = Shifted[v]
    BY <1>0, <1>2, ShiftedType DEF DeleteAllTrips
  <2>2. requests'[w].phase = "ready"
    BY <1>0, <2>1, ShiftedType DEF Request
  <2> QED BY <1>0, <2>1, <2>2, MovesAccounted
<1>3. CASE UNCHANGED trips /\ End(w)
  BY <1>0, <1>3, EndAccounted DEF TripsStay, Exists
<1>4. CASE WriteCancel(w)
  <2> DEFINE t == requests[w].trip
  <2>1. TripsStay
    BY <1>0, <1>4 DEF WriteCancel, TripsStay, Exists, TypeOK, Trip, NoRow
  <2> QED BY <1>0, <1>4, <2>1, EndAccounted DEF WriteCancel
<1> QED BY <1>1, <1>2, <1>3, <1>4 DEF WriteTrip, Report, InsertLock

LEMMA GInvNext == GInv /\ [Next]_vars => GInv'
<1>0. ASSUME SInv, [Next]_vars PROVE SInv'
  BY <1>0, SInvNext
<1>1. ASSUME GInv, SInv', UNCHANGED requests, TripsStay PROVE GInv'
  BY <1>1, TakenStays DEF GInv, Accounted
<1>2. ASSUME GInv, NEW w \in Workers, Proceed(w) PROVE GInv'
  BY <1>2, SeatStepsAccounted, TripStepsAccounted, ReadBusesAccounted, CheckNextAccounted,
     InsertTripsAccounted, Zenon DEF Proceed
<1>3. ASSUME GInv, NEW w \in Workers, Crash(w) PROVE GInv'
  <2>1. TripsStay /\ End(w)
    BY <1>3 DEF Crash, TripsStay, Exists
  <2> QED BY <1>3, <2>1, CrashFits, EndAccounted DEF GInv
<1>4. ASSUME GInv, SInv', AtOnce \/ Sell \/ UNCHANGED vars PROVE GInv'
  <2>1. UNCHANGED requests
    BY <1>4 DEF AtOnce, Sell, DeleteBus, CreateTrip, Start, Confirm, GiveBack, vars
  <2>2. TripsStay
    <3>1. CASE UNCHANGED trips
      BY <3>1 DEF TripsStay, Exists
    <3>2. ASSUME NEW d \in Departures, NEW b \in Buses, CreateTrip(d, b) PROVE TripsStay
      <4>1. NewId(d, b) \in Trips /\ trips[NewId(d, b)].state = "none"
        BY <3>2, NewIdType DEF CreateTrip
      <4>2. \A t \in Trips : t # NewId(d, b) => trips'[t] = trips[t]
        BY <1>4, <3>2 DEF CreateTrip, GInv, SInv, TypeOK
      <4> QED BY <4>1, <4>2 DEF TripsStay, Exists
    <3> QED
      BY <1>4, <3>1, <3>2 DEF AtOnce, Sell, DeleteBus, Start, Confirm, GiveBack, vars
  <2> QED BY <1>1, <1>4, <2>1, <2>2
<1>5. GInv => SInv
  BY DEF GInv
<1> QED BY <1>0, <1>2, <1>3, <1>4, <1>5, ArriveAccounted, Zenon DEF Next

\* A generation that reports success has left no gap in the days it read, whatever other
\* generations, new trips, cancellations and crashes did at once, unless a trip was moved
\* or deleted under it.
THEOREM FleetGeneratedDaysAreWhole == Spec => []GeneratedDaysAreWhole
<1>1. Init => GInv
  BY SInvInit DEF Init, GInv, Accounted, Idle
<1>2. GInv => GeneratedDaysAreWhole
  BY DEF GInv, Accounted, GeneratedDaysAreWhole
<1> QED BY <1>1, <1>2, GInvNext, PTL DEF Spec
=============================================================================
