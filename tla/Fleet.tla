-------------------------------- MODULE Fleet --------------------------------
(***************************************************************************)
(* Buses with their seats and the trips they make, under concurrent        *)
(* requests of the back office, the midnight job and passengers.           *)
(*                                                                         *)
(* A request of the back office reads, and writes later; only              *)
(* TripsService.cancel runs in a transaction, which in READ COMMITTED      *)
(* keeps nobody out.  Steps are the statements; the unique indexes and     *)
(* foreign keys of the schema apply to each.  Of a trip one sale is kept:  *)
(* whether its seats are free, locked, in a pending booking or sold        *)
(* (SeatReservation has the passengers of a trip in detail).  All trips    *)
(* depart in the future.                                                   *)
(***************************************************************************)
EXTENDS Integers, FiniteSets

CONSTANTS Buses,          \* ids
          Departures,     \* a route and a time of day of the schedule
          Copies,         \* bound: trips ever made for a bus and a departure
          Sizes,          \* class and capacity, one value for both
          NoSize,         \* no seats
          Workers,        \* requests at a time
          MaxRequests,    \* bound: requests ever sent
          NoBus, NoTrip, NoDeparture,
          FirstBus, FirstDeparture, FirstSize

\* A trip's id names what it was made for.
Trips == Departures \X Buses \X (1 .. Copies)

ASSUME FleetAssumption ==
  /\ NoSize \notin Sizes /\ NoBus \notin Buses /\ NoDeparture \notin Departures
  /\ NoTrip \notin Trips
  /\ Copies \in Nat /\ MaxRequests \in Nat
  /\ FirstBus \in Buses /\ FirstDeparture \in Departures /\ FirstSize \in Sizes

VARIABLES buses,      \* rows of Bus
          seats,      \* the seats of each bus: their layout, and the how manyeth they are
          trips,      \* rows of Trip
          rows,       \* buses whose seats the rows of BookingSeat of a trip name
          sales,      \* the sale of each trip
          requests,   \* what each worker is at
          sent,       \* number of requests so far
          cut,        \* buses whose seating a crash cut short
          disturbed,  \* buses with a failed or overtaken change of seats
          late,       \* trips with a sale that began after a cancellation had checked
          moved       \* trips moved to another bus under a sale

history == <<cut, disturbed, late, moved>>
vars == <<buses, seats, trips, rows, sales, requests, sent, history>>

Bus == [state : {"none", "there", "gone"}, size : Sizes \cup {NoSize}]
Seats == [size : Sizes \cup {NoSize}, batch : Nat]
NoRow == [state |-> "none", bus |-> NoBus, departure |-> NoDeparture]
Trip == {NoRow} \cup [state : {"SCHEDULED", "CANCELLED", "gone"}, bus : Buses,
                      departure : Departures]
Sale == [stage : {"free", "locked", "pending", "confirmed"}, bus : Buses \cup {NoBus}]

Kinds == {"none", "createBus", "updateBus", "createSeats", "updateTrip", "cancelTrip",
          "lock", "generate", "rebuild"}
Phases == {"idle", "read", "seating", "counted", "unheld", "emptied", "ready", "listing",
           "done"}

SeatKinds == {"createBus", "updateBus", "createSeats"}

Request == {r \in [kind : Kinds, phase : Phases, bus : Buses \cup {NoBus},
                   trip : Trips \cup {NoTrip}, departure : Departures \cup {NoDeparture},
                   size : Sizes \cup {NoSize}, force : BOOLEAN, changed : BOOLEAN,
                   batch : Nat, want : SUBSET (Departures \X Buses),
                   todo : SUBSET (Departures \X Buses), list : SUBSET (Departures \X Buses),
                   shifted : BOOLEAN] :
              /\ r.kind \in SeatKinds \cup {"lock"} => r.bus \in Buses
              /\ r.kind = "updateTrip" => r.departure \in Departures}

Idle == [kind |-> "none", phase |-> "idle", bus |-> NoBus, trip |-> NoTrip,
         departure |-> NoDeparture, size |-> NoSize, force |-> FALSE, changed |-> FALSE,
         batch |-> 0, want |-> {}, todo |-> {}, list |-> {}, shifted |-> FALSE]

Free == [stage |-> "free", bus |-> NoBus]

There(b) == b \in Buses /\ buses[b].state = "there"
Exists(t) == t \in Trips /\ trips[t].state \in {"SCHEDULED", "CANCELLED"}
Sold(t) == sales[t].stage # "free"

\* Trip's unique index on route, bus and time.
Taken(d, b) == \E t \in Trips : Exists(t) /\ trips[t].departure = d /\ trips[t].bus = b

Locking(t) == \E w \in Workers : requests[w].kind = "lock" /\ requests[w].trip = t

\* Requests that work on the seats of a bus.
Seating(w) == requests[w].kind \in SeatKinds
SeatingOf(b) == {w \in Workers : Seating(w) /\ requests[w].bus = b}

Init == /\ buses = [b \in Buses |-> [state |-> IF b = FirstBus THEN "there" ELSE "none",
                                     size |-> IF b = FirstBus THEN FirstSize ELSE NoSize]]
        /\ seats = [b \in Buses |-> [size |-> buses[b].size, batch |-> 0]]
        /\ trips = [t \in Trips |->
                      IF t = <<FirstDeparture, FirstBus, 1>>
                      THEN [state |-> "SCHEDULED", bus |-> FirstBus,
                            departure |-> FirstDeparture]
                      ELSE NoRow]
        /\ rows = [t \in Trips |-> {}]
        /\ sales = [t \in Trips |-> Free]
        /\ requests = [w \in Workers |-> Idle]
        /\ sent = 0
        /\ cut = {} /\ disturbed = {} /\ late = {} /\ moved = {}

-----------------------------------------------------------------------------
(* Requests begin.                                                         *)

Begin(w, request) == /\ requests[w].phase = "idle" /\ sent < MaxRequests
                     /\ requests' = [requests EXCEPT ![w] = request]
                     /\ sent' = sent + 1

End(w) == requests' = [requests EXCEPT ![w] = Idle]

Go(w, phase) == requests' = [requests EXCEPT ![w].phase = phase]

\* Two requests about the seats of one bus disturb each other.
BeginSeating(w, request) ==
  /\ Begin(w, request)
  /\ disturbed' = IF SeatingOf(request.bus) = {} THEN disturbed
                  ELSE disturbed \cup {request.bus}
  /\ UNCHANGED <<trips, rows, sales, cut, late, moved>>

\* BusesService.create and BusSeederService: the row comes first, then its seats.
CreateBus(w, b, size) ==
  /\ buses[b].state = "none"
  /\ buses' = [buses EXCEPT ![b] = [state |-> "there", size |-> size]]
  /\ BeginSeating(w, [Idle EXCEPT !.kind = "createBus", !.phase = "seating", !.bus = b])
  /\ UNCHANGED seats

\* Mutant: the class and capacity are compared with the row already written.
UpdateBusUnchanged(w, b, size) ==
  /\ There(b)
  /\ BeginSeating(w, [Idle EXCEPT !.kind = "updateBus", !.phase = "read", !.bus = b,
                                  !.size = size, !.force = TRUE])
  /\ UNCHANGED <<buses, seats>>

\* BusesService.update reads the row whose class and capacity it compares.
UpdateBus(w, b, size) ==
  /\ There(b)
  /\ BeginSeating(w, [Idle EXCEPT !.kind = "updateBus", !.phase = "read", !.bus = b,
                                  !.size = size, !.changed = (size # buses[b].size),
                                  !.force = TRUE])
  /\ UNCHANGED <<buses, seats>>

CreateSeats(w, b, force) ==
  /\ There(b)
  /\ BeginSeating(w, [Idle EXCEPT !.kind = "createSeats", !.phase = "seating", !.bus = b,
                                  !.force = force])
  /\ UNCHANGED <<buses, seats>>

BeginReading(w, request) ==
  /\ Begin(w, request)
  /\ UNCHANGED <<buses, seats, trips, rows, sales, history>>

\* TripsService.update reads the trip.
UpdateTrip(w, t, d, b) ==
  /\ trips[t].state = "SCHEDULED"
  /\ BeginReading(w, [Idle EXCEPT !.kind = "updateTrip", !.phase = "read", !.trip = t,
                                  !.departure = d, !.bus = b])

\* Mutant: the bookings are not counted.
CancelTripUncounted(w, t) ==
  /\ trips[t].state = "SCHEDULED"
  /\ BeginReading(w, [Idle EXCEPT !.kind = "cancelTrip", !.phase = "counted", !.trip = t])

\* assertTripHasNoActiveBookings counts bookings and seats.
CancelTrip(w, t) ==
  /\ trips[t].state = "SCHEDULED" /\ ~Sold(t)
  /\ BeginReading(w, [Idle EXCEPT !.kind = "cancelTrip", !.phase = "counted", !.trip = t])

\* BookingsService.lockSeats reads the trip, whatever its status, and its bus's seats.
Lock(w, t) ==
  /\ Exists(t) /\ ~Sold(t)
  /\ seats[trips[t].bus].size # NoSize
  /\ BeginReading(w, [Idle EXCEPT !.kind = "lock", !.phase = "read", !.trip = t,
                                  !.bus = trips[t].bus,
                                  !.batch = seats[trips[t].bus].batch])

\* The midnight job, or the ADMIN, with replaceAllTrips or without.
Generate(w, force) ==
  BeginReading(w, [Idle EXCEPT !.kind = "generate", !.phase = "ready", !.force = force])

Rebuild(w, force) ==
  BeginReading(w, [Idle EXCEPT !.kind = "rebuild", !.phase = "read", !.force = force])

-----------------------------------------------------------------------------
(* The seats of a bus: SeatsService.createForBus.                          *)

Fail(w, b) == /\ End(w)
              /\ disturbed' = disturbed \cup {b}
              /\ UNCHANGED <<buses, seats, trips, rows, sales, sent, cut, late, moved>>

\* bus.update is committed before the seats are looked at.
WriteBus(w) ==
  LET r == requests[w]
  IN /\ r.kind = "updateBus" /\ r.phase = "read"
     /\ IF There(r.bus)
        THEN /\ buses' = [buses EXCEPT ![r.bus].size = r.size]
             /\ IF r.changed THEN Go(w, "seating") ELSE End(w)
        ELSE End(w) /\ UNCHANGED buses
     /\ UNCHANGED <<seats, trips, rows, sales, sent, history>>

\* The layout is read, the seats are counted.
CountSeats(w) ==
  LET r == requests[w]
      b == r.bus
      some == seats[b].size # NoSize
  IN /\ Seating(w) /\ r.phase = "seating"
     /\ \/ /\ There(b) /\ (some => r.force)
           /\ requests' = [requests EXCEPT ![w].phase = IF some THEN "counted" ELSE "emptied",
                                           ![w].size = buses[b].size]
           /\ UNCHANGED <<buses, seats, trips, rows, sales, sent, history>>
        \/ /\ ~(There(b) /\ (some => r.force))
           /\ Fail(w, b)

\* ensureNoFutureSeatLocksOrReservations asks for the trips of the bus as it is
\* assigned now.
AskLocks(w) ==
  LET b == requests[w].bus
      held == \E t \in Trips : Exists(t) /\ trips[t].bus = b /\ Sold(t)
  IN /\ Seating(w) /\ requests[w].phase = "counted"
     /\ \/ ~held /\ Go(w, "unheld")
           /\ UNCHANGED <<buses, seats, trips, rows, sales, sent, history>>
        \/ held /\ Fail(w, b)

\* Seats that rows of BookingSeat name cannot be deleted.
Referred(b) == \E t \in Trips : b \in rows[t]

DeleteSeats(w) ==
  LET b == requests[w].bus
  IN /\ Seating(w) /\ requests[w].phase = "unheld"
     /\ \/ /\ ~Referred(b)
           /\ seats' = [seats EXCEPT ![b].size = NoSize]
           /\ Go(w, "emptied")
           /\ UNCHANGED <<buses, trips, rows, sales, sent, history>>
        \/ Referred(b) /\ Fail(w, b)

\* Mutant: seats of a layout that is not the bus's any more are refused.
InsertSeatsIfCurrent(w) ==
  LET r == requests[w]
      fits == There(r.bus) /\ seats[r.bus].size = NoSize /\ r.size = buses[r.bus].size
  IN /\ Seating(w) /\ r.phase = "emptied"
     /\ \/ /\ fits
           /\ seats' = [seats EXCEPT ![r.bus] = [size |-> r.size, batch |-> @.batch + 1]]
           /\ End(w)
           /\ UNCHANGED <<buses, trips, rows, sales, sent, history>>
        \/ ~fits /\ Fail(w, r.bus)

\* createMany fails if the bus has gone or has got seats meanwhile.
InsertSeats(w) ==
  LET r == requests[w]
  IN /\ Seating(w) /\ r.phase = "emptied"
     /\ \/ /\ There(r.bus) /\ seats[r.bus].size = NoSize
           /\ seats' = [seats EXCEPT ![r.bus] = [size |-> r.size, batch |-> @.batch + 1]]
           /\ End(w)
           /\ UNCHANGED <<buses, trips, rows, sales, sent, history>>
        \/ ~(There(r.bus) /\ seats[r.bus].size = NoSize) /\ Fail(w, r.bus)

\* Trips keep their bus; its seats go with it unless rows name them.
DeleteBus(b) ==
  /\ There(b) /\ sent < MaxRequests
  /\ \A t \in Trips : Exists(t) => trips[t].bus # b
  /\ ~Referred(b)
  /\ sent' = sent + 1
  /\ buses' = [buses EXCEPT ![b] = [state |-> "gone", size |-> NoSize]]
  /\ seats' = [seats EXCEPT ![b].size = NoSize]
  /\ UNCHANGED <<trips, rows, sales, requests, history>>

-----------------------------------------------------------------------------
(* Trips.                                                                  *)

\* An id for a new trip.
Fresh(d, b) == {t \in Trips : trips[t].state = "none" /\ t[1] = d /\ t[2] = b}
NewId(d, b) == CHOOSE t \in Fresh(d, b) : TRUE

Made(t) == [state |-> "SCHEDULED", bus |-> t[2], departure |-> t[1]]

\* TripsService.create; the foreign key and the unique index decide.
CreateTrip(d, b) ==
  /\ There(b) /\ ~Taken(d, b) /\ Fresh(d, b) # {}
  /\ sent < MaxRequests
  /\ sent' = sent + 1
  /\ trips' = [trips EXCEPT ![NewId(d, b)] = Made(NewId(d, b))]
  /\ UNCHANGED <<buses, seats, rows, sales, requests, history>>

\* Mutant: the unique index leaves out the bus that a trip is moved to.
MovableAnyway(t, d, b) == Exists(t) /\ There(b)

Movable(t, d, b) == /\ Exists(t) /\ There(b)
                    /\ \A u \in Trips : Exists(u) /\ trips[u].departure = d
                                        /\ trips[u].bus = b => u = t

\* Generations under way learn that a trip leaves its place.
Shifted == [w \in Workers |->
  IF requests[w].kind \in {"generate", "rebuild"}
  THEN [requests[w] EXCEPT !.shifted = TRUE] ELSE requests[w]]

WriteTrip(w) ==
  LET r == requests[w]
      t == r.trip
  IN /\ r.kind = "updateTrip"
     /\ \/ /\ Movable(t, r.departure, r.bus)
           /\ trips' = [trips EXCEPT ![t].bus = r.bus, ![t].departure = r.departure]
           /\ moved' = IF trips[t].bus # r.bus /\ (Sold(t) \/ Locking(t))
                       THEN moved \cup {t} ELSE moved
           /\ requests' = [Shifted EXCEPT ![w] = Idle]
        \/ /\ ~Movable(t, r.departure, r.bus)
           /\ End(w)
           /\ UNCHANGED <<trips, moved>>
     /\ UNCHANGED <<buses, seats, rows, sales, sent, cut, disturbed, late>>

\* The transaction of TripsService.cancel writes what it decided on the counts.
WriteCancel(w) ==
  LET r == requests[w]
      t == r.trip
  IN /\ r.kind = "cancelTrip"
     /\ IF Exists(t) THEN trips' = [trips EXCEPT ![t].state = "CANCELLED"]
        ELSE UNCHANGED trips
     /\ End(w)
     /\ UNCHANGED <<buses, seats, rows, sales, sent, history>>

\* deleteAllTrips; bookings, seats taken and payments go with the trips.
DeleteAllTrips(w) ==
  LET all == {t \in Trips : Exists(t)}
  IN /\ requests[w].kind = "rebuild" /\ requests[w].phase = "read"
     /\ trips' = [t \in Trips |-> IF t \in all THEN [trips[t] EXCEPT !.state = "gone"]
                                  ELSE trips[t]]
     /\ rows' = [t \in Trips |-> {}]
     /\ sales' = [t \in Trips |-> Free]
     /\ requests' = [Shifted EXCEPT ![w].phase = "ready"]
     /\ UNCHANGED <<buses, seats, sent, history>>

-----------------------------------------------------------------------------
(* TripGeneratorService.createTripsForDate.                                *)

\* Every bus makes every departure.
ReadBuses(w) ==
  LET pairs == Departures \X {b \in Buses : There(b)}
      r == requests[w]
  IN /\ r.phase = "ready"
     /\ requests' = [requests EXCEPT
                       ![w].phase = "listing", ![w].want = pairs, ![w].shifted = FALSE,
                       ![w].todo = IF r.force THEN {} ELSE pairs,
                       ![w].list = IF r.force THEN pairs ELSE {}]
     /\ UNCHANGED <<buses, seats, trips, rows, sales, sent, history>>

\* Mutant: the check for a trip forgets the bus.
CheckAnyBus(w, p) ==
  requests' = [requests EXCEPT ![w].todo = @ \ {p},
                               ![w].list = IF \E b \in Buses : Taken(p[1], b) THEN @
                                           ELSE @ \cup {p}]

Check(w, p) ==
  requests' = [requests EXCEPT ![w].todo = @ \ {p},
                               ![w].list = IF Taken(p[1], p[2]) THEN @ ELSE @ \cup {p}]

\* The loop goes through bus and departure in some order.
CheckNext(w) ==
  /\ requests[w].phase = "listing" /\ requests[w].todo # {}
  /\ Check(w, CHOOSE p \in requests[w].todo : TRUE)
  /\ UNCHANGED <<buses, seats, trips, rows, sales, sent, history>>

\* createMany skips trips that exist by now, and fails for all if a bus has gone.
InsertTrips(w) ==
  LET r == requests[w]
      new == {p \in r.list : ~Taken(p[1], p[2])}
  IN /\ r.phase = "listing" /\ r.todo = {}
     /\ \/ /\ \A p \in r.list : There(p[2])
           /\ \A p \in new : Fresh(p[1], p[2]) # {}
           /\ trips' = [t \in Trips |->
                          IF <<t[1], t[2]>> \in new /\ t = NewId(t[1], t[2])
                          THEN Made(t) ELSE trips[t]]
           /\ Go(w, "done")
        \/ /\ \E p \in r.list : ~There(p[2])
           /\ End(w)
           /\ UNCHANGED trips
     /\ UNCHANGED <<buses, seats, rows, sales, sent, history>>

\* The number of trips is reported.
Report(w) == /\ requests[w].phase = "done"
             /\ End(w)
             /\ UNCHANGED <<buses, seats, trips, rows, sales, sent, history>>

-----------------------------------------------------------------------------
(* Passengers, and the end of a request that is not served.                *)

\* A cancellation of t that has counted the bookings, or is written.
Cancelling(t) == \/ trips[t].state = "CANCELLED"
                 \/ \E w \in Workers : /\ requests[w].kind = "cancelTrip"
                                        /\ requests[w].trip = t

Lockable(r) == /\ Exists(r.trip) /\ ~Sold(r.trip)
               /\ seats[r.bus].size # NoSize /\ seats[r.bus].batch = r.batch

\* lockSeats inserts its rows in the transaction that read the trip.
InsertLock(w) ==
  LET r == requests[w]
      t == r.trip
  IN /\ r.kind = "lock"
     /\ \/ /\ Lockable(r)
           /\ sales' = [sales EXCEPT ![t] = [stage |-> "locked", bus |-> r.bus]]
           /\ rows' = [rows EXCEPT ![t] = @ \cup {r.bus}]
           /\ late' = IF Cancelling(t) THEN late \cup {t} ELSE late
        \/ ~Lockable(r) /\ UNCHANGED <<sales, rows, late>>
     /\ End(w)
     /\ UNCHANGED <<buses, seats, trips, sent, cut, disturbed, moved>>

\* startBooking finds the seats among those of the trip's bus, and does not ask for
\* the status of the trip.
Start(t) ==
  /\ Exists(t) /\ sales[t].stage = "locked" /\ sales[t].bus = trips[t].bus
  /\ sales' = [sales EXCEPT ![t].stage = "pending"]
  /\ UNCHANGED <<buses, seats, trips, rows, requests, sent, history>>

Confirm(t) ==
  /\ sales[t].stage = "pending"
  /\ sales' = [sales EXCEPT ![t].stage = "confirmed"]
  /\ UNCHANGED <<buses, seats, trips, rows, requests, sent, history>>

\* Given back or expired, when the rows of BookingSeat stay; or a booking cancelled or
\* refunded, when they go.
GiveBack(t) ==
  /\ Sold(t)
  /\ sales' = [sales EXCEPT ![t] = Free]
  /\ late' = late \ {t} /\ moved' = IF Locking(t) THEN moved ELSE moved \ {t}
  /\ \/ UNCHANGED rows
     \/ /\ sales[t].stage # "locked"
        /\ rows' = [rows EXCEPT ![t] = @ \ {sales[t].bus}]
  /\ UNCHANGED <<buses, seats, trips, requests, sent, cut, disturbed>>

\* The server stops, or the database refuses, between two statements.
Crash(w) ==
  LET r == requests[w]
      hurt == IF /\ Seating(w)
                 /\ r.phase \in {"seating", "counted", "unheld", "emptied"}
              THEN {r.bus} ELSE {}
  IN /\ r.phase # "idle"
     /\ End(w)
     /\ cut' = cut \cup hurt /\ disturbed' = disturbed \cup hurt
     /\ UNCHANGED <<buses, seats, trips, rows, sales, sent, late, moved>>

-----------------------------------------------------------------------------
Arrive(w) ==
  \/ \E b \in Buses, size \in Sizes : CreateBus(w, b, size) \/ UpdateBus(w, b, size)
  \/ \E b \in Buses, force \in BOOLEAN : CreateSeats(w, b, force)
  \/ \E t \in Trips, d \in Departures, b \in Buses : UpdateTrip(w, t, d, b)
  \/ \E t \in Trips : CancelTrip(w, t) \/ Lock(w, t)
  \/ \E force \in BOOLEAN : Generate(w, force) \/ Rebuild(w, force)

Proceed(w) ==
  \/ WriteBus(w) \/ CountSeats(w) \/ AskLocks(w) \/ DeleteSeats(w) \/ InsertSeats(w)
  \/ WriteTrip(w) \/ WriteCancel(w) \/ DeleteAllTrips(w)
  \/ ReadBuses(w) \/ CheckNext(w) \/ InsertTrips(w) \/ Report(w)
  \/ InsertLock(w)

AtOnce == \/ \E b \in Buses : DeleteBus(b)
          \/ \E d \in Departures, b \in Buses : CreateTrip(d, b)

Sell == \E t \in Trips : Start(t) \/ Confirm(t) \/ GiveBack(t)

Next == (\E w \in Workers : Arrive(w) \/ Proceed(w) \/ Crash(w)) \/ AtOnce \/ Sell

Spec == Init /\ [][Next]_vars

-----------------------------------------------------------------------------
TypeOK == /\ buses \in [Buses -> Bus]
          /\ seats \in [Buses -> Seats]
          /\ trips \in [Trips -> Trip]
          /\ rows \in [Trips -> SUBSET Buses]
          /\ sales \in [Trips -> Sale]
          /\ requests \in [Workers -> Request]
          /\ sent \in Nat
          /\ cut \in SUBSET Buses /\ disturbed \in SUBSET Buses
          /\ late \in SUBSET Trips /\ moved \in SUBSET Trips

\* However the midnight job, the ADMIN's generation, new and moved trips race, no two
\* trips of a bus leave on the same route at the same time.
OneTripPerDeparture ==
  \A t, u \in Trips : (/\ Exists(t) /\ Exists(u)
                       /\ trips[t].bus = trips[u].bus
                       /\ trips[t].departure = trips[u].departure) => t = u

\* Refusals and overlapping requests leave a bus its old seats or new ones; only a
\* crash between the statements leaves it without (createForBus).
SeatsAreLostToCrashesOnly ==
  \A b \in Buses : There(b) /\ seats[b].size = NoSize =>
    b \in cut \/ \E w \in SeatingOf(b) : requests[w].phase \in {"seating", "emptied"}

\* Seats follow class and capacity of their bus, unless a change of them failed, crashed
\* or met another one: BusesService.update commits the row before the seats.
SeatsFitTheBus ==
  \A b \in Buses : There(b) /\ SeatingOf(b) = {} /\ b \notin disturbed =>
    seats[b].size = buses[b].size

\* What is sold stays good: its trip and its seats exist, on the bus of the trip, and
\* the trip is not cancelled; but for trips that update moved under a sale and sales
\* that began after a cancellation had counted.
TicketsStayGood ==
  \A t \in Trips : Sold(t) =>
    /\ Exists(t) /\ There(sales[t].bus) /\ seats[sales[t].bus].size # NoSize
    /\ trips[t].bus = sales[t].bus \/ t \in moved
    /\ trips[t].state = "SCHEDULED" \/ t \in late

\* A generation that reports success has left a trip for every bus and departure it
\* read, unless a trip was moved or deleted meanwhile (createTripsForDate).
GeneratedDaysAreWhole ==
  \A w \in Workers : requests[w].phase = "done" /\ ~requests[w].shifted =>
    \A p \in requests[w].want : Taken(p[1], p[2])

\* "This trip cannot be cancelled because tickets have already been booked for it."
CancelledTripsAreUnsold ==
  \A t \in Trips : trips[t].state = "CANCELLED" => sales[t].stage # "confirmed"
=============================================================================
