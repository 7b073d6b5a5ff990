--------------------------- MODULE SeatLimitProofs ---------------------------
(***************************************************************************)
(* The seat limit per passenger: only confirmBooking adds a seat to a      *)
(* passenger's live bookings, and it counts before it links.               *)
(***************************************************************************)
EXTENDS SeatReservationProofs, FiniteSetTheorems

\* The seats of user u after a step, none of them new.
NoNewSeats(u) ==
  \A s \in Seats :
    \/ rows'[s].booking = None
    \/ bookings'[rows'[s].booking].user # u
    \/ bookings'[rows'[s].booking].status \notin Active
    \/ /\ rows'[s].booking = rows[s].booking
       /\ bookings[rows[s].booking].user = u
       /\ bookings[rows[s].booking].status \in Active

LEMMA LimitStays ==
  ASSUME NEW u, Cardinality(TicketSeats(rows, u)) <= MaxSeatsPerUser, NoNewSeats(u)
  PROVE  Cardinality(TicketSeats(rows, u)') <= MaxSeatsPerUser
<1>1. TicketSeats(rows, u)' \subseteq TicketSeats(rows, u)
  BY DEF TicketSeats, NoNewSeats
<1>2. IsFiniteSet(TicketSeats(rows, u))
  BY FS_Subset, ReservationAssumption DEF TicketSeats
<1>3. /\ Cardinality(TicketSeats(rows, u)') <= Cardinality(TicketSeats(rows, u))
      /\ Cardinality(TicketSeats(rows, u)) \in Nat
      /\ IsFiniteSet(TicketSeats(rows, u)')
  BY <1>1, <1>2, FS_Subset, FS_CardinalityType
<1>4. Cardinality(TicketSeats(rows, u)') \in Nat
  BY <1>3, FS_CardinalityType
<1> QED
  BY <1>3, <1>4, ReservationAssumption

\* Steps that link no row keep the limit.
LEMMA FreeingAddsNothing ==
  ASSUME NEW u, bookings' = bookings,
         \A s \in Seats : rows'[s] = rows[s] \/ rows'[s].booking = None
  PROVE  NoNewSeats(u)
BY DEF NoNewSeats

\* Steps that make a booking of another user keep it too.
LEMMA OthersBookingAddsNothing ==
  ASSUME IInv, NEW u, NEW b \in Bookings, NEW k, Fresh(b), Insert(b, k), k.user # u,
         \A s \in Seats : \/ rows'[s] = rows[s]
                          \/ rows'[s].booking \in {None, b}
  PROVE  NoNewSeats(u)
<1>1. bookings'[b] = k /\ \A c \in Bookings \ {b} : bookings'[c] = bookings[c]
  BY DEF Insert, IInv, TypeOK
<1>2. \A s \in Seats : rows[s].booking \in Bookings \cup {None}
  BY RowFields DEF IInv, TypeOK
<1> QED
  BY <1>1, <1>2 DEF NoNewSeats

LEMMA ClosingAddsNothing ==
  ASSUME IInv, NEW u, NEW B, B \subseteq Bookings, ClosesBookings(B), FreesRows(B)
  PROVE  NoNewSeats(u)
<1>1. \A s \in Seats : rows[s].booking \in Bookings \cup {None}
  BY RowFields DEF IInv, TypeOK
<1> QED
  BY <1>1, FreeRowFields DEF ClosesBookings, FreesRows, NoNewSeats

LEMMA SettlementAddsNothing ==
  ASSUME IInv, NEW u, NEW t \in inflight, PaymentSuccessCommit(t)
  PROVE  NoNewSeats(u)
<1>1. PICK b \in Bookings : t.ids = {b}
  BY DEF PaymentSuccessCommit, IInv, InflightKnown
<1>2. bookings[b].status = "PENDING" /\ bookings[b] \in BookingType
  BY <1>1 DEF PaymentSuccessCommit, SnapshotStands, IInv, TypeOK
<1>3. \A k \in BookingType : [k EXCEPT !.status = "CONFIRMED", !.deadline = None].user = k.user
  BY DEF BookingType, NoBooking, Booking
<1>4. /\ bookings'[b].user = bookings[b].user
      /\ \A c \in Bookings \ {b} : bookings'[c] = bookings[c]
  BY <1>1, <1>2, <1>3 DEF PaymentSuccessCommit, StatusesNoDeadline, IInv, TypeOK
<1>5. \A s \in Seats : /\ rows'[s].booking = rows[s].booking
                       /\ rows[s].booking \in Bookings \cup {None}
  <2>1. \A s \in Seats : rows[s].booking \in Bookings \cup {None}
    BY RowFields DEF IInv, TypeOK
  <2> QED
    BY <2>1 DEF PaymentSuccessCommit, Row
<1> QED
  BY <1>2, <1>4, <1>5 DEF NoNewSeats, Active

\* The passenger's own booking: all of its seats are counted.
LEMMA OwnBookingWithinLimit ==
  ASSUME IInv, NEW b \in Bookings, NEW u \in Passengers, NEW S \in SeatRequests,
         NEW now \in Readings, ConfirmBooking(b, u, S, now)
  PROVE  Cardinality(TicketSeats(rows, u)') <= MaxSeatsPerUser
<1> DEFINE swept == Sweep(rows, now)
           T == TicketSeats(swept, u)
<1>1. Cardinality(T) + Cardinality(S) <= MaxSeatsPerUser
  BY DEF ConfirmBooking, WithinLimit
<1>2. \A s \in Seats : swept[s].booking = rows[s].booking \/ swept[s].booking = None
  BY DEF Sweep, Swept, Row
<1>3. \A s \in Seats \ S : rows'[s] = swept[s]
  BY DEF ConfirmBooking
<1>4. /\ \A c \in Bookings \ {b} : bookings'[c] = bookings[c]
      /\ \A s \in Seats : rows[s].booking \in (Bookings \ {b}) \cup {None}
  <2>1. \A s \in Seats : rows[s].booking \in Bookings \cup {None}
    BY RowFields DEF IInv, TypeOK
  <2>2. \A s \in Seats : rows[s].booking # b
    BY FreshUnused DEF ConfirmBooking
  <2> QED
    BY <2>1, <2>2 DEF ConfirmBooking, Insert, IInv, TypeOK
<1> HIDE DEF swept
<1>5. TicketSeats(rows, u)' \subseteq T \cup S
  BY <1>2, <1>3, <1>4 DEF TicketSeats
<1>6. IsFiniteSet(T) /\ IsFiniteSet(S)
  BY FS_Subset, ReservationAssumption DEF TicketSeats, SeatRequests
<1> HIDE DEF T
<1>7. /\ IsFiniteSet(T \cup S)
      /\ Cardinality(T \cup S) <= Cardinality(T) + Cardinality(S)
  <2>1. /\ IsFiniteSet(T \cup S) /\ IsFiniteSet(T \cap S)
        /\ Cardinality(T \cup S)
             = Cardinality(T) + Cardinality(S) - Cardinality(T \cap S)
    BY <1>6, FS_Union, FS_Intersection
  <2>2. /\ Cardinality(T) \in Nat /\ Cardinality(S) \in Nat
        /\ Cardinality(T \cap S) \in Nat
    BY <1>6, <2>1, FS_CardinalityType
  <2> QED
    BY <2>1, <2>2
<1>8. /\ Cardinality(TicketSeats(rows, u)') <= Cardinality(T \cup S)
      /\ IsFiniteSet(TicketSeats(rows, u)')
  BY <1>5, <1>7, FS_Subset
<1>9. /\ Cardinality(TicketSeats(rows, u)') \in Nat /\ Cardinality(T \cup S) \in Nat
      /\ Cardinality(T) \in Nat /\ Cardinality(S) \in Nat /\ MaxSeatsPerUser \in Nat
  BY <1>6, <1>7, <1>8, FS_CardinalityType, ReservationAssumption
<1> QED
  BY <1>1, <1>7, <1>8, <1>9

-----------------------------------------------------------------------------
LEMMA SeatStepsKeepLimit ==
  ASSUME IInv, PassengerSeatLimit,
         \/ \E S \in SeatRequests, now \in Readings : LockSeats(S, now)
         \/ \E S \in SeatRequests, u \in Staff, now \in Readings : DashboardLock(S, u, now)
         \/ \E S \in SeatRequests, u \in Staff : DashboardRelease(S, u)
         \/ \E now \in Readings : CleanupExpiredLocks(now)
  PROVE  PassengerSeatLimit'
<1>1. /\ bookings' = bookings
      /\ \A s \in Seats : rows'[s] = rows[s] \/ rows'[s].booking = None
  BY DEF LockSeats, DashboardLock, DashboardRelease, CleanupExpiredLocks, Sweep, Swept,
         SweepOrphans, Row
<1> QED
  BY <1>1, FreeingAddsNothing, LimitStays DEF PassengerSeatLimit

LEMMA ConfirmKeepsLimit ==
  ASSUME IInv, PassengerSeatLimit, NEW b \in Bookings, NEW u \in Passengers,
         NEW S \in SeatRequests, NEW now \in Readings, ConfirmBooking(b, u, S, now)
  PROVE  PassengerSeatLimit'
<1> SUFFICES ASSUME NEW v \in Passengers \ Staff
             PROVE  Cardinality(TicketSeats(rows, v)') <= MaxSeatsPerUser
  BY DEF PassengerSeatLimit
<1>1. CASE v = u
  BY <1>1, OwnBookingWithinLimit
<1>2. CASE v # u
  <2> DEFINE k == Booking("PENDING", u, now + PaymentWindow, "ONLINE")
  <2>1. Fresh(b) /\ Insert(b, k) /\ k.user # v
    BY <1>2 DEF ConfirmBooking, Booking
  <2>2. \A s \in Seats : rows'[s] = rows[s] \/ rows'[s].booking \in {None, b}
    BY DEF ConfirmBooking, Sweep, Swept, LinkedRow, Row
  <2> HIDE DEF k
  <2>3. NoNewSeats(v)
    BY <2>1, <2>2, OthersBookingAddsNothing
  <2> QED
    BY <2>3, LimitStays DEF PassengerSeatLimit
<1> QED
  BY <1>1, <1>2

LEMMA CounterKeepsLimit ==
  ASSUME IInv, PassengerSeatLimit, NEW b \in Bookings, NEW u \in Staff,
         NEW S \in SeatRequests,
         \/ \E now \in Readings : ManualBooking(b, u, S, now) \/ AdminBooking(b, u, S, now)
         \/ StaffBooking(b, u, S)
  PROVE  PassengerSeatLimit'
<1> SUFFICES ASSUME NEW v \in Passengers \ Staff
             PROVE  Cardinality(TicketSeats(rows, v)') <= MaxSeatsPerUser
  BY DEF PassengerSeatLimit
<1> DEFINE k == Booking("CONFIRMED", u, None, "COUNTER")
<1>1. Fresh(b) /\ Insert(b, k) /\ k.user # v
  BY DEF ManualBooking, AdminBooking, CounterSale, StaffBooking, Booking
<1>2. \A s \in Seats : rows'[s] = rows[s] \/ rows'[s].booking \in {None, b}
  BY DEF ManualBooking, AdminBooking, CounterSale, StaffBooking, Row
<1> HIDE DEF k
<1>3. NoNewSeats(v)
  BY <1>1, <1>2, OthersBookingAddsNothing
<1> QED
  BY <1>3, LimitStays DEF PassengerSeatLimit

LEMMA ClosingKeepsLimit ==
  ASSUME IInv, PassengerSeatLimit,
         \/ \E t \in inflight : AdminCancelWrite(t) \/ ExpireWrite(t)
         \/ \E b \in Bookings : PaymentFailure(b)
  PROVE  PassengerSeatLimit'
<1> SUFFICES ASSUME NEW v \in Passengers \ Staff
             PROVE  NoNewSeats(v)
  BY LimitStays DEF PassengerSeatLimit
<1>1. CASE \E t \in inflight : AdminCancelWrite(t) \/ ExpireWrite(t)
  BY <1>1, AdminCancelCloses, ExpireCloses, ClosingAddsNothing
<1>2. ASSUME NEW b \in Bookings, PaymentFailure(b)
      PROVE  NoNewSeats(v)
  <2> DEFINE B == {b}
  <2>1. B \subseteq Bookings /\ ClosesBookings(B) /\ FreesRows(B)
    BY <1>2, FailureCloses
  <2> HIDE DEF B
  <2> QED
    BY <2>1, ClosingAddsNothing
<1> QED
  BY <1>1, <1>2

LEMMA OtherStepsKeepLimit ==
  ASSUME PassengerSeatLimit, UNCHANGED <<rows, bookings>>
  PROVE  PassengerSeatLimit'
BY DEF PassengerSeatLimit, TicketSeats

LEMMA StepKeepsLimit == IInv /\ PassengerSeatLimit /\ [Next]_vars => PassengerSeatLimit'
<1> SUFFICES ASSUME IInv, PassengerSeatLimit, [Next]_vars
             PROVE  PassengerSeatLimit'
  OBVIOUS
<1>1. CASE Handlers
  <2>1. CASE \/ \E S \in SeatRequests, now \in Readings : LockSeats(S, now)
             \/ \E S \in SeatRequests, u \in Staff, now \in Readings : DashboardLock(S, u, now)
             \/ \E S \in SeatRequests, u \in Staff : DashboardRelease(S, u)
    BY <2>1, SeatStepsKeepLimit
  <2>2. CASE \/ \E b \in Bookings : AdminCancelRead(b) \/ PaymentOpen(b) \/ PaymentSuccess(b)
             \/ \E t \in inflight : PaymentOpenCommit(t) \/ TripCancelWrite(t)
             \/ TripCancelRead
             \/ \E status \in {"ACTIVE", "SUSPENDED"} : SetOperatorStatus(status)
    <3>1. UNCHANGED <<rows, bookings>>
      BY <2>2 DEF AdminCancelRead, PaymentOpen, PaymentSuccess, PaymentOpenCommit,
                  TripCancelWrite, TripCancelRead, SetOperatorStatus
    <3> QED
      BY <3>1, OtherStepsKeepLimit
  <2>3. ASSUME NEW t \in inflight, PaymentSuccessCommit(t)
        PROVE  PassengerSeatLimit'
    BY <2>3, SettlementAddsNothing, LimitStays DEF PassengerSeatLimit
  <2> QED
    BY <1>1, <2>1, <2>2, <2>3, ConfirmKeepsLimit, CounterKeepsLimit, ClosingKeepsLimit
       DEF Handlers
<1>2. CASE Cron
  <2>1. CASE \E now \in Readings : ExpireRead(now)
    BY <2>1, OtherStepsKeepLimit DEF ExpireRead
  <2> QED
    BY <1>2, <2>1, SeatStepsKeepLimit, ClosingKeepsLimit DEF Cron
<1>3. CASE Tick \/ (\E t \in inflight : Abort(t)) \/ UNCHANGED vars
  BY <1>3, OtherStepsKeepLimit DEF Tick, Abort, vars
<1> QED
  BY <1>1, <1>2, <1>3 DEF Next

\* No passenger ever has more than MaxSeatsPerUser seats in live bookings of the
\* trip: confirmBooking counts what the sweep has left before it links new rows,
\* and no other handler adds a seat to a passenger's bookings.
THEOREM SeatLimitHolds == Spec => []PassengerSeatLimit
<1>1. Init => PassengerSeatLimit
  <2>1. \A u : Init => TicketSeats(rows, u) = {}
    BY DEF Init, TicketSeats, AbsentRow, Row
  <2> QED
    BY <2>1, FS_EmptySet, ReservationAssumption DEF PassengerSeatLimit
<1> QED
  BY <1>1, StepKeepsLimit, Invariant, PTL DEF Spec
=============================================================================
