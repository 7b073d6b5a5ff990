--------------------------- MODULE SeatSaleProofs ---------------------------
(***************************************************************************)
(* SeatReservation implements SeatSale: each step of the detailed          *)
(* specification, seen through what a row is sold to and how far a booking *)
(* has come, is one step of the promise or changes nothing of it.          *)
(***************************************************************************)
EXTENDS SeatReservationProofs

\* Stages by status.
LEMMA Stages ==
  /\ Stage("NONE") = "new"
  /\ Stage("PENDING") = "open"
  /\ Stage("CONFIRMED") = "sold"
  /\ \A st \in Closed : Stage(st) = "closed"
BY DEF Stage, Closed

\* Nothing is sold by a row that is not reserved.
LEMMA NotSold ==
  ASSUME NEW r
  PROVE  /\ r.status # "RESERVED" => SoldTo(r) = None
         /\ r.status = "RESERVED" => SoldTo(r) = r.booking
BY DEF SoldTo

\* Steps that sell nothing: bookings keep their stage, and every row that
\* changes is unsold before and after.
LEMMA SaleStutters ==
  ASSUME bookings' = bookings,
         \A s \in Seats : \/ rows'[s] = rows[s]
                          \/ rows[s].status # "RESERVED" /\ rows'[s].status # "RESERVED"
  PROVE  UNCHANGED Sale!vars
BY NotSold DEF Sale!vars

LEMMA SeatStepsStutter ==
  ASSUME IInv,
         \/ \E S \in SeatRequests, now \in Readings : LockSeats(S, now)
         \/ \E S \in SeatRequests, u \in Staff, now \in Readings : DashboardLock(S, u, now)
         \/ \E S \in SeatRequests, u \in Staff : DashboardRelease(S, u)
         \/ \E now \in Readings : CleanupExpiredLocks(now)
  PROVE  UNCHANGED Sale!vars
<1>1. ASSUME NEW S \in SeatRequests, NEW now \in Readings, LockSeats(S, now)
      PROVE  UNCHANGED Sale!vars
  <2>1. \A s \in Seats : \/ rows'[s] = rows[s]
                         \/ rows[s].status # "RESERVED" /\ rows'[s].status # "RESERVED"
    BY <1>1 DEF LockSeats, Sweep, Swept, Lapsed, Row, Unavailable
  <2> QED
    BY <1>1, <2>1, SaleStutters DEF LockSeats
<1>2. ASSUME NEW S \in SeatRequests, NEW u \in Staff, NEW now \in Readings,
             DashboardLock(S, u, now)
      PROVE  UNCHANGED Sale!vars
  <2>1. \A s \in Seats : \/ rows'[s] = rows[s]
                         \/ rows[s].status # "RESERVED" /\ rows'[s].status # "RESERVED"
    BY <1>2 DEF DashboardLock, SweepOrphans, Orphaned, Lapsed, Row, UnavailableToStaff
  <2> QED
    BY <1>2, <2>1, SaleStutters DEF DashboardLock
<1>3. ASSUME NEW S \in SeatRequests, NEW u \in Staff, DashboardRelease(S, u)
      PROVE  UNCHANGED Sale!vars
  <2>1. \A s \in Seats : \/ rows'[s] = rows[s]
                         \/ rows[s].status # "RESERVED" /\ rows'[s].status # "RESERVED"
    BY <1>3 DEF DashboardRelease, IsHoldOf, Row
  <2> QED
    BY <1>3, <2>1, SaleStutters DEF DashboardRelease
<1>4. ASSUME NEW now \in Readings, CleanupExpiredLocks(now)
      PROVE  UNCHANGED Sale!vars
  <2>1. \A s \in Seats : \/ rows'[s] = rows[s]
                         \/ rows[s].status # "RESERVED" /\ rows'[s].status # "RESERVED"
    BY <1>4 DEF CleanupExpiredLocks, Orphaned, Lapsed, Row
  <2> QED
    BY <1>4, <2>1, SaleStutters DEF CleanupExpiredLocks
<1> QED
  BY <1>1, <1>2, <1>3, <1>4

LEMMA ConfirmOpens ==
  ASSUME IInv, NEW b \in Bookings, NEW u \in Passengers, NEW S \in SeatRequests,
         NEW now \in Readings, ConfirmBooking(b, u, S, now)
  PROVE  Sale!Open(b)
<1>1. \A s \in Seats : \/ rows'[s] = rows[s]
                       \/ rows[s].status # "RESERVED" /\ rows'[s].status # "RESERVED"
  BY DEF ConfirmBooking, Sweep, Swept, Lapsed, Live, LinkedRow, Row
<1>2. \A s \in Seats : SoldTo(rows'[s]) = SoldTo(rows[s])
  BY <1>1, NotSold
<1>3. /\ bookings[b].status = "NONE" /\ bookings'[b].status = "PENDING"
      /\ \A c \in Bookings \ {b} : bookings'[c] = bookings[c]
  BY DEF ConfirmBooking, Fresh, Insert, Booking, IInv, TypeOK
<1> QED
  BY <1>2, <1>3, Stages DEF Sale!Open

\* A handler that confirms a booking and reserves seats for it that nobody owns.
LEMMA Sells ==
  ASSUME NEW b \in Bookings, NEW S \in SUBSET Seats,
         bookings[b].status \in {"NONE", "PENDING"},
         bookings'[b].status = "CONFIRMED",
         \A c \in Bookings \ {b} : bookings'[c] = bookings[c],
         \A s \in S : /\ rows[s].status # "RESERVED"
                      /\ rows'[s].status = "RESERVED" /\ rows'[s].booking = b,
         \A s \in Seats \ S : rows'[s] = rows[s]
  PROVE  Sale!Next
<1>1. \A s \in Seats : /\ s \in S => SoldTo(rows[s]) = None /\ SoldTo(rows'[s]) = b
                       /\ s \notin S => SoldTo(rows'[s]) = SoldTo(rows[s])
  BY NotSold
<1>2. Sale!Sell(b, S)
  BY <1>1, Stages DEF Sale!Sell
<1> QED
  BY <1>2 DEF Sale!Next

LEMMA CounterSells ==
  ASSUME IInv, NEW b \in Bookings, NEW u \in Staff, NEW S \in SeatRequests,
         \/ \E now \in Readings : ManualBooking(b, u, S, now) \/ AdminBooking(b, u, S, now)
         \/ StaffBooking(b, u, S)
  PROVE  Sale!Next
<1>1. /\ S \in SUBSET Seats
      /\ bookings[b].status = "NONE" /\ bookings'[b].status = "CONFIRMED"
      /\ \A c \in Bookings \ {b} : bookings'[c] = bookings[c]
  BY DEF ManualBooking, AdminBooking, CounterSale, StaffBooking, Fresh, Insert, Booking,
         IInv, TypeOK, SeatRequests
<1>2. /\ \A s \in S : /\ rows[s].status # "RESERVED"
                      /\ rows'[s].status = "RESERVED" /\ rows'[s].booking = b
      /\ \A s \in Seats \ S : rows'[s] = rows[s]
  BY <1>1 DEF ManualBooking, AdminBooking, CounterSale, StaffBooking, RefusedAtCounter, Row
<1> QED
  BY <1>1, <1>2, Sells

LEMMA SettlementSells ==
  ASSUME IInv, NEW t \in inflight, PaymentSuccessCommit(t)
  PROVE  Sale!Next
<1>1. PICK b \in Bookings : t.ids = {b}
  BY DEF PaymentSuccessCommit, IInv, InflightKnown
<1> DEFINE S == {s \in Seats : rows[s].booking = b /\ rows[s].status = "LOCKED"}
<1>2. S \in SUBSET Seats /\ bookings[b].status = "PENDING"
  BY <1>1 DEF PaymentSuccessCommit, SnapshotStands
<1>3. bookings'[b].status = "CONFIRMED" /\ \A c \in Bookings \ {b} : bookings'[c] = bookings[c]
  BY <1>1, <1>2, BookingSettled DEF PaymentSuccessCommit, StatusesNoDeadline, IInv, TypeOK
<1>4. /\ \A s \in S : /\ rows[s].status # "RESERVED"
                      /\ rows'[s].status = "RESERVED" /\ rows'[s].booking = b
      /\ \A s \in Seats \ S : rows'[s] = rows[s]
  BY <1>1 DEF PaymentSuccessCommit, Row
<1> HIDE DEF S
<1> QED
  BY <1>2, <1>3, <1>4, Sells

\* A handler that closes bookings and frees their rows.
LEMMA Closes ==
  ASSUME IInv, NEW B, B \subseteq Bookings, \A b \in B : bookings[b].status # "NONE",
         ClosesBookings(B), FreesRows(B)
  PROVE  Sale!Next
<1>1. \A b \in Bookings : Stage(bookings[b].status) = "new" => bookings[b].status = "NONE"
  BY BookingFields, Stages DEF IInv, TypeOK, Closed
<1>2. \A b \in Bookings : Stage(bookings'[b].status)
                            = IF b \in B THEN "closed" ELSE Stage(bookings[b].status)
  BY Stages DEF ClosesBookings
<1>3. \A s \in Seats : SoldTo(rows'[s])
                         = IF SoldTo(rows[s]) \in B THEN None ELSE SoldTo(rows[s])
  <2> SUFFICES ASSUME NEW s \in Seats
               PROVE  SoldTo(rows'[s])
                        = IF SoldTo(rows[s]) \in B THEN None ELSE SoldTo(rows[s])
    OBVIOUS
  <2>1. CASE rows[s].booking \in B
    BY <2>1, FreeRowFields, NotSold DEF FreesRows
  <2>2. CASE rows[s].booking \notin B
    BY <2>2, NotSold, NoneAssumption DEF FreesRows
  <2> QED
    BY <2>1, <2>2
<1>4. Sale!Close(B)
  BY <1>1, <1>2, <1>3 DEF Sale!Close
<1> QED
  BY <1>4 DEF Sale!Next

LEMMA ClosingStepsClose ==
  ASSUME IInv,
         \/ \E t \in inflight : AdminCancelWrite(t) \/ ExpireWrite(t)
         \/ \E b \in Bookings : PaymentFailure(b)
  PROVE  Sale!Next
<1>1. ASSUME NEW t \in inflight, AdminCancelWrite(t)
      PROVE  Sale!Next
  BY <1>1, AdminCancelCloses, Closes
<1>2. ASSUME NEW t \in inflight, ExpireWrite(t)
      PROVE  Sale!Next
  BY <1>2, ExpireCloses, Closes
<1>3. ASSUME NEW b \in Bookings, PaymentFailure(b)
      PROVE  Sale!Next
  <2> DEFINE B == {b}
  <2>1. /\ B \subseteq Bookings /\ \A c \in B : bookings[c].status # "NONE"
        /\ ClosesBookings(B) /\ FreesRows(B)
    BY <1>3, FailureCloses
  <2> HIDE DEF B
  <2> QED
    BY <2>1, Closes
<1> QED
  BY <1>1, <1>2, <1>3

\* The other steps touch neither rows nor bookings.
LEMMA OtherStepsStutter ==
  ASSUME UNCHANGED <<rows, bookings>>
  PROVE  UNCHANGED Sale!vars
BY SaleStutters

LEMMA HandlersImplement == IInv /\ Handlers => [Sale!Next]_(Sale!vars)
<1> SUFFICES ASSUME IInv, Handlers
             PROVE  Sale!Next \/ UNCHANGED Sale!vars
  OBVIOUS
<1>1. CASE \/ \E S \in SeatRequests, now \in Readings : LockSeats(S, now)
           \/ \E S \in SeatRequests, u \in Staff, now \in Readings : DashboardLock(S, u, now)
           \/ \E S \in SeatRequests, u \in Staff : DashboardRelease(S, u)
  BY <1>1, SeatStepsStutter
<1>2. ASSUME NEW b \in Bookings, NEW u \in Passengers, NEW S \in SeatRequests,
             NEW now \in Readings, ConfirmBooking(b, u, S, now)
      PROVE  Sale!Next
  BY <1>2, ConfirmOpens DEF Sale!Next
<1>3. ASSUME NEW b \in Bookings, NEW u \in Staff, NEW S \in SeatRequests,
             \/ \E now \in Readings : ManualBooking(b, u, S, now) \/ AdminBooking(b, u, S, now)
             \/ StaffBooking(b, u, S)
      PROVE  Sale!Next
  BY <1>3, CounterSells
<1>4. CASE \/ \E t \in inflight : AdminCancelWrite(t)
           \/ \E b \in Bookings : PaymentFailure(b)
  BY <1>4, ClosingStepsClose
<1>5. CASE \E t \in inflight : PaymentSuccessCommit(t)
  BY <1>5, SettlementSells
<1>6. CASE \/ \E b \in Bookings : AdminCancelRead(b) \/ PaymentOpen(b) \/ PaymentSuccess(b)
           \/ \E t \in inflight : PaymentOpenCommit(t) \/ TripCancelWrite(t)
           \/ TripCancelRead
           \/ \E status \in {"ACTIVE", "SUSPENDED"} : SetOperatorStatus(status)
  <2>1. UNCHANGED <<rows, bookings>>
    BY <1>6 DEF AdminCancelRead, PaymentOpen, PaymentSuccess, PaymentOpenCommit,
                TripCancelWrite, TripCancelRead, SetOperatorStatus
  <2> QED
    BY <2>1, OtherStepsStutter
<1> QED
  BY <1>1, <1>2, <1>3, <1>4, <1>5, <1>6 DEF Handlers

LEMMA NextImplements == IInv /\ [Next]_vars => [Sale!Next]_(Sale!vars)
<1> SUFFICES ASSUME IInv, [Next]_vars
             PROVE  Sale!Next \/ UNCHANGED Sale!vars
  OBVIOUS
<1>1. CASE Handlers
  BY <1>1, HandlersImplement
<1>2. CASE Cron
  <2>1. CASE \E now \in Readings : CleanupExpiredLocks(now)
    BY <2>1, SeatStepsStutter
  <2>2. CASE \E now \in Readings : ExpireRead(now)
    BY <2>2, OtherStepsStutter DEF ExpireRead
  <2>3. CASE \E t \in inflight : ExpireWrite(t)
    BY <2>3, ClosingStepsClose
  <2> QED
    BY <1>2, <2>1, <2>2, <2>3 DEF Cron
<1>3. CASE Tick \/ (\E t \in inflight : Abort(t)) \/ UNCHANGED vars
  BY <1>3, OtherStepsStutter DEF Tick, Abort, vars
<1> QED
  BY <1>1, <1>2, <1>3 DEF Next

LEMMA InitImplements == Init => Sale!Init
BY Stages, NotSold DEF Init, Sale!Init, AbsentRow, Row, NoBooking, Booking

\* The backend sells seats as SeatSale promises: a seat is sold only to a booking
\* that is new or waits for its payment and only when nobody owns it, stays with
\* that booking until it closes, and a closing booking gives all its seats back
\* in the same step; a closed booking stays closed.
THEOREM SeatsAreSold == Spec => SellsSeats
<1>1. Init => Sale!Init
  BY InitImplements
<1>2. IInv /\ [Next]_vars => [Sale!Next]_(Sale!vars)
  BY NextImplements
<1> QED
  BY <1>1, <1>2, Invariant, PTL DEF Spec, SellsSeats, Sale!Spec
=============================================================================
