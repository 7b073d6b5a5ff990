----------------------- MODULE SeatReservationProofs -----------------------
(* Theorems about SeatReservation, for every value of its constants. *)
EXTENDS SeatReservation, TLAPS

\* What a row of the table looks like, by fields.
LEMMA RowFields ==
  ASSUME NEW r \in RowType
  PROVE  /\ r.status \in {"ABSENT", "LOCKED", "RESERVED", "CANCELLED"}
         /\ r.booking \in Bookings \cup {None}
         /\ r.expiry \in Times
         /\ r.holder \in Staff \cup {None}
         /\ r.status \in {"ABSENT", "CANCELLED"} => r.booking = None
         /\ r.status = "RESERVED" => r.booking \in Bookings /\ r.expiry = None
         /\ r.status = "ABSENT" => r = AbsentRow
         /\ r = Row(r.status, r.booking, r.expiry, r.holder)
BY DEF RowType, AbsentRow, Row, Times

\* Which rows the handlers may write.
LEMMA RowMade ==
  /\ AbsentRow \in RowType
  /\ \A e \in Times, h \in Staff \cup {None} : Row("CANCELLED", None, e, h) \in RowType
  /\ \A b \in Bookings, h \in Staff \cup {None} : Row("RESERVED", b, None, h) \in RowType
  /\ \A b \in Bookings \cup {None}, e \in Times, h \in Staff \cup {None} :
       Row("LOCKED", b, e, h) \in RowType
BY DEF RowType, AbsentRow, Row, Times

\* What a sweep leaves of a row.
LEMMA SweepRow ==
  ASSUME TypeOK, HoldShape, NEW now \in Nat, NEW s \in Seats
  PROVE  /\ Sweep(rows, now)[s] \in RowType
         /\ \/ Sweep(rows, now)[s] = rows[s]
            \/ /\ rows[s].status = "LOCKED"
               /\ Sweep(rows, now)[s] = Row("CANCELLED", None, rows[s].expiry, None)
         /\ ~Lapsed(Sweep(rows, now)[s], now)
<1>1. rows[s] \in RowType
  BY DEF TypeOK
<1>2. CASE Lapsed(rows[s], now)
  <2>1. rows[s].holder = None
    BY <1>1, <1>2, RowFields DEF Lapsed, HoldShape
  <2>2. Sweep(rows, now)[s] = Row("CANCELLED", None, rows[s].expiry, None)
    BY <1>2, <2>1 DEF Sweep, Swept
  <2>3. rows[s].expiry \in Times
    BY <1>1, RowFields
  <2> QED
    BY <1>2, <2>2, <2>3, RowMade DEF Lapsed, Row
<1>3. CASE ~Lapsed(rows[s], now)
  BY <1>1, <1>3 DEF Sweep
<1> QED
  BY <1>2, <1>3

LEMMA SweepOrphansRow ==
  ASSUME TypeOK, HoldShape, NEW now \in Nat, NEW s \in Seats
  PROVE  /\ SweepOrphans(rows, now)[s] \in RowType
         /\ \/ SweepOrphans(rows, now)[s] = rows[s]
            \/ /\ rows[s].status = "LOCKED"
               /\ SweepOrphans(rows, now)[s] = Row("CANCELLED", None, rows[s].expiry, None)
<1>1. rows[s] \in RowType
  BY DEF TypeOK
<1> QED
  BY <1>1, RowFields, RowMade DEF SweepOrphans, Orphaned, Lapsed

-----------------------------------------------------------------------------
LEMMA InitIInv == Init => IInv
BY RowMade DEF Init, IInv, TypeOK, ReservedBacked, LinkedLockBacked, HoldShape,
   OnlineConfirmedIsPaid, InflightKnown, PaymentIsOnline, HolderSold,
   AbsentRow, Row, NoBooking, Booking, BookingType

(* Handlers that only lock and free seats                                  *)

\* A row that belongs to no booking, as the handlers that lock and free seats
\* write it.
FreeRow(r) ==
  \/ r = AbsentRow
  \/ \E e \in Times : r = Row("CANCELLED", None, e, None)
  \/ \E e \in Nat : r = Row("LOCKED", None, e, None)
  \/ \E u \in Staff : r = Row("LOCKED", None, None, u)

LEMMA FreeRowFields ==
  ASSUME NEW r, FreeRow(r)
  PROVE  /\ r \in RowType
         /\ r.booking = None
         /\ r.status # "RESERVED"
         /\ r.status = "LOCKED" => (r.holder # None <=> r.expiry = None)
         /\ r.status \in {"ABSENT", "CANCELLED"} => r.holder = None
BY NoneAssumption DEF FreeRow, RowType, Row, AbsentRow, Times

\* Handlers that leave every row as it was or make it free keep the invariant.
LEMMA RowsFreed ==
  ASSUME IInv,
         UNCHANGED <<clock, bookings, payment, tripStatus, operatorStatus, inflight>>,
         DOMAIN rows' = Seats, rows' = [s \in DOMAIN rows' |-> rows'[s]],
         \A s \in Seats : rows'[s] = rows[s] \/ FreeRow(rows'[s])
  PROVE  IInv'
<1> USE DEF IInv
<1>1. \A s \in Seats : rows'[s] \in RowType
  BY FreeRowFields DEF TypeOK
<1>2. TypeOK'
  BY <1>1 DEF TypeOK
<1>3. ReservedBacked' /\ HolderSold'
  BY FreeRowFields DEF ReservedBacked, HolderSold
<1>4. LinkedLockBacked'
  BY FreeRowFields DEF LinkedLockBacked
<1>5. HoldShape'
  <2> SUFFICES ASSUME NEW s \in Seats
               PROVE  HoldShape!(s)'
    BY DEF HoldShape
  <2>1. CASE rows'[s] = rows[s]
    BY <2>1 DEF HoldShape
  <2>2. CASE FreeRow(rows'[s])
    BY <2>2, FreeRowFields
  <2> QED
    BY <2>1, <2>2
<1>6. OnlineConfirmedIsPaid' /\ InflightKnown' /\ PaymentIsOnline'
  BY DEF OnlineConfirmedIsPaid, InflightKnown, PaymentIsOnline
<1> QED
  BY <1>2, <1>3, <1>4, <1>5, <1>6

\* A clock reading is a time, and so is one shifted by a lock's length.
LEMMA ReadingTime ==
  ASSUME TypeOK, NEW now \in Readings
  PROVE  now \in Nat /\ now + SeatLock \in Nat /\ now + PaymentWindow \in Nat
BY ReservationAssumption DEF TypeOK, Readings

LEMMA LockSeatsIInv ==
  ASSUME IInv, NEW S \in SeatRequests, NEW now \in Readings, LockSeats(S, now)
  PROVE  IInv'
<1> DEFINE swept == Sweep(rows, now)
<1>1. now \in Nat /\ now + SeatLock \in Nat
  BY ReadingTime DEF IInv
<1>2. \A s \in Seats : /\ rows[s] \in RowType
                       /\ swept[s] \in RowType
                       /\ swept[s] = rows[s] \/ FreeRow(swept[s])
                       /\ ~Lapsed(swept[s], now)
  BY <1>1, SweepRow, RowFields DEF IInv, TypeOK, FreeRow
<1>3. ASSUME NEW s \in S
      PROVE  swept[s].holder = None
  <2>1. s \in Seats /\ swept[s].status \in {"CANCELLED", "ABSENT"}
    BY <1>2 DEF LockSeats, SeatRequests, Recyclable
  <2>2. CASE FreeRow(swept[s])
    BY <2>1, <2>2, FreeRowFields
  <2>3. CASE swept[s] = rows[s]
    BY <1>2, <2>1, <2>3, RowFields DEF IInv, HoldShape, AbsentRow, Row
  <2> QED
    BY <1>2, <2>1, <2>2, <2>3
<1> HIDE DEF swept
<1>4. rows' = [s \in Seats |->
                 IF s \in S THEN Row("LOCKED", None, now + SeatLock, swept[s].holder)
                            ELSE swept[s]]
  BY DEF LockSeats, swept
<1>5. \A s \in Seats : rows'[s] = rows[s] \/ FreeRow(rows'[s])
  BY <1>1, <1>2, <1>3, <1>4 DEF FreeRow
<1> QED
  BY <1>4, <1>5, RowsFreed DEF LockSeats

LEMMA DashboardLockIInv ==
  ASSUME IInv, NEW S \in SeatRequests, NEW u \in Staff, NEW now \in Readings,
         DashboardLock(S, u, now)
  PROVE  IInv'
<1> DEFINE swept == SweepOrphans(rows, now)
<1>1. now \in Nat
  BY ReadingTime DEF IInv
<1>2. \A s \in Seats : swept[s] = rows[s] \/ FreeRow(swept[s])
  BY <1>1, SweepOrphansRow, RowFields DEF IInv, TypeOK, FreeRow
<1> HIDE DEF swept
<1>3. rows' = [s \in Seats |->
                 IF s \in S THEN Row("LOCKED", None, None, u) ELSE swept[s]]
  BY DEF DashboardLock, swept
<1>4. \A s \in Seats : rows'[s] = rows[s] \/ FreeRow(rows'[s])
  BY <1>2, <1>3 DEF FreeRow
<1> QED
  BY <1>3, <1>4, RowsFreed DEF DashboardLock

LEMMA DashboardReleaseIInv ==
  ASSUME IInv, NEW S \in SeatRequests, NEW u \in Staff, DashboardRelease(S, u)
  PROVE  IInv'
<1>1. \A s \in Seats : rows'[s] = rows[s] \/ FreeRow(rows'[s])
  BY DEF DashboardRelease, FreeRow, Times
<1> QED
  BY <1>1, RowsFreed DEF DashboardRelease

LEMMA CleanupIInv ==
  ASSUME IInv, NEW now \in Readings, CleanupExpiredLocks(now)
  PROVE  IInv'
<1>1. \A s \in Seats : rows'[s] = rows[s] \/ FreeRow(rows'[s])
  BY DEF CleanupExpiredLocks, FreeRow, Times
<1> QED
  BY <1>1, RowsFreed DEF CleanupExpiredLocks

-----------------------------------------------------------------------------
(* Handlers that make a booking                                            *)

\* A booking by fields, and the bookings the handlers make.
LEMMA BookingFields ==
  ASSUME NEW k \in BookingType
  PROVE  /\ k.status \in {"NONE", "PENDING", "CONFIRMED", "CANCELLED", "EXPIRED"}
         /\ k.status # "NONE" => k.user \in Users /\ k.source \in {"ONLINE", "COUNTER"}
         /\ k.status = "NONE" => k.source = "NONE"
         /\ k.status = "PENDING" => k.deadline \in Nat /\ k.source = "ONLINE"
         /\ k.deadline \in Times
         /\ k = Booking(k.status, k.user, k.deadline, k.source)
BY DEF BookingType, NoBooking, Booking, Times, Closed

LEMMA BookingMade ==
  /\ \A u \in Users, d \in Nat : Booking("PENDING", u, d, "ONLINE") \in BookingType
  /\ \A u \in Users, src \in {"ONLINE", "COUNTER"} :
       Booking("CONFIRMED", u, None, src) \in BookingType
  /\ \A u \in Users, d \in Times, src \in {"ONLINE", "COUNTER"}, st \in Closed :
       Booking(st, u, d, src) \in BookingType
BY DEF BookingType, Booking, Times, Closed

\* No row, no payment and no transaction refers to an unused booking id.
LEMMA FreshUnused ==
  ASSUME IInv, NEW b \in Bookings, Fresh(b)
  PROVE  /\ \A s \in Seats : rows[s].booking # b
         /\ payment[b] = "NONE"
         /\ \A t \in inflight : b \notin t.ids
<1>1. bookings[b] \in BookingType /\ bookings[b].source = "NONE"
  BY BookingFields DEF IInv, TypeOK, Fresh
<1>2. \A s \in Seats : rows[s].booking # b
  BY RowFields, NoneAssumption
     DEF IInv, TypeOK, Fresh, ReservedBacked, LinkedLockBacked
<1> QED
  BY <1>1, <1>2 DEF IInv, InflightKnown, PaymentIsOnline, Fresh, TypeOK

\* A handler that makes a booking k and writes only rows of k, of the shape its
\* status asks for, and free rows keeps the invariant.
LEMMA BookingInserted ==
  ASSUME IInv, NEW b \in Bookings, NEW k \in BookingType, Fresh(b), Insert(b, k),
         UNCHANGED <<clock, payment, tripStatus, operatorStatus, inflight>>,
         DOMAIN rows' = Seats, rows' = [s \in DOMAIN rows' |-> rows'[s]],
         \/ k.status = "PENDING"
         \/ k.status = "CONFIRMED" /\ k.source = "COUNTER",
         \A s \in Seats :
           \/ rows'[s] = rows[s]
           \/ FreeRow(rows'[s])
           \/ k.status = "PENDING" /\ rows'[s] = Row("LOCKED", b, k.deadline, None)
           \/ /\ k.status = "CONFIRMED"
              /\ \E h \in Staff \cup {None} : rows'[s] = Row("RESERVED", b, None, h)
  PROVE  IInv'
<1>1. /\ \A s \in Seats : rows[s].booking # b
      /\ payment[b] = "NONE"
      /\ \A t \in inflight : b \notin t.ids
  BY FreshUnused
<1>2. /\ bookings'[b] = k
      /\ \A c \in Bookings \ {b} : bookings'[c] = bookings[c]
  BY DEF IInv, TypeOK, Insert
<1>3. k.status = "PENDING" => k.deadline \in Nat /\ k.deadline # None
  BY BookingFields, NoneAssumption
\* One way to see each new row.
<1>4. ASSUME NEW s \in Seats
      PROVE  /\ rows'[s] \in RowType
             /\ \/ /\ rows'[s] = rows[s]
                   /\ rows[s].booking \in (Bookings \ {b}) \cup {None}
                   /\ rows[s].status = "RESERVED" => rows[s].booking \in Bookings \ {b}
                \/ FreeRow(rows'[s])
                \/ k.status = "PENDING" /\ rows'[s] = Row("LOCKED", b, k.deadline, None)
                \/ /\ k.status = "CONFIRMED"
                   /\ rows'[s].status = "RESERVED" /\ rows'[s].booking = b
  <2>1. rows[s] \in RowType
    BY DEF IInv, TypeOK
  <2>2. CASE rows'[s] = rows[s]
    BY <1>1, <2>1, <2>2, RowFields
  <2>3. CASE FreeRow(rows'[s])
    BY <2>3, FreeRowFields
  <2>4. CASE k.status = "PENDING" /\ rows'[s] = Row("LOCKED", b, k.deadline, None)
    BY <1>3, <2>4, RowMade DEF Times
  <2>5. CASE /\ k.status = "CONFIRMED"
             /\ \E h \in Staff \cup {None} : rows'[s] = Row("RESERVED", b, None, h)
    BY <2>5, RowMade DEF Row
  <2> QED
    BY <2>2, <2>3, <2>4, <2>5
<1>5. TypeOK'
  BY <1>4 DEF IInv, TypeOK, Insert
<1>6. ReservedBacked'
  BY <1>2, <1>4, FreeRowFields DEF IInv, ReservedBacked, Row
<1>7. LinkedLockBacked'
  BY <1>2, <1>4, FreeRowFields DEF IInv, LinkedLockBacked, Row
<1>8. HoldShape'
  BY <1>3, <1>4, FreeRowFields DEF IInv, HoldShape, Row
<1>9. OnlineConfirmedIsPaid' /\ PaymentIsOnline'
  BY <1>1, <1>2 DEF IInv, OnlineConfirmedIsPaid, PaymentIsOnline
<1>10. InflightKnown'
  BY <1>1, <1>2 DEF IInv, TypeOK, TxType, InflightKnown
<1>11. HolderSold'
  BY <1>2, <1>4, FreeRowFields DEF IInv, HolderSold, Row
<1> QED
  BY <1>5, <1>6, <1>7, <1>8, <1>9, <1>10, <1>11 DEF IInv

LEMMA ConfirmBookingIInv ==
  ASSUME IInv, NEW b \in Bookings, NEW u \in Passengers, NEW S \in SeatRequests,
         NEW now \in Readings, ConfirmBooking(b, u, S, now)
  PROVE  IInv'
<1> DEFINE swept == Sweep(rows, now)
           deadline == now + PaymentWindow
           k == Booking("PENDING", u, deadline, "ONLINE")
<1>1. now \in Nat /\ deadline \in Nat
  BY ReadingTime DEF IInv
<1>2. \A s \in Seats : /\ rows[s] \in RowType
                       /\ swept[s] = rows[s] \/ FreeRow(swept[s])
                       /\ s \in S => Live(swept[s], now)
  BY <1>1, SweepRow, RowFields DEF IInv, TypeOK, FreeRow, ConfirmBooking, SeatRequests
<1>3. ASSUME NEW s \in S
      PROVE  swept[s].holder = None
  <2>1. s \in Seats /\ swept[s].status = "LOCKED" /\ swept[s].expiry # None
    BY <1>2 DEF SeatRequests, Live
  <2> QED
    BY <1>2, <2>1, FreeRowFields DEF IInv, HoldShape
<1>4. k \in BookingType /\ k.status = "PENDING" /\ k.deadline = deadline
  BY <1>1, BookingMade DEF Users, Booking
<1>5. Fresh(b) /\ Insert(b, k)
      /\ UNCHANGED <<clock, payment, tripStatus, operatorStatus, inflight>>
  BY DEF ConfirmBooking
<1>6. rows' = [s \in Seats |-> IF s \in S THEN Row("LOCKED", b, deadline, None)
                                         ELSE swept[s]]
  BY <1>3 DEF ConfirmBooking, LinkedRow
<1> HIDE DEF swept, deadline, k
<1>7. \A s \in Seats : \/ rows'[s] = rows[s]
                       \/ FreeRow(rows'[s])
                       \/ rows'[s] = Row("LOCKED", b, k.deadline, None)
  BY <1>2, <1>4, <1>6
<1> QED
  BY <1>4, <1>5, <1>6, <1>7, BookingInserted

LEMMA CounterSaleIInv ==
  ASSUME IInv, NEW b \in Bookings, NEW u \in Staff, NEW S \in SeatRequests,
         NEW now \in Readings, NEW holderOf \in [Seats -> Staff \cup {None}],
         CounterSale(b, u, S, now, holderOf)
  PROVE  IInv'
<1> DEFINE k == Booking("CONFIRMED", u, None, "COUNTER")
<1>1. k \in BookingType /\ k.status = "CONFIRMED" /\ k.source = "COUNTER"
  BY BookingMade DEF Users, Booking
<1> HIDE DEF k
<1>2. /\ Fresh(b) /\ Insert(b, k)
      /\ UNCHANGED <<clock, payment, tripStatus, operatorStatus, inflight>>
      /\ rows' = [s \in Seats |->
                    IF s \in S THEN Row("RESERVED", b, None, holderOf[s]) ELSE rows[s]]
  BY DEF CounterSale, k
<1> QED
  BY <1>1, <1>2, BookingInserted

LEMMA StaffBookingIInv ==
  ASSUME IInv, NEW b \in Bookings, NEW u \in Staff, NEW S \in SeatRequests,
         StaffBooking(b, u, S)
  PROVE  IInv'
<1> DEFINE k == Booking("CONFIRMED", u, None, "COUNTER")
<1>1. k \in BookingType /\ k.status = "CONFIRMED" /\ k.source = "COUNTER"
  BY BookingMade DEF Users, Booking
<1> HIDE DEF k
<1>2. /\ Fresh(b) /\ Insert(b, k)
      /\ UNCHANGED <<clock, payment, tripStatus, operatorStatus, inflight>>
      /\ rows' = [s \in Seats |->
                    IF s \in S THEN Row("RESERVED", b, None, None) ELSE rows[s]]
  BY DEF StaffBooking, k
<1> QED
  BY <1>1, <1>2, BookingInserted

LEMMA HolderOfRows ==
  ASSUME TypeOK
  PROVE  /\ [s \in Seats |-> None] \in [Seats -> Staff \cup {None}]
         /\ [s \in Seats |-> rows[s].holder] \in [Seats -> Staff \cup {None}]
BY RowFields DEF TypeOK

-----------------------------------------------------------------------------
(* Handlers that close bookings, or settle one                             *)

\* The rows of the bookings B become free rows, and the others stay.
FreesRows(B) ==
  /\ rows' = [s \in Seats |-> rows'[s]]
  /\ \A s \in Seats : IF rows[s].booking \in B THEN FreeRow(rows'[s])
                                              ELSE rows'[s] = rows[s]

\* The bookings B close, and no other booking changes.
ClosesBookings(B) ==
  /\ bookings' \in [Bookings -> BookingType]
  /\ \A b \in Bookings \ B : bookings'[b] = bookings[b]
  /\ \A b \in B : /\ bookings'[b].status \in Closed
                  /\ bookings'[b].source = bookings[b].source

\* Closing bookings that are known and freeing all their rows keeps the
\* invariant, whatever else happens to their payments.
LEMMA BookingsClosed ==
  ASSUME IInv, NEW B, B \subseteq Bookings,
         \A b \in B : bookings[b].status # "NONE",
         UNCHANGED <<clock, tripStatus, operatorStatus>>,
         inflight' \subseteq inflight,
         ClosesBookings(B), FreesRows(B),
         payment' \in [Bookings -> {"NONE", "PENDING", "SUCCESS", "FAILED"}],
         \A b \in Bookings \ B : payment'[b] = payment[b],
         \A b \in B : payment'[b] # "NONE" => payment[b] # "NONE"
  PROVE  IInv'
<1> USE DEF ClosesBookings, FreesRows
<1>1. ASSUME NEW s \in Seats
      PROVE  /\ rows'[s] \in RowType
             /\ \/ FreeRow(rows'[s])
                \/ /\ rows'[s] = rows[s]
                   /\ rows[s].booking \in (Bookings \ B) \cup {None}
                   /\ rows[s].status = "RESERVED" => rows[s].booking \in Bookings \ B
  BY RowFields, FreeRowFields DEF IInv, TypeOK
<1>2. TypeOK'
  BY <1>1 DEF IInv, TypeOK
<1>3. ReservedBacked'
  BY <1>1, FreeRowFields DEF IInv, ReservedBacked
<1>4. LinkedLockBacked'
  BY <1>1, FreeRowFields DEF IInv, LinkedLockBacked
<1>5. HoldShape'
  BY <1>1, FreeRowFields DEF IInv, HoldShape
<1>6. OnlineConfirmedIsPaid' /\ PaymentIsOnline'
  BY DEF IInv, OnlineConfirmedIsPaid, PaymentIsOnline, Closed
<1>7. InflightKnown'
  <2> SUFFICES ASSUME NEW t \in inflight'
               PROVE  InflightKnown!(t)'
    BY DEF InflightKnown
  <2>1. t \in inflight /\ t.ids \subseteq Bookings
    BY DEF IInv, TypeOK, TxType
  <2> QED
    BY <2>1 DEF IInv, InflightKnown, Closed
<1>8. HolderSold'
  BY <1>1, FreeRowFields DEF IInv, HolderSold
<1> QED
  BY <1>2, <1>3, <1>4, <1>5, <1>6, <1>7, <1>8 DEF IInv

\* A booking that is closed, with and without its deadline.
LEMMA BookingClosed ==
  ASSUME NEW k \in BookingType, k.status # "NONE", NEW st \in Closed
  PROVE  /\ [k EXCEPT !.status = st] \in BookingType
         /\ [k EXCEPT !.status = st, !.deadline = None] \in BookingType
         /\ [k EXCEPT !.status = st].status = st
         /\ [k EXCEPT !.status = st].source = k.source
         /\ [k EXCEPT !.status = st, !.deadline = None].status = st
         /\ [k EXCEPT !.status = st, !.deadline = None].source = k.source
<1>1. k \in [status : {"PENDING", "CONFIRMED"} \cup Closed, user : Users,
             deadline : Times, source : {"ONLINE", "COUNTER"}]
  <2>1. CASE k.status = "PENDING"
    BY <2>1 DEF BookingType, NoBooking, Booking, Times, Closed
  <2>2. CASE k.status = "CONFIRMED"
    BY <2>2 DEF BookingType, NoBooking, Booking, Times, Closed
  <2>3. CASE k.status \in Closed
    BY <2>3 DEF BookingType, NoBooking, Booking, Times, Closed
  <2> QED
    BY <2>1, <2>2, <2>3, BookingFields DEF Closed
<1> QED
  BY <1>1 DEF BookingType, Times

\* What the closing handlers write to the bookings.
LEMMA ClosingWrites ==
  ASSUME IInv, NEW B, B \subseteq Bookings, \A b \in B : bookings[b].status # "NONE",
         NEW st \in Closed,
         bookings' = Statuses(B, st) \/ bookings' = StatusesNoDeadline(B, st)
  PROVE  ClosesBookings(B)
<1>1. \A b \in B : /\ [bookings[b] EXCEPT !.status = st] \in BookingType
                   /\ [bookings[b] EXCEPT !.status = st, !.deadline = None] \in BookingType
                   /\ [bookings[b] EXCEPT !.status = st].status = st
                   /\ [bookings[b] EXCEPT !.status = st].source = bookings[b].source
                   /\ [bookings[b] EXCEPT !.status = st, !.deadline = None].status = st
                   /\ [bookings[b] EXCEPT !.status = st, !.deadline = None].source
                        = bookings[b].source
  BY BookingClosed DEF IInv, TypeOK
<1>2. bookings \in [Bookings -> BookingType]
  BY DEF IInv, TypeOK
<1>3. CASE bookings' = Statuses(B, st)
  BY <1>1, <1>2, <1>3 DEF Statuses, ClosesBookings
<1>4. CASE bookings' = StatusesNoDeadline(B, st)
  BY <1>1, <1>2, <1>4 DEF StatusesNoDeadline, ClosesBookings
<1> QED
  BY <1>3, <1>4

\* Releasing the rows of online bookings makes them free rows.
LEMMA ReleaseFrees ==
  ASSUME IInv, NEW B, B \subseteq Bookings, \A b \in B : bookings[b].source = "ONLINE",
         rows' = Release(rows, B)
  PROVE  FreesRows(B)
<1> SUFFICES ASSUME NEW s \in Seats, rows[s].booking \in B
             PROVE  FreeRow(rows'[s])
  BY DEF Release, FreesRows
<1>1. rows[s] \in RowType /\ rows[s].booking # None
  BY NoneAssumption DEF IInv, TypeOK
<1>2. rows[s].status \in {"LOCKED", "RESERVED"}
  BY <1>1, RowFields
<1>3. rows[s].holder = None
  BY <1>1, <1>2 DEF IInv, HoldShape, HolderSold
<1> QED
  BY <1>3 DEF Release, FreeRow, Times

LEMMA InflightFields ==
  ASSUME IInv, NEW t \in inflight
  PROVE  /\ t.ids \subseteq Bookings
         /\ \A b \in t.ids : bookings[b].status # "NONE"
         /\ t.kind # "adminCancel" => \A b \in t.ids : bookings[b].source = "ONLINE"
BY DEF IInv, TypeOK, TxType, InflightKnown

\* What each closing handler does, in these terms.
LEMMA AdminCancelCloses ==
  ASSUME IInv, NEW t \in inflight, AdminCancelWrite(t)
  PROVE  /\ t.ids \subseteq Bookings /\ \A b \in t.ids : bookings[b].status # "NONE"
         /\ ClosesBookings(t.ids) /\ FreesRows(t.ids)
<1>1. t.ids \subseteq Bookings /\ \A b \in t.ids : bookings[b].status # "NONE"
  BY InflightFields
<1>2. "CANCELLED" \in Closed /\ bookings' = Statuses(t.ids, "CANCELLED")
  BY DEF AdminCancelWrite, Closed
<1>3. ClosesBookings(t.ids)
  BY <1>1, <1>2, ClosingWrites
<1>4. FreesRows(t.ids)
  BY DEF AdminCancelWrite, FreesRows, FreeRow
<1> QED
  BY <1>1, <1>3, <1>4

LEMMA ExpireCloses ==
  ASSUME IInv, NEW t \in inflight, ExpireWrite(t)
  PROVE  /\ t.ids \subseteq Bookings /\ \A b \in t.ids : bookings[b].status # "NONE"
         /\ ClosesBookings(t.ids) /\ FreesRows(t.ids)
<1>1. /\ t.ids \subseteq Bookings
      /\ \A b \in t.ids : bookings[b].status # "NONE" /\ bookings[b].source = "ONLINE"
  BY InflightFields DEF ExpireWrite
<1>2. "EXPIRED" \in Closed /\ bookings' = StatusesNoDeadline(t.ids, "EXPIRED")
  BY DEF ExpireWrite, Closed
<1>3. ClosesBookings(t.ids)
  BY <1>1, <1>2, ClosingWrites
<1>4. FreesRows(t.ids)
  BY <1>1, ReleaseFrees DEF ExpireWrite
<1> QED
  BY <1>1, <1>3, <1>4

LEMMA FailureCloses ==
  ASSUME IInv, NEW b \in Bookings, PaymentFailure(b)
  PROVE  /\ bookings[b].status # "NONE"
         /\ ClosesBookings({b}) /\ FreesRows({b})
<1> DEFINE B == {b}
<1>1. bookings[b].source = "ONLINE" /\ bookings[b].status # "NONE"
  BY BookingFields DEF IInv, TypeOK, PaymentFailure, PaymentIsOnline
<1>2. /\ B \subseteq Bookings
      /\ \A c \in B : bookings[c].status # "NONE" /\ bookings[c].source = "ONLINE"
  BY <1>1
<1>3. /\ bookings' = StatusesNoDeadline(B, "CANCELLED")
      /\ rows' = Release(rows, B)
  BY DEF PaymentFailure
<1>4. "CANCELLED" \in Closed
  BY DEF Closed
<1>5. ClosesBookings(B) /\ FreesRows(B)
  <2> HIDE DEF B
  <2> QED
    BY <1>2, <1>3, <1>4, ClosingWrites, ReleaseFrees
<1> QED
  BY <1>1, <1>5

LEMMA AdminCancelWriteIInv ==
  ASSUME IInv, NEW t \in inflight, AdminCancelWrite(t)
  PROVE  IInv'
<1>1. /\ UNCHANGED <<clock, payment, tripStatus, operatorStatus>>
      /\ inflight' \subseteq inflight
      /\ payment \in [Bookings -> {"NONE", "PENDING", "SUCCESS", "FAILED"}]
  BY DEF AdminCancelWrite, Finish, IInv, TypeOK
<1> QED
  BY <1>1, AdminCancelCloses, BookingsClosed

LEMMA ExpireWriteIInv ==
  ASSUME IInv, NEW t \in inflight, ExpireWrite(t)
  PROVE  IInv'
<1>1. /\ UNCHANGED <<clock, tripStatus, operatorStatus>>
      /\ inflight' \subseteq inflight
  BY DEF ExpireWrite, Finish
<1>2. /\ payment' \in [Bookings -> {"NONE", "PENDING", "SUCCESS", "FAILED"}]
      /\ \A b \in Bookings \ t.ids : payment'[b] = payment[b]
      /\ \A b \in t.ids : payment'[b] # "NONE" => payment[b] # "NONE"
  BY ExpireCloses DEF IInv, TypeOK, ExpireWrite
<1> QED
  BY <1>1, <1>2, ExpireCloses, BookingsClosed

LEMMA PaymentFailureIInv ==
  ASSUME IInv, NEW b \in Bookings, PaymentFailure(b)
  PROVE  IInv'
<1> DEFINE B == {b}
<1>1. /\ B \subseteq Bookings /\ \A c \in B : bookings[c].status # "NONE"
      /\ ClosesBookings(B) /\ FreesRows(B)
  BY FailureCloses
<1>2. /\ UNCHANGED <<clock, tripStatus, operatorStatus>>
      /\ inflight' \subseteq inflight
  BY DEF PaymentFailure
<1>3. /\ payment' \in [Bookings -> {"NONE", "PENDING", "SUCCESS", "FAILED"}]
      /\ \A c \in Bookings \ B : payment'[c] = payment[c]
      /\ \A c \in B : payment'[c] # "NONE" => payment[c] # "NONE"
  BY DEF IInv, TypeOK, PaymentFailure
<1> HIDE DEF B
<1> QED
  BY <1>1, <1>2, <1>3, BookingsClosed

\* A pending booking that is confirmed.
LEMMA BookingSettled ==
  ASSUME NEW k \in BookingType, k.status = "PENDING"
  PROVE  /\ [k EXCEPT !.status = "CONFIRMED", !.deadline = None] \in BookingType
         /\ [k EXCEPT !.status = "CONFIRMED", !.deadline = None].status = "CONFIRMED"
         /\ [k EXCEPT !.status = "CONFIRMED", !.deadline = None].source = "ONLINE"
         /\ k.source = "ONLINE"
<1>1. k \in [status : {"PENDING"}, user : Users, deadline : Nat, source : {"ONLINE"}]
  BY DEF BookingType, NoBooking, Booking, Closed
<1> QED
  BY <1>1 DEF BookingType

LEMMA PaymentSuccessCommitIInv ==
  ASSUME IInv, NEW t \in inflight, PaymentSuccessCommit(t)
  PROVE  IInv'
<1>1. PICK b \in Bookings : t.ids = {b}
  BY DEF PaymentSuccessCommit, IInv, InflightKnown
<1>2. bookings[b] \in BookingType /\ bookings[b].status = "PENDING"
  BY <1>1 DEF PaymentSuccessCommit, SnapshotStands, IInv, TypeOK
<1> DEFINE k == [bookings[b] EXCEPT !.status = "CONFIRMED", !.deadline = None]
<1>3. /\ k \in BookingType /\ k.status = "CONFIRMED" /\ k.source = "ONLINE"
      /\ bookings[b].source = "ONLINE"
  BY <1>2, BookingSettled
<1>4. /\ bookings' \in [Bookings -> BookingType]
      /\ bookings'[b] = k
      /\ \A c \in Bookings \ {b} : bookings'[c] = bookings[c]
  BY <1>1, <1>3 DEF PaymentSuccessCommit, StatusesNoDeadline, IInv, TypeOK
<1> HIDE DEF k
<1>5. ASSUME NEW s \in Seats
      PROVE  /\ rows'[s] \in RowType
             /\ \/ rows'[s] = Row("RESERVED", b, None, None)
                \/ rows'[s] = rows[s] /\ rows[s].booking # b
  <2>1. rows[s] \in RowType
    BY DEF IInv, TypeOK
  <2>2. CASE rows[s].booking = b
    <3>1. rows[s].status = "LOCKED" /\ rows[s].holder = None
      BY <1>2, <2>1, <2>2, RowFields, NoneAssumption
         DEF IInv, ReservedBacked, HoldShape
    <3>2. rows'[s] = Row("RESERVED", b, None, None)
      BY <1>1, <2>2, <3>1 DEF PaymentSuccessCommit
    <3> QED
      BY <3>2, RowMade
  <2>3. CASE rows[s].booking # b
    BY <1>1, <2>1, <2>3 DEF PaymentSuccessCommit
  <2> QED
    BY <2>2, <2>3
<1>6. /\ payment' \in [Bookings -> {"NONE", "PENDING", "SUCCESS", "FAILED"}]
      /\ payment'[b] = "SUCCESS"
      /\ \A c \in Bookings \ {b} : payment'[c] = payment[c]
  BY <1>1 DEF PaymentSuccessCommit, IInv, TypeOK
<1>7. UNCHANGED <<clock, tripStatus, operatorStatus>> /\ inflight' \subseteq inflight
      /\ rows' = [s \in Seats |-> rows'[s]]
  BY DEF PaymentSuccessCommit, Finish
<1>8. TypeOK'
  BY <1>4, <1>5, <1>6, <1>7 DEF IInv, TypeOK
<1>9. ReservedBacked' /\ LinkedLockBacked' /\ HoldShape' /\ HolderSold'
  <2> SUFFICES ASSUME NEW s \in Seats
               PROVE  /\ ReservedBacked!(s)' /\ LinkedLockBacked!(s)'
                      /\ HoldShape!(s)' /\ HolderSold!(s)'
    BY DEF ReservedBacked, LinkedLockBacked, HoldShape, HolderSold
  <2>1. CASE rows'[s] = Row("RESERVED", b, None, None)
    BY <1>3, <1>4, <2>1 DEF Row
  <2>2. CASE rows'[s] = rows[s] /\ rows[s].booking # b
    <3>1. /\ rows[s].status = "RESERVED" => rows[s].booking \in Bookings \ {b}
          /\ rows[s].booking # None => rows[s].booking \in Bookings \ {b}
      BY <2>2, RowFields DEF IInv, TypeOK
    <3> QED
      BY <1>4, <2>2, <3>1
         DEF IInv, ReservedBacked, LinkedLockBacked, HoldShape, HolderSold
  <2> QED
    BY <1>5, <2>1, <2>2
<1>10. OnlineConfirmedIsPaid' /\ PaymentIsOnline'
  BY <1>3, <1>4, <1>6 DEF IInv, OnlineConfirmedIsPaid, PaymentIsOnline
<1>11. InflightKnown'
  BY <1>3, <1>4, <1>7 DEF IInv, TypeOK, TxType, InflightKnown
<1> QED
  BY <1>8, <1>9, <1>10, <1>11 DEF IInv

-----------------------------------------------------------------------------
(* Steps that leave rows and bookings alone                                *)

\* A transaction that begins is about bookings that exist.
LEMMA TransactionBegun ==
  ASSUME IInv, NEW t \in TxType, Begin(t),
         UNCHANGED <<clock, rows, bookings, payment, tripStatus, operatorStatus>>,
         \A b \in t.ids : /\ bookings[b].status # "NONE"
                          /\ t.kind # "adminCancel" => bookings[b].source = "ONLINE",
         t.kind = "settle" => \E b \in Bookings : t.ids = {b}
  PROVE  IInv'
<1>1. TypeOK'
  BY DEF IInv, TypeOK, Begin
<1>2. InflightKnown'
  BY DEF IInv, InflightKnown, Begin
<1> QED
  BY <1>1, <1>2 DEF IInv, ReservedBacked, LinkedLockBacked, HoldShape,
                    OnlineConfirmedIsPaid, PaymentIsOnline, HolderSold

\* What a transaction record holds.
LEMMA TxMade ==
  ASSUME IInv, NEW kind \in TxKinds, NEW ids, ids \subseteq Bookings,
         NEW seats, seats \subseteq Seats
  PROVE  /\ Tx(kind, ids, seats) \in TxType
         /\ Tx(kind, ids, seats).kind = kind
         /\ Tx(kind, ids, seats).ids = ids
BY DEF IInv, TypeOK, Tx, TxType

LEMMA BeginIInv ==
  ASSUME IInv,
         \/ \E b \in Bookings : AdminCancelRead(b) \/ PaymentOpen(b) \/ PaymentSuccess(b)
         \/ \E now \in Readings : ExpireRead(now)
         \/ TripCancelRead
  PROVE  IInv'
<1>1. \A b \in Bookings : /\ bookings[b].status = "PENDING" => bookings[b].source = "ONLINE"
                          /\ bookings[b].status \in Active => bookings[b].status # "NONE"
  BY BookingFields DEF IInv, TypeOK, Active
<1>2. ASSUME NEW b \in Bookings, AdminCancelRead(b)
      PROVE  IInv'
  <2> DEFINE t == Tx("adminCancel", {b}, {})
  <2>1. t \in TxType /\ t.kind = "adminCancel" /\ t.ids = {b}
    BY TxMade DEF TxKinds
  <2>2. /\ Begin(t) /\ bookings[b].status # "NONE"
        /\ UNCHANGED <<clock, rows, bookings, payment, tripStatus, operatorStatus>>
    BY <1>1, <1>2 DEF AdminCancelRead
  <2> HIDE DEF t
  <2> QED
    BY <2>1, <2>2, TransactionBegun
<1>3. ASSUME NEW b \in Bookings, PaymentOpen(b)
      PROVE  IInv'
  <2> DEFINE t == Tx("pay", {b}, {})
  <2>1. t \in TxType /\ t.kind = "pay" /\ t.ids = {b}
    BY TxMade DEF TxKinds
  <2>2. /\ Begin(t) /\ bookings[b].status = "PENDING"
        /\ UNCHANGED <<clock, rows, bookings, payment, tripStatus, operatorStatus>>
    BY <1>3 DEF PaymentOpen, WindowOpen
  <2> HIDE DEF t
  <2> QED
    BY <1>1, <2>1, <2>2, TransactionBegun
<1>4. ASSUME NEW b \in Bookings, PaymentSuccess(b)
      PROVE  IInv'
  <2> DEFINE t == Tx("settle", {b}, SeatsOf(rows, {b}))
  <2>1. t \in TxType /\ t.kind = "settle" /\ t.ids = {b}
    BY TxMade DEF TxKinds, SeatsOf
  <2>2. /\ Begin(t) /\ bookings[b].status = "PENDING"
        /\ UNCHANGED <<clock, rows, bookings, payment, tripStatus, operatorStatus>>
    BY <1>4 DEF PaymentSuccess, WindowOpen
  <2> HIDE DEF t
  <2> QED
    BY <1>1, <2>1, <2>2, TransactionBegun
<1>5. ASSUME NEW now \in Readings, ExpireRead(now)
      PROVE  IInv'
  <2> DEFINE stale == {b \in Bookings : Stale(b, now)}
             t == Tx("expire", stale, {})
  <2>1. t \in TxType /\ t.kind = "expire" /\ t.ids = stale
    BY TxMade DEF TxKinds
  <2>2. /\ Begin(t) /\ \A b \in stale : b \in Bookings /\ bookings[b].status = "PENDING"
        /\ UNCHANGED <<clock, rows, bookings, payment, tripStatus, operatorStatus>>
    BY <1>5 DEF ExpireRead, Stale
  <2> HIDE DEF t, stale
  <2> QED
    BY <1>1, <2>1, <2>2, TransactionBegun
<1>6. CASE TripCancelRead
  <2> DEFINE t == Tx("tripCancel", {}, {})
  <2>1. t \in TxType /\ t.kind = "tripCancel" /\ t.ids = {}
    BY TxMade DEF TxKinds
  <2>2. /\ Begin(t)
        /\ UNCHANGED <<clock, rows, bookings, payment, tripStatus, operatorStatus>>
    BY <1>6 DEF TripCancelRead
  <2> HIDE DEF t
  <2> QED
    BY <2>1, <2>2, TransactionBegun
<1> QED
  BY <1>2, <1>3, <1>4, <1>5, <1>6

\* Steps about the trip, the operator, time and transactions that end.
LEMMA SurroundingsIInv ==
  ASSUME IInv, UNCHANGED <<rows, bookings>>,
         inflight' \subseteq inflight, clock' \in Nat,
         tripStatus' \in {"SCHEDULED", "CANCELLED"},
         operatorStatus' \in {"ACTIVE", "SUSPENDED"},
         payment' \in [Bookings -> {"NONE", "PENDING", "SUCCESS", "FAILED"}],
         \A b \in Bookings :
           \/ payment'[b] = payment[b]
           \/ bookings[b].source = "ONLINE" /\ payment[b] # "SUCCESS"
  PROVE  IInv'
<1>1. TypeOK'
  BY DEF IInv, TypeOK
<1>2. OnlineConfirmedIsPaid' /\ PaymentIsOnline' /\ InflightKnown'
  BY DEF IInv, OnlineConfirmedIsPaid, PaymentIsOnline, InflightKnown
<1> QED
  BY <1>1, <1>2 DEF IInv, ReservedBacked, LinkedLockBacked, HoldShape, HolderSold

-----------------------------------------------------------------------------
(* The invariant and what follows from it                                  *)

LEMMA HandlersIInv == IInv /\ Handlers => IInv'
<1> SUFFICES ASSUME IInv, Handlers
             PROVE  IInv'
  OBVIOUS
<1>1. ASSUME NEW S \in SeatRequests, NEW now \in Readings, LockSeats(S, now)
      PROVE  IInv'
  BY <1>1, LockSeatsIInv
<1>2. ASSUME NEW S \in SeatRequests, NEW u \in Staff, NEW now \in Readings,
             DashboardLock(S, u, now)
      PROVE  IInv'
  BY <1>2, DashboardLockIInv
<1>3. ASSUME NEW S \in SeatRequests, NEW u \in Staff, DashboardRelease(S, u)
      PROVE  IInv'
  BY <1>3, DashboardReleaseIInv
<1>4. ASSUME NEW b \in Bookings, NEW u \in Passengers, NEW S \in SeatRequests,
             NEW now \in Readings, ConfirmBooking(b, u, S, now)
      PROVE  IInv'
  BY <1>4, ConfirmBookingIInv
<1>5. ASSUME NEW b \in Bookings, NEW u \in Staff, NEW S \in SeatRequests,
             NEW now \in Readings, ManualBooking(b, u, S, now) \/ AdminBooking(b, u, S, now)
      PROVE  IInv'
  BY <1>5, CounterSaleIInv, HolderOfRows DEF ManualBooking, AdminBooking, IInv
<1>6. ASSUME NEW b \in Bookings, NEW u \in Staff, NEW S \in SeatRequests,
             StaffBooking(b, u, S)
      PROVE  IInv'
  BY <1>6, StaffBookingIInv
<1>7. CASE \E b \in Bookings : AdminCancelRead(b) \/ PaymentOpen(b) \/ PaymentSuccess(b)
  BY <1>7, BeginIInv
<1>8. CASE \E t \in inflight : AdminCancelWrite(t)
  BY <1>8, AdminCancelWriteIInv
<1>9. ASSUME NEW t \in inflight, PaymentOpenCommit(t)
      PROVE  IInv'
  <2>1. \A b \in t.ids : bookings[b].source = "ONLINE"
    BY <1>9, InflightFields DEF PaymentOpenCommit
  <2> QED
    BY <1>9, <2>1, SurroundingsIInv
       DEF PaymentOpenCommit, NoPaymentYet, Finish, IInv, TypeOK
<1>10. CASE \E t \in inflight : PaymentSuccessCommit(t)
  BY <1>10, PaymentSuccessCommitIInv
<1>11. CASE \E b \in Bookings : PaymentFailure(b)
  BY <1>11, PaymentFailureIInv
<1>12. CASE TripCancelRead
  BY <1>12, BeginIInv
<1>13. CASE \E t \in inflight : TripCancelWrite(t)
  BY <1>13, SurroundingsIInv DEF TripCancelWrite, Finish, IInv, TypeOK
<1>14. CASE \E status \in {"ACTIVE", "SUSPENDED"} : SetOperatorStatus(status)
  BY <1>14, SurroundingsIInv DEF SetOperatorStatus, IInv, TypeOK
<1> QED
  BY <1>1, <1>2, <1>3, <1>4, <1>5, <1>6, <1>7, <1>8, <1>9, <1>10, <1>11, <1>12,
     <1>13, <1>14 DEF Handlers

LEMMA NextIInv == IInv /\ [Next]_vars => IInv'
<1> SUFFICES ASSUME IInv, [Next]_vars
             PROVE  IInv'
  OBVIOUS
<1>1. CASE Handlers
  BY <1>1, HandlersIInv
<1>2. CASE Cron
  BY <1>2, CleanupIInv, ExpireWriteIInv, BeginIInv DEF Cron
<1>3. CASE Tick
  BY <1>3, SurroundingsIInv DEF Tick, IInv, TypeOK
<1>4. CASE \E t \in inflight : Abort(t)
  BY <1>4, SurroundingsIInv DEF Abort, Finish, IInv, TypeOK
<1>5. CASE UNCHANGED vars
  BY <1>5, SurroundingsIInv DEF vars, IInv, TypeOK
<1> QED
  BY <1>1, <1>2, <1>3, <1>4, <1>5 DEF Next

LEMMA Invariant == Spec => []IInv
<1> QED
  BY InitIInv, NextIInv, PTL DEF Spec

\* The tables keep their shape: whatever interleaving of handlers, cron jobs and
\* aborts, every row, booking and open transaction has one of the listed forms.
THEOREM TypeCorrect == Spec => []TypeOK
<1>1. IInv => TypeOK
  BY DEF IInv
<1> QED
  BY <1>1, Invariant, PTL

\* A reserved seat belongs to a confirmed booking.
THEOREM ReservedSeatsBacked == Spec => []ReservedBacked
<1>1. IInv => ReservedBacked
  BY DEF IInv
<1> QED
  BY <1>1, Invariant, PTL

\* A lock linked to a booking belongs to a pending one, and the lock and the
\* booking share one deadline.
THEOREM LinkedLocksBacked == Spec => []LinkedLockBacked
<1>1. IInv => LinkedLockBacked
  BY DEF IInv
<1> QED
  BY <1>1, Invariant, PTL

\* Public locks and dashboard holds are never mixed up.
THEOREM HoldsKeepShape == Spec => []HoldShape
<1>1. IInv => HoldShape
  BY DEF IInv
<1> QED
  BY <1>1, Invariant, PTL

\* An online booking is confirmed only while its payment is a success.
THEOREM ConfirmedIsPaid == Spec => []OnlineConfirmedIsPaid
<1>1. IInv => OnlineConfirmedIsPaid
  BY DEF IInv
<1> QED
  BY <1>1, Invariant, PTL

-----------------------------------------------------------------------------
(* What no step does to a hold, or to a running lock                       *)

HoldKept == \A s \in Seats : IsHold(rows[s]) /\ rows'[s] # rows[s]
                               => rows'[s].status \in {"CANCELLED", "RESERVED"}

LiveLockKept ==
  \A s \in Seats :
    Live(rows[s], clock) /\ rows'[s] # rows[s]
      => \/ rows'[s].status \in {"CANCELLED", "ABSENT"}
         \/ /\ rows'[s].booking # None
            /\ bookings[rows'[s].booking].status \in {"NONE", "PENDING"}
            /\ bookings'[rows'[s].booking].source = "ONLINE"

\* A hold never lapses, is never live, and belongs to no booking; a lock that is
\* live now is live, and has not lapsed, at any reading of the clock.
LEMMA HoldFacts ==
  ASSUME IInv, NEW s \in Seats, IsHold(rows[s])
  PROVE  /\ rows[s].status = "LOCKED" /\ rows[s].booking = None /\ rows[s].expiry = None
         /\ \A now : ~Lapsed(rows[s], now) /\ ~Live(rows[s], now)
BY DEF IInv, HoldShape, IsHold, Lapsed, Live

LEMMA LiveFacts ==
  ASSUME IInv, NEW s \in Seats, Live(rows[s], clock), NEW now \in Readings
  PROVE  /\ rows[s].status = "LOCKED" /\ rows[s].holder = None
         /\ rows[s].expiry # None /\ rows[s].expiry > now
         /\ ~Lapsed(rows[s], now) /\ Live(rows[s], now)
<1>1. /\ rows[s].status = "LOCKED" /\ rows[s].expiry # None
      /\ rows[s].expiry > clock
  BY DEF Live
<1>2. rows[s].expiry \in Nat /\ clock \in Nat /\ now \in Nat /\ now <= clock
  BY <1>1, RowFields DEF IInv, TypeOK, Readings, Times
<1>3. rows[s].expiry > now /\ ~(rows[s].expiry < now)
  BY <1>1, <1>2
<1> QED
  BY <1>1, <1>3 DEF IInv, HoldShape, Lapsed, Live

LEMMA LockingKeeps ==
  ASSUME IInv, NEW S \in SeatRequests, NEW now \in Readings,
         \/ LockSeats(S, now)
         \/ \E u \in Staff : DashboardLock(S, u, now)
  PROVE  HoldKept /\ LiveLockKept
<1>1. CASE LockSeats(S, now)
  <2>1. ASSUME NEW s \in Seats, IsHold(rows[s])
        PROVE  rows'[s] = rows[s]
    BY <1>1, <2>1, HoldFacts DEF LockSeats, Sweep, Recyclable
  <2>2. ASSUME NEW s \in Seats, Live(rows[s], clock)
        PROVE  rows'[s] = rows[s]
    BY <1>1, <2>2, LiveFacts DEF LockSeats, Sweep, Unavailable
  <2> QED
    BY <2>1, <2>2 DEF HoldKept, LiveLockKept
<1>2. ASSUME NEW u \in Staff, DashboardLock(S, u, now)
      PROVE  HoldKept /\ LiveLockKept
  <2>1. ASSUME NEW s \in Seats, IsHold(rows[s])
        PROVE  rows'[s] = rows[s]
    <3>1. SweepOrphans(rows, now)[s] = rows[s]
      BY <2>1, HoldFacts DEF SweepOrphans, Orphaned
    <3>2. rows[s].status = "LOCKED" /\ rows[s].booking = None /\ rows[s].expiry = None
      BY <2>1, HoldFacts
    <3>3. s \in S => rows[s].holder = u
      BY <1>2, <3>1, <3>2 DEF DashboardLock, UnavailableToStaff
    <3>4. rows[s] = Row("LOCKED", None, None, rows[s].holder)
      BY <3>2, RowFields DEF IInv, TypeOK
    <3> QED
      BY <1>2, <3>1, <3>3, <3>4 DEF DashboardLock
  <2>2. ASSUME NEW s \in Seats, Live(rows[s], clock)
        PROVE  rows'[s] = rows[s]
    BY <1>2, <2>2, LiveFacts, NoneAssumption
       DEF DashboardLock, SweepOrphans, Orphaned, UnavailableToStaff
  <2> QED
    BY <2>1, <2>2 DEF HoldKept, LiveLockKept
<1> QED
  BY <1>1, <1>2

LEMMA FreeingKeeps ==
  ASSUME IInv,
         \/ \E S \in SeatRequests, u \in Staff : DashboardRelease(S, u)
         \/ \E now \in Readings : CleanupExpiredLocks(now)
  PROVE  HoldKept /\ LiveLockKept
BY DEF DashboardRelease, CleanupExpiredLocks, HoldKept, LiveLockKept, Row

LEMMA SellingKeeps ==
  ASSUME IInv, NEW b \in Bookings, NEW S \in SeatRequests,
         \/ \E u \in Passengers, now \in Readings : ConfirmBooking(b, u, S, now)
         \/ \E u \in Staff, now \in Readings : ManualBooking(b, u, S, now)
                                               \/ AdminBooking(b, u, S, now)
         \/ \E u \in Staff : StaffBooking(b, u, S)
  PROVE  HoldKept /\ LiveLockKept
<1>1. ASSUME NEW u \in Passengers, NEW now \in Readings, ConfirmBooking(b, u, S, now)
      PROVE  HoldKept /\ LiveLockKept
  <2>1. ASSUME NEW s \in Seats, IsHold(rows[s])
        PROVE  rows'[s] = rows[s]
    BY <1>1, <2>1, HoldFacts DEF ConfirmBooking, Sweep
  <2>2. bookings[b].status = "NONE" /\ bookings'[b].source = "ONLINE"
    BY <1>1 DEF ConfirmBooking, Fresh, Insert, Booking, IInv, TypeOK
  <2>3. ASSUME NEW s \in Seats, Live(rows[s], clock)
        PROVE  rows'[s] = rows[s] \/ rows'[s].booking = b
    BY <1>1, <2>3, LiveFacts DEF ConfirmBooking, Sweep, LinkedRow, Row
  <2> QED
    BY <2>1, <2>2, <2>3, NoneAssumption DEF HoldKept, LiveLockKept
<1>2. ASSUME NEW u \in Staff, NEW now \in Readings,
             ManualBooking(b, u, S, now) \/ AdminBooking(b, u, S, now)
      PROVE  HoldKept /\ LiveLockKept
  <2>1. \A s \in Seats : rows'[s] = rows[s] \/ rows'[s].status = "RESERVED"
    BY <1>2 DEF ManualBooking, AdminBooking, CounterSale, Row
  <2>2. ASSUME NEW s \in Seats, Live(rows[s], clock)
        PROVE  rows'[s] = rows[s]
    BY <1>2, <2>2, LiveFacts DEF ManualBooking, AdminBooking, CounterSale, RefusedAtCounter
  <2> QED
    BY <2>1, <2>2 DEF HoldKept, LiveLockKept
<1>3. ASSUME NEW u \in Staff, StaffBooking(b, u, S)
      PROVE  HoldKept /\ LiveLockKept
  BY <1>3 DEF StaffBooking, HoldKept, LiveLockKept, IsHold, Live, Row
<1> QED
  BY <1>1, <1>2, <1>3

LEMMA ClosingKeeps ==
  ASSUME IInv,
         \/ \E t \in inflight : AdminCancelWrite(t) \/ ExpireWrite(t)
         \/ \E b \in Bookings : PaymentFailure(b)
  PROVE  HoldKept /\ LiveLockKept
<1> DEFINE Closing(s) ==
             \/ rows'[s] = rows[s]
             \/ rows[s].booking \in Bookings /\ rows'[s].status \in {"CANCELLED", "ABSENT"}
<1>1. ASSUME NEW t \in inflight, AdminCancelWrite(t) \/ ExpireWrite(t), NEW s \in Seats
      PROVE  Closing(s)
  <2>1. t.ids \subseteq Bookings
    BY InflightFields
  <2> QED
    BY <1>1, <2>1 DEF AdminCancelWrite, ExpireWrite, Release, Row, AbsentRow
<1>2. ASSUME NEW b \in Bookings, PaymentFailure(b), NEW s \in Seats
      PROVE  Closing(s)
  BY <1>2 DEF PaymentFailure, Release, Row
<1>3. \A s \in Seats : Closing(s)
  BY <1>1, <1>2
<1> QED
  BY <1>3, HoldFacts, NoneAssumption DEF HoldKept, LiveLockKept

LEMMA SettlingKeeps ==
  ASSUME IInv, NEW t \in inflight, PaymentSuccessCommit(t)
  PROVE  HoldKept /\ LiveLockKept
<1>1. PICK b \in Bookings : t.ids = {b}
  BY DEF PaymentSuccessCommit, IInv, InflightKnown
<1>2. bookings[b].status = "PENDING"
  BY <1>1 DEF PaymentSuccessCommit, SnapshotStands
<1>3. bookings'[b].source = "ONLINE"
  BY <1>1, <1>2, BookingSettled DEF PaymentSuccessCommit, StatusesNoDeadline, IInv, TypeOK
<1>4. \A s \in Seats : \/ rows'[s] = rows[s]
                       \/ /\ rows[s].booking = b /\ rows'[s].booking = b
                          /\ rows'[s].status = "RESERVED"
  BY <1>1 DEF PaymentSuccessCommit, Row
<1> QED
  BY <1>2, <1>3, <1>4, NoneAssumption DEF HoldKept, LiveLockKept

LEMMA StepKeeps == IInv /\ [Next]_vars => HoldKept /\ LiveLockKept
<1> SUFFICES ASSUME IInv, [Next]_vars
             PROVE  HoldKept /\ LiveLockKept
  OBVIOUS
<1>1. CASE Handlers
  <2>1. CASE \/ \E b \in Bookings : AdminCancelRead(b) \/ PaymentOpen(b) \/ PaymentSuccess(b)
             \/ \E t \in inflight : PaymentOpenCommit(t) \/ TripCancelWrite(t)
             \/ TripCancelRead
             \/ \E status \in {"ACTIVE", "SUSPENDED"} : SetOperatorStatus(status)
    BY <2>1 DEF AdminCancelRead, PaymentOpen, PaymentSuccess, PaymentOpenCommit,
                TripCancelWrite, TripCancelRead, SetOperatorStatus, HoldKept, LiveLockKept
  <2> QED
    BY <1>1, <2>1, LockingKeeps, FreeingKeeps, SellingKeeps, ClosingKeeps, SettlingKeeps
       DEF Handlers
<1>2. CASE Cron
  <2>1. CASE \E now \in Readings : ExpireRead(now)
    BY <2>1 DEF ExpireRead, HoldKept, LiveLockKept
  <2> QED
    BY <1>2, <2>1, FreeingKeeps, ClosingKeeps DEF Cron
<1>3. CASE Tick \/ (\E t \in inflight : Abort(t)) \/ UNCHANGED vars
  BY <1>3 DEF Tick, Abort, vars, HoldKept, LiveLockKept
<1> QED
  BY <1>1, <1>2, <1>3 DEF Next

\* A seat somebody holds on the dashboard is released or sold, and never locked
\* by anybody else.
THEOREM HoldsAreKept == Spec => HoldNeverRelocked
<1>1. IInv /\ [Next]_vars => [HoldKept]_vars
  BY StepKeeps
<1> QED
  BY <1>1, Invariant, PTL DEF Spec, HoldNeverRelocked, HoldKept

\* A public lock that is still running goes to nobody else by a seat lock, a
\* dashboard hold or a counter sale.
THEOREM LiveLocksAreKept == Spec => LiveLockOnlyConfirmed
<1>1. IInv /\ [Next]_vars => [LiveLockKept]_vars
  BY StepKeeps
<1> QED
  BY <1>1, Invariant, PTL DEF Spec, LiveLockOnlyConfirmed, LiveLockKept
=============================================================================
