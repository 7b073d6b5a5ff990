-------------------------- MODULE SeatReservation --------------------------
(***************************************************************************)
(* Seat locks, bookings, payments and the two cron jobs of one trip.       *)
(*                                                                         *)
(* Every HTTP handler, payment callback and cron job runs in a PostgreSQL  *)
(* transaction of its own.                                                 *)
(*  - A Serializable transaction is one action, taken when it commits: a   *)
(*    row it writes that changed since its snapshot aborts it.  Handlers   *)
(*    that read the clock before the transaction starts use a reading that *)
(*    may be up to TxLag old when they commit.                             *)
(*  - A transaction whose decision can be outdated when it writes is two   *)
(*    actions, with a record in inflight between them: the READ COMMITTED  *)
(*    ones (they keep no snapshot and re-check nothing), payment success   *)
(*    (its window check reads the clock before the commit) and payment     *)
(*    creation (it calls the gateway inside the transaction and inserts    *)
(*    without touching the booking row it has read).                       *)
(***************************************************************************)
EXTENDS SeatRows

CONSTANTS
  Passengers,         \* users who book online
  SeatLock,           \* seatLockMs: how long a public lock lasts
  PaymentWindow,      \* paymentWindowMs: how long a booking waits for payment
  MaxSeatsPerUser,    \* MAX_TICKET_SEATS_PER_USER_PER_TRIP
  TxLag,              \* how long a transaction may last (Prisma's timeout)
  MaxInflight,        \* bound: handlers between their read and their write
  MaxTime             \* bound: the clock stops here

Users == Passengers \cup Staff

ASSUME ReservationAssumption ==
  /\ None \notin Users
  /\ IsFiniteSet(Seats)
  /\ SeatLock \in Nat \ {0} /\ PaymentWindow \in Nat \ {0}
  /\ MaxSeatsPerUser \in Nat /\ TxLag \in Nat
  /\ MaxInflight \in Nat /\ MaxTime \in Nat

VARIABLES
  clock,
  rows,             \* rows[s]: the booking_seats row of seat s
  bookings,         \* bookings[b]: the bookings row of booking b
  payment,          \* payment[b]: status of the one payment of booking b
  tripStatus,
  operatorStatus,
  inflight          \* transactions between their read and their write

vars == <<clock, rows, bookings, payment, tripStatus, operatorStatus, inflight>>

-----------------------------------------------------------------------------
\* deadline is paymentExpiresAt; source is bookingSource: "ONLINE" stands for the
\* default USER_BOOKING, "COUNTER" for MANUAL, STAFF_BOOKING and ADMIN_BOOKING.
Booking(status, user, deadline, source) ==
  [status |-> status, user |-> user, deadline |-> deadline, source |-> source]

NoBooking == Booking("NONE", None, None, "NONE")

Active == {"PENDING", "CONFIRMED"}
Closed == {"CANCELLED", "EXPIRED"}

BookingType ==
       {NoBooking}
  \cup [status : {"PENDING"}, user : Users, deadline : Nat,
        source : {"ONLINE"}]
  \cup [status : {"CONFIRMED"}, user : Users, deadline : {None},
        source : {"ONLINE", "COUNTER"}]
  \cup [status : Closed, user : Users, deadline : Times,
        source : {"ONLINE", "COUNTER"}]

\* ids: the bookings the transaction is about; seats: the rows of the booking
\* in its snapshot; at: when it took its snapshot.
TxKinds == {"pay", "settle", "expire", "adminCancel", "tripCancel"}
Tx(kind, ids, seats) == [kind |-> kind, ids |-> ids, seats |-> seats, at |-> clock]
TxType == [kind : TxKinds, ids : SUBSET Bookings, seats : SUBSET Seats, at : Nat]

TypeOK == /\ clock \in Nat
          /\ rows \in [Seats -> RowType]
          /\ bookings \in [Bookings -> BookingType]
          /\ payment \in [Bookings -> {"NONE", "PENDING", "SUCCESS", "FAILED"}]
          /\ tripStatus \in {"SCHEDULED", "CANCELLED"}
          /\ operatorStatus \in {"ACTIVE", "SUSPENDED"}
          /\ inflight \subseteq TxType

Init == /\ clock = 0
        /\ rows = [s \in Seats |-> AbsentRow]
        /\ bookings = [b \in Bookings |-> NoBooking]
        /\ payment = [b \in Bookings |-> "NONE"]
        /\ tripStatus = "SCHEDULED"
        /\ operatorStatus = "ACTIVE"
        /\ inflight = {}

-----------------------------------------------------------------------------
\* A clock reading a handler took before its transaction started.
Readings == {n \in 0 .. clock : clock - n <= TxLag}

\* A request names one or more distinct seats (ArrayNotEmpty, ArrayUnique).
SeatRequests == (SUBSET Seats) \ {{}}

Statuses(B, status) ==
  [b \in Bookings |-> IF b \in B THEN [bookings[b] EXCEPT !.status = status]
                                 ELSE bookings[b]]

\* The same, with paymentExpiresAt set to null.
StatusesNoDeadline(B, status) ==
  [b \in Bookings |->
     IF b \in B
     THEN [bookings[b] EXCEPT !.status = status, !.deadline = None]
     ELSE bookings[b]]

Insert(b, booking) == bookings' = [bookings EXCEPT ![b] = booking]

Fresh(b) == bookings[b].status = "NONE"

HandlersInFlight == {t \in inflight : t.kind # "expire"}

Begin(t) == inflight' = inflight \cup {t}
Finish(t) == inflight' = inflight \ {t}

-----------------------------------------------------------------------------
(* Seat locks                                                              *)

\* The seats a public lock refuses.
Unavailable(row, now) == row.status = "RESERVED" \/ Live(row, now)

\* Mutant of Recyclable: whatever is not running is recycled, holds included.
RecyclableIfNotLive(row, now) ==
  row.status = "CANCELLED" \/ (row.status = "LOCKED" /\ ~Live(row, now))

\* The rows a public lock takes over in place.
Recyclable(row, now) == row.status = "CANCELLED" \/ Lapsed(row, now)

\* BookingsService.create: anybody locks seats.  A seat that is neither
\* unavailable nor recyclable is inserted, and the unique index refuses the
\* insert when the row exists (a dashboard hold, or a lock that expires now).
LockSeats(S, now) ==
  LET swept == Sweep(rows, now)
  IN /\ \A s \in S : /\ ~Unavailable(swept[s], now)
                     /\ \/ Recyclable(swept[s], now)
                        \/ swept[s].status = "ABSENT"
     /\ rows' = [s \in Seats |->
                   IF s \in S
                   THEN Row("LOCKED", None, now + SeatLock, swept[s].holder)
                   ELSE swept[s]]
     /\ UNCHANGED <<clock, bookings, payment, tripStatus, operatorStatus, inflight>>

\* What the dashboard refuses to user u: reserved seats and the live locks and
\* holds of others.
UnavailableToStaff(row, u, now) ==
  \/ row.status = "RESERVED"
  \/ /\ row.status = "LOCKED"
     /\ row.expiry = None \/ row.expiry > now
     /\ row.holder # u

RecyclableByStaff(row, u, now) ==
  row.status = "CANCELLED" \/ Lapsed(row, now) \/ IsHoldOf(row, u)

\* DashboardBookingsService.lockSeatsForDashboard: staff user u holds seats,
\* without expiry.
DashboardLock(S, u, now) ==
  LET swept == SweepOrphans(rows, now)
  IN /\ tripStatus = "SCHEDULED"
     /\ \A s \in S : /\ ~UnavailableToStaff(swept[s], u, now)
                     /\ \/ RecyclableByStaff(swept[s], u, now)
                        \/ swept[s].status = "ABSENT"
     /\ rows' = [s \in Seats |->
                   IF s \in S THEN Row("LOCKED", None, None, u) ELSE swept[s]]
     /\ UNCHANGED <<clock, bookings, payment, tripStatus, operatorStatus, inflight>>

\* releaseSeatsForDashboard: only the user's own holds.
DashboardRelease(S, u) ==
  LET mine == {s \in S : IsHoldOf(rows[s], u) /\ rows[s].booking = None}
  IN /\ mine # {}
     /\ rows' = [s \in Seats |->
                   IF s \in mine THEN Row("CANCELLED", None, None, None) ELSE rows[s]]
     /\ UNCHANGED <<clock, bookings, payment, tripStatus, operatorStatus, inflight>>

\* SeatLockCleanupService.cleanupExpiredLocks, one update statement.
CleanupExpiredLocks(now) ==
  /\ \E s \in Seats : Orphaned(rows[s], now)
  /\ rows' = [s \in Seats |->
                IF Orphaned(rows[s], now)
                THEN Row("CANCELLED", None, None, None) ELSE rows[s]]
  /\ UNCHANGED <<clock, bookings, payment, tripStatus, operatorStatus, inflight>>

-----------------------------------------------------------------------------
(* Bookings                                                                *)

\* Seats of user u on this trip that count against the limit.
TicketSeats(rs, u) ==
  {s \in Seats : /\ rs[s].booking # None
                 /\ bookings[rs[s].booking].user = u
                 /\ bookings[rs[s].booking].status \in Active}

\* Mutant of WithinLimit: the seats asked for are not added.
WithinLimitBefore(rs, u, n) == Cardinality(TicketSeats(rs, u)) <= MaxSeatsPerUser

WithinLimit(rs, u, n) == Cardinality(TicketSeats(rs, u)) + n <= MaxSeatsPerUser

\* Mutant of LinkedRow: the lock keeps its own expiry.
LinkedRowOldExpiry(row, b, deadline) == Row("LOCKED", b, row.expiry, row.holder)

LinkedRow(row, b, deadline) == Row("LOCKED", b, deadline, row.holder)

\* BookingsService.confirmBooking: user u turns live locks into a PENDING
\* booking.  Neither who locked a row nor whether it is linked to another
\* booking is looked at.
ConfirmBooking(b, u, S, now) ==
  LET swept == Sweep(rows, now)
      deadline == now + PaymentWindow
  IN /\ Fresh(b)
     /\ \A s \in S : Live(swept[s], now)
     /\ WithinLimit(swept, u, Cardinality(S))
     /\ Insert(b, Booking("PENDING", u, deadline, "ONLINE"))
     /\ rows' = [s \in Seats |->
                   IF s \in S THEN LinkedRow(swept[s], b, deadline) ELSE swept[s]]
     /\ UNCHANGED <<clock, payment, tripStatus, operatorStatus, inflight>>

\* Mutant of RefusedAtCounter: locks of the online flow are not looked at.
RefusedIfReserved(row, now) == row.status = "RESERVED"

\* The seats a counter sale refuses.
RefusedAtCounter(row, now) == row.status = "RESERVED" \/ Live(row, now)

\* A CONFIRMED booking made by staff user u, its rows upserted as RESERVED.
CounterSale(b, u, S, now, holderOf) ==
  /\ Fresh(b)
  /\ \A s \in S : ~RefusedAtCounter(rows[s], now)
  /\ Insert(b, Booking("CONFIRMED", u, None, "COUNTER"))
  /\ rows' = [s \in Seats |->
                IF s \in S THEN Row("RESERVED", b, None, holderOf[s]) ELSE rows[s]]
  /\ UNCHANGED <<clock, payment, tripStatus, operatorStatus, inflight>>

\* DashboardBookingsService.createManualBooking: clears the holder.
ManualBooking(b, u, S, now) ==
  /\ tripStatus = "SCHEDULED"
  /\ CounterSale(b, u, S, now, [s \in Seats |-> None])

\* AdminBookingsService.createAdminBooking: ignores the trip's status, and the
\* upsert leaves the holder column alone.
AdminBooking(b, u, S, now) ==
  CounterSale(b, u, S, now, [s \in Seats |-> rows[s].holder])

\* BookingsService.createStaffBooking: a seat with any row, even a cancelled
\* one, is refused.
StaffBooking(b, u, S) ==
  /\ tripStatus = "SCHEDULED"
  /\ Fresh(b)
  /\ \A s \in S : rows[s].status = "ABSENT"
  /\ Insert(b, Booking("CONFIRMED", u, None, "COUNTER"))
  /\ rows' = [s \in Seats |->
                IF s \in S THEN Row("RESERVED", b, None, None) ELSE rows[s]]
  /\ UNCHANGED <<clock, payment, tripStatus, operatorStatus, inflight>>

\* BookingsService.cancelByAdmin, READ COMMITTED: the status is read ...
AdminCancelRead(b) ==
  /\ Cardinality(HandlersInFlight) < MaxInflight
  /\ bookings[b].status \in Active
  /\ Begin(Tx("adminCancel", {b}, {}))
  /\ UNCHANGED <<clock, rows, bookings, payment, tripStatus, operatorStatus>>

\* ... and the rows are deleted and the booking cancelled whatever it is now.
AdminCancelWrite(t) ==
  /\ t.kind = "adminCancel"
  /\ rows' = [s \in Seats |->
                IF rows[s].booking \in t.ids THEN AbsentRow ELSE rows[s]]
  /\ bookings' = Statuses(t.ids, "CANCELLED")
  /\ Finish(t)
  /\ UNCHANGED <<clock, payment, tripStatus, operatorStatus>>

\* Mutant of Stale: the two cases joined by AND instead of OR.
StaleIfBoth(b, now) ==
  /\ bookings[b].status = "PENDING"
  /\ bookings[b].deadline < now
  /\ operatorStatus = "SUSPENDED"

\* The bookings the expiry job takes for stale.
Stale(b, now) ==
  /\ bookings[b].status = "PENDING"
  /\ \/ bookings[b].deadline < now
     \/ operatorStatus = "SUSPENDED"

\* BookingsService.expireStalePendingBookings, READ COMMITTED: the ids of the
\* stale bookings are read ...
ExpireRead(now) ==
  LET stale == {b \in Bookings : Stale(b, now)}
  IN /\ \A t \in inflight : t.kind # "expire"
     /\ stale # {}
     /\ Begin(Tx("expire", stale, {}))
     /\ UNCHANGED <<clock, rows, bookings, payment, tripStatus, operatorStatus>>

\* ... and everything of these bookings is closed by id.
ExpireWrite(t) ==
  /\ t.kind = "expire"
  /\ rows' = Release(rows, t.ids)
  /\ payment' = [b \in Bookings |->
                   IF b \in t.ids /\ payment[b] = "PENDING" THEN "FAILED"
                                                            ELSE payment[b]]
  /\ bookings' = StatusesNoDeadline(t.ids, "EXPIRED")
  /\ Finish(t)
  /\ UNCHANGED <<clock, tripStatus, operatorStatus>>

-----------------------------------------------------------------------------
(* Payments                                                                *)

\* assertBookingPaymentWindowOpen
WindowOpen(b) == /\ bookings[b].status = "PENDING"
                 /\ bookings[b].deadline > clock

\* PaymentsService.create: the window is checked in the transaction's
\* snapshot, and while the gateway session is being opened nothing is locked.
\* With a payment already there the call changes nothing.
PaymentOpen(b) ==
  /\ Cardinality(HandlersInFlight) < MaxInflight
  /\ WindowOpen(b)
  /\ payment[b] = "NONE"
  /\ Begin(Tx("pay", {b}, {}))
  /\ UNCHANGED <<clock, rows, bookings, payment, tripStatus, operatorStatus>>

\* Mutant of NoPaymentYet: the transaction is not serializable.
PaymentsIgnored(t) == t.ids # {}

\* Of two concurrent creations for one booking, serializability lets one commit.
NoPaymentYet(t) == \A b \in t.ids : payment[b] = "NONE"

PaymentOpenCommit(t) ==
  /\ t.kind = "pay"
  /\ NoPaymentYet(t)
  /\ payment' = [b \in Bookings |-> IF b \in t.ids THEN "PENDING" ELSE payment[b]]
  /\ Finish(t)
  /\ UNCHANGED <<clock, rows, bookings, tripStatus, operatorStatus>>

\* PaymentsService.handlePaymentSuccess: snapshot and window check ...
PaymentSuccess(b) ==
  /\ Cardinality(HandlersInFlight) < MaxInflight
  /\ payment[b] \notin {"NONE", "SUCCESS"}
  /\ WindowOpen(b)
  /\ Begin(Tx("settle", {b}, SeatsOf(rows, {b})))
  /\ UNCHANGED <<clock, rows, bookings, payment, tripStatus, operatorStatus>>

\* Mutant of SnapshotStands: the transaction is not serializable.
SnapshotIgnored(t) == t.ids # {}

\* None of the rows the settlement writes has changed since its snapshot: the
\* booking is as it was, and so are the seat rows linked to it.
SnapshotStands(t) ==
  /\ \A b \in t.ids : bookings[b].status = "PENDING"
  /\ SeatsOf(rows, t.ids) = t.seats

\* ... and the writes, refused by serializability when a row they touch moved.
PaymentSuccessCommit(t) ==
  /\ t.kind = "settle"
  /\ SnapshotStands(t)
  /\ payment' = [b \in Bookings |-> IF b \in t.ids THEN "SUCCESS" ELSE payment[b]]
  /\ bookings' = StatusesNoDeadline(t.ids, "CONFIRMED")
  /\ rows' = [s \in Seats |->
                IF rows[s].booking \in t.ids /\ rows[s].status = "LOCKED"
                THEN Row("RESERVED", rows[s].booking, None, rows[s].holder)
                ELSE rows[s]]
  /\ Finish(t)
  /\ UNCHANGED <<clock, tripStatus, operatorStatus>>

\* PaymentsService.handlePaymentFailure, for the gateway's fail and cancel
\* callbacks: only a payment that has failed already is left alone.
PaymentFailure(b) ==
  /\ payment[b] \notin {"NONE", "FAILED"}
  /\ payment' = [payment EXCEPT ![b] = "FAILED"]
  /\ bookings' = StatusesNoDeadline({b}, "CANCELLED")
  /\ rows' = Release(rows, {b})
  /\ UNCHANGED <<clock, tripStatus, operatorStatus, inflight>>

-----------------------------------------------------------------------------
(* The trip, its operator and the environment                              *)

\* TripsService.cancel, READ COMMITTED: nothing active is found ...
TripCancelRead ==
  /\ Cardinality(HandlersInFlight) < MaxInflight
  /\ tripStatus = "SCHEDULED"
  /\ \A b \in Bookings : bookings[b].status \notin Active
  /\ \A s \in Seats : rows[s].status # "RESERVED" /\ ~Live(rows[s], clock)
  /\ Begin(Tx("tripCancel", {}, {}))
  /\ UNCHANGED <<clock, rows, bookings, payment, tripStatus, operatorStatus>>

\* ... and the trip is cancelled.
TripCancelWrite(t) ==
  /\ t.kind = "tripCancel"
  /\ tripStatus' = "CANCELLED"
  /\ Finish(t)
  /\ UNCHANGED <<clock, rows, bookings, payment, operatorStatus>>

\* OperatorsService.suspend and activate.
SetOperatorStatus(status) ==
  /\ operatorStatus # status
  /\ operatorStatus' = status
  /\ UNCHANGED <<clock, rows, bookings, payment, tripStatus, inflight>>

\* Time passes; a transaction that has lasted longer than TxLag is rolled back.
Tick ==
  /\ clock < MaxTime
  /\ clock' = clock + 1
  /\ inflight' = {t \in inflight : clock + 1 - t.at <= TxLag}
  /\ UNCHANGED <<rows, bookings, payment, tripStatus, operatorStatus>>

\* A transaction ends without effect: the gateway call fails, the database
\* refuses it, or the process stops.
Abort(t) ==
  /\ Finish(t)
  /\ UNCHANGED <<clock, rows, bookings, payment, tripStatus, operatorStatus>>

-----------------------------------------------------------------------------
Handlers ==
  \/ \E S \in SeatRequests, now \in Readings : LockSeats(S, now)
  \/ \E S \in SeatRequests, u \in Staff, now \in Readings : DashboardLock(S, u, now)
  \/ \E S \in SeatRequests, u \in Staff : DashboardRelease(S, u)
  \/ \E b \in Bookings, u \in Passengers, S \in SeatRequests, now \in Readings :
       ConfirmBooking(b, u, S, now)
  \/ \E b \in Bookings, u \in Staff, S \in SeatRequests, now \in Readings :
       ManualBooking(b, u, S, now)
  \/ \E b \in Bookings, u \in Staff, S \in SeatRequests, now \in Readings :
       AdminBooking(b, u, S, now)
  \/ \E b \in Bookings, u \in Staff, S \in SeatRequests : StaffBooking(b, u, S)
  \/ \E b \in Bookings : AdminCancelRead(b)
  \/ \E t \in inflight : AdminCancelWrite(t)
  \/ \E b \in Bookings : PaymentOpen(b)
  \/ \E t \in inflight : PaymentOpenCommit(t)
  \/ \E b \in Bookings : PaymentSuccess(b)
  \/ \E t \in inflight : PaymentSuccessCommit(t)
  \/ \E b \in Bookings : PaymentFailure(b)
  \/ TripCancelRead
  \/ \E t \in inflight : TripCancelWrite(t)
  \/ \E status \in {"ACTIVE", "SUSPENDED"} : SetOperatorStatus(status)

Cron == \/ \E now \in Readings : CleanupExpiredLocks(now)
        \/ \E now \in Readings : ExpireRead(now)
        \/ \E t \in inflight : ExpireWrite(t)

Next == Handlers \/ Cron \/ Tick \/ \E t \in inflight : Abort(t)

Spec == Init /\ [][Next]_vars

-----------------------------------------------------------------------------
(* Safety                                                                  *)

\* A reserved seat belongs to a CONFIRMED booking: no handler closes a booking
\* and leaves a seat behind, and none reserves a seat for a dead booking,
\* whatever two transactions do to each other's rows.
ReservedBacked ==
  \A s \in Seats : rows[s].status = "RESERVED"
                     => bookings[rows[s].booking].status = "CONFIRMED"

\* A locked seat that is linked to a booking belongs to a PENDING booking and
\* expires with its payment window: the two deadlines, which different
\* handlers compare with different operators, never drift apart.
LinkedLockBacked ==
  \A s \in Seats :
    (rows[s].status = "LOCKED" /\ rows[s].booking # None)
      => /\ bookings[rows[s].booking].status = "PENDING"
         /\ bookings[rows[s].booking].deadline = rows[s].expiry

\* A lock without expiry is a dashboard hold and belongs to no booking, and
\* a lock with one has no holder: public locks and dashboard holds, kept in
\* one table by handlers that clear different columns, are never mixed up.
HoldShape ==
  \A s \in Seats :
    /\ rows[s].status = "LOCKED" => (rows[s].holder # None <=> rows[s].expiry = None)
    /\ rows[s].status = "LOCKED" /\ rows[s].holder # None => rows[s].booking = None
    /\ rows[s].status = "CANCELLED" => rows[s].holder = None

\* A passenger never has more than MaxSeatsPerUser seats in live bookings of
\* the trip, although the rows are counted before the new ones are linked and
\* sweeps, expiry and relinking move rows meanwhile.  (Counter sales are booked
\* under the staff user's own id and are not limited.)
PassengerSeatLimit ==
  \A u \in Passengers \ Staff : Cardinality(TicketSeats(rows, u)) <= MaxSeatsPerUser

\* A booking made online is CONFIRMED only while its payment is a SUCCESS.
OnlineConfirmedIsPaid ==
  \A b \in Bookings :
    (bookings[b].status = "CONFIRMED" /\ bookings[b].source = "ONLINE")
      => payment[b] = "SUCCESS"

\* A public lock that is still running (or a live booking's seat) goes to
\* nobody else by way of a seat lock, a dashboard hold or a counter sale: the
\* only step that gives such a row a new owner is confirmBooking.
LiveLockOnlyConfirmed ==
  [][\A s \in Seats :
       Live(rows[s], clock) /\ rows'[s] # rows[s]
         => \/ rows'[s].status \in {"CANCELLED", "ABSENT"}
            \/ /\ rows'[s].booking # None
               /\ bookings[rows'[s].booking].status \in {"NONE", "PENDING"}
               /\ bookings'[rows'[s].booking].source = "ONLINE"]_vars

\* A seat somebody holds on the dashboard is never locked by anybody else: it
\* is released or sold.
HoldNeverRelocked ==
  [][\A s \in Seats :
       IsHold(rows[s]) /\ rows'[s] # rows[s]
         => rows'[s].status \in {"CANCELLED", "RESERVED"}]_vars

\* The promise about selling seats (module SeatSale): what the rows and the
\* bookings show of it.
SoldTo(row) == IF row.status = "RESERVED" THEN row.booking ELSE None

Stage(status) == CASE status = "NONE"      -> "new"
                   [] status = "PENDING"   -> "open"
                   [] status = "CONFIRMED" -> "sold"
                   [] status \in Closed    -> "closed"

Sale == INSTANCE SeatSale
          WITH owner <- [s \in Seats |-> SoldTo(rows[s])],
               stage <- [b \in Bookings |-> Stage(bookings[b].status)],
               Nobody <- None

\* The backend sells seats as SeatSale promises: a sold seat changes hands only
\* after its booking has closed, a closed booking never comes back, and a
\* booking that closes gives back all its sold seats in that step.
SellsSeats == Sale!Spec

-----------------------------------------------------------------------------
(* The inductive invariant behind the safety properties                    *)

\* A transaction in flight is about bookings that exist, made online when it is
\* a payment or the expiry job, and a settlement is about one booking.
InflightKnown ==
  \A t \in inflight :
    /\ \A b \in t.ids : /\ bookings[b].status # "NONE"
                        /\ t.kind # "adminCancel" => bookings[b].source = "ONLINE"
    /\ t.kind = "settle" => \E b \in Bookings : t.ids = {b}

\* Only online bookings are paid through the gateway.
PaymentIsOnline ==
  \A b \in Bookings : payment[b] # "NONE" => bookings[b].source = "ONLINE"

\* A reserved row keeps a holder only from an admin booking.
HolderSold ==
  \A s \in Seats :
    rows[s].status = "RESERVED" /\ rows[s].holder # None
      => bookings[rows[s].booking].source = "COUNTER"

IInv == /\ TypeOK
        /\ ReservedBacked
        /\ LinkedLockBacked
        /\ HoldShape
        /\ OnlineConfirmedIsPaid
        /\ InflightKnown
        /\ PaymentIsOnline
        /\ HolderSold

-----------------------------------------------------------------------------
(* Liveness                                                                *)

\* The clock advances and both cron jobs keep being scheduled (every 30 s);
\* the expiry job's transaction is retried by the next run, and is not refused
\* or stopped every single time.  Nothing is assumed of users, staff or the
\* payment gateway.
Fairness == /\ WF_vars(Tick)
            /\ WF_vars(\E now \in Readings : CleanupExpiredLocks(now))
            /\ WF_vars(\E now \in Readings : ExpireRead(now))
            /\ SF_vars(\E t \in inflight : ExpireWrite(t))

LiveSpec == Spec /\ Fairness

\* Every lock past its expiry is eventually given up, the orphan ones by the
\* cleanup job and those of a booking by the expiry job, which filter on
\* complementary conditions.
LapsedLockReleased ==
  \A s \in Seats : Lapsed(rows[s], clock) ~> ~Lapsed(rows[s], clock)

\* A booking past its payment deadline does not stay PENDING, also when its
\* seats were swept away earlier and no row leads to it any more.
OverdueBookingCloses ==
  \A b \in Bookings :
    (bookings[b].status = "PENDING" /\ bookings[b].deadline < clock)
      ~> bookings[b].status # "PENDING"

-----------------------------------------------------------------------------
(* What comments, tests and documents of the repository say and the code   *)
(* does not keep.                                                          *)

\* expireStalePendingBookings tells the passenger "Your unpaid booking expired":
\* a booking that expires has not been paid.
ExpiredIsUnpaid ==
  \A b \in Bookings : bookings[b].status = "EXPIRED" => payment[b] # "SUCCESS"

\* The unique row per seat "prevents double-booking": every confirmed booking
\* has a seat of its own.
NoDoubleBooking ==
  \A b \in Bookings :
    bookings[b].status = "CONFIRMED"
      => \E s \in Seats : rows[s].status = "RESERVED" /\ rows[s].booking = b

=============================================================================
