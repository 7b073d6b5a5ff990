-------------------------- MODULE MCSeatReservation --------------------------
(* Small instances of SeatReservation for TLC. *)
EXTENDS SeatReservation, TLC

\* Bookings, passengers and staff are only compared for equality.
Symmetry == Permutations(Bookings) \cup Permutations(Passengers)
              \cup Permutations(Staff) \cup Permutations(Seats)

\* The part of the system passengers meet: no dashboard, no trip or operator
\* administration.  Its behaviours are behaviours of Spec, so it affords more
\* passengers and transactions.
OnlineNext ==
  \/ \E S \in SeatRequests, now \in Readings : LockSeats(S, now)
  \/ \E b \in Bookings, u \in Passengers, S \in SeatRequests, now \in Readings :
       ConfirmBooking(b, u, S, now)
  \/ \E b \in Bookings : AdminCancelRead(b) \/ PaymentOpen(b)
                         \/ PaymentSuccess(b) \/ PaymentFailure(b)
  \/ \E t \in inflight : AdminCancelWrite(t) \/ PaymentOpenCommit(t)
                         \/ PaymentSuccessCommit(t) \/ Abort(t)
  \/ Cron
  \/ Tick

OnlineSpec == Init /\ [][OnlineNext]_vars
=============================================================================
