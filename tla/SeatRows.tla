------------------------------ MODULE SeatRows ------------------------------
(***************************************************************************)
(* The booking_seats rows of one trip.  The table has a unique index on    *)
(* (tripId, seatId), so for one trip it is a function from seats to rows;  *)
(* a seat without a row maps to a row of status "ABSENT".                  *)
(*                                                                         *)
(* Times are abstract ticks.  A null column is None, and a comparison with *)
(* a null column is false, as in SQL.                                      *)
(***************************************************************************)
EXTENDS Integers, FiniteSets

CONSTANTS
  Seats,          \* seats of the trip's bus
  Bookings,       \* booking ids that may be created (bounds the model)
  Staff,          \* operator staff and admins using the dashboard
  None            \* the SQL null

ASSUME NoneAssumption == /\ None \notin Bookings
                         /\ None \notin Staff
                         /\ None \notin Int

Times == Nat \cup {None}

Row(status, booking, expiry, holder) ==
  [status |-> status, booking |-> booking, expiry |-> expiry, holder |-> holder]

AbsentRow == Row("ABSENT", None, None, None)

\* The rows the table may hold, by status: a RESERVED row always belongs to a
\* booking and never expires, a CANCELLED row belongs to nobody.
RowType ==
       {AbsentRow}
  \cup [status : {"LOCKED"}, booking : Bookings \cup {None},
        expiry : Times, holder : Staff \cup {None}]
  \cup [status : {"RESERVED"}, booking : Bookings,
        expiry : {None}, holder : Staff \cup {None}]
  \cup [status : {"CANCELLED"}, booking : {None},
        expiry : Times, holder : Staff \cup {None}]

-----------------------------------------------------------------------------
\* lockExpiresAt: { lt: now } and { gt: now }: a lock whose expiry equals now
\* is neither lapsed nor live, and a lock without expiry is neither.
Lapsed(row, now) == /\ row.status = "LOCKED"
                    /\ row.expiry # None
                    /\ row.expiry < now

\* Mutant of Live: a lock without expiry passes for a running one.
LiveOrEndless(row, now) == /\ row.status = "LOCKED"
                           /\ row.expiry = None \/ row.expiry > now

Live(row, now) == /\ row.status = "LOCKED"
                  /\ row.expiry # None
                  /\ row.expiry > now

\* A dashboard hold: a lock that belongs to a staff user and never expires.
IsHold(row) == row.status = "LOCKED" /\ row.holder # None

IsHoldOf(row, u) == row.status = "LOCKED" /\ row.holder = u

-----------------------------------------------------------------------------
\* What the sweep inside the public transactions writes: expiry and holder
\* columns are left as they are.
Swept(row) == Row("CANCELLED", None, row.expiry, row.holder)

\* The sweep of every lapsed lock of the trip, linked to a booking or not,
\* that opens BookingsService.create and confirmBooking.
Sweep(rs, now) ==
  [s \in Seats |-> IF Lapsed(rs[s], now) THEN Swept(rs[s]) ELSE rs[s]]

\* Mutant of Orphaned: null and not-null mixed up in the cleanup's filter.
OrphanedIfLinked(row, now) == Lapsed(row, now) /\ row.booking # None

\* The dashboard's sweep and the cleanup cron only touch unlinked rows.
Orphaned(row, now) == Lapsed(row, now) /\ row.booking = None

\* The sweep that opens lockSeatsForDashboard: it also clears the holder.
SweepOrphans(rs, now) ==
  [s \in Seats |-> IF Orphaned(rs[s], now)
                   THEN Row("CANCELLED", None, rs[s].expiry, None)
                   ELSE rs[s]]

\* The rows whose bookingId is one of B.
SeatsOf(rs, B) == {s \in Seats : rs[s].booking \in B}

\* Mutant of Release: reserved rows are forgotten.
ReleaseLockedOnly(rs, B) ==
  [s \in Seats |-> IF rs[s].booking \in B /\ rs[s].status = "LOCKED"
                   THEN Row("CANCELLED", None, None, rs[s].holder)
                   ELSE rs[s]]

\* Releases every row of the bookings B, keeping the rows for recycling.
Release(rs, B) ==
  [s \in Seats |-> IF rs[s].booking \in B
                   THEN Row("CANCELLED", None, None, rs[s].holder)
                   ELSE rs[s]]
=============================================================================
