------------------------------ MODULE SeatSync ------------------------------
(***************************************************************************)
(* One trip's seats on the server, and the seat map of one client.         *)
(*                                                                         *)
(* Some handlers broadcast the seats after their commit, others do not; a  *)
(* broadcast reads the rows anew and reaches the client if it is in the    *)
(* trip's room by then.  The client also fetches the trip every ten        *)
(* seconds.  Neither broadcasts nor responses keep their order.  What      *)
(* arrives is merged into the map; a seat is drawn as taken or available   *)
(* when the map changes.                                                   *)
(*                                                                         *)
(* The client's clock is the server's.  A step of the client is one task   *)
(* of the browser with the rendering it causes.                            *)
(***************************************************************************)
EXTENDS Integers

CONSTANTS
  Seats,
  Pushes,     \* snapshots that may be on their way to the client at once
  Fetches,    \* requests of the client that may be open at once
  SeatLock,   \* how long a lock lasts
  MaxTime,    \* bound of the clock
  None        \* the SQL null

ASSUME SyncAssumption == /\ SeatLock \in Nat
                         /\ MaxTime \in Nat
                         /\ None \notin Int

VARIABLES
  clock,
  rows,       \* rows[s]: the seat's row, as far as clients see it
  push,       \* push[p]: a snapshot for the client, Owed until it is read
  fetch,      \* fetch[q]: the response to a request
  joined,     \* the client is in the trip's room
  loaded,     \* the page has its trip
  shown,      \* tripData.bookingSeats
  realtime,   \* realtimeBookingSeatsRef
  drawnAt     \* when the seats were drawn last

server == <<clock, rows>>
page == <<loaded, shown, realtime, drawnAt>>
vars == <<clock, rows, push, fetch, joined, loaded, shown, realtime, drawnAt>>

-----------------------------------------------------------------------------
Row(status, expiry) == [status |-> status, expiry |-> expiry]

\* No row, or a cancelled one.
Free == Row("FREE", None)
Reserved == Row("RESERVED", None)
Locked(expiry) == Row("LOCKED", expiry)

Maps == [Seats -> [status : {"FREE", "LOCKED", "RESERVED"}, expiry : Nat \cup {None}]]

\* Nothing on its way, a broadcast whose rows are still to be read, and rows.
Message(stage, told) == [stage |-> stage, rows |-> told]

\* Mutant of Active: a lock counts however old it is.
ActiveForever(row, now) == row.status # "FREE" /\ now >= 0

\* getActiveBookingSeatsForTrip, isActiveBookingSeat: a lock without expiry (a
\* dashboard hold) is not active.
Active(row, now) == \/ row.status = "RESERVED"
                    \/ /\ row.status = "LOCKED"
                       /\ row.expiry # None
                       /\ row.expiry > now

\* What the server tells: the rows that are active.
Snapshot == [s \in Seats |-> IF Active(rows[s], clock) THEN rows[s] ELSE Free]

NoRows == [s \in Seats |-> Free]

Idle == Message("idle", NoRows)
Owed == Message("owed", NoRows)
Told(told) == Message("told", told)

Messages == [stage : {"idle", "owed", "told"}, rows : Maps]

\* Mutant of Merge: what came over the socket is not completed from the API.
MergeIgnoringApi(api, live) ==
  [s \in Seats |-> IF live # NoRows THEN live[s] ELSE api[s]]

\* mergeBookingSeatsSnapshots.
Merge(api, live) ==
  [s \in Seats |-> IF Active(live[s], clock) THEN live[s]
                   ELSE IF Active(api[s], clock) THEN api[s] ELSE Free]

\* buildSeatsWithState: computed when the map changes, not as time passes.
Taken(s) == loaded /\ Active(shown[s], drawnAt)

TypeOK == /\ clock \in Nat /\ drawnAt \in Nat
          /\ rows \in Maps
          /\ push \in [Pushes -> Messages]
          /\ fetch \in [Fetches -> Messages]
          /\ joined \in BOOLEAN /\ loaded \in BOOLEAN
          /\ shown \in Maps /\ realtime \in Maps

Init == /\ clock = 0 /\ drawnAt = 0
        /\ rows = NoRows
        /\ push = [p \in Pushes |-> Idle]
        /\ fetch = [q \in Fetches |-> Idle]
        /\ joined = FALSE /\ loaded = FALSE
        /\ shown = NoRows /\ realtime = NoRows

-----------------------------------------------------------------------------
(* Handlers that change seats.  Bookings are not modelled here, so what     *)
(* they allow of a booking's seats is left open.                           *)

\* broadcastTripSeats is called; it may fail or be switched off.
Broadcast == \/ \E p \in Pushes : push[p] = Idle /\ push' = [push EXCEPT ![p] = Owed]
             \/ UNCHANGED push

Silent == UNCHANGED push

Write(S, row) == /\ rows' = [s \in Seats |-> IF s \in S THEN row ELSE rows[s]]
                 /\ UNCHANGED <<clock, fetch, joined, loaded, shown, realtime, drawnAt>>

Lapsed(row) == /\ row.status = "LOCKED"
               /\ row.expiry # None
               /\ row.expiry < clock

Lockable(S) == \A s \in S : rows[s].status = "FREE" \/ Lapsed(rows[s])

\* BookingsService.create.
LockSeats(S) == /\ Lockable(S)
                /\ clock + SeatLock <= MaxTime
                /\ Write(S, Locked(clock + SeatLock))
                /\ Broadcast

\* lockSeatsForDashboard, releaseSeatsForDashboard.
HoldSeats(S) == Lockable(S) /\ Write(S, Locked(None)) /\ Broadcast

ReleaseHold(S) == /\ \A s \in S : rows[s] = Locked(None)
                  /\ Write(S, Free)
                  /\ Broadcast

\* confirmBooking: the lock gets the booking's deadline.
ConfirmBooking(S) == /\ \A s \in S : rows[s].status = "LOCKED" /\ Active(rows[s], clock)
                     /\ clock + SeatLock <= MaxTime
                     /\ Write(S, Locked(clock + SeatLock))
                     /\ Broadcast

\* handlePaymentSuccess, createStaffBooking, createManualBooking.
SellSeats(S) == /\ \A s \in S : rows[s].status # "RESERVED"
                /\ Write(S, Reserved)
                /\ Broadcast

\* createAdminBooking.
SellSeatsSilently(S) == /\ \A s \in S : rows[s].status # "RESERVED"
                        /\ Write(S, Reserved)
                        /\ Silent

\* cleanupExpiredLocks.
CleanUp(S) == /\ \A s \in S : Lapsed(rows[s])
              /\ Write(S, Free)
              /\ Broadcast

\* handlePaymentFailure, expireStalePendingBookings, cancelByAdmin, and a refund.
CloseBooking(S) == /\ \A s \in S : rows[s].status # "FREE" /\ rows[s] # Locked(None)
                   /\ Write(S, Free)
                   /\ Silent

-----------------------------------------------------------------------------
(* Snapshots on their way                                                  *)

\* broadcastTripSeats and handleJoinTrip read the rows.
ReadSeats(p) == /\ push[p] = Owed
                /\ push' = [push EXCEPT ![p] = Told(Snapshot)]
                /\ UNCHANGED <<server, fetch, joined, page>>

\* The read failed, or the message found the client out of the room.
LosePush(p) == /\ push[p] # Idle
               /\ push' = [push EXCEPT ![p] = Idle]
               /\ UNCHANGED <<server, fetch, joined, page>>

\* handleJoinTrip: first the room, then a snapshot of its own.
JoinTrip == /\ ~joined
            /\ joined' = TRUE
            /\ Broadcast
            /\ UNCHANGED <<server, fetch, page>>

\* leaveTrip, a lost connection.
LeaveTrip == /\ joined
             /\ joined' = FALSE
             /\ UNCHANGED <<server, push, fetch, page>>

\* findOneWithSeats, for the first load and for every poll.
FetchTrip(q) == /\ fetch[q] = Idle
                /\ fetch' = [fetch EXCEPT ![q] = Told(Snapshot)]
                /\ UNCHANGED <<server, push, joined, page>>

FetchFailed(q) == /\ fetch[q] # Idle
                  /\ fetch' = [fetch EXCEPT ![q] = Idle]
                  /\ UNCHANGED <<server, push, joined, page>>

-----------------------------------------------------------------------------
(* The client                                                              *)

\* onSeatsUpdated.
SeatsUpdated(p) ==
  LET merged == Merge(shown, push[p].rows)
  IN /\ joined
     /\ push[p].stage = "told"
     /\ realtime' = merged
     /\ shown' = IF loaded THEN merged ELSE shown
     /\ drawnAt' = clock
     /\ push' = [push EXCEPT ![p] = Idle]
     /\ UNCHANGED <<server, fetch, joined, loaded>>

\* Mutant of TripFetched: the response replaces the map.
TripFetchedAsIs(q) == /\ fetch[q] # Idle
                      /\ shown' = fetch[q].rows
                      /\ loaded' = TRUE
                      /\ drawnAt' = clock
                      /\ fetch' = [fetch EXCEPT ![q] = Idle]
                      /\ UNCHANGED <<server, push, joined, realtime>>

\* fetchTripDetails, when the response is there.
TripFetched(q) == /\ fetch[q] # Idle
                  /\ shown' = Merge(fetch[q].rows, realtime)
                  /\ loaded' = TRUE
                  /\ drawnAt' = clock
                  /\ fetch' = [fetch EXCEPT ![q] = Idle]
                  /\ UNCHANGED <<server, push, joined, realtime>>

Tick == /\ clock < MaxTime
        /\ clock' = clock + 1
        /\ UNCHANGED <<rows, push, fetch, joined, page>>

-----------------------------------------------------------------------------
Handlers == \E S \in SUBSET Seats \ {{}} :
              \/ LockSeats(S) \/ HoldSeats(S) \/ ReleaseHold(S) \/ ConfirmBooking(S)
              \/ SellSeats(S) \/ SellSeatsSilently(S) \/ CleanUp(S) \/ CloseBooking(S)

Network == \/ \E p \in Pushes : ReadSeats(p) \/ LosePush(p)
           \/ \E q \in Fetches : FetchTrip(q) \/ FetchFailed(q)
           \/ JoinTrip \/ LeaveTrip

Client == \/ \E p \in Pushes : SeatsUpdated(p)
          \/ \E q \in Fetches : TripFetched(q)

Next == Handlers \/ Network \/ Client \/ Tick

Spec == Init /\ [][Next]_vars

\* The page polls as long as it is open, its requests do not fail every time,
\* and time passes.  Nothing is assumed of the socket or of the handlers.
Fairness == /\ WF_vars(Tick)
            /\ WF_vars(\E q \in Fetches : FetchTrip(q))
            /\ \A q \in Fetches : SF_vars(TripFetched(q))

LiveSpec == Spec /\ Fairness

-----------------------------------------------------------------------------
(* What holds                                                              *)

\* "in-flight fetches do not wipe locks that arrived over WebSocket first"
\* (mergeBookingSeatsSnapshots): a seat the socket has told about, before or
\* after the page was loaded, is drawn as taken while its row is active,
\* whatever old response arrives after it.
PushedIsTaken ==
  loaded => \A s \in Seats : Active(realtime[s], clock) => Taken(s)

\* A seat sold for good is drawn as taken from some time on, also if every
\* broadcast gets lost and responses overtake each other.
SoldIsTakenAtLast ==
  \A s \in Seats : <>[](rows[s].status = "RESERVED") => <>[]Taken(s)

\* A seat that was only ever locked is drawn as available some time after its last
\* lock has lapsed, with or without a message about it.
LapsedIsFreeAtLast ==
  \A s \in Seats :
    [](rows[s].status # "RESERVED") /\ <>[](~Active(rows[s], clock))
      => <>[](loaded /\ ~Taken(s))

\* The inductive invariant behind PushedIsTaken: the map has what came over the
\* socket, row by row, and has been drawn since.
IInv == /\ TypeOK
        /\ drawnAt <= clock
        /\ loaded => \A s \in Seats :
                       Active(realtime[s], clock) => shown[s] = realtime[s]

=============================================================================
