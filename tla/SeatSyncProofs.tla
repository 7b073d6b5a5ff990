--------------------------- MODULE SeatSyncProofs ---------------------------
(***************************************************************************)
(* What the socket has told is drawn, for any seats, any number of         *)
(* messages and requests on their way, and any durations.                  *)
(***************************************************************************)
EXTENDS SeatSync, TLAPS

\* A snapshot, a merged map and a written row are maps again.
LEMMA MapsClosed ==
  /\ NoRows \in Maps
  /\ rows \in Maps => Snapshot \in Maps
  /\ \A api, live \in Maps : Merge(api, live) \in Maps
BY DEF NoRows, Snapshot, Merge, Maps, Free, Row

\* Where the socket's row is active, merging keeps it.
LEMMA MergeKeepsLive ==
  ASSUME NEW api, NEW live, NEW s \in Seats, Active(live[s], clock)
  PROVE  Merge(api, live)[s] = live[s]
BY DEF Merge

\* A row that is active later was active before.
LEMMA ActiveBefore ==
  ASSUME NEW map \in Maps, NEW s \in Seats, NEW now \in Nat, NEW past \in Nat, past <= now,
         Active(map[s], now)
  PROVE  Active(map[s], past)
<1>1. map[s].expiry \in Nat \cup {None}
  BY DEF Maps
<1>2. CASE map[s].status = "RESERVED"
  BY <1>2 DEF Active
<1>3. CASE map[s].status # "RESERVED"
  <2>1. map[s].status = "LOCKED" /\ map[s].expiry # None /\ map[s].expiry > now
    BY <1>3 DEF Active
  <2>2. map[s].expiry > past
    BY <1>1, <2>1
  <2> QED BY <2>1, <2>2 DEF Active
<1> QED BY <1>2, <1>3

LEMMA InitIInv == Init => IInv
<1> SUFFICES ASSUME Init PROVE IInv
  OBVIOUS
<1>1. Idle \in Messages
  BY MapsClosed DEF Idle, Message, Messages
<1>2. TypeOK
  BY <1>1, MapsClosed DEF Init, TypeOK
<1> QED BY <1>2 DEF Init, IInv

\* A handler changes rows and owes a message at most.
LEMMA HandlersIInv == IInv /\ Handlers => IInv'
<1> SUFFICES ASSUME IInv, Handlers PROVE IInv'
  OBVIOUS
<1> USE SyncAssumption
<1> DEFINE Wrote(S, row) == Write(S, row) /\ (Broadcast \/ Silent)
<1>1. PICK S \in SUBSET Seats : \E row \in [status : {"FREE", "LOCKED", "RESERVED"},
                                            expiry : Nat \cup {None}] : Wrote(S, row)
  <2>1. clock \in Nat /\ clock + SeatLock \in Nat
    BY DEF IInv, TypeOK
  <2>2. /\ Free \in [status : {"FREE", "LOCKED", "RESERVED"}, expiry : Nat \cup {None}]
        /\ Reserved \in [status : {"FREE", "LOCKED", "RESERVED"}, expiry : Nat \cup {None}]
        /\ Locked(None) \in [status : {"FREE", "LOCKED", "RESERVED"}, expiry : Nat \cup {None}]
        /\ Locked(clock + SeatLock)
             \in [status : {"FREE", "LOCKED", "RESERVED"}, expiry : Nat \cup {None}]
    BY <2>1 DEF Free, Reserved, Locked, Row
  <2>3. PICK S \in SUBSET Seats :
          \/ LockSeats(S) \/ HoldSeats(S) \/ ReleaseHold(S) \/ ConfirmBooking(S)
          \/ SellSeats(S) \/ SellSeatsSilently(S) \/ CleanUp(S) \/ CloseBooking(S)
    BY DEF Handlers
  <2>4. \/ Wrote(S, Free) \/ Wrote(S, Reserved)
        \/ Wrote(S, Locked(None)) \/ Wrote(S, Locked(clock + SeatLock))
    BY <2>3 DEF LockSeats, HoldSeats, ReleaseHold, ConfirmBooking, SellSeats,
                SellSeatsSilently, CleanUp, CloseBooking
  <2> QED BY <2>2, <2>4
<1>2. PICK row \in [status : {"FREE", "LOCKED", "RESERVED"},
                    expiry : Nat \cup {None}] : Wrote(S, row)
  BY <1>1
<1>3. rows' \in Maps
  BY <1>2 DEF Write, IInv, TypeOK, Maps
<1>4. push' \in [Pushes -> Messages]
  <2>1. Owed \in Messages
    BY MapsClosed DEF Owed, Message, Messages
  <2> QED BY <1>2, <2>1 DEF Broadcast, Silent, IInv, TypeOK
<1>5. UNCHANGED <<clock, fetch, joined, loaded, shown, realtime, drawnAt>>
  BY <1>2 DEF Write
<1>6. TypeOK'
  BY <1>3, <1>4, <1>5 DEF IInv, TypeOK
<1> QED BY <1>5, <1>6 DEF IInv, Active

\* Messages and requests on their way leave the page as it is.
LEMMA NetworkIInv == IInv /\ Network => IInv'
<1> SUFFICES ASSUME IInv, Network PROVE IInv'
  OBVIOUS
<1>1. UNCHANGED <<server, page>>
  BY DEF Network, ReadSeats, LosePush, FetchTrip, FetchFailed, JoinTrip, LeaveTrip
<1>2. /\ Idle \in Messages /\ Owed \in Messages /\ Told(Snapshot) \in Messages
  BY MapsClosed DEF Idle, Owed, Told, Message, Messages, IInv, TypeOK
<1>3. push' \in [Pushes -> Messages]
  BY <1>2 DEF Network, ReadSeats, LosePush, FetchTrip, FetchFailed, JoinTrip, LeaveTrip,
              Broadcast, IInv, TypeOK
<1>4. fetch' \in [Fetches -> Messages]
  BY <1>2 DEF Network, ReadSeats, LosePush, FetchTrip, FetchFailed, JoinTrip, LeaveTrip,
              Broadcast, IInv, TypeOK
<1>5. joined' \in BOOLEAN
  BY DEF Network, ReadSeats, LosePush, FetchTrip, FetchFailed, JoinTrip, LeaveTrip,
         IInv, TypeOK
<1>6. TypeOK'
  BY <1>1, <1>3, <1>4, <1>5 DEF server, page, IInv, TypeOK
<1> QED BY <1>1, <1>6 DEF server, page, IInv, Active

\* A message makes map and ref the same.
LEMMA SeatsUpdatedIInv ==
  ASSUME IInv, NEW p \in Pushes, SeatsUpdated(p)
  PROVE  IInv'
<1>1. push[p].rows \in Maps
  BY DEF IInv, TypeOK, Messages
<1>2. PICK merged \in Maps : merged = Merge(shown, push[p].rows)
  BY <1>1, MapsClosed DEF IInv, TypeOK
<1>3. Idle \in Messages
  BY MapsClosed DEF Idle, Message, Messages
<1>4. /\ realtime' = merged /\ shown' = IF loaded THEN merged ELSE shown
      /\ drawnAt' = clock /\ clock' = clock
      /\ push' = [push EXCEPT ![p] = Idle]
      /\ UNCHANGED <<rows, fetch, joined, loaded>>
  BY <1>2 DEF SeatsUpdated, server
<1>5. TypeOK'
  BY <1>2, <1>3, <1>4 DEF IInv, TypeOK
<1> QED BY <1>4, <1>5 DEF IInv, TypeOK, Active

\* A response is merged below what the socket has told.
LEMMA TripFetchedIInv ==
  ASSUME IInv, NEW q \in Fetches, TripFetched(q)
  PROVE  IInv'
<1>1. fetch[q].rows \in Maps
  BY DEF IInv, TypeOK, Messages
<1>2. PICK merged \in Maps : merged = Merge(fetch[q].rows, realtime)
  BY <1>1, MapsClosed DEF IInv, TypeOK
<1>3. Idle \in Messages
  BY MapsClosed DEF Idle, Message, Messages
<1>4. /\ shown' = merged /\ loaded' = TRUE
      /\ drawnAt' = clock /\ clock' = clock
      /\ fetch' = [fetch EXCEPT ![q] = Idle]
      /\ UNCHANGED <<rows, push, joined, realtime>>
  BY <1>2 DEF TripFetched, server
<1>5. TypeOK'
  BY <1>2, <1>3, <1>4 DEF IInv, TypeOK
<1>6. ASSUME NEW s \in Seats, Active(realtime[s], clock)
      PROVE  merged[s] = realtime[s]
  BY <1>2, <1>6, MergeKeepsLive
<1> QED BY <1>4, <1>5, <1>6 DEF IInv, TypeOK, Active

LEMMA TickIInv == IInv /\ Tick => IInv'
<1> SUFFICES ASSUME IInv, Tick PROVE IInv'
  OBVIOUS
<1>1. /\ clock \in Nat /\ clock' = clock + 1
      /\ UNCHANGED <<rows, push, fetch, joined, loaded, shown, realtime, drawnAt>>
  BY DEF Tick, page, IInv, TypeOK
<1>2. PICK now \in Nat : now = clock /\ clock' = now + 1
  BY <1>1
<1>3. PICK live \in Maps : live = realtime /\ realtime' = live
  BY <1>1 DEF IInv, TypeOK
<1>4. TypeOK' /\ (drawnAt <= clock)'
  BY <1>1 DEF IInv, TypeOK
<1>5. ASSUME NEW s \in Seats, Active(live[s], now + 1)
      PROVE  Active(live[s], now)
  BY <1>5, ActiveBefore
<1>6. (loaded => \A s \in Seats : Active(realtime[s], clock) => shown[s] = realtime[s])'
  BY <1>1, <1>2, <1>3, <1>5 DEF IInv
<1> QED BY <1>4, <1>6 DEF IInv

\* The inductive invariant: TypeOK, and the map has what came over the socket.
THEOREM SyncInvariance == Spec => []IInv
<1>1. IInv /\ [Next]_vars => IInv'
  <2> SUFFICES ASSUME IInv, [Next]_vars PROVE IInv'
    OBVIOUS
  <2>1. CASE Handlers
    BY <2>1, HandlersIInv
  <2>2. CASE Network
    BY <2>2, NetworkIInv
  <2>3. CASE Client
    BY <2>3, SeatsUpdatedIInv, TripFetchedIInv DEF Client
  <2>4. CASE Tick
    BY <2>4, TickIInv
  <2>5. CASE UNCHANGED vars
    BY <2>5 DEF vars, IInv, TypeOK, Active
  <2> QED BY <2>1, <2>2, <2>3, <2>4, <2>5 DEF Next
<1> QED BY <1>1, InitIInv, PTL DEF Spec

\* Server rows, messages, responses and the page's maps keep their shapes.
THEOREM SyncTypeCorrect == Spec => []TypeOK
<1>1. IInv => TypeOK
  BY DEF IInv
<1> QED BY <1>1, SyncInvariance, PTL

\* mergeBookingSeatsSnapshots: what the socket has told is drawn as taken as long
\* as it is active, whatever responses come in after it.
THEOREM PushedSeatsAreTaken == Spec => []PushedIsTaken
<1>1. IInv => PushedIsTaken
  <2> SUFFICES ASSUME IInv, loaded, NEW s \in Seats, Active(realtime[s], clock)
               PROVE  Taken(s)
    BY DEF PushedIsTaken
  <2>1. PICK now \in Nat, past \in Nat : now = clock /\ past = drawnAt /\ past <= now
    BY DEF IInv, TypeOK
  <2>2. PICK map \in Maps : map = shown
    BY DEF IInv, TypeOK
  <2>3. Active(map[s], now)
    BY <2>1, <2>2 DEF IInv
  <2>4. Active(map[s], past)
    BY <2>1, <2>3, ActiveBefore
  <2> QED BY <2>1, <2>2, <2>4 DEF Taken
<1> QED BY <1>1, SyncInvariance, PTL
=============================================================================
