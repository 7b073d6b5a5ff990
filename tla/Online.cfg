SPECIFICATION OnlineSpec
CONSTANTS
  Seats = {s1, s2}
  Bookings = {b1, b2}
  Passengers = {p1, p2}
  Staff = {}
  None = None
  SeatLock = 1
  PaymentWindow = 2
  MaxSeatsPerUser = 1
  TxLag = 1
  MaxInflight = 2
  MaxTime = 3
SYMMETRY Symmetry
INVARIANTS
  ReservedBacked
  LinkedLockBacked
  PassengerSeatLimit
  OnlineConfirmedIsPaid
PROPERTIES
  SellsSeats
CHECK_DEADLOCK FALSE
