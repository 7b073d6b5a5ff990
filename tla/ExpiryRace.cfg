SPECIFICATION OnlineSpec
CONSTANTS
  Seats = {s1}
  Bookings = {b1, b2}
  Passengers = {p1}
  Staff = {}
  None = None
  SeatLock = 1
  PaymentWindow = 3
  MaxSeatsPerUser = 1
  TxLag = 2
  MaxInflight = 1
  MaxTime = 5
INVARIANT ExpiredIsUnpaid
CHECK_DEADLOCK FALSE
