SPECIFICATION OnlineSpec
CONSTANTS
  Seats = {s1}
  Bookings = {b1, b2}
  Passengers = {p1, p2}
  Staff = {}
  None = None
  SeatLock = 1
  PaymentWindow = 2
  MaxSeatsPerUser = 1
  TxLag = 1
  MaxInflight = 1
  MaxTime = 3
INVARIANT NoDoubleBooking
CHECK_DEADLOCK FALSE
