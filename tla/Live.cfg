SPECIFICATION LiveSpec
CONSTANTS
  Seats = {s1}
  Bookings = {b1, b2}
  Passengers = {p1}
  Staff = {a1}
  None = None
  SeatLock = 1
  PaymentWindow = 1
  MaxSeatsPerUser = 1
  TxLag = 1
  MaxInflight = 1
  MaxTime = 3
PROPERTIES
  LapsedLockReleased
  OverdueBookingCloses
