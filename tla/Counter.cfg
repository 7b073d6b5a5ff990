SPECIFICATION Spec
CONSTANTS
  Seats = {s1, s2}
  Bookings = {b1, b2}
  Passengers = {p1}
  Staff = {a1, a2}
  None = None
  SeatLock = 1
  PaymentWindow = 1
  MaxSeatsPerUser = 1
  TxLag = 1
  MaxInflight = 1
  MaxTime = 2
SYMMETRY Symmetry
INVARIANTS
  HoldShape
PROPERTIES
  LiveLockOnlyConfirmed
  HoldNeverRelocked
