SPECIFICATION LiveSpec
CONSTANTS
  Seats = {s1}
  Pushes = {p1, p2}
  Fetches = {q1, q2}
  SeatLock = 1
  MaxTime = 2
  None = None
INVARIANTS
  PushedIsTaken
PROPERTIES
  SoldIsTakenAtLast
  LapsedIsFreeAtLast
