SPECIFICATION Spec
CONSTANTS
  Buses = {b1, b2}
  Departures = {d1, d2}
  Copies = 2
  Sizes = {economy, business}
  NoSize = NoSize
  Workers = {w1, w2}
  MaxRequests = 2
  NoBus = NoBus
  NoTrip = NoTrip
  NoDeparture = NoDeparture
  FirstBus = b1
  FirstDeparture = d1
  FirstSize = economy
SYMMETRY WorkersAlike
INVARIANT CancelledTripsAreUnsold
CHECK_DEADLOCK FALSE
