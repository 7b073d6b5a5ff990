SPECIFICATION Spec
CONSTANTS
  Requests = {r1, r2}
  Refs = {g1, g2}
  Handlers = {h1, h2}
  Lefts <- MCTwoSums
  SslChoices = {TRUE, FALSE}
  LateFailures = TRUE
  None = None
SYMMETRY Symmetry
INVARIANTS
  RefundedBookingClosed
  AmountsAgree
  BackedByGateway
PROPERTIES
  DecisionsStand
CHECK_DEADLOCK FALSE
