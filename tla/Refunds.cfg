SPECIFICATION Spec
CONSTANTS
  Requests = {r1, r2}
  Refs = {g1, g2}
  Handlers = {h1, h2}
  Lefts <- MCTwoSums
  SslChoices = {TRUE, FALSE}
  LateFailures = FALSE
  None = None
SYMMETRY Symmetry
INVARIANTS
  AtMostOneApproved
PROPERTIES
  GivesBackOnce
CHECK_DEADLOCK FALSE
