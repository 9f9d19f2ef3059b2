SPECIFICATION Spec
CONSTANTS
  Users = {u1, u2}
  Courts = {c1, c2}
  Ranges <- MCOneRange
  HoldIds = {h1, h2, h3}
  NoHold = NoHold
  NoBooking = NoBooking
  HoldDuration = 1
  MaxTime = 3
  ParallelRequests = TRUE
SYMMETRY Symmetry
INVARIANT
  OnePayerPerSlot
CHECK_DEADLOCK FALSE
