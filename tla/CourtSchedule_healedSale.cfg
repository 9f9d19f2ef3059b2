SPECIFICATION Spec
CONSTANTS
  Users = {u1}
  Courts = {c1}
  Ranges <- MCOneRange
  HoldIds = {h1}
  NoHold = NoHold
  NoBooking = NoBooking
  HoldDuration = 1
  MaxTime = 3
  ParallelRequests = FALSE
PROPERTY
  ConfirmedLeavesWithReason
CHECK_DEADLOCK FALSE
