SPECIFICATION Spec
CONSTANTS
  Users = {u1, u2}
  Courts = {c1, c2}
  Ranges <- MCRanges
  HoldIds = {h1, h2}
  NoHold = NoHold
  NoBooking = NoBooking
  HoldDuration = 1
  MaxTime = 4
  ParallelRequests = FALSE
SYMMETRY Symmetry
INVARIANTS
  PayableBookingKeepsItsHold
  OnePayerPerSlot
  PaidInTimeIsNeverExcluded
  NoDoubleSale
CHECK_DEADLOCK FALSE
