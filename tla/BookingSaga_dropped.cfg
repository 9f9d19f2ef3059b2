SPECIFICATION Spec
CONSTANTS
  Bookings = {b1}
  Intents = {i1}
  Transfers = {t1}
  NoIntent = NoIntent
  NoTransfer = NoTransfer
  NoRevenue = NoRevenue
  Price = 10
  Amounts <- ExactAmount
  PartialRefunds <- MCPartialRefunds
  InOrder = TRUE
  BeforeEnd = TRUE
SYMMETRY Symmetry
INVARIANT
  NoPaymentDropped
CHECK_DEADLOCK FALSE
