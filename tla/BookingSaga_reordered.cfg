SPECIFICATION FairSpec
CONSTANTS
  Bookings = {b1}
  Intents = {i1}
  Transfers = {t1}
  NoIntent = NoIntent
  NoTransfer = NoTransfer
  NoRevenue = NoRevenue
  Price = 10
  Amounts <- ExactAmount
  PartialRefunds <- MCPartialRefunds
  InOrder = FALSE
  BeforeEnd = TRUE
PROPERTY
  FullRefundIsPaid
CHECK_DEADLOCK FALSE
