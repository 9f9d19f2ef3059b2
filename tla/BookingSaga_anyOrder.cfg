SPECIFICATION Spec
CONSTANTS
  Bookings = {b1}
  Intents = {i1, i2}
  Transfers = {t1, t2}
  NoIntent = NoIntent
  NoTransfer = NoTransfer
  NoRevenue = NoRevenue
  Price = 10
  Amounts <- MCAmounts
  PartialRefunds <- MCPartialRefunds
  InOrder = FALSE
  BeforeEnd = FALSE
SYMMETRY Symmetry
INVARIANTS
  MoneyConserved
  RevenueConserved
  DisputedRevenueIsHeld
CHECK_DEADLOCK FALSE
