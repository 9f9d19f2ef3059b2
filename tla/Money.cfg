SPECIFICATION MoneySpec
CONSTANTS
  Parts = {"withdrawals", "funding", "receipts"}
  PersonalWallets = {p1}
  BusinessWallets = {b1}
  Requests = {r1, r2}
  Transfers = {t1, t2}
  NoRequest = NoRequest
  NoTransfer = NoTransfer
  NoEvent = NoEvent
  GrossAmounts <- MCGrossAmounts
  TransferAmounts <- MCTransferAmounts
  DailyFree = 100
  MaxEarned = 260
  Joins = {j1, j2}
  Organizer = Organizer
  Commands = {k1, k2}
  None = None
  Sources = {"hold", "paid_booking"}
  Slots = 1
  FeePerSlot = 6
  OrganizerShare = 6
  BookingPrice = 10
  ResultReserve = 2
  MaxRequests = 3
  Receipts = {q1, q2}
  FeeIntents = {i1, i2}
  TopupIntents = {u1}
  NoCode = NoCode
  ContributionFee = 6
  ReceiptAmounts = {4, 7}
  OpeningBalance = 6
SYMMETRY MoneySymmetry
INVARIANTS
  ReceiptsAreBooked
  ReservedIsOwed
  RefundsAreAccepted
  PaidOrReturned
  WalletConserved
  ReserveIsOwed
  NoMoneyIsStranded
  ConfirmedCourtIsPaid
PROPERTIES
  CourtIsPurchased
CHECK_DEADLOCK FALSE
