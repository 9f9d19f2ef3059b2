SPECIFICATION Spec
CONSTANTS
  PersonalWallets = {p1}
  BusinessWallets = {b1}
  Requests = {r1}
  Transfers = {t1}
  NoRequest = NoRequest
  NoTransfer = NoTransfer
  NoEvent = NoEvent
  GrossAmounts <- MCGrossAmounts
  TransferAmounts <- MCTransferAmounts
  DailyFree = 100
  MaxEarned = 260
PROPERTY
  MoneySentIsNotReturned
CHECK_DEADLOCK FALSE
