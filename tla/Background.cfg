SPECIFICATION BackgroundSpec
CONSTANTS
  Parts = {"schedule", "shutdown", "bus", "idle", "saga"}
  Users = {u1}
  Courts = {c1}
  Ranges <- MCOneRange
  HoldIds = {h1, h2}
  NoHold = NoHold
  NoBooking = NoBooking
  HoldDuration = 1
  MaxTime = 3
  ParallelRequests = FALSE
  Grounds = {g1, g2}
  WholeVenue = WholeVenue
  Orders = {o1}
  Slots = {s1}
  Nothing = Nothing
  Attempts = 2
  LastDay = 2
  Messages = {e1}
  Relays = {r1, r2}
  MaxCopies = 2
  MaxTasks = 4
  MaxFailures = 2
  SagaBookings = {b1}
  Intents = {i1}
  Transfers = {t1}
  NoIntent = NoIntent
  NoTransfer = NoTransfer
  NoRevenue = NoRevenue
  Price = 10
PROPERTIES
  HeldBookingsEnd
  ShutdownItemsEnd
  EventsArrive
  RequestsResume
  PaymentIsSettled
  FullRefundIsPaid
  PlayedRevenueIsReleased
CHECK_DEADLOCK FALSE
