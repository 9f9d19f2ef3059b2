SPECIFICATION PlatformSpec
CONSTANTS
  Parts = {"shutdown", "bus", "idle", "results", "season", "accounts", "providers", "invites", "rules"}
  Grounds = {c1, c2}
  WholeVenue = WholeVenue
  Orders = {o1, o2}
  Slots = {s1}
  Nothing = Nothing
  Attempts = 2
  LastDay = 2
  Messages = {e1}
  Relays = {r1, r2}
  MaxCopies = 2
  MaxTasks = 4
  MaxFailures = 2
  TeamA = {"a1"}
  TeamB = {"b1", "b2"}
  Organizer = "a1"
  PaidBy <- MCPaidBy
  Nobody = "nobody"
  Contestants = {"p1", "p2", "p3"}
  Fixtures = {1, 2}
  Team <- MCTeam
  Newcomers = {"p3"}
  RankedOnes = {1, 2}
  EndAt <- MCEndAt
  Window <- MCWindow
  RepeatWindow = 2
  ClaimWindow = 1
  LastHour = 3
  Users = {"u1", "u2"}
  Admins = {"u1", "u2"}
  MaxChanges = 3
  MaxAdminCalls = 2
  Applicants = {"u1"}
  MaxAccountChanges = 2
  Players = {p1, p2}
  MaxRosterJoins = 3
  GamePoint = 3
  PointCap = 5
  MatchFormats = {"bo3", "bo5"}
SYMMETRY PlatformSymmetry
INVARIANTS
  SheetsAreThoseOfPlay
  CutoffIsKept
  EndedShutdownIsDone
  OneUnitOfWork
  OneFinalResult
  HardCasesNeedTheAdmin
  EarlyFinalIsAgreed
  RatedFarApart
  AwardsAreComplete
  AnAdminRemains
  CommunityFollowsTheAccount
  PaidJoinIsSeatedOrRefunded
PROPERTIES
  DeliveryIsKept
  NoResultIsSkipped
  UnlockNeverApproves
CHECK_DEADLOCK FALSE
