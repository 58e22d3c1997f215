CONSTANTS
  Feeds <- MCWriterFeeds
  Values = {10}
  Timestamps = {1, 2}
  AddTargets <- MCAddTargets
  NoTarget = NoTarget
  NoFeed = NoFeed
  NoObs = NoObs
  NoValue = NoValue
  MaxSlots = 9
  MaxVersion = 0
  ReuseFreeSlotsOnly = TRUE
  InitialFeeds <- MCInitialFeeds
  Registrations <- MCRegistrations
  Requests <- MCRequests
  TsSentinel = 1
  RecursionLimit = 4
SPECIFICATION Spec
INVARIANTS ResultTimestampIsMinOfReads
