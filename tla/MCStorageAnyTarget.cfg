CONSTANTS
  Feeds <- MCFeeds
  Values = {10, 20}
  Timestamps = {1}
  AddTargets <- MCAnyTargets
  NoTarget = NoTarget
  NoFeed = NoFeed
  NoObs = NoObs
  MaxSlots = 3
  MaxVersion = 1
  ReuseFreeSlotsOnly = FALSE
SPECIFICATION Spec
INVARIANTS ReadsInBounds
