CONSTANTS
  Feeds <- MCFeedsTwoSpellings
  Values = {10, 20}
  Timestamps = {1}
  AddTargets <- MCAddTargets
  NoTarget = NoTarget
  NoFeed = NoFeed
  NoObs = NoObs
  MaxSlots = 3
  MaxVersion = 1
  ReuseFreeSlotsOnly = TRUE
SPECIFICATION Spec

PROPERTIES ImplementsStorageSpec
