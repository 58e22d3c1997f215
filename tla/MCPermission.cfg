CONSTANTS
  Principals = {alice, bob}
  FeedIds <- MCFeedIds
  MaskLists <- MCMaskLists
  Enumerables <- MCEnumerables
  EnumValues = {0, 1, 2}
  NoRecord = NoRecord
SPECIFICATION Spec
PROPERTIES ImplementsPermissionSpec
