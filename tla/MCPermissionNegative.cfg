CONSTANTS
  Principals = {alice, bob}
  FeedIds <- MCFeedIds
  MaskLists <- MCMaskLists
  Enumerables <- MCNegativeEnumerables
  EnumValues = {0, 1, 2}
  NoRecord = NoRecord
SPECIFICATION Spec
PROPERTIES ImplementsPermissionSpec
