SPECIFICATION FairNamingSpec
CONSTANTS
  Member = {1, 2}
  Pro = {3, 4}
  Admin = {5}
  IntMax = 6
  MaxTime = 1
  FirstId = 6
  Proc = {p1}
  Names = {"a", "b", "c"}
  NameOf <- UserNames
  HasPassword = {1, 3, 4, 5}
  PageInbox = 2
  Leavers = {1, 3}
  Movers = {1, 3}
  NewNames = {"c"}
  Blockable <- Blocked
  Bannable = {1}
  BlockTimes = {0}
  Requests <- IdentityRequests
INVARIANTS
  RootNeedsNoDatabase
  ActsIdentified
  NoNamesakePassedOver
PROPERTIES
  ImplementsService
  EveryActionEnds
CHECK_DEADLOCK FALSE
