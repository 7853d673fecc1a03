SPECIFICATION Spec
CONSTANTS
  Member = {1}
  Pro = {2}
  Admin = {}
  IntMax = 4
  MaxTime = 1
  FirstId = 3
  Proc = {p1}
  Names = {"a", "b"}
  NameOf <- UserNames
  HasPassword = {1, 2}
  PageInbox = 2
  Leavers = {1}
  Movers = {1}
  NewNames = {"a"}
  Blockable <- Blocked
  Bannable = {1}
  BlockTimes = {0, 2}
  Requests <- Sends
PROPERTY
  BlockDecides
CHECK_DEADLOCK FALSE
