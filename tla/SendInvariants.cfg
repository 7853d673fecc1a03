SPECIFICATION Spec
CONSTANTS
  Member = {1, 3}
  Pro = {2}
  Admin = {}
  IntMax = 4
  MaxTime = 1
  FirstId = 3
  Proc = {p1}
  Names = {"a", "b", "c"}
  NameOf <- UserNames
  HasPassword = {1, 2, 3}
  PageInbox = 2
  Leavers = {1}
  Movers = {1}
  NewNames = {"a"}
  Blockable <- Blocked
  Bannable = {1}
  BlockTimes = {0, 2}
  Requests <- PeerRequests
INVARIANT
  SendKeepsOne
CHECK_DEADLOCK FALSE
