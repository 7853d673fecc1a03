SPECIFICATION NamingSpec
CONSTANTS
  Member = {1, 2}
  Pro = {3, 4}
  Admin = {5}
  IntMax = 6
  MaxTime = 1
  FirstId = 6
  Proc = {p1, p2}
  Names = {"a", "b", "c"}
  NameOf <- UserNames
  HasPassword = {1, 3, 4, 5}
  PageInbox = 2
  Leavers = {1, 3}
  Movers = {1, 3}
  NewNames = {"c"}
  Blockable <- Blocked
  Bannable = {}
  BlockTimes = {0}
  Requests <- AdmissionRequests
INVARIANT
  LetsInOne
CHECK_DEADLOCK FALSE
