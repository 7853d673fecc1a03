SPECIFICATION Spec
CONSTANTS
  Member = {1}
  Pro = {2}
  Admin = {}
  IntMax = 4
  MaxTime = 1
  FirstId = 3
  Proc = {p1, p2}
  Names = {"a", "b"}
  NameOf <- UserNames
  HasPassword = {1, 2}
  PageInbox = 2
  Leavers = {1}
  Movers = {1}
  NewNames = {"a"}
  Blockable <- Blocked
  Bannable = {}
  BlockTimes = {0}
  Requests <- SendRequests
INVARIANTS
  TypeOK
  ReferentialIntegrity
  NoSelfMessage
  UniqueIds
  SentByWhoAsked
  SendAnswersItsRow
  RefusalStoresNothing
CHECK_DEADLOCK FALSE
SYMMETRY Symmetry
