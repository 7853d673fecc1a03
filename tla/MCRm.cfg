SPECIFICATION PagingSpec
CONSTANTS
  Member = {1}
  Pro = {2}
  Admin = {}
  IntMax = 3
  MaxTime = 1
  FirstId = 1
  Proc = {p1, p2}
  Names = {"a", "b"}
  NameOf <- UserNames
  HasPassword = {1, 2}
  PageInbox = 2
  Leavers = {1}
  Movers = {}
  NewNames = {}
  Blockable = {}
  Bannable = {}
  BlockTimes = {}
  Requests <- RmRequests
  Reader = 2
INVARIANTS
  RmAnswersTruth
  InboxIsOwn
  MissedOnlyForGone
PROPERTIES
  ImplementsService
  RowsOnlyFade
SYMMETRY Symmetry
