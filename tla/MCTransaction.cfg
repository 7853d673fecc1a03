SPECIFICATION FairSpec
CONSTANTS
  p1 = p1
  p2 = p2
  r1 = r1
  r2 = r2
  Proc = {p1, p2}
  Row = {r1, r2}
  MaxCommands = 2
  MaxCalls = 2
  NoRow = NoRow
INVARIANTS
  TypeOK
  AllOrNothing
  StoredIfApproved
  OkIsStored
PROPERTY
  EveryCallReturns
CHECK_DEADLOCK FALSE
