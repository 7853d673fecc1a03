SPECIFICATION ProgramSpec
CONSTANTS
  c1 = c1
  c2 = c2
  c3 = c3
  a1 = a1
  a2 = a2
  Client = {c1, c2, c3}
  Address = {a1, a2}
  AddressOf <- Addresses
  Size <- Sizes
  BufSize = 2
  Chunks = 2
  Backlog = 1
  Minute = 2
  Hour = 3
  RateLimitM = 1
  RateLimitH = 2
  MaxTime = 1
  None = None
  CommandLines <- Lines
  MaxActions = 2
INVARIANTS
  RateLimited
CHECK_DEADLOCK FALSE
