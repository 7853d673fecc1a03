SPECIFICATION ChatFairSpec
CONSTANTS
  m1 = m1
  m2 = m2
  m3 = m3
  m4 = m4
  other = other
  here = here
  there = there
  Client = {m1, m2, m3, m4, other}
  Address = {here, there}
  AddressOf <- Addresses
  Size <- Sizes
  BufSize = 2
  Chunks = 1
  Backlog = 0
  Minute = 2
  Hour = 3
  RateLimitM = 1
  RateLimitH = 2
  MaxTime = 0
  None = None
  Mine <- Requests
  Inputs <- Typed
  Garbage = {1, 14}
INVARIANTS
  RequestsAccounted
  LostOnlyWithServer
  SocketsReturned
PROPERTY
  EndsWithInput
CHECK_DEADLOCK FALSE
