CONSTANTS
  Sizes = {0, 1, 3}
  MaxCount = 3
  MaxMsgs = 9
  MaxFaults = 3
  Object = {p, q}
  a = a
  b = b
  Byte = {a, b}
  Payload <- Payloads
  zero = zero
  junk = junk
  nil = nil
  W = 7
  MaxObject = 3
  MaxBlocks = 3
  Ctx = {x}
  MaxOpens = 2
  MaxStmts = 2
  MaxRows = 1
  Char = {a, b}
  Space = {b}
  Wide = {a}
  High = {h}
  MaxText = 5
  MaxPat = 2
  MaxLen = 12
  nul = nul
SPECIFICATION PartSpec
INVARIANTS NothingClobbered LatestInOrder LatestKept CountBound
INVARIANTS BuffersOwned NoBadAccess
INVARIANTS SafeUntilReported
INVARIANTS ReplaceRight SplitRight TrimRight FromWstringRight
PROPERTIES StreamSpec Returns
