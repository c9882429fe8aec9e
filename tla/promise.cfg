CONSTANTS
  Thread = {a, b}
  Prom = {p, q}
  Fut = {f, g}
  ThenCb = {c1, c2}
  FailCb = {d1}
  Reentrant = {c2}
  Fragile = {p}
  MaxMoves = 2
  nil = nil
SPECIFICATION FairSpec
INVARIANTS LastCallbackCalled OneSide ValueInOnePlace
PROPERTIES SettledOnce CallsReturn
CHECK_DEADLOCK FALSE
