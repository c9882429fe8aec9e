CONSTANTS
  m1 = m1
  m2 = m2
  T1 = T1
  T2 = T2
  Client = {a}
  NHandlers = 1
  Msg = {m1, m2}
  Type = {T1}
  TypeOf <- OneType
  StringMsg = {}
  Throwing = {}
  Reply <- NoReply
  Kinds = {"On"}
  Calls = {"Stop"}
  MaxStarts = 1
  nil = nil
SPECIFICATION FairSpec
PROPERTIES StopReturns
CHECK_DEADLOCK FALSE
