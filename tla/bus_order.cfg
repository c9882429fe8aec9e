CONSTANTS
  m1 = m1
  m2 = m2
  T1 = T1
  T2 = T2
  Client = {a, b}
  NHandlers = 2
  Msg = {m1, m2}
  Type = {T1}
  TypeOf <- OneType
  StringMsg = {m2}
  Throwing = {}
  Reply <- Answer
  Kinds = {"On", "OnType"}
  Calls = {}
  MaxStarts = 1
  nil = nil
SPECIFICATION Spec
INVARIANTS SameOrder EventAccounted
CHECK_DEADLOCK FALSE
