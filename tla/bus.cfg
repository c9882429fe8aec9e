CONSTANTS
  m1 = m1
  m2 = m2
  T1 = T1
  T2 = T2
  Client = {a}
  NHandlers = 1
  Msg = {m1, m2}
  Type = {T1, T2}
  TypeOf <- TwoTypes
  StringMsg = {m2}
  Throwing = {m2}
  Reply <- NoReply
  Kinds = {"On", "OnType"}
  Calls = {"Unsubscribe", "Cancel", "Clear", "Stop"}
  MaxStarts = 2
  nil = nil
SPECIFICATION FairSpec
INVARIANTS EventAccounted
PROPERTIES StoppedForGood EventsSettle PublishReturns
CHECK_DEADLOCK FALSE
