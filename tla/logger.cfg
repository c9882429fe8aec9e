CONSTANTS
  Client = {c}
  owner = owner
  Msg = {m1, m2, m3}
  Fine = {m2}
  NSinks = 2
  FileSinks = {1}
  MaxInits = 2
  nil = nil
SPECIFICATION FairSpec
INVARIANTS LoggedInOrder
PROPERTIES OnlySleepHolds MessagesLogged SilentAfterUninit
CHECK_DEADLOCK FALSE
