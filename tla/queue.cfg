CONSTANTS
  Thread = {c1, c2, p1}
  Consumer = {c1, c2}
  CondConsumer = {c2}
  Value = {v1, v2}
  nullopt = nullopt
  NoThread = NoThread
  MaxLen = 3
SPECIFICATION FairSpec
INVARIANTS LockDiscipline PopFindsItem NoStrandedItem
PROPERTIES FifoSpec ItemsGetOut
CHECK_DEADLOCK FALSE
