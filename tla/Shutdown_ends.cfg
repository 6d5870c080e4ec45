SPECIFICATION FairSpec
CONSTANTS
  Messages = {m1, m2}
  Watchers = {w1}
  Slots = {p1}
  Handlers = {h1}
  Batches = {0, 1}
  MaxQueue = 1
  NoWatcher = NoWatcher
CHECK_DEADLOCK FALSE
INVARIANTS ShutdownTypeOK WaiterWillWake BlockedByItsOwn
PROPERTIES ShutdownEnds SpeedupsServed
