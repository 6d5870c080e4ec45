SPECIFICATION FairSpec
CONSTANTS
  Rows = {i1, i2}
  Nonces = {n1}
  NoNonce = NoNonce
  NoRow = NoRow
  NoWatcher = NoWatcher
  Watchers = {w1}
  Speedups = {s1}
  Pending = Pending
  MaxSpeedups = 1
  MaxMoves = 2
  MaxFaults = 2
INVARIANTS EntryHasWatcher NonceKeepsARow
PROPERTIES LandedIsRecorded
