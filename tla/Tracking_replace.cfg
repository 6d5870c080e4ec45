SPECIFICATION Spec
CONSTANTS
  Rows = {i1, i2, i3}
  Nonces = {n1}
  NoNonce = NoNonce
  NoRow = NoRow
  NoWatcher = NoWatcher
  Watchers = {w1, w2}
  Speedups = {s1}
  Pending = Pending
  MaxSpeedups = 1
  MaxMoves = 0
  MaxFaults = 0
SYMMETRY TrackingSymmetry
INVARIANTS TrackingTypeOK NonceKeepsARow
PROPERTIES RecordedIsPermanent ExchangedOneForOne TrackingImplementsLife
