SPECIFICATION Spec
CONSTANTS
  Requests = {r1}
  Msgs = {m1, m2, m3}
  NoReq = NoReq
  Workers = {w1, w2}
  Checkers = {c1, c2}
  Patchers = {p1}
  Limits = {0}
  BaseFees = {1}
  DryRuns = {TRUE, FALSE}
  MaxParams = 2
  MaxPatches = 0
  MaxFaults = 2
SYMMETRY SlotSymmetry
INVARIANTS TypeOK ForgottenBounded DryRunNeverPublishes
PROPERTIES ReceiptsArePermanent LifecycleImplementsLife
