SPECIFICATION Spec
CONSTANTS
  Requests = {r1}
  Msgs = {m1, m2}
  NoReq = NoReq
  Workers = {w1, w2}
  Checkers = {c1, c2}
  Patchers = {p1}
  Limits = {0, 1}
  BaseFees = {1}
  DryRuns = {FALSE}
  MaxParams = 2
  MaxPatches = 1
  MaxFaults = 0
SYMMETRY SlotSymmetry
INVARIANTS OneGoroutinePerRequest PendingHasMessages PublishedIsTracked PublishedNotOverstated
PROPERTIES SuccessIsEarned IllegalOnlyByStaleSave ErrorIsKept LifecycleImplementsLife
