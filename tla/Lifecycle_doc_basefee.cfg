SPECIFICATION Spec
CONSTANTS
  Requests = {r1}
  Msgs = {m1, m2, m3}
  NoReq = NoReq
  Workers = {w1, w2}
  Checkers = {c1}
  Patchers = {p1}
  Limits = {0, 1}
  BaseFees = {1, 2}
  DryRuns = {FALSE}
  MaxParams = 1
  MaxPatches = 0
  MaxFaults = 0
PROPERTIES PushedBelowLimit
