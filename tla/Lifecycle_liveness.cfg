SPECIFICATION FairSpec
CONSTANTS
  Requests = {r1}
  Msgs = {m1}
  NoReq = NoReq
  Workers = {w1}
  Checkers = {c1}
  Patchers = {p1}
  Limits = {0, 1}
  BaseFees = {1, 2}
  DryRuns = {FALSE}
  MaxParams = 1
  MaxPatches = 1
  MaxFaults = 1
PROPERTIES FinishedForGood
