SPECIFICATION Spec
CONSTANTS
  l1 = l1
  l2 = l2
  Locations = {l1, l2}
  Sectors = {s1, s2, s3, s4}
  SectorInfos <- MCSectorInfos
  Arguments <- MCArguments
  MaxExtendNow = 4
  SectorsMax = 3
  DeclarationsMax = 2
SYMMETRY SectorSymmetry
CHECK_DEADLOCK FALSE
INVARIANTS SectorsPerMessage
