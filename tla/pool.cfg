SPECIFICATION FairPoolSpec
CONSTANTS
  Ids = {i1, i2, i3}
  Clients = {k1, k2}
  Refillers = {r1}
  TargetDepth = 2
  MaxCold = 2
INVARIANTS
  SingleUse
  DepthBounded
PROPERTIES
  OnlyExpiredDropped
  Refills
