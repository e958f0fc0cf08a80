SPECIFICATION Spec
CONSTANTS
  p1 = p1
  p2 = p2
  g1 = g1
  g2 = g2
  Processes = {p1, p2}
  Cgroups = {g1, g2}
  SharedMaps <- TwoMaps
  MaxExits = 2
  MaxFaults = 1
SYMMETRY LoaderSymmetry
CHECK_DEADLOCK FALSE
INVARIANTS
  ProgramsSeeSandbox
  EnforcedWhileManaged
  CleanLoadSucceeds
