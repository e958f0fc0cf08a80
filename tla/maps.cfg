SPECIFICATION Spec
CONSTANTS
  a = a
  b = b
  Cgids = {a, b}
  Objects = {"bin", "lib"}
  Addrs = {"host"}
  Ports = {443}
  Plans <- SomePlans
  MaxEntries = 3
  MaxRules = 2
  Questions <- AllQuestions
  HookSpan = 1
  Faults = {"write", "swap", "delete"}
  MaxFaults = 1
SYMMETRY CgidSymmetry
INVARIANTS
  InstalledRulesIntact
  RangesConserved
  
  
  ExecNeverLooser
