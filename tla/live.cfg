SPECIFICATION FairSpec
CONSTANTS
  c1 = c1
  c2 = c2
  c3 = c3
  s1 = s1
  s2 = s2
  capA = capA
  Callers = {c1, c2}
  Sandboxes = {s1}
  Caps = {capA}
  Policies <- OnePolicy
  Ops = {"pause"}
PROPERTIES
  LaunchResolves
  DestroyResolves
  KilledExecReturns
