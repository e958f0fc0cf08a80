SPECIFICATION AuditFairSpec
CONSTANTS
  MaxEvents = 6
  RingSize = 3
  ChannelDepth = 2
  Short = {2}
CHECK_DEADLOCK FALSE
INVARIANTS
  
  AcceptedIsAccountedFor
  
PROPERTIES
  StopReturns
