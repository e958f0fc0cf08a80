SPECIFICATION ASpec
CONSTANTS
  Capacity = 8
  MaxCount = 4
PROPERTIES
  RefinesPool
