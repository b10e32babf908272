CONSTANTS
  MemSize = 4
  MaxByte = 1
  Offered <- MCOffered
  MaxID = 1
SPECIFICATION Spec
PROPERTY BecomesValue
