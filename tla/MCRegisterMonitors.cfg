CONSTANTS
  MaxByte = 1
  OfferedRegisters <- MCOffered
  MaxID = 1
SPECIFICATION RegisterSpec
PROPERTIES ChangeStops StopHasReason
