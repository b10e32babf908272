SPECIFICATION FairSpec
CONSTANTS
  BufSize = 3
  HeaderSize = 1
  Lengths = {4}
  MaxSessions = 3
  MaxSends = 1
  MaxRemovers = 1
INVARIANTS MessagesWhole NoCrossTalk
PROPERTIES NothingLost 
CHECK_DEADLOCK FALSE
