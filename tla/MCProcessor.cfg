SPECIFICATION Spec
CONSTANTS
  B = 4
  Ten = 3
  Fill = 12
  Junk = {0, 15}
  FlagBit <- MCFlagBit
  Jobs <- MCJobs
  Start <- MCStart
  Code <- MCCode
INVARIANTS ArithmeticExact DecimalExact JumpsAsCompared BlocksExact
PROPERTIES StackIsLIFO EncodingObeyed
CHECK_DEADLOCK FALSE
