CONSTANTS
  LastAddress = 2
  CallSites = {0}
  Repeats = {0, 1, 2}
  MaxID = 3
  MaxCalls = 2
SPECIFICATION Spec
INVARIANTS TemporaryGone StepOverNeverLeaves
PROPERTIES UserBreakpointsKept BreakpointsStop
