SPECIFICATION FairSpec
CONSTANTS
  NumPins = 3
  Keys = {"k"}
  Disciplined = TRUE
  ExeLoads = FALSE
  Masks = {{}}
  Ports = {}
  MaxTick = 0
  MaxRepeat = 1
  MaxFrames = 4
INVARIANTS FramesMatchService KeyNotForgotten
PROPERTY ResetServed
