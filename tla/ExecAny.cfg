SPECIFICATION Spec
CONSTANTS
  NumPins = 3
  Keys = {"k"}
  Disciplined = FALSE
  ExeLoads = TRUE
  Masks = {{}, {1}}
  Ports = {"IGNORED"}
  MaxTick = 1
  MaxRepeat = 1
  MaxFrames = 1
INVARIANTS WakeupKept TickNotStarved
PROPERTY UsesPIC
