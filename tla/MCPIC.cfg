SPECIFICATION SSpec
CONSTANT NumPins = 3
INVARIANT ReadyIsSignalled
INVARIANT ServiceOK
PROPERTY Refinement
