CONSTANTS
  InitFreq = 6
  FreqStep = 2
  FallRate = 3
  IncreaseStep = 2
  FallFactor = 2
  IncreaseScore = 5
  ComDelay = 3
  Period = 12
  MaxLines = 3
  MaxScore = 17
SPECIFICATION FairSpec
INVARIANTS LevelFollowsScore
PROPERTIES RotationNext CommandsCarriedOut PiecesKeepComing
