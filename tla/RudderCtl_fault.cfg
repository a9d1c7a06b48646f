CONSTANTS
  Angles = {0, 1}
  MinPos = 0
  MaxPos = 1
  NaN = NaN
  MaxLines = 2
  MaxTargets = 1
  MaxLoss = 0
  MaxErr = 0
  MaxFault = 1
  MaxStale = 0
  Prompt = FALSE
  Probing = TRUE
SPECIFICATION FairSpec
PROPERTY Follows
