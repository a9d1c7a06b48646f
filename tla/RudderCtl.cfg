CONSTANTS
  Angles <- WideAngles
  MinPos = 0
  MaxPos = 2
  NaN = NaN
  MaxLines = 2
  MaxTargets = 2
  MaxLoss = 1
  MaxErr = 1
  MaxFault = 1
  MaxStale = 0
  Prompt = FALSE
  Probing = TRUE
SPECIFICATION MCSpec
INVARIANTS MovesConfigured
PROPERTIES FollowsWithoutFaults
