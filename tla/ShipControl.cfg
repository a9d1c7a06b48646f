SPECIFICATION MCSpec
CONSTANTS
  KoggeFast = 1
  KoggeSlow = 3
  GiveUpLimit = 1
  Inputs <- MCInputs
  OmegaLen = 3
  HeadingLen = 2
  SpeedLen = 3
  AppLen = 2
  TrueLen = 4
  Period = 12
  Samples = 4
  Turns <- MCTurns
INVARIANTS
  StuckIsNoticed
  ValidWindIsKnown
  FollowsTheTurn
PROPERTIES
  ImplementsHelmStates
  InitialTakesItsTime
  FairWeatherSails
