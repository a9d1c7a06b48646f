SPECIFICATION Spec
CONSTANTS
  OmegaLen = 3
  HeadingLen = 2
  SpeedLen = 3
  AppLen = 2
  TrueLen = 4
INVARIANT NeverPoisoned
