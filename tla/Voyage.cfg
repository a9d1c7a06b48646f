CONSTANTS
  NL = NL
  Chr = Chr
  Cap = 4
  Puts <- SomePuts
  Sizes = {2, 5}
  MaxFed = 10
  Events = 3
  ClockTimes = {0, 1, 2}
  MaxCount = 8
  Traffic <- SomeTraffic
  Samples <- SomeSamples
  MaxAisLoss = 1
  Reports <- SomeReports
  update_s = 2
  garbage_s = 1
  HighWatermark = 2
  LowWatermark = 1
  BadLimit = 1
  MaxTime = 5
  MaxLines = 3
  MaxJumps = 1
  SafeDistance = 2
  TimeWindows = {1, 2}
  WindFractions = {1, 3}
  Sight = 9
  Plan <- SomePlan
  SimpleTarget <- SomeTarget
  Map <- SomeMap
  Scenarios <- SomeScenarios
SPECIFICATION MCSpec
CHECK_DEADLOCK FALSE
INVARIANTS NothingLostButLongLines StatsOverLastCycles DecodedWasSent FieldsFit FileHoldsTheFresh NeverLags
PROPERTIES ImplementsStopWatch Arrives KeepsClear
