SPECIFICATION MCSpec
CONSTANTS
  TimeOut = 2
  QueryEvery = 2
  Slack = 2
  MaxShift = 1
  MaxLoss = 1
  Circle = 72
  TackZone = 10
  JibeZone = 4
  Overshoot = 2
  AppOffset = 2
  Clip = 3
  Reach = 9
  JibeSixths = 2
  Stabilization = 2
  Winds = {0, 1, 2}
  Stars = {37, 1, 2}
  Boats = {16, 35, 60}
  Apps = {72, 38}
  Delay = 2
  MaxCount = 4
  Angles = {0, 5, 10, 57, 62, 67, 72, 77, 82, 83, 88, 170, 180, 288, 293}
  Speeds = {0, 3, 10, 28}
  Shift = 10
  HomingTimeoutCount = 2
  ZeroTimeoutCount = 3
  Zero2Count = 1
  RepeatCount = 2
  DriveTimeout = 3
  WindTimeout = 20
  MaxSteps = 21
  MinUs = 1
  MaxUs = 2
  Lag = 1
  Gap = 1
  StatusTime = 6
  Prefixes = {compass, status_sail}
  Interval = 3
  Dies = FALSE
  Latency = 1
  CommandTime = 1
  Room = 1
  WatchTime = 12
  MaxSet = 1
INVARIANTS
  Settles
  SilentOperator
  ControlledInTime
  EveryDriveTested
PROPERTIES
  OverrideKeepsHeading
  SkipperSteers
  MustNotJump
  NoFlapping
  WatchedInTime
