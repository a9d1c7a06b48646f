CONSTANTS
  Serials = {s1}
  RegIdx = {r1}
  Values = {0, 1}
  Time = {0, 1, 2, 3, 4, 5, 6}
  ReqTimeout = 2
  RspTimeout = 4
  Nodes = {1, 2, 3}
  Present = {1, 3}
  LinkValues = {1, 2}
  MaxMistaken = 0
  MaxFaults = 1
  MaxNoise = 1
  SailHalf = 2
  Targets <- SomeTargets
  SailSkews = {2}
  NaN = NaN
  MaxSteers = 3
  MaxLines = 1
  MaxLate = 1
  SkewHalf = 6
  Bias = 6
  ReportTimeout = 12
  MaxInterval = 3
  Dating = {"motor"}
  MaxAge = 1
  Turns <- EitherWay
  MaxPos = 3
  MaxTime = 5
  MaxAsked = 1
SPECIFICATION MCSpec
CHECK_DEADLOCK FALSE
INVARIANT SkewIsNear
PROPERTIES ServesFresh AnswersTrue MovedWithCare SailFollows
