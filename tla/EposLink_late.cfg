CONSTANTS
  Nodes = {1, 2, 3}
  Present = {1, 3}
  Values = {1, 2}
  MaxMistaken = 1
  MaxFaults = 1
  MaxNoise = 0
SPECIFICATION Spec
CHECK_DEADLOCK FALSE
PROPERTY RepliesTrue
