\* sendto begins to fail.
CONSTANTS
  attic = attic
  cellar = cellar
  red = red
  blue = blue
  nothing = nothing
  garbage = garbage
  HostFile <- MCHostFile
  Controllers <- MCControllers
  Nothing = nothing
  Garbage = garbage
  SerialByte = 3
  Sequence = 2
  MaxRetries = 2
  MaxCalls = 2
  MaxFaults = 0
  MaxMoves = 0
  NetworkFails = TRUE
SPECIFICATION FairSpec
PROPERTY CallsGiveUp
CHECK_DEADLOCK FALSE
