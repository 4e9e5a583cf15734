\* Two hosts, two controllers, three calls, two faults, one hotplug.
CONSTANTS
  attic = attic
  cellar = cellar
  red = red
  blue = blue
  nothing = nothing
  garbage = garbage
  HostFile <- MCHostFile
  Controllers <- MCControllers
  Nothing = nothing
  Garbage = garbage
  SerialByte = 3
  Sequence = 2
  MaxRetries = 2
  MaxCalls = 3
  MaxFaults = 2
  MaxMoves = 1
  NetworkFails = TRUE
SPECIFICATION FairSpec
INVARIANT TypeOK
INVARIANT AnswersOwed
INVARIANT AnswersMatch
INVARIANT FixedOrder
INVARIANT OwnData
PROPERTY CallsReturn
CHECK_DEADLOCK FALSE
