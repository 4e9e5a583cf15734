\* A device with a low id is removed before one with a higher id.
CONSTANTS
  o1 = o1
  none = none
  NoOutput = none
  Paths <- MCTwoPaths
  Outputs <- MCOutputs
  MaxPlugs = 2
  MaxOvertakes = 0
SPECIFICATION Spec
INVARIANT IndexNamesDevice
CHECK_DEADLOCK FALSE
