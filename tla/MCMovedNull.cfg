\* A controller disappears before the daemon opens it.
CONSTANTS
  o1 = o1
  none = none
  NoOutput = none
  Paths <- MCTwoPaths
  Outputs <- MCOutputs
  MaxPlugs = 2
  MaxOvertakes = 1
SPECIFICATION Spec
INVARIANT HandlesValid
CHECK_DEADLOCK FALSE
