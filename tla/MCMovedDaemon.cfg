\* Three nodes and four plugs; hotplugging overtakes the daemon once.
CONSTANTS
  o1 = o1
  none = none
  NoOutput = none
  Paths <- MCPaths
  Outputs <- MCOutputs
  MaxPlugs = 4
  MaxOvertakes = 1
SPECIFICATION FairSpec
INVARIANT TypeOK
INVARIANT UniqueIds
INVARIANT LoopFindsFreeId
INVARIANT InSync
PROPERTY ImplementsIdTable
PROPERTY SettlesInSync
CHECK_DEADLOCK FALSE
