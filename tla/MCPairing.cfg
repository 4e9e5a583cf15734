CONSTANTS
  p1 = p1
  p2 = p2
  c1 = c1
  Device = Device
  Good = Good
  Other = Other
  Entries <- MCEntries
  Processes <- MCProcesses
  Controllers <- MCControllers
  Files = 2
  MaxFaults = 2
  MaxUpdates = 1
SPECIFICATION FairSpec
INVARIANTS
  TypeOK
  LinesKept
  Registered
PROPERTY
  RunsAgain
