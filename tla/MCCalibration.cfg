CONSTANTS
  p1 = p1
  p2 = p2
  c1 = c1
  c2 = c2
  Junk = Junk
  Absent = Absent
  Unusable = Unusable
  Processes <- MCProcesses
  Controllers <- MCControllers
  Names <- MCControllers
  WorkDirs <- MCWorkDirs
  MaxFaults = 2
SPECIFICATION Spec
SYMMETRY Symmetry
INVARIANTS
  TypeOK
  OwnCalibration
  
CONSTRAINTS
  MixedAlone
  OneCopy
