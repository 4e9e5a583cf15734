\* One spurious wakeup ends the writer thread.
CONSTANTS
  red = red
  green = green
  rumble = rumble
  off = off
  on = on
  garbage = garbage
  ColorFields <- MCRed
  RumbleFields <- MCRumble
  Values <- MCValues
  Off = off
  Garbage = garbage
  MinWait = 1
  MaxInhibit = 2
SPECIFICATION Spec
PROPERTY SuccessMeansWriter
CHECK_DEADLOCK FALSE
