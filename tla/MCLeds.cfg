\* One colour field and the rumble field, two values each; a wait of one
\* tick and an inhibit period of two; the writer may be woken spuriously.
CONSTANTS
  red = red
  green = green
  rumble = rumble
  off = off
  on = on
  garbage = garbage
  ColorFields <- MCRed
  RumbleFields <- MCRumble
  Values <- MCValues
  Off = off
  Garbage = garbage
  MinWait = 1
  MaxInhibit = 2
SPECIFICATION FairSpec
INVARIANT TypeOK
INVARIANT NoUpdateForgotten
INVARIANT FreshReports
INVARIANT FlushedAtClose
PROPERTY ImplementsWriteBehind
PROPERTY DisconnectTerminates
PROPERTY CatchesUp
PROPERTY CatchesUpAfterFailure
CHECK_DEADLOCK FALSE
