\* As many presets as slots, as in the code, a custom colour, and one
\* controller more than there are slots.
CONSTANTS
  magenta = magenta
  cyan = cyan
  yellow = yellow
  white = white
  black = black
  a = a
  b = b
  c = c
  d = d
  none = none
  MaxControllers = 3
  Presets <- MCPresets
  Custom <- MCCustom
  Black = black
  Moves <- MCMoves
  NoMove = none
  StartInd = 1
  Full = 3
SPECIFICATION Spec
SYMMETRY MCSymmetry
INVARIANT TypeOK
INVARIANT OneSlotEach
INVARIANT ToldTrue
INVARIANT FilterFits
PROPERTY DimmingKept
PROPERTY ClashOnlyByIndex
