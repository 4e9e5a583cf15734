\* Two keys, two camera values, a ring of three slots.
CONSTANTS
  magenta = magenta
  cyan = cyan
  bright = bright
  pale = pale
  unknown = unknown
  zero = zero
  Keys <- MCKeys
  Views <- MCViews
  Unknown = unknown
  Zero = zero
  RingSize = 3
SPECIFICATION Spec
INVARIANT TypeOK
PROPERTY ImplementsMemory
