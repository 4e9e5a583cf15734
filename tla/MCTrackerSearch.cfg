\* Nine places for the sphere. In an HD image, where a ROI has 540 pixels, 400
\* pixels are about as far as MaxJump here.
CONSTANTS
  hidden = hidden
  Width = 60
  Height = 48
  Spots <- MCSpots
  Hidden = hidden
  MinArea = 4
  MaxJump = 16
  MinSize = 3
  Lag = 1
  EnvSize <- MCEnvSize
SPECIFICATION Spec
INVARIANT TypeOK
INVARIANT RoiInImage
PROPERTY UpdateEnds
PROPERTY FindsSphere
PROPERTY LosesSmall
