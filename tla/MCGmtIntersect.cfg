CONSTANTS
  G = 4
  MaxLevel = 2
  Trees = {0, 1}
  Resolutions = {1, 3}
  SynthNos = {0, 1}

SPECIFICATION Spec

INVARIANT IntersectMatchesHeader
INVARIANT SynthModelReleased
