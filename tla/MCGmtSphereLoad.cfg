CONSTANTS
  NumRanks = 3
  FileCounts <- MCFileCounts
  SizeBits = 16
  IntBits = 12

SPECIFICATION Spec

INVARIANT TypeOK
INVARIANT ResultAgreement
INVARIANT ResourcesReleased
PROPERTY Termination
