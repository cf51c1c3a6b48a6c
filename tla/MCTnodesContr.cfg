CONSTANTS
  Ranks <- MCRanks
  Les <- MCLes
  Positions <- MCPositions
  MyRank = 1
  NoRank = NoRank

SPECIFICATION Spec

INVARIANT TypeOK
PROPERTY ContrSetRefined

CHECK_DEADLOCK FALSE
