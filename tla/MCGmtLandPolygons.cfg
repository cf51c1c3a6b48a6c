CONSTANTS
  Files <- MCFiles
  Regions <- MCRegions
  Unit <- MCUnit

SPECIFICATION Spec

INVARIANT SegmentIndexExact
INVARIANT HeadersDecoded
INVARIANT MemoryReleased
