CONSTANTS
  Files <- MCFiles
  Regions <- MCRegions
  Unit <- MCUnit

SPECIFICATION Spec

INVARIANT RegionPolygonsKept
