CONSTANT Ranks = {0, 1, 2}
SPECIFICATION Spec
INVARIANT TypeOK
INVARIANT NodesAreGeometric
INVARIANT SharingConsistent
INVARIANT SlotsMatchTable
