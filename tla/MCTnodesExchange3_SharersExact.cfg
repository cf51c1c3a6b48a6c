CONSTANTS
  NumRanks = 3
  V = 9
  Nodes <- MCNodes
  ElemNode <- MCElemNode
  Construct <- MCConstruct
  ContrOrder <- MCContrOrder

SPECIFICATION Spec

INVARIANT SharersExact
