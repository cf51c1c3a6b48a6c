CONSTANTS
  NumRanks = 4
  V = 9
  Nodes <- MCNodes
  ElemNode <- MCElemNode
  Construct <- MCConstruct
  ContrOrder <- MCContrOrder

SPECIFICATION Spec

INVARIANT TypeOK
INVARIANT NoAbort
INVARIANT GlobalIdAgreement
INVARIANT GlobalNumberingBijective
INVARIANT NonlocalOrdered

PROPERTY Termination
