CONSTANTS
  n1 = n1
  n2 = n2
  h1 = h1
  h2 = h2
  Nodes <- MCNodes
  Identified = {n1}
  Handlers = {h1, h2}
  Requests <- MCRequests
  Graphs <- MCGraphs
  TierKeys <- MCTierKeys
  FabricLabels <- MCDefaultLabels
  DefaultDomain = "domain"
  DomainKey = "domain"
  SubKey = "sub"
  Source = "source"
  Pool = "pool"
  Selected = "in"
  OldLabels <- MCOldLabels
  Writes <- MCWrites
  MaxWrites = 2
SYMMETRY MCSymmetry
SPECIFICATION Spec
INVARIANTS ForeignLabelsPreserved OutsideSelectionPreserved SuccessReconciles
CHECK_DEADLOCK FALSE
