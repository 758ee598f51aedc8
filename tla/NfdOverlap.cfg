CONSTANTS
  n1 = n1
  n2 = n2
  g1 = g1
  g2 = g2
  Nodes <- MCNodes
  Kinds = {"domain", "sub"}
  Values = {"d1", "d2", "p"}
  Domain = "domain"
  SubDomain = "sub"
  Generations = {g1, g2}
  Inputs <- MCInputs
  Order <- MCOrder
SYMMETRY MCSymmetry
SPECIFICATION Spec
INVARIANTS EveryValueHasGroup
CHECK_DEADLOCK FALSE
