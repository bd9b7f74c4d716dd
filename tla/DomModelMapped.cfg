SPECIFICATION Spec
CONSTANTS
  n1 = n1  n2 = n2  n3 = n3  n4 = n4  n5 = n5
  h1 = h1  h2 = h2
  Node <- MCNode
  Holder <- MCHolder
  MaxRows = 4
  ClearUnmapped = FALSE
  NoIndex = NoIndex
SYMMETRY MCSymmetry
INVARIANTS
  RowsAgree
  
  IndexFollowsNode
PROPERTY IndexDiesWithNode
