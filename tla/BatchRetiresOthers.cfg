SPECIFICATION Spec
CONSTANTS
  n1 = n1
  n2 = n2
  n3 = n3
  b1 = b1
  c1 = c1
  c2 = c2
  c3 = c3
  c4 = c4
  c5 = c5
  c6 = c6
  c7 = c7
  c8 = c8
  c9 = c9
  Items = {c1, c2}
  Nodes = {n1, n2, n3}
  Seeded <- MCSeeded
  Batches = {b1}
  NodeType <- MCNodeType
  EdgeIds <- MCEdges
  Shape <- MCShape
  MaxItems = 2
  MaxGone = 2
  MaxCuts = 0
  NoItem = NoItem
  NoNode = NoNode
  NoEdge = NoEdge
  NoPair = NoPair
  NoBatch = NoBatch
PROPERTY BatchRetiresItsOwn
CHECK_DEADLOCK FALSE
