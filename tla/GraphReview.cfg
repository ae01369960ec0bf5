SPECIFICATION ClaimsSpec
CONSTANTS
  n1 = n1
  n2 = n2
  n3 = n3
  b1 = b1
  c1 = c1
  c2 = c2
  c3 = c3
  c4 = c4
  c5 = c5
  c6 = c6
  c7 = c7
  c8 = c8
  c9 = c9
  Items = {c1, c2, c3, c4, c5, c6, c7, c8, c9}
  Nodes = {n1, n2, n3}
  Seeded <- MCSeeded
  Batches = {b1}
  NodeType <- MCNodeType
  EdgeIds <- MCEdges
  Shape <- MCShape
  MaxItems = 3
  MaxGone = 2
  MaxCuts = 1
  p1 = p1
  p2 = p2
  h1 = h1
  h2 = h2
  k1 = k1
  k2 = k2
  k3 = k3
  ClaimIds = {k1, k2, k3}
  Asks <- MCAsks
  People = {p1, p2}
  Handles = {h1, h2}
  MaxClaims = 2
  MixedItems = {c2, c9}
  MaxMixed = 1
  NoHandle = NoHandle
  NoItem = NoItem
  NoNode = NoNode
  NoEdge = NoEdge
  NoPair = NoPair
  NoBatch = NoBatch
INVARIANTS
  ReviewTypeOK
  WithheldIsPrivate
  PublishedIsPublic
  NeverInConflict
  AppliedWhole
  ObjectionsFollow
  FacesAreTrue
  ClaimsDecided
PROPERTIES
  HistoryStands
  DecidedOnce
  PrivacyKept
  MergeKeepsRelations
  HandlesStay
CHECK_DEADLOCK FALSE
