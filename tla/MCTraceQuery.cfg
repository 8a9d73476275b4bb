SPECIFICATION TraceSpec
CONSTANTS
  c1 = c1
  c2 = c2
  IMPLEMENTS = IMPLEMENTS
  approved = approved
  proposed = proposed
  Absent = Absent
  Id <- MCId
  RelType <- MCRelType
  Node <- MCNode
  Edge <- MCEdge
  Batch <- MCBatch
  ApprovedNode <- MCApproved
  ApprovedEdge <- MCApproved
  Rank <- MCRank
  Client <- MCClient
  ProposedReader <- MCReader
  Request <- MCRequest
  PageSize = {1, 2}
  RelationLimit = 3
  TokenLife = 1
  MaxTime = 2
  MaxReadings = 1
INVARIANTS
  TraceTypeOK
  PagesComplete
  PagesInOrder
  PagesEntitled
  BackendsAgree
PROPERTIES
  PagingEnds
