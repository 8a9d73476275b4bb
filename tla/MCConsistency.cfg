SPECIFICATION ConsistencySpec
CONSTANTS
  req = req
  dsn = dsn
  code = code
  fact = fact
  bare = bare
  proposed = proposed
  rev = rev
  IMPLEMENTS = IMPLEMENTS
  Absent = Absent
  Id <- MCId
  RelType <- MCRelType
  Node <- MCNode
  Edge <- MCEdge
  Batch <- MCBatch
  Kind <- MCKind
  ApprovedNode <- MCApprovedNode
  ApprovedEdge <- MCApprovedEdge
  FactNode <- MCFactNode
  FactEdge <- MCFactEdge
  Revision <- MCRevision
  Request <- MCRequest
  MaxFindings = 3
INVARIANTS
  ConsistencyTypeOK
  ChecksMissNothing
  OldFindingsStayOld
  ReportsAreAudited
PROPERTIES
  EvidenceDecides
