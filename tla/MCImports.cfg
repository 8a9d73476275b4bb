SPECIFICATION ImportSpec
CONSTANTS
  REQ = REQ
  DES = DES
  TRACKER = TRACKER
  TASK = TASK
  g1 = g1
  g2 = g2
  c1 = c1
  c2 = c2
  t1 = t1
  t2 = t2
  Absent = Absent
  Id <- MCId
  RelType <- MCRelType
  Node <- MCNode
  Edge <- MCEdge
  Batch <- MCBatch
  Document <- MCDocument
  Export <- MCExport
  Rows <- MCRows
  Snapshot <- MCSnapshot
  CommitId <- MCCommitId
INVARIANTS
  ImportTypeOK
  InferredStaysProposed
  ManifestVouches
  SyncsSelfContained
PROPERTIES
  Converges
