SPECIFICATION InMemorySpec
CONSTANTS
  a = a
  b = b
  c = c
  n1 = n1
  n2 = n2
  e1 = e1
  e2 = e2
  RELATES_TO = RELATES_TO
  Absent = Absent
  Id <- MCId
  RelType <- MCRelType
  Node <- MCNode
  Edge <- MCEdge
  Batch <- MCBatch
INVARIANTS
  InMemoryTypeOK
  Progress
  NeverDangling
PROPERTIES
  ImplementsEvidenceGraph
