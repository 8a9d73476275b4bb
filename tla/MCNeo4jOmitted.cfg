SPECIFICATION Neo4jSpec
CONSTANTS
  a = a
  b = b
  t1 = t1
  t2 = t2
  doc1 = doc1
  doc2 = doc2
  RELATES_TO = RELATES_TO
  Absent = Absent
  Missing = Missing
  Worker = {w1, w2}
  MaxAttempts = 2
  Id <- MCId
  RelType <- MCRelType
  Node <- MCNode
  Edge <- MCEdge
  Batch <- Crossing
INVARIANTS
  NoRelationOmitted
