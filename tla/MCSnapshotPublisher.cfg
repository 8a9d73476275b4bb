SPECIFICATION Spec
CONSTANTS
  j1 = j1
  j2 = j2
  s1 = s1
  x1 = x1
  x2 = x2
  good = good
  bad = bad
  Absent = Absent
  Job <- MCJob
  SyncId <- MCSyncId
  Snapshot <- MCSnapshot
  ValidSnapshot <- MCValid
  Fields <- MCFields
  ValidFields <- MCGood
  Approval = {"proposed", "approved"}
INVARIANTS
  TypeOK
  OnlyWholeVisible
  LoaderConsistent
  SuccessMeansPublished
PROPERTIES
  WriteOnce
