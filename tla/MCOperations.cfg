SPECIFICATION OperationsSpec
CONSTANTS
  Version <- MCVersion
  MaxRuns = 4
  Thread = {t1, t2}
INVARIANTS
  OperationsTypeOK
  RecordedIsVerified
  InOrderAndOnce
PROPERTIES
  ShutdownCompletes
