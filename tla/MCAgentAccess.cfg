SPECIFICATION Spec
CONSTANTS
  k1 = k1
  k2 = k2
  u1 = u1
  u2 = u2
  Caller <- MCCaller
  Subject <- MCSubject
  Bearer <- MCBearer
  Argument <- MCArgument
  HomeTenant = "home"
  SubjectCap = 1
  TenantCap = 2
  Window = 2
  MaxLifetime = 2
  MaxTime = 2
  MaxCalls = 3
  TraceErrors = {"query_timeout"}
  ProvenanceErrors = {"not_registered"}
INVARIANTS
  TypeOK
  LimitsAsConfigured
  ReadsAreEntitled
  AnswersAreAudited
