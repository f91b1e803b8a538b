CONSTANTS
  ProtocolOrder <- MCOrder
  Unique <- MCUnique
  PingBatchSize = 2
  NumWorkers = 2
  SampleCap = 1
  Reasons <- MCReasons
SPECIFICATION Spec
INVARIANTS
  ReportedPassed
