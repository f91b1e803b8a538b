CONSTANTS
  Inputs <- MCInputs
  LinkOf <- MCLinkOf
  ProtocolOrder <- MCOrder
  Templates = {"simple", "advanced"}
  BatchSize = 2
  TcpBatchSize = 3
  Fragile <- MCFragile
  MaxFails = 1
  Old <- MCOld
SPECIFICATION Spec
INVARIANTS
  ClashFilesValid
  BatchesPartition
  PlainRowsHonest
  PlainAsTested
  
  
