CONSTANTS
  NumSources = 3
  BatchSize = 2
  RetryCount = 0
  Encoded <- MCSecond
  Served <- MCLegacy
  Protocols <- MCProtocols
SPECIFICATION IntakeSpec
INVARIANTS
  DedupReads
