CONSTANTS
  NumSources = 3
  BatchSize = 2
  RetryCount = 1
  Encoded <- MCSecond
  Served <- MCServed
  Protocols <- MCProtocols
SPECIFICATION IntakeSpec
INVARIANTS
  MergedInOrder
  TriedEnough
  BoundedLoad
  YieldsAll
  KeepsFirst
  DropsTwins
  
  AddressIsServer
  
PROPERTIES
  Terminates
