CONSTANTS
  NumConfigs = 3
  BatchSize = 2
  BasePort = 10000
  Tries = 1
  p1 = p1
  p2 = p2
  Unparsable <- NoUnparsable
  Pids <- TwoPids
  Stale <- OnlySecondPort
  Free = Free
  NoPid = NoPid
  NoPort = NoPort
  Foreign = Foreign
  Nobody = Nobody
SPECIFICATION Spec
SYMMETRY PidSymmetry
INVARIANTS
  TypeOK
  PortsExclusive
  PortOncePerBatch
  PortAvailable
  SoundPass
  NoServerWithoutPort
  QuietBetweenBatches
  NoStraySignal
  Accounted
