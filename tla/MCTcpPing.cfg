CONSTANTS
  NumLines = 3
  TCPWorkers = 2
  Retries = 1
  NoAddr <- MCNoAddr
SPECIFICATION Spec
INVARIANTS
  OnePlace
  NoSendOnClosed
  VerdictEarned
PROPERTIES
  ImplementsFilter
  Terminates
