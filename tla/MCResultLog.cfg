CONSTANTS
  ProtocolOrder <- MCOrder
  Workers <- MCWorkers
  ProtoOf <- MCProtoOf
  g1 = g1
  g2 = g2
  g3 = g3
  Free = Free
  NoStat = NoStat
SPECIFICATION Spec
INVARIANTS
  NothingLost
  LinesWhole
