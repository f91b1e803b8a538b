CONSTANTS
  r1 = r1
  r2 = r2
  r3 = r3
  c1 = c1
  c2 = c2
  Runs <- ThreeRuns
  Configs <- TwoConfigs
  Setup = Setup
  Torn = Torn
SPECIFICATION Spec
SYMMETRY Symmetry
INVARIANTS
  PublishedWhole
  OneRun
PROPERTIES
  NoReturn
