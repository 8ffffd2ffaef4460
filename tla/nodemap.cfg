CONSTANTS
  Sizes <- MCSizes
  Configs <- MCConfigs
  MaxOobReads = 2
SPECIFICATION Spec
INVARIANTS
  TypeOK
  NodeMapBijective
