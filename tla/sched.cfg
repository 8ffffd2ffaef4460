CONSTANTS
  NSched = 2
  Warps = {0, 1, 2}
  Regs = {1, 2}
  Traces <- MCTraces
  MaxIssue = 2
  IBufferSize = 2
  DiffExecUnits = TRUE
  SubCoreModels = {TRUE, FALSE}
  NumSpUnits = 1
  NumIntUnits = 1
  NumSfuUnits = 1
  NumDpUnits = 0
SPECIFICATION FairSpec
INVARIANTS
  TypeOK
  NoRegisterHazard
  OneWarpPerCycle
  SubCoreIsolation
  DualIssueDiffUnits
PROPERTY AllWarpsComplete
