CONSTANTS
  Period <- MCPeriod
  NClusters = 2
  MaxConcurrent = 2
  Kernels = {1, 2}
  NBlocks <- MCNBlocks
  TBLatency <- MCSpuriousLatency
  InsnPerBlock = 2
  Window = 3
  DeadlockDetect = TRUE
  MaxCta = 0
SPECIFICATION Spec
INVARIANT DeadlockOnlyWhenBusy
