CONSTANTS
  Period <- MCPeriod
  NClusters = 2
  MaxConcurrent = 2
  Kernels = {1, 2}
  NBlocks <- MCNBlocks
  TBLatency <- MCTBLatency
  InsnPerBlock = 2
  Window = 3
  DeadlockDetect = TRUE
  MaxCta = 0
  PerfSimMemcpy = TRUE
  Copies <- MCCopies
  MaxMemcpy = 2
SPECIFICATION ExitSpec
PROPERTIES
  ExitReturns
CHECK_DEADLOCK FALSE
