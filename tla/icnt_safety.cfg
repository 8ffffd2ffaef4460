CONSTANTS
  NShader = 1
  NMem = 1
  Subnets = 2
  Vcs = 2
  FlitSize = 32
  InputBufferSize = 2
  EjectionBufferSize = 0
  BoundaryBufferCapacity = 2
  VcBufSize = 1
  L2QueueSize = 5
  SectorChunkSize = 4
  MaxRequests = 3
  ReqSize <- MCReqSize
  ReplySize <- MCReplySize
  Kinds = {"READ"}
SPECIFICATION Spec
INVARIANT TypeOK
INVARIANT InputQueueBound
INVARIANT EjectionBound
INVARIANT BoundaryIntegrity
INVARIANT FlitConservation
INVARIANT RoundRobinBounded
