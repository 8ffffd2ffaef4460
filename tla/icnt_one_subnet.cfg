CONSTANTS
  NShader = 1
  NMem = 1
  Subnets = 1
  Vcs = 2
  FlitSize = 32
  InputBufferSize = 3
  EjectionBufferSize = 0
  BoundaryBufferCapacity = 2
  VcBufSize = 2
  L2QueueSize = 5
  SectorChunkSize = 4
  MaxRequests = 2
  ReqSize <- MCReqSize
  ReplySize <- MCReplySize
  Kinds = {"READ", "WRITE"}
SPECIFICATION FairSpec
PROPERTY DeliveredEventually
