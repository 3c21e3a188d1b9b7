SPECIFICATION FairSpec
CONSTANTS
  r1 = r1
  r2 = r2
  a = a
  b = b
  z = z
  ca = ca
  cb = cb
  cz = cz
  ab = ab
  justb = justb
  feed = feed
  None = None
  Requests = {r1, r2}
  EndpointOf <- Streams
  Endpoints = {feed}
  Stages = {z}
  SSEStages = {z}
  Pipeline <- MCPipeline
  Conns = {cz}
  StageOf <- MCStageOf
  BatchSize <- Batches2
  WorkerCodes = {"Normal", "ValidationError"}
  Capacity = 1
  StreamCap = 1
  IdSpace = 3
  Impatient = {}
  MaxEvents <- OneEvent
  MaxCrashes = 1
  MaySignal = FALSE
INVARIANTS
  TypeOK
  StreamOrder
  CleanAfterResponse
PROPERTIES
  Answered
CHECK_DEADLOCK FALSE
