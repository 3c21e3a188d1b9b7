SPECIFICATION Spec
CONSTANTS
  r1 = r1
  r2 = r2
  a = a
  b = b
  z = z
  ca = ca
  cb = cb
  cz = cz
  ab = ab
  justb = justb
  feed = feed
  None = None
  Requests = {r1}
  EndpointOf <- TwoRoutes
  Endpoints = {ab, justb}
  Stages = {a, b}
  SSEStages = {}
  Pipeline <- MCPipeline
  Conns = {ca, cb}
  StageOf <- MCStageOf
  BatchSize <- Batches1
  WorkerCodes = {"Normal"}
  Capacity = 1
  StreamCap = 1
  IdSpace = 2
  Impatient = {}
  MaxEvents <- NoEvents
  MaxCrashes = 0
  MaySignal = FALSE
INVARIANTS
  NoPanic
CHECK_DEADLOCK FALSE
