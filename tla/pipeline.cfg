SPECIFICATION FairSpec
CONSTANTS
  r1 = r1
  r2 = r2
  a = a
  b = b
  z = z
  ca = ca
  cb = cb
  cz = cz
  ab = ab
  justb = justb
  feed = feed
  None = None
  Requests = {r1, r2}
  EndpointOf <- TwoRoutes
  Endpoints = {ab, justb}
  Stages = {a, b}
  SSEStages = {}
  Pipeline <- MCPipeline
  Conns = {ca, cb}
  StageOf <- MCStageOf
  BatchSize <- Batches2
  WorkerCodes = {"Normal"}
  Capacity = 1
  StreamCap = 1
  IdSpace = 3
  Impatient = {r1}
  MaxEvents <- NoEvents
  MaxCrashes = 1
  MaySignal = TRUE
INVARIANTS
  SingleCustody
  StageDiscipline
  CodecMatch
  OwnAnswer
  WaitingIsTabled
PROPERTIES
  Completes
  DrainIsQuiet
CHECK_DEADLOCK FALSE
