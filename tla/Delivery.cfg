SPECIFICATION DeliverySpec
CONSTANTS
  Procs = {p1}
  Topics = {t1}
  Served = {t1}
  Ids = {1, 2, 3}
  MaxStamp = 1
  Batch = 1
  MaxPages = 3
  MaxAttempts = 1
  MaxAborts = 0
  Takers = {a1, a2}
  CreatedAt <- MCCreatedAt
  Legacy = {1}
  deadChunk = 2
  defaultDeadLimit = 1
  maxDeadLimit = 2
  DeadLimits = {0, 2, 3}
  Hubs = {h1}
  Clients = {u1}
  HubTopics = {a1, a2}
  Kinds = {"ws", "sse"}
  SendBuffer = 1
  ReplaySize = 2
  MaxSubscriptions = 2
  Redis = FALSE
  Faults = {"cut"}
  Roams = FALSE
  MaxEvents = 3
  MaxConns = 2
  Tickets = {k1, k2}
  Calls = {a1, a2}
  TTL = 2
  MaxTime = 3
SYMMETRY DeliverySymmetry
INVARIANTS HeadOfLine  ResumedWhole TicketsHonoured
PROPERTIES ScanIsFinal
CHECK_DEADLOCK FALSE
