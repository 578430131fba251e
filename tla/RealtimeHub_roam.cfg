SPECIFICATION HubSpec
CONSTANTS
  Hubs = {h1, h2}
  Clients = {u1}
  HubTopics = {t1}
  Kinds = {"ws"}
  SendBuffer = 1
  ReplaySize = 2
  MaxSubscriptions = 2
  Redis = TRUE
  Faults = {"cut"}
  Roams = TRUE
  MaxEvents = 2
  MaxConns = 2
SYMMETRY HubTopicSymmetry
INVARIANTS ResumesOnAnyReplica
CHECK_DEADLOCK FALSE
