SPECIFICATION HubSpec
CONSTANTS
  Hubs = {h1, h2}
  Clients = {u1}
  HubTopics = {t1}
  Kinds = {"ws"}
  SendBuffer = 1
  ReplaySize = 2
  MaxSubscriptions = 2
  Redis = TRUE
  Faults = {"cut", "loss", "close"}
  Roams = FALSE
  MaxEvents = 2
  MaxConns = 1
SYMMETRY HubTopicSymmetry
INVARIANTS DeliveredWhole
CHECK_DEADLOCK FALSE
