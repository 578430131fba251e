SPECIFICATION LiveHub
CONSTANTS
  Hubs = {h1}
  Clients = {u1}
  HubTopics = {t1, t2}
  Kinds = {"ws", "sse"}
  SendBuffer = 1
  ReplaySize = 1
  MaxSubscriptions = 2
  Redis = FALSE
  Faults = {"retopic", "end", "disconnect", "close"}
  Roams = FALSE
  MaxEvents = 2
  MaxConns = 1
 
PROPERTIES FrameFits QueuedIsSent SessionEnds
CHECK_DEADLOCK FALSE
