SPECIFICATION BackgroundSpec
CONSTANTS
  e1 = e1
  e2 = e2
  Entries = {e1, e2}
  Overlap <- QueueAndAllow
  JobClosers = {c1}
  MaxTriggers = 2
  MaxChanges = 2
  Width = 4
  Loggers = {l1, l2}
  DropOnFull = FALSE
  Buffer = 1
  BatchSize = 2
  MaxEvents = 4
  MaxMails = 1
INVARIANTS OverlapHonoured QuietAfterStop AuditIsWhole
PROPERTIES NobodyWaitsForEver EventuallyCurrent CloseEnds 
CHECK_DEADLOCK FALSE
