SPECIFICATION DataSpec
CONSTANTS
  Procs = {p1, p2}
  NoProc = NoProc
  Releases <- MCReleases
  Declared = {"i1", "i2"}
  MaxStarts = 3
  Callers = {p1, p2}
  Principals = {"ann", "none", "system"}
  Rids = {1, 2}
  MaxOps = 4
  MaxStaged = 1
  RidOf <- MCRids
  Contents <- MCContents
  Queries <- MCQueries
  LongTitle = 2
  DefaultPageSize = 2
  MaxPageSize = 2
  maxPageSize = 3
  maxInList = 2
  MaxOffset = 5
  MaxChanges = 2
  Dialects = {"sqlite", "postgres", "mysql"}
  RowContents <- MCRows
  RowIds = {1, 2, 3}
  Asks <- MCAsks
  Fold <- MCFold
  IntMax = 3
  FloatExact = 2
  Milli = 2
  ZoneLong = 2
  ChunkSize = 1
  MaxRowChanges = 1
  Models <- MCModels
  Dtos <- MCDtos
  Tainted = {2}
  Bodies = {{}, {"title"}, {"notes"}, {"title", "version"}}
  QueryTexts <- MCQueryTexts
  OntoVersion = {0, 1}
  Databases = {"sqlite", "postgres", "mysql"}
  Engines = {"sqlite", "postgres"}
  Indexes <- MCIndexes
  Assigned = {"slug"}
  Conflicts <- MCConflicts
  Batches <- MCBatches
  batchSize = 1
  MaxUpserts = 2
  Seconds = 2
  Minutes = 2
  Hours = 3
  Weekdays = 2
  MonthDays <- MCMonths
  Specs <- MCSpecs
  Starts <- MCStarts
  Zones <- MCZones
  YearLimit = 1
SYMMETRY DataSymmetry
INVARIANTS  WalkComplete   UpsertsLiveRows NextIsNext
PROPERTIES MigrationsHold 
CHECK_DEADLOCK FALSE
