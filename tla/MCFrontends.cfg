SPECIFICATION FrontendsSpec
CONSTANTS
  MaxAsked = 2
  Calls <- MCCalls
  ServiceDepth = 2
  BoxSize = 2
  TrackSize = 1
  PollMax = 2
  MaxRadio = 1
  Frontends = {"cli", "web", "ble"}
  RoundMax = 2
  BacklogMax = 2
  DepthMax = 2
  Nodes = {"n", "m"}
  Datasets <- MCLists
  Room = 2
  FirstSize = 2
  QueueMax = 1
  LogMax = 2
  ExportMax = 2
  MaxReads = 2
  MaxProbes = 1
  MaxChanges = 1
  MaxRecords = 3
  MaxFailures = 1
  Servants = {"n"}
  FrameFits <- MCWide
  PageSize = 2
  Total = 3
  Versions = {0, 1}
  MaxPulls = 3
  MaxWork = 4
INVARIANTS FrontendsTypeOK CommandsTracked NobodyShutOut
INVARIANTS ReadsAreWhole 
PROPERTIES EndsStand
CHECK_DEADLOCK FALSE
