SPECIFICATION ServicesSpec
CONSTANTS
  Topologies = {"old", "new"}
  Slots <- MCSlots
  SlotsOf <- MCSlotsOf
  SeedOf <- MCSeedOf
  Lords = {"m1", "m2"}
  MaxMoves = 9
  TriggerMax = 3
  SeqMax = 2
  DedupMax = 2
  BootMax = 2
  Docs = {"north", "south"}
  PartsOf <- MCPartsOf
  MaxReqs = 2
  MaxFaults = 2
  Devices = {"a", "b", "c", "d"}
  Paired = {"a", "b", "d"}
  Profile <- MCProfile
  Pool <- MCPool
  Starts <- MCStarts
  Backups <- MCBackups
  Chains <- MCChains
  MaxSlots = 4
  MaxGroups = 2
  MaxDevices = 3
  MaxNodes = 5
  MaxCommands = 2
  Watched = {"s1", "s2"}
  Fickle = {"s1"}
  Trigger = 1
  Urgency = 2
  Silence = 3
  ProbeWait = 1
  Few = 1
  Steps = {1, 3}
  MaxTurns = 2
INVARIANTS ServicesTypeOK LinksFollowCommit RunsOnce VerifiedAgree ShownIsHeld
PROPERTIES  MonitorFollows
CHECK_DEADLOCK FALSE
