SPECIFICATION StreamsSpec
CONSTANTS
  Chunks = 5
  Window = 2
  AckStep = 2
  RetryMax = 1
  RetryMaxRecovery = 2
  SendFailMax = 2
  Ids = {1}
  EventSeq0 = 1
  QMax = 4
  MaxPushes = 1
  MaxLost = 3
  Losable = {"Chunk", "End", "Ok", "Fail", "Clear"}
  Refusals = FALSE
  SendFaults = TRUE
  Aborts = {1}
  Updates = FALSE
  Reboots = FALSE
  Timely = TRUE
  Masters = {"m1", "m2"}
  Keys <- TwoKeys
  Configs <- MCConfigs
  Interval = 2
  Gap = 1
  Backoff = 1
  FailMax = 2
  MaxValue = 1
  MaxBusy = 3
  Sources = {"cli", "web"}
  Slaves = {"s1", "s2"}
  PairsMax = 1
  PullsMax = 2
  MaxNumber = 2
  MaxRadio = 1
  Members = {"s1", "s2"}
  Channels = {1, 6}
  Home = 1
  RxMax = 2
  MaxSwitches = 2
  MaxMishaps = 3
  FrameMax = 60
  Asks <- MCAsks
  Answers <- MCAnswers
  Calls <- MCCalls
  Tellings <- MCTellings
  SlotsMax = 3
  GroupsMax = 2
  ListMax = 2
INVARIANTS StreamsTypeOK StreamAsTold OpenIsOwed 
PROPERTIES PushCompletes StreamFlows 
CHECK_DEADLOCK FALSE
