SPECIFICATION FairSpec
CONSTANTS
  Chunks = 3
  Window = 2
  AckStep = 2
  RetryMax = 1
  RetryMaxRecovery = 2
  SendFailMax = 2
  Ids = {1}
  EventSeq0 = 1
  QMax = 4
  MaxPushes = 1
  MaxLost = 1
  Losable = {"Ack"}
  Refusals = FALSE
  SendFaults = FALSE
  Aborts = {}
  Updates = FALSE
  Reboots = FALSE
  Timely = TRUE
PROPERTIES PushEnds
CHECK_DEADLOCK FALSE
