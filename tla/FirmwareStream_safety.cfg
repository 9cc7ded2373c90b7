SPECIFICATION Spec
CONSTANTS
  Chunks = 3
  Window = 2
  AckStep = 2
  RetryMax = 1
  RetryMaxRecovery = 2
  SendFailMax = 1
  Ids = {1, 2}
  EventSeq0 = 1
  QMax = 2
  MaxPushes = 2
  MaxLost = 1
  Losable = {"Begin", "Chunk", "End", "Ack", "Nack", "Ok", "Fail", "Ready", "Clear", "Apply"}
  Refusals = TRUE
  SendFaults = TRUE
  Aborts = {1}
  Updates = TRUE
  Reboots = TRUE
  Timely = FALSE

PROPERTY DoneMeansPromoted
CHECK_DEADLOCK FALSE
INVARIANT AckedIsReceived
