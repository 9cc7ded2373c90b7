SPECIFICATION FairSpec
CONSTANTS
  Masters = {m1}
  Slaves = {s1, s2}
  CorrIds = {1}
  MaxAttempts = 2
  MaxBeacons = 0
  QMax = 1
  MaxPairedSlaves = 2
  Reboots = FALSE
  Reinits = TRUE
  EraseFaults = FALSE
  None = None
  Plain = Plain
  ZeroLmk = ZeroLmk
  NoNode = NoNode
  NoNonce = NoNonce
PROPERTIES MasterForgetsLast 
CHECK_DEADLOCK FALSE
