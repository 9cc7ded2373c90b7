SPECIFICATION Spec
CONSTANTS
  Masters = {m1}
  Slaves = {s1, s2}
  CorrIds = {1}
  MaxAttempts = 2
  MaxBeacons = 1
  QMax = 2
  MaxPairedSlaves = 2
  Reboots = TRUE
  Reinits = FALSE
  EraseFaults = FALSE
  None = None
  Plain = Plain
  ZeroLmk = ZeroLmk
  NoNode = NoNode
  NoNonce = NoNonce
SYMMETRY SlaveSymmetry
INVARIANTS TypeOK SecuredIsPersisted  
 
CHECK_DEADLOCK FALSE
