SPECIFICATION FlashSpec
CONSTANTS
  Peers = {p1, p2, p3}
  Lmks = {k1, k2}
  MaxPairedSlaves = 2
  RestorePairLimit = 2
  MaxSeq = 4
  Channel = Channel
  None = None
  Unknown = Unknown
  MaxVersion = 3
  RebootInApply = {TRUE, FALSE}
  Fallback = TRUE
  EventIds = {"e1"}
  QMax = 1
  RetryMax = 1
  MaxRestarts = 2
  MaxFaults = 1
  MaxPublished = 1
  MaxRefused = 1
  Roles = {"s"}
  ImageCount = 2
  IdCount = 2
  SmallEntries = 1
  MaxCuts = 1
  MaxErrors = 1
SYMMETRY StoreSymmetry
INVARIANTS FlashTypeOK 
INVARIANTS ConfirmedIsApplied UpdateIsTold ListedIsWhole
CHECK_DEADLOCK FALSE
