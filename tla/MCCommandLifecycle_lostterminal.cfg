SPECIFICATION FairSpec
CONSTANTS
  p1 = p1
  p2 = p2
  None = None
  MaxId = 2
  Peers = {p1}
  PeerOrder <- OnePeer
  Depth = 2
  MaxRadioOps = 0
PROPERTIES NoLostTerminal
CHECK_DEADLOCK FALSE
