SPECIFICATION FairSpec
CONSTANTS
  p1 = p1
  p2 = p2
  None = None
  MaxId = 2
  Peers = {p1, p2}
  PeerOrder <- TwoPeers
  Depth = 2
  MaxRadioOps = 2
INVARIANTS TypeOK AtMostOneTerminal PausedIsQuiet DeferredHasExchange LiveFollowsConfig
PROPERTIES CommandsEnd
CHECK_DEADLOCK FALSE
