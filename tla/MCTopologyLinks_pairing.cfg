SPECIFICATION LinkSpec
CONSTANTS Topologies = {"old", "new"}
          Slots <- MCSlots
          SlotsOf <- MCSlotsOf
          SeedOf <- MCSeedOf
          Lords = {"m1", "m2"}
          MaxMoves = 6
INVARIANT LinksFollowPairing
CHECK_DEADLOCK FALSE
