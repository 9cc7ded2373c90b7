SPECIFICATION CacheSpec
CONSTANTS
  Servants = {"n"}
  FrameFits <- MCNarrow
  PageSize = 2
  Total = 3
  Versions = {0, 1}
  MaxPulls = 3
  MaxWork = 4
INVARIANTS BundleSettles
CHECK_DEADLOCK FALSE
