SPECIFICATION QuantizationSpec
CONSTANTS
  SEARCH_BITS = 5
  SEARCH_MAX_OFFSET = 10000
  SEARCH_GAS_LIMITS <- TableLimits
  CPSB_OFFSET = 9578
  MaxBlocks = 10
  StableBlocks = 9
  Targets <- MC_Targets
  Tabulated <- TableLimits
CHECK_DEADLOCK FALSE
INVARIANTS OffsetIsBest BoundariesAreSharp CostIsStable
PROPERTY CostFollowsLimit
