SPECIFICATION AllSpec
VIEW CallsAside
CONSTANTS
  GTI_MAX_LEVEL = 8
  Values <- MCValues
  LeafValue = LeafValue
  Containers <- MCContainers
  Touched <- MCTouched
  LOG2_EPOCH_HISTORY = 1
  LOG2_MAPS_PER_EPOCH = 1
  LOG2_VALUES_PER_MAP = 1
  LOG2_MAP_HEIGHT = 1
  LOG2_MAP_WIDTH = 2
  PROG_LIST_HEIGHT_STEP = 2
  HashBits = 3
  MaxHeight = 13
  Opaque = {"Topics"}
  Bytes = {0, 1, 2, 3}
  MaxLength = 5
INVARIANTS InvalidatedUpwards CachedIsFresh LayoutAgrees ExpansionKeepsHash RootsTellValues OneEncoding
PROPERTIES RefusalKeepsRoot ContentsSpec
CHECK_DEADLOCK FALSE
