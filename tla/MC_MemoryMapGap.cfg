SPECIFICATION Spec
CONSTANTS
  PageSize <- MC_PageSize
  LowTop <- MC_LowTop
  HighBase <- MC_HighBase
  Described <- MC_Described
  EfiMaps <- MC_DisjointMaps
INVARIANTS
  EveryByteReported
