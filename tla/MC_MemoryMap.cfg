SPECIFICATION Spec
CONSTANTS
  PageSize <- MC_PageSize
  LowTop <- MC_LowTop
  HighBase <- MC_HighBase
  Described <- MC_Described
  EfiMaps <- MC_EfiMaps
INVARIANTS
  TypeOK
  NothingInvented
  ReportedExactly
  Coalesced
  EntriesDisjoint
  OneEntryPerDescriptor
PROPERTIES
  Returns
  ContractSpec
