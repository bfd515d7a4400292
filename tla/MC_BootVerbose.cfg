SPECIFICATION Spec
CONSTANTS
  Address <- MC_Address
  CMDLINE_LOC <- MC_CMDLINE_LOC
  BOOTINFO_LOC <- MC_BOOTINFO_LOC
  MEMORY_MAP_ADDR <- MC_MEMORY_MAP_ADDR
  ACPI_TABLE_LOW <- MC_ACPI_TABLE_LOW
  SMBIOS_TABLE_LOW <- MC_SMBIOS_TABLE_LOW
  WRAPPER_BASE <- MC_WRAPPER_BASE
  WrapperSize <- MC_WrapperSize
  SearchWords <- MC_SearchWords
  LastBus <- MC_LastBus
  NumSlots <- MC_NumSlots
  NumFuncs <- MC_NumFuncs
  Devices <- MC_Devices
  EfiMaps <- MC_EfiMaps
  PageSize <- MC_PageSize
  LowTop <- MC_LowTop
  HighBase <- MC_HighBase
  Described <- MC_Described
  Machines <- MC_Machines
INVARIANTS
  VerboseByFlag
