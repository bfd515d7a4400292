SPECIFICATION Spec
CONSTANTS
  LastBus <- MC_LastBus
  NumSlots <- MC_NumSlots
  NumFuncs <- MC_NumFuncs
  Devices <- MC_Devices
INVARIANTS
  TypeOK
  FixesTheFirst
  ControllerReady
PROPERTIES
  Ends
