SPECIFICATION Spec
CONSTANTS
  WordSize <- MC_WordSize
  Unit <- MC_Unit
  Pause <- MC_Pause
  Starts <- MC_Starts
  Laps <- MC_Laps
INVARIANTS
  TypeOK
  SleepsLongEnough
  WakesInTime
