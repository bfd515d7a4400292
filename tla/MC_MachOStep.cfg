SPECIFICATION Spec
CONSTANTS
  Images <- MC_Images
  Begins <- MC_Begins
  SegmentName <- MC_SegmentName
  SectionName <- MC_SectionName
INVARIANTS
  FailsOnlyWithout
