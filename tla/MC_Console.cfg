SPECIFICATION FairSpec
CONSTANTS
  Byte <- MC_Byte
  Character <- MC_Character
  U16 <- MC_U16
  U32 <- MC_U32
  BufferSize <- MC_BufferSize
  Screens <- MC_Screens
  MessagesOn <- MC_MessagesOn
  CallsOn <- MC_CallsOn
INVARIANTS
  TypeOK
  RendersMessage
  GlyphInRow
  NothingDrawnOver
  BothTellAll
PROPERTIES
  RowsFilled
  CallsReturn
