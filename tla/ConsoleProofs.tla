----------------------------- MODULE ConsoleProofs -----------------------------
(***************************************************************************)
(* Proofs about what the console makes of a message, for every width of    *)
(* the words, every screen and every message.  What vsprintf makes of it   *)
(* is proved in FormatProofs.                                              *)
(*                                                                         *)
(* A glyph's place depends on the wrap position and on how the cursor came *)
(* there, one glyph's width at a time from the first pixel of a row: the   *)
(* cursor is at a whole number of glyphs and has room for one more         *)
(* (Placed), and it has not come round, since all the text there may be is *)
(* counted (Counted).  What has been said is followed on its way: from the *)
(* message to szBuffer, from there to the screen and to COM1 (Told), and   *)
(* the glyphs, in reading order, are the characters PrintToScreen is done  *)
(* with (Shows).                                                           *)
(***************************************************************************)
EXTENDS Console, FormatProofs, FiniteSetTheorems

(* On rows of whole glyphs there is always room for one at the cursor. *)
RoomAtCursor ==
  WholeGlyphs =>
    \E k \in Nat : /\ VideoCursorX = VIDEO_STARTING_POSITION + ISO_CHAR_WIDTH * k
                   /\ ISO_CHAR_WIDTH * (k + 1) <= screen.RowPixels

Placed ==
  /\ screen \in Screens
  /\ VideoCursorX \in 0..(U32 - 1) /\ VideoCursorY \in 0..(U32 - 1)
  /\ stage # "off" => NeedsWrapAround = WrapPosition /\ RoomAtCursor
  /\ GlyphInRow

-----------------------------------------------------------------------------
(* The constants are numbers, and rows a word wide. *)
LEMMA Constants ==
  /\ U32 \in Nat \ {0} /\ BufferSize \in Nat \ {0} /\ U16 \in Nat
  /\ \A s \in Screens : s.RowPixels \in 0..(U32 - 1) /\ CallsOn(s) \in Nat
<1>1. U32 \in Nat \ {0} /\ U16 \in Nat /\ BufferSize \in 1..U16
  BY ConsoleAssumption
<1>2. \A s \in Screens : s \in [RowPixels : 0..(U32 - 1)] /\ CallsOn(s) \in Nat
  BY ConsoleAssumption
<1>. QED  BY <1>1, <1>2

(* The first place of a screen is one the cursor can be at. *)
LEMMA StartFits ==
  ASSUME NEW s \in Screens
  PROVE  U32 \in Nat /\ 1 < U32
<1>1. 1 + 16 * (CallsOn(s) * BufferSize) < U32
  BY TextAssumption DEF VIDEO_STARTING_POSITION, ISO_CHAR_HEIGHT
<1>2. CallsOn(s) * BufferSize \in Nat
  BY Constants
<1>. QED  BY <1>1, <1>2, Constants

(* Where a row of whole glyphs ends. *)
LEMMA WrapPositionIs ==
  ASSUME screen \in Screens, WholeGlyphs
  PROVE  WrapPosition = screen.RowPixels - 9
<1>. DEFINE R == screen.RowPixels
<1>1. R \in 0..(U32 - 1) /\ U32 \in Nat \ {0} /\ R >= 9
  BY Constants DEF WholeGlyphs, VIDEO_STARTING_POSITION, ISO_CHAR_WIDTH
<1>2. WrapPosition = (R + U32 - 1 - 8) % U32
  BY DEF WrapPosition, VIDEO_STARTING_POSITION, ISO_CHAR_WIDTH
<1>. HIDE DEF R
<1>3. R + U32 - 1 - 8 = (R - 9) + U32 /\ R - 9 \in 0..(U32 - 1)
  BY <1>1
<1>4. ((R - 9) + U32) % U32 = R - 9
  BY <1>1, <1>3
<1>. QED  BY <1>2, <1>3, <1>4 DEF R

(* The first place of a row has room, if a row has. *)
LEMMA RoomAtStart ==
  ASSUME screen \in Screens, WholeGlyphs
  PROVE  \E k \in Nat : /\ VIDEO_STARTING_POSITION = VIDEO_STARTING_POSITION + ISO_CHAR_WIDTH * k
                        /\ ISO_CHAR_WIDTH * (k + 1) <= screen.RowPixels
<1>1. screen.RowPixels >= 9 /\ screen.RowPixels \in Nat
  BY Constants DEF WholeGlyphs, VIDEO_STARTING_POSITION, ISO_CHAR_WIDTH
<1>2. 0 \in Nat /\ 8 * 0 = 0 /\ 8 * (0 + 1) = 8
  OBVIOUS
<1>3. VIDEO_STARTING_POSITION = VIDEO_STARTING_POSITION + ISO_CHAR_WIDTH * 0
      /\ ISO_CHAR_WIDTH * (0 + 1) <= screen.RowPixels
  BY <1>1, <1>2 DEF VIDEO_STARTING_POSITION, ISO_CHAR_WIDTH
<1>. QED  BY <1>3

(* Before the wrap position there is room for a glyph and one behind it.   *)
LEMMA RoomBehind ==
  ASSUME screen \in Screens, WholeGlyphs, NEW k \in Nat,
         9 + 8 * k < screen.RowPixels - 1
  PROVE  8 * (k + 2) <= screen.RowPixels
<1>. DEFINE R == screen.RowPixels
            q == R \div 8
            r == R % 8
<1>1. R \in Nat /\ r \in 0..2
  BY Constants DEF WholeGlyphs, ISO_CHAR_WIDTH
<1>2. q \in Nat /\ R = 8 * q + r
  BY <1>1
<1>3. 9 + 8 * k < R - 1
  OBVIOUS
<1>. HIDE DEF R, q, r
<1>4. k + 2 <= q
  BY <1>1, <1>2, <1>3
<1>5. 8 * (k + 2) <= R
  BY <1>1, <1>2, <1>4
<1>. QED  BY <1>5 DEF R

(* Where a character leaves the cursor. *)
LEMMA CursorMoves ==
  ASSUME Placed, PrintGlyph
  PROVE  /\ screen' = screen /\ NeedsWrapAround' = NeedsWrapAround /\ stage' = stage
         /\ VideoCursorX' \in 0..(U32 - 1) /\ VideoCursorY' \in 0..(U32 - 1)
         /\ RoomAtCursor'
<1>1. /\ U32 \in Nat \ {0, 1} /\ screen \in Screens /\ stage = "screen"
      /\ VideoCursorX \in 0..(U32 - 1) /\ VideoCursorY \in 0..(U32 - 1)
      /\ NeedsWrapAround = WrapPosition /\ RoomAtCursor
  <2>1. screen \in Screens /\ stage = "screen"
    BY DEF Placed, PrintGlyph, PrintCharacter
  <2>2. U32 # 1
    BY <2>1, StartFits
  <2>. QED  BY <2>1, <2>2, Constants DEF Placed
<1>2. screen' = screen /\ NeedsWrapAround' = NeedsWrapAround /\ stage' = stage
  BY DEF PrintGlyph, PrintCharacter
<1>3. WholeGlyphs' <=> WholeGlyphs
  BY <1>2 DEF WholeGlyphs
<1>4. CASE VideoCursorX >= NeedsWrapAround
  <2>1. VideoCursorX' = VIDEO_STARTING_POSITION
        /\ VideoCursorY' = (VideoCursorY + ISO_CHAR_HEIGHT) % U32
    BY <1>4 DEF PrintGlyph, StartLine
  <2>2. VideoCursorY' \in 0..(U32 - 1) /\ VideoCursorX' \in 0..(U32 - 1)
    BY <1>1, <2>1 DEF ISO_CHAR_HEIGHT, VIDEO_STARTING_POSITION
  <2>3. RoomAtCursor'
    BY <1>1, <1>2, <1>3, <2>1, RoomAtStart DEF RoomAtCursor
  <2>. QED  BY <1>2, <2>2, <2>3
<1>5. CASE ~(VideoCursorX >= NeedsWrapAround)
  <2>1. VideoCursorX' = (VideoCursorX + 8) % U32 /\ VideoCursorY' = VideoCursorY
    BY <1>5 DEF PrintGlyph, ISO_CHAR_WIDTH
  <2>2. VideoCursorX' \in 0..(U32 - 1)
    BY <1>1, <2>1
  <2>3. ASSUME WholeGlyphs
        PROVE  \E k \in Nat : VideoCursorX' = 1 + 8 * k /\ 8 * (k + 1) <= screen.RowPixels
    <3>1. PICK k \in Nat : VideoCursorX = 1 + 8 * k /\ 8 * (k + 1) <= screen.RowPixels
      BY <1>1, <2>3 DEF RoomAtCursor, VIDEO_STARTING_POSITION, ISO_CHAR_WIDTH
    <3>2. NeedsWrapAround = screen.RowPixels - 9 /\ screen.RowPixels \in 0..(U32 - 1)
      BY <1>1, <2>3, WrapPositionIs, Constants
    <3>3. 1 + 8 * k < screen.RowPixels - 9
      BY <1>1, <1>5, <3>1, <3>2
    <3>4. 9 + 8 * k < screen.RowPixels - 1
      BY <3>2, <3>3
    <3>5. 8 * (k + 2) <= screen.RowPixels
      BY <1>1, <2>3, <3>4, RoomBehind
    <3>6. VideoCursorX' = 1 + 8 * (k + 1)
      <4>1. VideoCursorX + 8 = 1 + 8 * (k + 1) /\ VideoCursorX + 8 \in 0..(U32 - 1)
        BY <1>1, <3>1, <3>2, <3>4
      <4>2. (VideoCursorX + 8) % U32 = VideoCursorX + 8
        BY <1>1, <4>1
      <4>. QED  BY <2>1, <4>1, <4>2
    <3>7. k + 1 \in Nat /\ (k + 1) + 1 = k + 2
      OBVIOUS
    <3>. QED  BY <3>5, <3>6, <3>7
  <2>4. RoomAtCursor'
    BY <1>2, <1>3, <2>3 DEF RoomAtCursor, VIDEO_STARTING_POSITION, ISO_CHAR_WIDTH
  <2>. QED  BY <1>1, <1>2, <2>1, <2>2, <2>4
<1>. QED  BY <1>4, <1>5

(* What Setup leaves. *)
LEMMA SetUp ==
  ASSUME screen \in Screens, Setup
  PROVE  /\ screen' = screen /\ stage' = "idle"
         /\ VideoCursorX' \in 0..(U32 - 1) /\ VideoCursorY' \in 0..(U32 - 1)
         /\ NeedsWrapAround' = WrapPosition' /\ RoomAtCursor'
<1>1. /\ VideoCursorX' = VIDEO_STARTING_POSITION /\ VideoCursorY' = VIDEO_STARTING_POSITION
      /\ NeedsWrapAround' = WrapPosition /\ stage' = "idle" /\ screen' = screen
  BY DEF Setup
<1>2. U32 \in Nat /\ 1 < U32
  BY StartFits
<1>3. WrapPosition' = WrapPosition /\ (WholeGlyphs' <=> WholeGlyphs)
  BY <1>1 DEF WrapPosition, WholeGlyphs
<1>4. RoomAtCursor'
  BY <1>1, <1>3, RoomAtStart DEF RoomAtCursor
<1>. QED  BY <1>1, <1>2, <1>3, <1>4 DEF VIDEO_STARTING_POSITION

(* All other steps leave the cursor and the glyphs alone. *)
Elsewhere ==
  /\ UNCHANGED <<screen, VideoCursorX, VideoCursorY, NeedsWrapAround, glyphs>>
  /\ stage # "off" /\ stage' # "off"

(* The glyphs stay where they are placed. *)
LEMMA PlacedElsewhere ==
  ASSUME Placed, Elsewhere
  PROVE  Placed'
<1>1. UNCHANGED <<screen, VideoCursorX, VideoCursorY, NeedsWrapAround, glyphs>>
      /\ stage # "off"
  BY DEF Elsewhere
<1>. QED
  BY <1>1 DEF Placed, RoomAtCursor, WholeGlyphs, WrapPosition, GlyphInRow

(* Every step leaves the cursor at a place with room. *)
LEMMA PlacedStep ==
  ASSUME Placed, Next
  PROVE  Placed'
<1>1. screen \in Screens
  BY DEF Placed
<1>2. CASE SetupScreen
  <2>1. Setup /\ glyphs' = glyphs
    BY <1>2 DEF SetupScreen
  <2>2. screen' = screen
    BY <1>1, <2>1, SetUp
  <2>3. GlyphInRow'
    BY <2>1, <2>2 DEF Placed, GlyphInRow, WholeGlyphs
  <2>. QED  BY <1>1, <2>1, <2>3, SetUp DEF Placed
<1>3. ASSUME NEW VerboseEnable \in BOOLEAN, ClearScreen(VerboseEnable)
      PROVE  Placed'
  <2>1. Setup /\ glyphs' = {}
    BY <1>3 DEF ClearScreen
  <2>2. GlyphInRow'
    BY <2>1 DEF GlyphInRow
  <2>. QED  BY <1>1, <2>1, <2>2, SetUp DEF Placed
<1>4. ASSUME Idle, NEW m \in MessagesOn(screen), printf(m) \/ debug_printf(m)
      PROVE  Placed'
  <2>1. Elsewhere
    BY <1>4 DEF Idle, printf, debug_printf, Call, Elsewhere, cursor
  <2>. QED  BY <2>1, PlacedElsewhere
<1>5. CASE FormatText
  BY <1>5, PlacedElsewhere DEF FormatText, Elsewhere, cursor
<1>6. CASE Terminate
  BY <1>6, PlacedElsewhere DEF Terminate, Elsewhere, cursor
<1>7. CASE PrintNewline
  <2>1. /\ screen' = screen /\ NeedsWrapAround' = NeedsWrapAround /\ stage' = stage
        /\ stage = "screen" /\ glyphs' = glyphs
        /\ VideoCursorX' = VIDEO_STARTING_POSITION
        /\ VideoCursorY' = (VideoCursorY + ISO_CHAR_HEIGHT) % U32
    BY <1>7 DEF PrintNewline, PrintCharacter, StartLine
  <2>2. U32 \in Nat /\ 1 < U32
    BY <1>1, StartFits
  <2>3. VideoCursorX' \in 0..(U32 - 1) /\ VideoCursorY' \in 0..(U32 - 1)
    <3>1. VideoCursorY \in 0..(U32 - 1)
      BY DEF Placed
    <3>. QED  BY <2>1, <2>2, <3>1 DEF VIDEO_STARTING_POSITION, ISO_CHAR_HEIGHT
  <2>4. RoomAtCursor'
    <3>1. WholeGlyphs' <=> WholeGlyphs
      BY <2>1 DEF WholeGlyphs
    <3>. QED  BY <1>1, <2>1, <3>1, RoomAtStart DEF RoomAtCursor
  <2>5. NeedsWrapAround' = WrapPosition' /\ GlyphInRow'
    BY <2>1 DEF Placed, WrapPosition, GlyphInRow, WholeGlyphs
  <2>. QED  BY <1>1, <2>1, <2>3, <2>4, <2>5 DEF Placed
<1>8. CASE PrintGlyph
  <2>1. /\ screen' = screen /\ NeedsWrapAround' = NeedsWrapAround /\ stage' = stage
        /\ VideoCursorX' \in 0..(U32 - 1) /\ VideoCursorY' \in 0..(U32 - 1)
        /\ RoomAtCursor'
    BY <1>8, CursorMoves
  <2>2. stage = "screen" /\ glyphs' = glyphs \cup {<<VideoCursorX, VideoCursorY, szBuffer[i]>>}
    BY <1>8 DEF PrintGlyph, PrintCharacter
  <2>3. NeedsWrapAround' = WrapPosition'
    BY <2>1, <2>2 DEF Placed, WrapPosition
  <2>4. GlyphInRow'
    <3>. SUFFICES ASSUME WholeGlyphs', NEW g \in glyphs'
                  PROVE  g[1] >= 1 /\ g[1] - 1 + ISO_CHAR_WIDTH <= screen.RowPixels
      BY <2>1 DEF GlyphInRow
    <3>1. WholeGlyphs
      BY <2>1 DEF WholeGlyphs
    <3>2. CASE g \in glyphs
      BY <3>1, <3>2 DEF Placed, GlyphInRow
    <3>3. CASE g = <<VideoCursorX, VideoCursorY, szBuffer[i]>>
      <4>1. PICK k \in Nat : VideoCursorX = 1 + 8 * k /\ 8 * (k + 1) <= screen.RowPixels
        BY <2>2, <3>1 DEF Placed, RoomAtCursor, VIDEO_STARTING_POSITION, ISO_CHAR_WIDTH
      <4>2. g[1] = VideoCursorX
        BY <3>3
      <4>3. g[1] >= 1 /\ g[1] - 1 + 8 = 8 * (k + 1)
        BY <4>1, <4>2
      <4>. QED  BY <4>1, <4>3 DEF ISO_CHAR_WIDTH
    <3>. QED  BY <2>2, <3>2, <3>3
  <2>. QED  BY <1>1, <2>1, <2>3, <2>4 DEF Placed
<1>9. CASE ScreenPrinted
  BY <1>9, PlacedElsewhere DEF ScreenPrinted, Elsewhere, cursor
<1>10. CASE PrintToSerial
  BY <1>10, PlacedElsewhere DEF PrintToSerial, Elsewhere, cursor
<1>11. CASE Quiet
  BY <1>11, PlacedElsewhere DEF Quiet, Elsewhere, vars, cursor
<1>. QED
  BY <1>2, <1>3, <1>4, <1>5, <1>6, <1>7, <1>8, <1>9, <1>10, <1>11 DEF Next

(* The invariant of the cursor: on rows of whole glyphs it has always room *)
(* for one more.                                                           *)
THEOREM CursorHasRoom ==
  Spec => []Placed
<1>1. Init => Placed
  <2>. SUFFICES ASSUME Init PROVE Placed
    OBVIOUS
  <2>1. screen \in Screens /\ stage = "off" /\ VideoCursorX = 0 /\ VideoCursorY = 0
        /\ glyphs = {}
    BY DEF Init
  <2>. QED  BY <2>1, Constants DEF Placed, GlyphInRow
<1>2. Placed /\ [Next]_vars => Placed'
  <2>1. Placed /\ UNCHANGED vars => Placed'
    BY DEF vars, cursor, Placed, RoomAtCursor, WholeGlyphs, WrapPosition, GlyphInRow
  <2>. QED  BY <2>1, PlacedStep
<1>. QED  BY <1>1, <1>2, PTL DEF Spec

(* On rows of whole glyphs PrintToScreen tears no glyph over the end of    *)
(* its row.                                                                *)
THEOREM GlyphsInRow ==
  Spec => []GlyphInRow
<1>1. Placed => GlyphInRow
  BY DEF Placed
<1>. QED  BY <1>1, CursorHasRoom, PTL

(* On a row of any width the cursor wraps after a glyph only if there is   *)
(* no room for another one behind it.                                      *)
THEOREM RowsAreFilled ==
  Spec => RowsFilled
<1>1. Placed /\ PrintGlyph /\ VideoCursorX' = VIDEO_STARTING_POSITION
        => VideoCursorX - 1 + 2 * ISO_CHAR_WIDTH > screen.RowPixels
  <2>. SUFFICES ASSUME Placed, PrintGlyph, VideoCursorX' = 1
                PROVE  VideoCursorX - 1 + 2 * 8 > screen.RowPixels
    BY DEF VIDEO_STARTING_POSITION, ISO_CHAR_WIDTH
  <2>. DEFINE R == screen.RowPixels
  <2>1. stage = "screen" /\ screen \in Screens /\ VideoCursorX \in 0..(U32 - 1)
    BY DEF PrintGlyph, PrintCharacter, Placed
  <2>2. R \in 0..(U32 - 1) /\ U32 \in Nat \ {0}
    BY <2>1, Constants
  <2>3. NeedsWrapAround = (R + U32 - 1 - 8) % U32
    BY <2>1 DEF Placed, WrapPosition, VIDEO_STARTING_POSITION, ISO_CHAR_WIDTH
  <2>4. \/ VideoCursorX >= NeedsWrapAround
        \/ VideoCursorX < NeedsWrapAround /\ VideoCursorX' = (VideoCursorX + 8) % U32
    <3>1. NeedsWrapAround \in Int
      BY <2>2, <2>3
    <3>. QED  BY <2>1, <2>2, <3>1 DEF PrintGlyph, ISO_CHAR_WIDTH
  <2>. HIDE DEF R
  <2>5. CASE R < 15
    BY <2>1, <2>2, <2>5 DEF R
  <2>6. CASE R >= 15
    <3>1. NeedsWrapAround = R - 9
      <4>1. R + U32 - 1 - 8 = (R - 9) + U32 /\ R - 9 \in 0..(U32 - 1)
        BY <2>2, <2>6
      <4>2. ((R - 9) + U32) % U32 = R - 9
        BY <2>2, <4>1
      <4>. QED  BY <2>3, <4>1, <4>2
    <3>2. VideoCursorX >= NeedsWrapAround
      <4>. SUFFICES ASSUME VideoCursorX < NeedsWrapAround PROVE FALSE
        BY <2>4
      <4>1. VideoCursorX' = (VideoCursorX + 8) % U32
        BY <2>1, <2>2, <2>4, <3>1
      <4>2. VideoCursorX + 8 \in 0..(U32 - 1)
        BY <2>1, <2>2, <3>1
      <4>3. (VideoCursorX + 8) % U32 = VideoCursorX + 8
        BY <2>2, <4>2
      <4>. QED  BY <2>1, <2>2, <4>1, <4>3
    <3>. QED  BY <2>1, <2>2, <3>1, <3>2 DEF R
  <2>. QED  BY <2>2, <2>5, <2>6
<1>. QED  BY <1>1, CursorHasRoom, PTL DEF RowsFilled

-----------------------------------------------------------------------------
(* The characters there may be on the screen: as many as fit the buffers   *)
(* of the calls made, of the call under way those printed.                 *)
Printed ==
  CASE stage = "format" -> (calls - 1) * BufferSize
    [] stage = "screen" -> (calls - 1) * BufferSize + (i - 1)
    [] OTHER            -> calls * BufferSize

(* Every character moves the cursor by a glyph or by a line, so it has not *)
(* come round.                                                             *)
Counted ==
  /\ screen \in Screens /\ calls \in 0..CallsOn(screen)
  /\ stage = "off" => calls = 0 /\ glyphs = {}
  /\ stage \in {"format", "screen", "serial"} => calls >= 1
  /\ stage \in {"screen", "serial"} =>
       Len(szBuffer) \in 0..(BufferSize - 1) /\ i \in 1..(Len(szBuffer) + 1)
  /\ VideoCursorX \in 0..(VIDEO_STARTING_POSITION + ISO_CHAR_WIDTH * Printed)
  /\ VideoCursorY \in 0..(VIDEO_STARTING_POSITION + ISO_CHAR_HEIGHT * Printed)
  /\ \A g \in glyphs : g[1] \in Nat /\ g[2] \in Nat

(* Printing goes in reading order: by its coordinates, if not by the       *)
(* pixels that are drawn, the cursor is past every glyph, on any screen.   *)
CursorPastText ==
  \A g \in glyphs : \/ g[2] + ISO_CHAR_HEIGHT <= VideoCursorY
                    \/ g[2] = VideoCursorY /\ g[1] + ISO_CHAR_WIDTH <= VideoCursorX

IInv == Counted /\ CursorPastText

-----------------------------------------------------------------------------
(* The text of all calls there may be fits a word, as rows. *)
LEMMA CallsFit ==
  ASSUME Counted
  PROVE  /\ BufferSize \in Nat \ {0} /\ U32 \in Nat /\ calls \in Nat
         /\ calls * BufferSize \in Nat /\ CallsOn(screen) * BufferSize \in Nat
         /\ calls * BufferSize <= CallsOn(screen) * BufferSize
         /\ 1 + 16 * (CallsOn(screen) * BufferSize) < U32
         /\ (calls - 1) * BufferSize = calls * BufferSize - BufferSize
         /\ (calls + 1) * BufferSize = calls * BufferSize + BufferSize
         /\ calls >= 1 => (calls - 1) * BufferSize \in Nat
<1>. DEFINE B == BufferSize
            C == CallsOn(screen)
<1>1. B \in Nat \ {0} /\ U32 \in Nat /\ C \in Nat /\ calls \in 0..C
  BY Constants DEF Counted
<1>2. 1 + 16 * (C * B) < U32
  BY TextAssumption DEF Counted, VIDEO_STARTING_POSITION, ISO_CHAR_HEIGHT
<1>. HIDE DEF B, C
<1>3. calls \in Nat /\ calls * B \in Nat /\ C * B \in Nat /\ calls * B <= C * B
  <2>1. PICK d \in Nat : C = calls + d
    BY <1>1
  <2>2. C * B = calls * B + d * B /\ d * B \in Nat /\ calls * B \in Nat
    BY <1>1, <2>1
  <2>. QED  BY <1>1, <2>2
<1>4. (calls - 1) * B = calls * B - B /\ (calls + 1) * B = calls * B + B
  BY <1>1, <1>3
<1>5. calls >= 1 => (calls - 1) * B \in Nat
  <2>1. calls >= 1 => calls - 1 \in Nat
    BY <1>1
  <2>. QED  BY <1>1, <2>1
<1>. QED  BY <1>1, <1>2, <1>3, <1>4, <1>5 DEF B, C

(* What calls is multiplied with in Printed is a number again. *)
LEMMA ProductIsNat == \A a, b \in Nat : a * b \in Nat
  OBVIOUS

(* A character under way is one of those there may be. *)
LEMMA OneMore ==
  ASSUME Counted, stage = "screen", i <= Len(szBuffer)
  PROVE  /\ Printed \in Nat
         /\ 1 + 16 * (Printed + 1) < U32 /\ U32 \in Nat
<1>1. /\ Len(szBuffer) \in 0..(BufferSize - 1) /\ i \in 1..(Len(szBuffer) + 1)
      /\ calls >= 1
  BY DEF Counted
<1>2. Printed = (calls - 1) * BufferSize + (i - 1)
  BY DEF Printed
<1>. DEFINE p == (calls - 1) * BufferSize
            c == calls * BufferSize
            t == CallsOn(screen) * BufferSize
<1>3. /\ BufferSize \in Nat /\ U32 \in Nat /\ c \in Nat /\ t \in Nat /\ c <= t
      /\ 1 + 16 * t < U32 /\ p = c - BufferSize /\ p \in Nat
  BY <1>1, CallsFit
<1>4. Printed = p + (i - 1)
  BY <1>2
<1>. HIDE DEF p, c, t
<1>5. i \in Nat /\ i >= 1 /\ i <= BufferSize - 1
  BY <1>1, <1>3
<1>6. p + (i - 1) \in Nat /\ p + (i - 1) + 1 <= t
  BY <1>3, <1>5
<1>. QED  BY <1>3, <1>4, <1>6

(* A new line leaves what was printed above it.                            *)
LEMMA NextLine ==
  ASSUME IInv, stage = "screen", i <= Len(szBuffer), i' = i + 1, stage' = stage,
         UNCHANGED <<screen, calls, szBuffer>>, StartLine,
         \A g \in glyphs' : g \in glyphs \/ (g[1] = VideoCursorX /\ g[2] = VideoCursorY)
  PROVE  IInv'
<1>. DEFINE P == Printed
            Q == Printed'
<1>1. P \in Nat /\ 1 + 16 * (P + 1) < U32 /\ U32 \in Nat
  BY OneMore DEF IInv
<1>2. Q = P + 1
  <2>1. Printed = (calls - 1) * BufferSize + (i - 1)
        /\ Printed' = (calls - 1) * BufferSize + ((i + 1) - 1)
    BY DEF Printed
  <2>2. i \in Nat /\ (calls - 1) * BufferSize \in Nat
    <3>1. Counted
      BY DEF IInv
    <3>2. BufferSize \in Nat /\ calls >= 1 /\ i \in 1..(Len(szBuffer) + 1)
          /\ Len(szBuffer) \in 0..(BufferSize - 1)
      BY <3>1, CallsFit DEF Counted
    <3>3. (calls - 1) * BufferSize \in Nat
      BY <3>1, <3>2, CallsFit
    <3>. QED  BY <3>2, <3>3
  <2>. QED  BY <2>1, <2>2
<1>3. /\ VideoCursorX \in 0..(1 + 8 * P) /\ VideoCursorY \in 0..(1 + 16 * P)
      /\ \A g \in glyphs : g[1] \in Nat /\ g[2] \in Nat
  BY DEF IInv, Counted, VIDEO_STARTING_POSITION, ISO_CHAR_WIDTH, ISO_CHAR_HEIGHT
<1>4. VideoCursorX' = 1 /\ VideoCursorY' = (VideoCursorY + 16) % U32
  BY DEF StartLine, VIDEO_STARTING_POSITION, ISO_CHAR_HEIGHT
<1>. HIDE DEF P, Q
<1>5. VideoCursorY' = VideoCursorY + 16
  <2>1. VideoCursorY + 16 \in 0..(U32 - 1)
    BY <1>1, <1>3
  <2>2. (VideoCursorY + 16) % U32 = VideoCursorY + 16
    BY <1>1, <2>1
  <2>. QED  BY <1>4, <2>2
<1>6. VideoCursorX' \in 0..(1 + 8 * Q) /\ VideoCursorY' \in 0..(1 + 16 * Q)
  BY <1>1, <1>2, <1>3, <1>4, <1>5
<1>7. ASSUME NEW g \in glyphs' PROVE g[1] \in Nat /\ g[2] \in Nat /\ g[2] + 16 <= VideoCursorY'
  <2>1. CASE g \in glyphs
    <3>1. g[1] \in Nat /\ g[2] \in Nat
      BY <1>3, <2>1
    <3>2. g[2] + 16 <= VideoCursorY \/ g[2] = VideoCursorY
      BY <2>1 DEF IInv, CursorPastText, ISO_CHAR_HEIGHT
    <3>. QED  BY <1>3, <1>5, <3>1, <3>2
  <2>2. CASE g[1] = VideoCursorX /\ g[2] = VideoCursorY
    BY <1>3, <1>5, <2>2
  <2>. QED  BY <2>1, <2>2
<1>8. Counted'
  <2>1. /\ screen \in Screens /\ calls \in 0..CallsOn(screen) /\ calls >= 1
        /\ Len(szBuffer) \in 0..(BufferSize - 1) /\ i \in 1..(Len(szBuffer) + 1)
    BY DEF IInv, Counted
  <2>2. i' \in 1..(Len(szBuffer) + 1)
    BY <2>1
  <2>. QED
    BY <1>6, <1>7, <2>1, <2>2
    DEF Counted, Q, VIDEO_STARTING_POSITION, ISO_CHAR_WIDTH, ISO_CHAR_HEIGHT
<1>9. CursorPastText'
  BY <1>7 DEF CursorPastText, ISO_CHAR_HEIGHT
<1>. QED  BY <1>8, <1>9 DEF IInv

(* A glyph leaves the cursor behind it, in its line or the next.           *)
LEMMA NextGlyph ==
  ASSUME IInv, PrintGlyph
  PROVE  IInv'
<1>. DEFINE P == Printed
            Q == Printed'
            new == <<VideoCursorX, VideoCursorY, szBuffer[i]>>
<1>1. /\ stage = "screen" /\ i <= Len(szBuffer) /\ i' = i + 1 /\ stage' = stage
      /\ UNCHANGED <<screen, calls, szBuffer>>
      /\ glyphs' = glyphs \cup {new}
  BY DEF PrintGlyph, PrintCharacter
<1>2. \A g \in glyphs' : g \in glyphs \/ (g[1] = VideoCursorX /\ g[2] = VideoCursorY)
  BY <1>1
<1>3. CASE VideoCursorX >= NeedsWrapAround
  BY <1>1, <1>2, <1>3, NextLine DEF PrintGlyph
<1>4. CASE ~(VideoCursorX >= NeedsWrapAround)
  <2>1. VideoCursorX' = (VideoCursorX + 8) % U32 /\ VideoCursorY' = VideoCursorY
    BY <1>4 DEF PrintGlyph, ISO_CHAR_WIDTH
  <2>2. P \in Nat /\ 1 + 16 * (P + 1) < U32 /\ U32 \in Nat
    BY <1>1, OneMore DEF IInv
  <2>3. Q = P + 1
    <3>1. Printed = (calls - 1) * BufferSize + (i - 1)
          /\ Printed' = (calls - 1) * BufferSize + ((i + 1) - 1)
      BY <1>1 DEF Printed
    <3>2. i \in Nat /\ (calls - 1) * BufferSize \in Nat
      <4>1. Counted /\ calls >= 1 /\ i \in Nat
        BY <1>1 DEF IInv, Counted
      <4>. QED  BY <4>1, CallsFit
    <3>. QED  BY <3>1, <3>2
  <2>4. /\ VideoCursorX \in 0..(1 + 8 * P) /\ VideoCursorY \in 0..(1 + 16 * P)
        /\ \A g \in glyphs : g[1] \in Nat /\ g[2] \in Nat
    BY DEF IInv, Counted, VIDEO_STARTING_POSITION, ISO_CHAR_WIDTH, ISO_CHAR_HEIGHT
  <2>. HIDE DEF P, Q
  <2>5. VideoCursorX' = VideoCursorX + 8
    <3>1. VideoCursorX + 8 \in 0..(U32 - 1)
      BY <2>2, <2>4
    <3>2. (VideoCursorX + 8) % U32 = VideoCursorX + 8
      BY <2>2, <3>1
    <3>. QED  BY <2>1, <3>2
  <2>6. VideoCursorX' \in 0..(1 + 8 * Q) /\ VideoCursorY' \in 0..(1 + 16 * Q)
    BY <2>1, <2>2, <2>3, <2>4, <2>5
  <2>7. ASSUME NEW g \in glyphs'
        PROVE  /\ g[1] \in Nat /\ g[2] \in Nat
               /\ \/ g[2] + 16 <= VideoCursorY'
                  \/ g[2] = VideoCursorY' /\ g[1] + 8 <= VideoCursorX'
    <3>1. CASE g \in glyphs
      <4>1. g[1] \in Nat /\ g[2] \in Nat
        BY <2>4, <3>1
      <4>2. g[2] + 16 <= VideoCursorY \/ (g[2] = VideoCursorY /\ g[1] + 8 <= VideoCursorX)
        BY <3>1 DEF IInv, CursorPastText, ISO_CHAR_HEIGHT, ISO_CHAR_WIDTH
      <4>. QED  BY <2>1, <2>4, <2>5, <4>1, <4>2
    <3>2. CASE g[1] = VideoCursorX /\ g[2] = VideoCursorY
      BY <2>1, <2>4, <2>5, <3>2
    <3>. QED  BY <1>2, <3>1, <3>2
  <2>8. Counted'
    <3>1. /\ screen \in Screens /\ calls \in 0..CallsOn(screen) /\ calls >= 1
          /\ Len(szBuffer) \in 0..(BufferSize - 1) /\ i \in 1..(Len(szBuffer) + 1)
      BY <1>1 DEF IInv, Counted
    <3>2. i' \in 1..(Len(szBuffer) + 1)
      BY <1>1, <3>1
    <3>. QED
      BY <1>1, <2>6, <2>7, <3>1, <3>2
      DEF Counted, Q, VIDEO_STARTING_POSITION, ISO_CHAR_WIDTH, ISO_CHAR_HEIGHT
  <2>9. CursorPastText'
    BY <2>7 DEF CursorPastText, ISO_CHAR_HEIGHT, ISO_CHAR_WIDTH
  <2>. QED  BY <2>8, <2>9 DEF IInv
<1>. QED  BY <1>3, <1>4

(* Steps that print nothing leave the cursor where it is. *)
LEMMA NothingPrinted ==
  ASSUME IInv, UNCHANGED <<screen, VideoCursorX, VideoCursorY, glyphs>>, stage # "off",
         stage' \in {"idle", "format", "screen", "serial"}, calls' \in 0..CallsOn(screen),
         stage' \in {"format", "screen", "serial"} => calls' >= 1,
         stage' \in {"screen", "serial"} =>
           Len(szBuffer') \in 0..(BufferSize - 1) /\ i' \in 1..(Len(szBuffer') + 1),
         Printed \in Nat, Printed' \in Nat, Printed <= Printed'
  PROVE  IInv'
<1>. DEFINE P == Printed
            Q == Printed'
<1>1. P \in Nat /\ Q \in Nat /\ P <= Q
  OBVIOUS
<1>2. VideoCursorX \in 0..(1 + 8 * P) /\ VideoCursorY \in 0..(1 + 16 * P)
      /\ \A g \in glyphs : g[1] \in Nat /\ g[2] \in Nat
  BY DEF IInv, Counted, VIDEO_STARTING_POSITION, ISO_CHAR_WIDTH, ISO_CHAR_HEIGHT
<1>. HIDE DEF P, Q
<1>3. VideoCursorX' \in 0..(1 + 8 * Q) /\ VideoCursorY' \in 0..(1 + 16 * Q)
  BY <1>1, <1>2
<1>4. screen' \in Screens /\ calls' \in 0..CallsOn(screen')
  BY DEF IInv, Counted
<1>5. Counted'
  BY <1>2, <1>3, <1>4
  DEF Counted, Q, VIDEO_STARTING_POSITION, ISO_CHAR_WIDTH, ISO_CHAR_HEIGHT
<1>6. CursorPastText'
  BY DEF IInv, CursorPastText
<1>. QED  BY <1>5, <1>6 DEF IInv

(* The buffer is filled to its last byte at most. *)
LEMMA LengthFits ==
  ASSUME str \in Seq(Character)
  PROVE  Length \in 0..(BufferSize - 1) /\ Len(SubSeq(str, 1, Length)) = Length
<1>. DEFINE n == Len(str)
            w == n % U16
<1>1. n \in Nat /\ U16 \in Nat \ {0} /\ BufferSize \in Nat \ {0}
  <2>1. BufferSize \in 1..U16 /\ U16 \in Nat
    BY ConsoleAssumption
  <2>. QED  BY <2>1
<1>2. w \in Nat /\ w <= n
  <2>. HIDE DEF n
  <2>. QED  BY <1>1
<1>3. Length = IF w > BufferSize - 1 THEN BufferSize - 1 ELSE w
  BY DEF Length
<1>4. Length \in 0..(BufferSize - 1) /\ Length <= n
  <2>. HIDE DEF n, w
  <2>. QED  BY <1>1, <1>2, <1>3
<1>. QED  BY <1>1, <1>4

(* Every step keeps the cursor past the text, and the count. *)
LEMMA CountedStep ==
  ASSUME IInv, TextTypeOK, Next
  PROVE  IInv'
<1>1. /\ screen \in Screens /\ calls \in 0..CallsOn(screen) /\ calls \in Nat
      /\ CallsOn(screen) \in Nat
      /\ \A n \in Nat : n >= 0
  BY Constants DEF IInv, Counted
<1>. DEFINE B == BufferSize
            c == calls * BufferSize
            p == (calls - 1) * BufferSize
            q == (calls + 1) * BufferSize
<1>2. /\ B \in Nat \ {0} /\ c \in Nat /\ p = c - B /\ q = c + B
      /\ calls >= 1 => p \in Nat
  BY CallsFit DEF IInv
<1>3. /\ stage \in {"idle", "serial"} => Printed = c
      /\ stage = "format" => Printed = p
      /\ stage = "screen" => Printed = p + (i - 1)
  BY DEF Printed
<1>4. /\ stage \in {"format", "screen", "serial"} => calls >= 1
      /\ stage \in {"screen", "serial"} =>
           Len(szBuffer) \in 0..(B - 1) /\ i \in 1..(Len(szBuffer) + 1)
  BY DEF IInv, Counted
<1>. HIDE DEF B, c, p, q
<1>5. ASSUME Setup, glyphs' = {}, calls' \in Nat, calls' <= CallsOn(screen)
      PROVE  IInv'
  <2>1. /\ VideoCursorX' = 1 /\ VideoCursorY' = 1 /\ stage' = "idle" /\ screen' = screen
    BY <1>5 DEF Setup, VIDEO_STARTING_POSITION
  <2>2. Printed' = calls' * BufferSize
    BY <2>1 DEF Printed
  <2>3. calls' * BufferSize \in Nat
    <3>1. calls' \in Nat
      BY <1>5
    <3>2. BufferSize \in Nat
      BY Constants
    <3>. QED  BY ONLY <3>1, <3>2, ProductIsNat
  <2>4. VideoCursorX' \in 0..(1 + 8 * Printed') /\ VideoCursorY' \in 0..(1 + 16 * Printed')
    BY <2>1, <2>2, <2>3
  <2>5. Counted'
    BY <1>1, <1>5, <2>1, <2>4
    DEF Counted, VIDEO_STARTING_POSITION, ISO_CHAR_WIDTH, ISO_CHAR_HEIGHT
  <2>. QED  BY <1>5, <2>5 DEF IInv, CursorPastText
<1>6. CASE SetupScreen
  <2>1. Setup /\ glyphs' = glyphs /\ calls' = calls /\ stage = "off"
    BY <1>6 DEF SetupScreen
  <2>2. glyphs = {}
    BY <2>1 DEF IInv, Counted
  <2>. QED  BY <1>1, <1>5, <2>1, <2>2
<1>7. ASSUME NEW VerboseEnable \in BOOLEAN, ClearScreen(VerboseEnable)
      PROVE  IInv'
  <2>1. Setup /\ glyphs' = {} /\ calls' = calls + 1 /\ calls < CallsOn(screen)
    BY <1>7 DEF ClearScreen, Call, Idle
  <2>. QED  BY <1>1, <1>5, <2>1
<1>8. ASSUME Idle, NEW m \in MessagesOn(screen), printf(m) \/ debug_printf(m)
      PROVE  IInv'
  <2>1. /\ UNCHANGED <<screen, VideoCursorX, VideoCursorY, glyphs>>
        /\ stage = "idle" /\ calls < CallsOn(screen) /\ calls' = calls + 1
        /\ stage' \in {"idle", "format"}
    BY <1>8 DEF Idle, printf, debug_printf, Call, cursor
  <2>2. calls' \in 0..CallsOn(screen) /\ calls' >= 1
    BY <1>1, <2>1
  <2>3. Printed = c
    BY <1>3, <2>1
  <2>4. Printed' = IF stage' = "format" THEN (calls' - 1) * BufferSize ELSE q
    BY <2>1 DEF Printed, q
  <2>5. (calls' - 1) * BufferSize = c
    BY <1>1, <2>1 DEF c
  <2>6. Printed' \in Nat /\ Printed <= Printed' /\ Printed \in Nat
    BY <1>2, <2>3, <2>4, <2>5
  <2>. QED  BY <2>1, <2>2, <2>6, NothingPrinted
<1>9. CASE FormatText
  <2>1. /\ UNCHANGED <<screen, VideoCursorX, VideoCursorY, glyphs, calls, stage, szBuffer, i>>
        /\ stage = "format"
    BY <1>9 DEF FormatText, cursor
  <2>2. Printed' = p /\ Printed = p /\ calls >= 1
    BY <1>3, <1>4, <2>1 DEF Printed, p
  <2>3. p <= p /\ p \in Nat
    BY <1>2, <2>2
  <2>. QED  BY <1>1, <2>1, <2>2, <2>3, NothingPrinted
<1>10. CASE Terminate
  <2>1. /\ UNCHANGED <<screen, VideoCursorX, VideoCursorY, glyphs, calls>>
        /\ stage = "format" /\ stage' = "screen" /\ i' = 1
        /\ szBuffer' = SubSeq(str, 1, Length)
    BY <1>10 DEF Terminate, cursor
  <2>2. Len(szBuffer') \in 0..(BufferSize - 1) /\ i' \in 1..(Len(szBuffer') + 1)
    <3>1. str \in Seq(Character)
      BY DEF TextTypeOK
    <3>2. Len(szBuffer') = Length /\ Length \in 0..(BufferSize - 1)
      BY <2>1, <3>1, LengthFits
    <3>. QED  BY <1>2, <2>1, <3>2 DEF B
  <2>3. Printed = p /\ Printed' = (calls - 1) * BufferSize + (1 - 1) /\ calls >= 1
    BY <1>3, <1>4, <2>1 DEF Printed
  <2>4. Printed \in Nat /\ Printed' = Printed
    <3>1. p \in Nat /\ Printed' = p + (1 - 1)
      BY <1>2, <2>3 DEF p
    <3>. QED  BY <2>3, <3>1
  <2>5. Printed <= Printed' /\ Printed' \in Nat
    BY <2>4
  <2>. QED  BY <1>1, <2>1, <2>2, <2>3, <2>4, <2>5, NothingPrinted
<1>11. CASE PrintNewline
  <2>1. /\ stage = "screen" /\ i <= Len(szBuffer) /\ i' = i + 1 /\ stage' = stage
        /\ UNCHANGED <<screen, calls, szBuffer>> /\ StartLine /\ glyphs' = glyphs
    BY <1>11 DEF PrintNewline, PrintCharacter
  <2>2. \A g \in glyphs' : g \in glyphs \/ (g[1] = VideoCursorX /\ g[2] = VideoCursorY)
    BY <2>1
  <2>. QED  BY ONLY IInv, <2>1, <2>2, NextLine
<1>12. CASE PrintGlyph
  BY <1>12, NextGlyph
<1>13. CASE ScreenPrinted
  <2>1. /\ UNCHANGED <<screen, VideoCursorX, VideoCursorY, glyphs, calls, szBuffer, i>>
        /\ stage = "screen" /\ stage' = "serial" /\ i > Len(szBuffer)
    BY <1>13 DEF ScreenPrinted, cursor
  <2>2. Printed = p + (i - 1) /\ Printed' = c /\ calls >= 1
    BY <1>3, <1>4, <2>1 DEF Printed, c
  <2>3. Len(szBuffer) \in 0..(B - 1) /\ i \in 1..(Len(szBuffer) + 1)
    BY <1>4, <2>1
  <2>4. Printed \in Nat /\ Printed' \in Nat /\ Printed <= Printed'
    <3>1. i - 1 \in 0..(B - 1) /\ p \in Nat /\ i \in Nat
      BY <1>2, <2>2, <2>3
    <3>2. p + (i - 1) \in Nat /\ p + (i - 1) <= c
      BY <1>2, <3>1
    <3>. QED  BY <1>2, <2>2, <3>2
  <2>. QED  BY <1>1, <2>1, <2>2, <2>3, <2>4, NothingPrinted DEF B
<1>14. CASE PrintToSerial
  <2>1. /\ UNCHANGED <<screen, VideoCursorX, VideoCursorY, glyphs, calls>>
        /\ stage = "serial" /\ stage' = "idle"
    BY <1>14 DEF PrintToSerial, cursor
  <2>2. Printed = c /\ Printed' = c
    BY <1>3, <2>1 DEF Printed, c
  <2>3. c <= c
    BY <1>2
  <2>. QED  BY <1>1, <1>2, <2>1, <2>2, <2>3, NothingPrinted
<1>15. CASE Quiet
  BY <1>15 DEF Quiet, vars, cursor, IInv, Counted, CursorPastText, Printed
<1>. QED
  BY <1>6, <1>7, <1>8, <1>9, <1>10, <1>11, <1>12, <1>13, <1>14, <1>15 DEF Next

-----------------------------------------------------------------------------
(* The messages printed are ones vsprintf is made for. *)
LEMMA ReadingAlong ==
  ASSUME screen \in Screens, Reading, Next
  PROVE  Reading'
<1>1. ASSUME Idle, NEW m \in MessagesOn(screen), printf(m) \/ debug_printf(m)
      PROVE  Reading'
  <2>1. WellFormed(m)
    BY ConsoleAssumption
  <2>2. vsprintf(m) \/ UNCHANGED text
    BY <1>1 DEF printf, debug_printf
  <2>. QED  BY <2>1, <2>2, ReadingCalled, ReadingStays
<1>2. CASE FormatText
  BY <1>2, ReadingStep DEF FormatText
<1>3. CASE Terminate
  BY <1>3, ReadingLeft DEF Terminate
<1>4. ASSUME UNCHANGED text PROVE Reading'
  BY <1>4, ReadingStays
<1>5. ASSUME NEW VerboseEnable \in BOOLEAN, ClearScreen(VerboseEnable) PROVE UNCHANGED text
  BY <1>5 DEF ClearScreen, Setup
<1>6. SetupScreen \/ PrintNewline \/ PrintGlyph \/ ScreenPrinted \/ PrintToSerial \/ Quiet
      => UNCHANGED text
  BY DEF SetupScreen, Setup, PrintNewline, PrintGlyph, PrintCharacter, ScreenPrinted,
         PrintToSerial, Quiet, vars
<1>. QED  BY <1>1, <1>2, <1>3, <1>4, <1>5, <1>6 DEF Next

(* The invariant of vsprintf, wherever it is called from.                  *)
THEOREM MessagesAreRead ==
  Spec => []Reading
<1>1. Init => Reading
  BY ReadingInit DEF Init
<1>2. Placed /\ Reading /\ [Next]_vars => Reading'
  <2>1. Reading /\ UNCHANGED vars => Reading'
    BY ReadingStays DEF vars
  <2>. QED  BY <2>1, ReadingAlong DEF Placed
<1>. QED  BY <1>1, <1>2, CursorHasRoom, PTL DEF Spec

(* What vsprintf returns is what the caller means.                         *)
THEOREM MessagesAreRendered ==
  Spec => []RendersMessage
  BY MessagesAreRead, ReadingRenders, PTL

(* The invariant of the cursor's way down the screen.                      *)
THEOREM TextIsCounted ==
  Spec => []IInv
<1>1. Init => IInv
  <2>. SUFFICES ASSUME Init PROVE IInv
    OBVIOUS
  <2>1. /\ screen \in Screens /\ stage = "off" /\ VideoCursorX = 0 /\ VideoCursorY = 0
        /\ glyphs = {} /\ calls = 0
    BY DEF Init
  <2>2. Printed = 0 * BufferSize
    BY <2>1 DEF Printed
  <2>3. 0 * BufferSize = 0 /\ CallsOn(screen) \in Nat
    BY <2>1, Constants
  <2>4. VideoCursorX \in 0..(1 + 8 * Printed) /\ VideoCursorY \in 0..(1 + 16 * Printed)
    BY <2>1, <2>2, <2>3
  <2>. QED
    BY <2>1, <2>3, <2>4
    DEF IInv, Counted, CursorPastText, VIDEO_STARTING_POSITION, ISO_CHAR_WIDTH, ISO_CHAR_HEIGHT
<1>2. IInv /\ TextTypeOK /\ [Next]_vars => IInv'
  <2>1. IInv /\ UNCHANGED vars => IInv'
    BY DEF vars, cursor, IInv, Counted, CursorPastText, Printed
  <2>. QED  BY <2>1, CountedStep
<1>3. Reading => TextTypeOK
  BY ReadingTyped
<1>. QED  BY <1>1, <1>2, <1>3, MessagesAreRead, PTL DEF Spec

(* A pixel's place in the frame buffer tells its row and its column.       *)
LEMMA RowAndColumn ==
  ASSUME NEW R \in Nat, NEW m \in Int, NEW n \in Int, NEW p \in 0..(R - 1),
         NEW q \in 0..(R - 1), p + m * R = q + n * R
  PROVE  m = n /\ p = q
<1>1. ASSUME NEW k \in Int, NEW l \in Int, k < l PROVE l * R >= k * R + R
  <2>1. (l - k - 1) * R \in Nat
    <3>1. l - k - 1 \in Nat
      BY <1>1
    <3>. QED  BY ONLY <3>1, R \in Nat, ProductIsNat
  <2>2. l * R = k * R + R + (l - k - 1) * R
    OBVIOUS
  <2>. QED  BY <2>1, <2>2
<1>2. m * R \in Int /\ n * R \in Int
  OBVIOUS
<1>3. ~(m < n)
  <2>1. m < n => n * R >= m * R + R
    BY <1>1
  <2>. QED  BY <1>2, <2>1
<1>4. ~(n < m)
  <2>1. n < m => m * R >= n * R + R
    BY <1>1
  <2>. QED  BY <1>2, <2>1
<1>5. m = n
  BY <1>3, <1>4
<1>. QED  BY <1>2, <1>5

(* On rows of whole glyphs a glyph at the cursor shares no pixel with one  *)
(* on the screen: neither goes over the end of its row, and by their       *)
(* coordinates one is past the other.                                      *)
THEOREM NothingIsDrawnOver ==
  Spec => []NothingDrawnOver
<1>1. Placed /\ IInv => NothingDrawnOver
  <2>. SUFFICES ASSUME Placed, IInv, WholeGlyphs, NEW g \in glyphs,
                       NEW at \in Pixels(g), at \in Pixels(cursor)
                PROVE  FALSE
    BY DEF NothingDrawnOver
  <2>. DEFINE R == screen.RowPixels
              X == VideoCursorX
              Y == VideoCursorY
  <2>1. /\ R \in Nat /\ X \in Nat /\ Y \in Nat /\ g[1] \in Nat /\ g[2] \in Nat
        /\ g[1] >= 1 /\ g[1] - 1 + 8 <= R
    BY Constants DEF Placed, IInv, Counted, GlyphInRow, ISO_CHAR_WIDTH
  <2>2. X >= 1 /\ X - 1 + 8 <= R
    <3>1. stage # "off"
      BY DEF IInv, Counted
    <3>2. PICK k \in Nat : X = 1 + 8 * k /\ 8 * (k + 1) <= R
      BY <3>1 DEF Placed, RoomAtCursor, VIDEO_STARTING_POSITION, ISO_CHAR_WIDTH
    <3>. QED  BY <2>1, <3>2
  <2>3. g[2] + 16 <= Y \/ (g[2] = Y /\ g[1] + 8 <= X)
    BY DEF IInv, CursorPastText, ISO_CHAR_WIDTH, ISO_CHAR_HEIGHT
  <2>4. PICK x \in 0..(ISO_CHAR_WIDTH - 1), y \in 0..(ISO_CHAR_HEIGHT - 1) :
          at = (g[1] + x - 1) + (g[2] + y - 1) * R
    BY ONLY at \in Pixels(g) DEF Pixels
  <2>5. PICK v \in 0..(ISO_CHAR_WIDTH - 1), w \in 0..(ISO_CHAR_HEIGHT - 1) :
          at = (cursor[1] + v - 1) + (cursor[2] + w - 1) * R
    BY ONLY at \in Pixels(cursor) DEF Pixels
  <2>. x \in 0..7 /\ y \in 0..15 /\ v \in 0..7 /\ w \in 0..15
    BY DEF ISO_CHAR_WIDTH, ISO_CHAR_HEIGHT
  <2>. cursor[1] = X /\ cursor[2] = Y
    BY DEF cursor
  <2>. HIDE DEF R, X, Y
  <2>6. /\ g[2] + y - 1 \in Int /\ Y + w - 1 \in Int
        /\ g[1] + x - 1 \in 0..(R - 1) /\ X + v - 1 \in 0..(R - 1)
    BY <2>1, <2>2
  <2>7. g[2] + y - 1 = Y + w - 1 /\ g[1] + x - 1 = X + v - 1
    <3>. DEFINE p == g[1] + x - 1  m == g[2] + y - 1
                q == X + v - 1     n == Y + w - 1
    <3>1. R \in Nat /\ m \in Int /\ n \in Int /\ p \in 0..(R - 1) /\ q \in 0..(R - 1)
      BY <2>1, <2>6
    <3>2. p + m * R = q + n * R
      BY <2>4, <2>5
    <3>. HIDE DEF m, n, p, q
    <3>3. m = n /\ p = q
      BY ONLY <3>1, <3>2, RowAndColumn
    <3>. QED  BY <3>3 DEF m, n, p, q
  <2>. QED  BY <2>1, <2>3, <2>7
<1>. QED  BY <1>1, CursorHasRoom, TextIsCounted, PTL

-----------------------------------------------------------------------------
(* The values at the first k indices; all n are distinct. *)
First(s, k) == {s[j] : j \in 1..k}
Distinct(s, n) == \A j, k \in 1..n : s[j] = s[k] => j = k

(* Distinct values are as many as their indices. *)
LEMMA CountFirst ==
  ASSUME NEW s, NEW n \in Nat, Distinct(s, n)
  PROVE  \A k \in 0..n : IsFiniteSet(First(s, k)) /\ Cardinality(First(s, k)) = k
<1>. DEFINE S(k) == First(s, k)
            T == {k \in Nat : k <= n => IsFiniteSet(S(k)) /\ Cardinality(S(k)) = k}
<1>1. ASSUME NEW k \in Nat, \A m \in 0..(k - 1) : m \in T
      PROVE  k \in T
  <2>1. CASE k = 0
    <3>1. S(k) = {}
      BY <2>1 DEF First
    <3>2. IsFiniteSet(S(k)) /\ Cardinality(S(k)) = 0
      BY <3>1, FS_EmptySet
    <3>. QED  BY <2>1, <3>2
  <2>2. CASE k # 0 /\ k <= n
    <3>1. k - 1 \in T /\ k - 1 \in Nat /\ k - 1 <= n
      BY <1>1, <2>2
    <3>2. IsFiniteSet(S(k - 1)) /\ Cardinality(S(k - 1)) = k - 1
      BY <3>1
    <3>3. 1..k = (1..(k - 1)) \cup {k}
      BY <2>2
    <3>4. S(k) = S(k - 1) \cup {s[k]}
      BY <3>3 DEF First
    <3>5. s[k] \notin S(k - 1)
      <4>1. \A j \in 1..(k - 1) : j \in 1..n /\ k \in 1..n /\ j # k
        BY <2>2
      <4>. QED  BY <4>1 DEF First, Distinct
    <3>. HIDE DEF S
    <3>6. IsFiniteSet(S(k)) /\ Cardinality(S(k)) = (k - 1) + 1
      BY <3>2, <3>4, <3>5, FS_AddElement
    <3>. QED  BY <3>6
  <2>. QED  BY <2>1, <2>2
<1>2. \A k \in Nat : k \in T
  <2>. HIDE DEF T
  <2>. QED  BY <1>1, Induction
<1>. QED  BY <1>2

(* Glyphs placed one after another in reading order are read in that order. *)
LEMMA ReadInOrder ==
  ASSUME NEW s, NEW n \in Nat, glyphs = First(s, n),
         \A j \in 1..n : s[j][1] \in Nat /\ s[j][2] \in Nat,
         \A j, k \in 1..n : j < k => Before(s[j], s[k])
  PROVE  ReadScreen = [k \in 1..n |-> s[k][3]]
<1>1. \A j, k \in 1..n : Before(s[j], s[k]) => j < k
  <2>. SUFFICES ASSUME NEW j \in 1..n, NEW k \in 1..n, Before(s[j], s[k]), ~(j < k)
                PROVE  FALSE
    OBVIOUS
  <2>1. ~Before(s[k], s[j])
    BY DEF Before
  <2>2. k = j \/ k < j
    OBVIOUS
  <2>. QED  BY <2>1, <2>2
<1>2. Distinct(s, n)
  <2>. SUFFICES ASSUME NEW j \in 1..n, NEW k \in 1..n, s[j] = s[k], j # k
                PROVE  FALSE
    BY DEF Distinct
  <2>1. ~Before(s[j], s[k]) /\ ~Before(s[k], s[j])
    BY DEF Before
  <2>2. k < j \/ j < k
    OBVIOUS
  <2>. QED  BY <2>1, <2>2
<1>. DEFINE Earlier(h) == {g \in glyphs : Before(g, h)}
<1>3. ASSUME NEW k \in 1..n PROVE Earlier(s[k]) = First(s, k - 1)
  <2>1. \A j \in 1..n : Before(s[j], s[k]) <=> j \in 1..(k - 1)
    BY <1>1
  <2>2. \A j \in 1..(k - 1) : j \in 1..n
    OBVIOUS
  <2>. QED  BY <2>1, <2>2 DEF First
<1>4. \A k \in 1..n : Cardinality(Earlier(s[k])) = k - 1
  <2>. TAKE k \in 1..n
  <2>1. k - 1 \in 0..n
    OBVIOUS
  <2>2. Cardinality(First(s, k - 1)) = k - 1
    BY ONLY <1>2, <2>1, n \in Nat, CountFirst
  <2>. QED  BY <1>3, <2>2
<1>5. Cardinality(glyphs) = n
  <2>1. n \in 0..n
    OBVIOUS
  <2>2. Cardinality(First(s, n)) = n
    BY ONLY <1>2, <2>1, n \in Nat, CountFirst
  <2>. QED  BY <2>2
<1>. HIDE DEF Earlier
<1>6. ASSUME NEW k \in 1..n
      PROVE  (CHOOSE h \in glyphs : Cardinality(Earlier(h)) = k - 1) = s[k]
  <2>1. s[k] \in glyphs /\ Cardinality(Earlier(s[k])) = k - 1
    BY <1>4 DEF First
  <2>2. ASSUME NEW h \in glyphs, Cardinality(Earlier(h)) = k - 1 PROVE h = s[k]
    <3>1. PICK j \in 1..n : h = s[j]
      BY DEF First
    <3>2. j - 1 = k - 1
      BY <1>4, <2>2, <3>1
    <3>. QED  BY <3>1, <3>2
  <2>. QED  BY <2>1, <2>2
<1>7. ReadScreen = [k \in 1..n |-> (CHOOSE h \in glyphs : Cardinality(Earlier(h)) = k - 1)[3]]
  BY <1>5 DEF ReadScreen, Earlier
<1>. QED  BY <1>6, <1>7

-----------------------------------------------------------------------------
(* What is said: the characters of messages, and the newlines of Setup. *)
Symbol == Character \cup {"\n"}

(* A newline leaves no glyph, any other character one. *)
LEMMA DrawnNext ==
  ASSUME NEW t \in Seq(Symbol), NEW c \in Symbol
  PROVE  Drawn(Append(t, c)) = IF c = "\n" THEN Drawn(t) ELSE Append(Drawn(t), c)
<1>. DEFINE piece(x) == IF x = "\n" THEN <<>> ELSE <<x>>
            u == Append(t, c)
            n == Len(t)
            S == [k \in 1..Len(u) |-> piece(u[k])]
            R == [k \in 1..Len(t) |-> piece(t[k])]
<1>1. n \in Nat /\ Len(u) = n + 1 /\ u[n + 1] = c /\ \A k \in 1..n : u[k] = t[k]
  OBVIOUS
<1>2. \A x \in Symbol : piece(x) \in Seq(Symbol)
  OBVIOUS
<1>3. Drawn(u) = FlattenSeq(S) /\ Drawn(t) = FlattenSeq(R)
  BY DEF Drawn
<1>4. S \in Seq(Seq(Symbol)) /\ Len(S) = n + 1 /\ R \in Seq(Seq(Symbol))
  <2>1. \A k \in 1..Len(u) : u[k] \in Symbol
    OBVIOUS
  <2>. HIDE DEF piece, u
  <2>2. \A k \in 1..Len(u) : piece(u[k]) \in Seq(Symbol)
    BY <1>2, <2>1
  <2>3. \A k \in 1..Len(t) : piece(t[k]) \in Seq(Symbol)
    BY <1>2
  <2>. QED  BY <1>1, <2>2, <2>3
<1>5. S[n + 1] = piece(c)
  BY <1>1
<1>6. SubSeq(S, 1, n + 1) = S /\ SubSeq(S, 1, (n + 1) - 1) = R
  <2>1. DOMAIN S = 1..(n + 1)
    BY <1>1
  <2>2. SubSeq(S, 1, n + 1) = [k \in 1..(n + 1) |-> S[k]]
    BY <1>1
  <2>3. SubSeq(S, 1, n) = [k \in 1..n |-> S[k]]
    BY <1>1
  <2>4. \A k \in 1..n : S[k] = R[k]
    BY <1>1
  <2>. QED  BY <1>1, <2>2, <2>3, <2>4
<1>. HIDE DEF piece, S, R, u
<1>7. FlattenSeq(S) = FlattenSeq(R) \o piece(c) /\ FlattenSeq(R) \in Seq(Symbol)
  <2>1. n + 1 \in 1..Len(S)
    BY <1>1, <1>4
  <2>2. /\ FlattenSeq(SubSeq(S, 1, n + 1)) = FlattenSeq(SubSeq(S, 1, (n + 1) - 1)) \o S[n + 1]
        /\ FlattenSeq(SubSeq(S, 1, (n + 1) - 1)) \in Seq(Symbol)
    BY ONLY <1>4, <2>1, FlattenNext
  <2>. QED  BY <1>5, <1>6, <2>2
<1>8. CASE c = "\n"
  <2>1. piece(c) = <<>>
    BY <1>8 DEF piece
  <2>2. FlattenSeq(R) \o <<>> = FlattenSeq(R)
    BY <1>7
  <2>. QED  BY <1>3, <1>7, <1>8, <2>1, <2>2 DEF u
<1>9. CASE c # "\n"
  <2>1. piece(c) = <<c>>
    BY <1>9 DEF piece
  <2>2. FlattenSeq(R) \o <<c>> = Append(FlattenSeq(R), c)
    BY <1>7
  <2>. QED  BY <1>3, <1>7, <1>9, <2>1, <2>2 DEF u
<1>. QED  BY <1>8, <1>9

(* No text leaves no glyph. *)
LEMMA DrawnNone == Drawn(<<>>) = <<>>
<1>. DEFINE S == [k \in 1..Len(<<>>) |-> IF <<>>[k] = "\n" THEN <<>> ELSE <<<<>>[k]>>]
<1>1. S = <<>>
  OBVIOUS
<1>2. Drawn(<<>>) = FlattenSeq(S)
  BY DEF Drawn
<1>. QED  BY <1>1, <1>2, FlattenEmpty

(* What of the call under way has not reached COM1. *)
Pending == IF stage = "format" THEN Rendering(message) ELSE szBuffer

(* What was said is what COM1 has been sent and what is on its way to it.  *)
Told ==
  /\ said \in Seq(Symbol) /\ serial \in Seq(Symbol) /\ szBuffer \in Seq(Character)
  /\ cleared \in 0..Len(serial) /\ i \in 1..(Len(szBuffer) + 1)
  /\ stage \in {"off", "idle", "format", "screen", "serial"}
  /\ stage \in {"off", "idle", "format"} => szBuffer = <<>>
  /\ stage = "serial" => i = Len(szBuffer) + 1
  /\ stage = "format" => message \in MessagesOn(screen)
  /\ said = serial \o Pending

(* What was said since the screen was cleared, and PrintToScreen is done with. *)
OnScreen == SubSeq(said, cleared + 1, Len(serial) + (i - 1))

(* The glyphs, in reading order, are the characters of that text.          *)
InOrder(s) ==
  /\ s \in Seq(glyphs) /\ glyphs = First(s, Len(s))
  /\ \A j, k \in 1..Len(s) : j < k => Before(s[j], s[k])
  /\ Drawn(OnScreen) = [k \in 1..Len(s) |-> s[k][3]]

Shows == \E s : InOrder(s)

TInv == Told /\ Shows

-----------------------------------------------------------------------------
(* The message under way fits the buffer. *)
LEMMA MessageFits ==
  ASSUME NEW s \in Screens, NEW m \in MessagesOn(s)
  PROVE  /\ Rendering(m) \in Seq(Character) /\ Len(Rendering(m)) \in Nat
         /\ Len(Rendering(m)) < BufferSize
<1>1. WellFormed(m) /\ Len(Rendering(m)) < BufferSize
  BY ConsoleAssumption
<1>2. m \in Seq(Items) /\ Len(m) + 1 \in 1..(Len(m) + 1) /\ (Len(m) + 1) - 1 = Len(m)
  BY <1>1 DEF WellFormed
<1>3. UpTo(m, Len(m)) = m
  BY <1>2, Ends
<1>4. Rendering(m) \in Seq(Character)
  <2>1. Rendering(UpTo(m, (Len(m) + 1) - 1)) \in Seq(Character)
    BY ONLY <1>1, <1>2, SoFarTyped
  <2>. QED  BY <1>2, <1>3, <2>1
<1>5. Len(Rendering(m)) \in Nat
  BY <1>4
<1>. QED  BY <1>1, <1>4, <1>5

(* A message leaves vsprintf whole. *)
LEMMA NothingCut ==
  ASSUME screen \in Screens, message \in MessagesOn(screen), Reading, pc = "returned"
  PROVE  SubSeq(str, 1, Length) = Rendering(message)
<1>1. str = Rendering(message)
  BY ReadingRenders DEF RendersMessage
<1>2. str \in Seq(Character) /\ Len(str) \in Nat /\ Len(str) < BufferSize
  BY <1>1, MessageFits
<1>3. U16 \in Nat /\ BufferSize \in 1..U16
  BY ConsoleAssumption
<1>4. Len(str) % U16 = Len(str)
  <2>. DEFINE n == Len(str)
  <2>1. n \in 0..(U16 - 1) /\ U16 \in Nat \ {0}
    BY <1>2, <1>3
  <2>. HIDE DEF n
  <2>2. n % U16 = n
    BY <2>1
  <2>. QED  BY <2>2 DEF n
<1>5. Length = Len(str)
  BY <1>2, <1>3, <1>4 DEF Length
<1>6. SubSeq(str, 1, Len(str)) = str
  BY <1>2
<1>. QED  BY <1>1, <1>5, <1>6

(* A step of vsprintf is still about the same message. *)
LEMMA StepKeepsMessage == Step => message' = message
BY DEF Step, Goes, Write, CopyPlain, Percent, ReadFlag, ReadWidth, ReadPrecision, ReadQualifier,
       ConvertChar, ConvertString, ConvertPointer, ConvertCount, ConvertPercent, ConvertInteger,
       ConvertAddress, ConvertEther, ConvertUnknown, Return

(* Nothing is behind no text. *)
LEMMA NothingBehind ==
  ASSUME NEW E, NEW t \in Seq(E)
  PROVE  t \o <<>> = t
OBVIOUS

(* Until vsprintf is done, all that was said before the call is out. *)
LEMMA ToldBetween ==
  ASSUME Told
  PROVE  /\ stage \in {"off", "idle", "format"} => i = 1 /\ szBuffer = <<>>
         /\ stage \in {"off", "idle"} => said = serial
         /\ Len(serial) \in Nat /\ Len(szBuffer) \in Nat /\ i \in Nat /\ cleared \in Nat
<1>1. /\ serial \in Seq(Symbol) /\ szBuffer \in Seq(Character)
      /\ cleared \in 0..Len(serial) /\ i \in 1..(Len(szBuffer) + 1)
  BY DEF Told
<1>2. Len(serial) \in Nat /\ Len(szBuffer) \in Nat
  BY <1>1
<1>3. ASSUME stage \in {"off", "idle", "format"} PROVE i = 1 /\ szBuffer = <<>>
  <2>1. szBuffer = <<>>
    BY <1>3 DEF Told
  <2>2. Len(szBuffer) = 0
    BY <2>1
  <2>. QED  BY <1>1, <2>1, <2>2
<1>4. ASSUME stage \in {"off", "idle"} PROVE said = serial
  <2>1. Pending = <<>> /\ said = serial \o Pending
    BY <1>3, <1>4 DEF Pending, Told
  <2>. QED  BY <1>1, <2>1, NothingBehind
<1>. QED  BY <1>1, <1>2, <1>3, <1>4

(* A screen on which nothing is changed shows the same. *)
LEMMA ShowsSame ==
  ASSUME Shows, glyphs' = glyphs, OnScreen' = OnScreen
  PROVE  Shows'
BY DEF Shows, InOrder

(* A blank screen. *)
LEMMA ShowsNone ==
  ASSUME glyphs' = {}, OnScreen' = <<>>
  PROVE  Shows'
<1>1. /\ <<>> \in Seq(glyphs') /\ Len(<<>>) = 0 /\ 1..0 = {}
  OBVIOUS
<1>2. glyphs' = First(<<>>, Len(<<>>))
  BY <1>1 DEF First
<1>3. Drawn(OnScreen') = [k \in 1..Len(<<>>) |-> <<>>[k][3]]
  <2>1. [k \in 1..Len(<<>>) |-> <<>>[k][3]] = <<>>
    BY <1>1
  <2>. QED  BY <2>1, DrawnNone
<1>. QED  BY <1>1, <1>2, <1>3 DEF Shows, InOrder

(* A part of a text and the character behind it. *)
LEMMA PartGrows ==
  ASSUME NEW E, NEW t \in Seq(E), NEW a \in 0..Len(t), NEW b \in a..(Len(t) - 1)
  PROVE  /\ SubSeq(t, a + 1, b) \in Seq(E)
         /\ SubSeq(t, a + 1, b + 1) = Append(SubSeq(t, a + 1, b), t[b + 1])
<1>1. a \in Nat /\ b \in Nat /\ Len(t) \in Nat /\ a <= b /\ b + 1 <= Len(t)
  OBVIOUS
<1>. DEFINE u == SubSeq(t, a + 1, b)
            v == SubSeq(t, a + 1, b + 1)
<1>2. /\ u \in Seq(E) /\ Len(u) = b - a /\ \A k \in 1..(b - a) : u[k] = t[a + k]
  BY <1>1
<1>3. /\ v \in Seq(E) /\ Len(v) = b + 1 - a /\ \A k \in 1..(b + 1 - a) : v[k] = t[a + k]
  BY <1>1
<1>4. t[b + 1] \in E
  BY <1>1
<1>. HIDE DEF u, v
<1>. DEFINE w == Append(u, t[b + 1])
<1>5. /\ w \in Seq(E) /\ Len(w) = (b - a) + 1 /\ w[(b - a) + 1] = t[b + 1]
      /\ \A k \in 1..(b - a) : w[k] = u[k]
  BY <1>1, <1>2, <1>4
<1>6. Len(v) = Len(w) /\ \A k \in 1..Len(v) : v[k] = w[k]
  <2>1. Len(v) = Len(w)
    BY <1>1, <1>3, <1>5
  <2>2. ASSUME NEW k \in 1..(b - a) PROVE v[k] = w[k]
    BY <1>1, <1>2, <1>3, <1>5
  <2>3. v[(b - a) + 1] = w[(b - a) + 1]
    <3>1. (b - a) + 1 \in 1..(b + 1 - a) /\ a + ((b - a) + 1) = b + 1
      BY <1>1
    <3>. QED  BY <1>3, <1>5, <3>1
  <2>4. \A k \in 1..Len(v) : k \in 1..(b - a) \/ k = (b - a) + 1
    BY <1>1, <1>3
  <2>. QED  BY <2>1, <2>2, <2>3, <2>4
<1>. HIDE DEF w
<1>7. v = w
  <2>1. v \in Seq(E) /\ w \in Seq(E)
    BY <1>3, <1>5
  <2>. QED  BY ONLY <1>6, <2>1, SeqEqual
<1>. QED  BY <1>2, <1>7 DEF u, v, w

(* The next character of the buffer is the next of what was said. *)
LEMMA ScreenGrows ==
  ASSUME Told, stage = "screen", i <= Len(szBuffer), i' = i + 1,
         UNCHANGED <<said, serial, cleared>>
  PROVE  /\ OnScreen \in Seq(Symbol) /\ szBuffer[i] \in Symbol
         /\ OnScreen' = Append(OnScreen, szBuffer[i])
<1>. DEFINE n == Len(serial)
            b == n + (i - 1)
<1>1. /\ said \in Seq(Symbol) /\ serial \in Seq(Symbol) /\ szBuffer \in Seq(Character)
      /\ cleared \in 0..n /\ i \in 1..Len(szBuffer) /\ n \in Nat /\ Len(szBuffer) \in Nat
      /\ cleared \in Nat
  <2>1. i \in Nat /\ i \in 1..(Len(szBuffer) + 1) /\ Len(szBuffer) \in Nat /\ n \in Nat
        /\ cleared \in Nat
    BY ToldBetween DEF Told
  <2>2. i \in 1..Len(szBuffer)
    BY <2>1
  <2>. QED  BY <2>1, <2>2 DEF Told
<1>2. said = serial \o szBuffer
  BY DEF Told, Pending
<1>3. szBuffer \in Seq(Symbol) /\ szBuffer[i] \in Symbol
  <2>1. szBuffer[i] \in Character
    BY <1>1
  <2>2. \A k \in 1..Len(szBuffer) : szBuffer[k] \in Symbol
    BY <1>1 DEF Symbol
  <2>. QED  BY <1>1, <2>1, <2>2 DEF Symbol
<1>4. Len(said) = n + Len(szBuffer) /\ said[n + i] = szBuffer[i]
  BY <1>1, <1>2, <1>3
<1>5. OnScreen = SubSeq(said, cleared + 1, b) /\ OnScreen' = SubSeq(said, cleared + 1, b + 1)
  <2>1. OnScreen' = SubSeq(said, cleared + 1, n + ((i + 1) - 1))
    BY DEF OnScreen
  <2>2. n + ((i + 1) - 1) = b + 1
    BY <1>1
  <2>. QED  BY <2>1, <2>2 DEF OnScreen
<1>6. cleared \in 0..Len(said) /\ b \in cleared..(Len(said) - 1) /\ b + 1 = n + i
  <2>. HIDE DEF n
  <2>. QED  BY <1>1, <1>4
<1>. HIDE DEF n, b
<1>7. /\ SubSeq(said, cleared + 1, b) \in Seq(Symbol)
      /\ SubSeq(said, cleared + 1, b + 1) = Append(SubSeq(said, cleared + 1, b), said[b + 1])
  BY ONLY <1>1, <1>6, PartGrows
<1>. QED  BY <1>3, <1>4, <1>5, <1>6, <1>7

(* A newline shows as no glyph. *)
LEMMA ShowsNewline ==
  ASSUME Told, Shows, PrintNewline
  PROVE  Shows'
<1>1. /\ stage = "screen" /\ i <= Len(szBuffer) /\ szBuffer[i] = "\n" /\ i' = i + 1
      /\ UNCHANGED <<said, serial, cleared>> /\ glyphs' = glyphs
  BY DEF PrintNewline, PrintCharacter
<1>2. /\ OnScreen \in Seq(Symbol) /\ szBuffer[i] \in Symbol
      /\ OnScreen' = Append(OnScreen, szBuffer[i])
  BY <1>1, ScreenGrows
<1>3. Drawn(Append(OnScreen, szBuffer[i])) = Drawn(OnScreen)
  BY <1>1, <1>2, DrawnNext
<1>4. Drawn(OnScreen') = Drawn(OnScreen)
  BY <1>2, <1>3
<1>. QED  BY <1>1, <1>4 DEF Shows, InOrder

(* A glyph is behind all that are on the screen. *)
LEMMA ShowsGlyph ==
  ASSUME Told, Shows, IInv, PrintGlyph
  PROVE  Shows'
<1>. DEFINE c == szBuffer[i]
            new == <<VideoCursorX, VideoCursorY, c>>
<1>1. /\ stage = "screen" /\ i <= Len(szBuffer) /\ c # "\n" /\ i' = i + 1
      /\ UNCHANGED <<said, serial, cleared>> /\ glyphs' = glyphs \cup {new}
  BY DEF PrintGlyph, PrintCharacter
<1>2. OnScreen \in Seq(Symbol) /\ c \in Symbol /\ OnScreen' = Append(OnScreen, c)
  BY <1>1, ScreenGrows
<1>3. Drawn(OnScreen') = Append(Drawn(OnScreen), c)
  BY <1>1, <1>2, DrawnNext
<1>4. \A g \in glyphs : Before(g, new)
  <2>1. ASSUME NEW g \in glyphs PROVE Before(g, new)
    <3>1. /\ g[1] \in Nat /\ g[2] \in Nat
          /\ new[1] = VideoCursorX /\ new[2] = VideoCursorY
          /\ VideoCursorX \in Int /\ VideoCursorY \in Int
      <4>1. Counted
        BY DEF IInv
      <4>2. Printed \in Nat
        BY <1>1, <4>1, OneMore
      <4>3. /\ VideoCursorX \in 0..(1 + 8 * Printed) /\ VideoCursorY \in 0..(1 + 16 * Printed)
            /\ g[1] \in Nat /\ g[2] \in Nat
        BY <4>1 DEF Counted, VIDEO_STARTING_POSITION, ISO_CHAR_WIDTH, ISO_CHAR_HEIGHT
      <4>4. new[1] = VideoCursorX /\ new[2] = VideoCursorY
        OBVIOUS
      <4>. QED  BY <4>2, <4>3, <4>4
    <3>2. g[2] + 16 <= VideoCursorY \/ (g[2] = VideoCursorY /\ g[1] + 8 <= VideoCursorX)
      BY DEF IInv, CursorPastText, ISO_CHAR_HEIGHT, ISO_CHAR_WIDTH
    <3>. HIDE DEF new
    <3>. QED  BY <3>1, <3>2 DEF Before
  <2>. QED  BY <2>1
<1>5. new[3] = c
  OBVIOUS
<1>6. PICK s : InOrder(s)
  BY DEF Shows
<1>. DEFINE n == Len(s)
            t == Append(s, new)
<1>7. s \in Seq(glyphs) /\ n \in Nat /\ \A k \in 1..n : s[k] \in glyphs
  BY <1>6 DEF InOrder
<1>. HIDE DEF new
<1>8. /\ t \in Seq(glyphs') /\ Len(t) = n + 1 /\ t[n + 1] = new
      /\ \A k \in 1..n : t[k] = s[k]
  <2>1. s \in Seq(glyphs')
    <3>1. \A k \in 1..n : s[k] \in glyphs'
      BY <1>1, <1>7
    <3>. QED  BY <1>7, <3>1
  <2>2. new \in glyphs'
    BY <1>1
  <2>. HIDE DEF n
  <2>3. Len(s) = n
    BY DEF n
  <2>. QED  BY <1>7, <2>1, <2>2, <2>3
<1>. HIDE DEF t
<1>9. glyphs' = First(t, Len(t))
  <2>1. 1..(n + 1) = (1..n) \cup {n + 1}
    BY <1>7
  <2>2. First(t, n + 1) = {t[k] : k \in 1..n} \cup {new}
    BY <1>8, <2>1 DEF First
  <2>3. {t[k] : k \in 1..n} = First(s, n)
    BY <1>8 DEF First
  <2>4. glyphs = First(s, n)
    BY <1>6 DEF InOrder
  <2>. QED  BY <1>1, <1>8, <2>2, <2>3, <2>4
<1>10. ASSUME NEW j \in 1..(n + 1), NEW k \in 1..(n + 1), j < k
       PROVE  Before(t[j], t[k])
  <2>1. j \in 1..n
    BY <1>7, <1>10
  <2>2. CASE k \in 1..n
    BY <1>6, <1>8, <1>10, <2>1, <2>2 DEF InOrder
  <2>3. CASE k = n + 1
    BY <1>4, <1>7, <1>8, <2>1, <2>3
  <2>4. k \in 1..n \/ k = n + 1
    BY <1>7
  <2>. QED  BY <2>2, <2>3, <2>4
<1>11. Drawn(OnScreen') = [k \in 1..(n + 1) |-> t[k][3]]
  <2>. DEFINE d == [k \in 1..n |-> s[k][3]]
              e == [k \in 1..(n + 1) |-> t[k][3]]
  <2>1. Drawn(OnScreen) = d
    BY <1>6 DEF InOrder
  <2>2. Len(d) = n /\ DOMAIN d = 1..n
    BY <1>7
  <2>3. Append(d, c) = [k \in 1..(n + 1) |-> IF k = n + 1 THEN c ELSE d[k]]
    BY <1>7, <2>2
  <2>4. \A k \in 1..(n + 1) : e[k] = IF k = n + 1 THEN c ELSE d[k]
    BY <1>5, <1>7, <1>8
  <2>. HIDE DEF d
  <2>5. Append(d, c) = e
    BY <2>3, <2>4
  <2>. QED  BY <1>3, <2>1, <2>5
<1>12. \E r : /\ r \in Seq(glyphs') /\ glyphs' = First(r, Len(r))
              /\ \A j, k \in 1..Len(r) : j < k => Before(r[j], r[k])
              /\ Drawn(OnScreen') = [k \in 1..Len(r) |-> r[k][3]]
  <2>1. t \in Seq(glyphs') /\ glyphs' = First(t, Len(t))
    BY <1>8, <1>9
  <2>2. \A j, k \in 1..Len(t) : j < k => Before(t[j], t[k])
    BY <1>8, <1>10
  <2>3. Drawn(OnScreen') = [k \in 1..Len(t) |-> t[k][3]]
    BY <1>8, <1>11
  <2>. QED  BY <2>1, <2>2, <2>3
<1>. QED  BY <1>12 DEF Shows, InOrder

(* Both ways of clearing say a newline, on COM1 alone. *)
LEMMA TInvSetup ==
  ASSUME TInv, stage \in {"off", "idle"}, Setup, glyphs' = {}
  PROVE  TInv'
<1>1. /\ i = 1 /\ szBuffer = <<>> /\ said = serial /\ said \in Seq(Symbol)
  BY ToldBetween DEF TInv, Told
<1>2. /\ serial' = Append(serial, "\n") /\ said' = Append(said, "\n") /\ cleared' = Len(said')
      /\ stage' = "idle" /\ szBuffer' = szBuffer /\ i' = i
  BY DEF Setup
<1>3. /\ said' \in Seq(Symbol) /\ serial' = said' /\ Len(said') \in Nat
      /\ cleared' \in 0..Len(serial')
  <2>1. "\n" \in Symbol
    BY DEF Symbol
  <2>2. said' \in Seq(Symbol)
    BY <1>1, <1>2, <2>1
  <2>. QED  BY <1>1, <1>2, <2>2
<1>4. Len(szBuffer') = 0 /\ i' \in 1..(Len(szBuffer') + 1) /\ szBuffer' \in Seq(Character)
  BY <1>1, <1>2
<1>5. said' = serial' \o Pending'
  <2>1. Pending' = <<>>
    BY <1>1, <1>2 DEF Pending
  <2>. QED  BY <1>3, <2>1, NothingBehind
<1>6. Told'
  BY <1>1, <1>2, <1>3, <1>4, <1>5 DEF Told
<1>7. OnScreen' = <<>>
  <2>1. OnScreen' = SubSeq(said', Len(said') + 1, Len(said') + (1 - 1))
    BY <1>1, <1>2, <1>3 DEF OnScreen
  <2>. DEFINE n == Len(said')
  <2>2. n \in Nat /\ n + (1 - 1) = n
    BY <1>3
  <2>3. SubSeq(said', n + 1, n) = <<>>
    BY <1>3
  <2>. QED  BY <2>1, <2>2, <2>3
<1>8. Shows'
  BY <1>7, ShowsNone
<1>. QED  BY <1>6, <1>8 DEF TInv

(* A message is said when it is handed to vsprintf. *)
LEMMA TInvCall ==
  ASSUME TInv, screen \in Screens, Idle, NEW m \in MessagesOn(screen), printf(m)
  PROVE  TInv'
<1>1. /\ i = 1 /\ szBuffer = <<>> /\ said = serial /\ said \in Seq(Symbol)
      /\ cleared \in 0..Len(said) /\ Len(said) \in Nat
  BY ToldBetween DEF TInv, Told, Idle
<1>2. /\ said' = said \o Rendering(m) /\ message' = m /\ stage' = "format"
      /\ UNCHANGED <<screen, szBuffer, i, glyphs, serial, cleared>>
  BY DEF printf, vsprintf
<1>3. Rendering(m) \in Seq(Symbol)
  <2>1. Rendering(m) \in Seq(Character)
    BY MessageFits
  <2>2. \A k \in 1..Len(Rendering(m)) : Rendering(m)[k] \in Symbol
    BY <2>1 DEF Symbol
  <2>. QED  BY <2>1, <2>2
<1>4. said' \in Seq(Symbol)
  BY <1>1, <1>2, <1>3
<1>5. Told'
  <2>1. Pending' = Rendering(m)
    BY <1>2 DEF Pending
  <2>2. szBuffer' \in Seq(Character) /\ i' \in 1..(Len(szBuffer') + 1)
    BY <1>1, <1>2
  <2>. QED  BY <1>1, <1>2, <1>4, <2>1, <2>2 DEF Told
<1>6. OnScreen' = OnScreen
  <2>. DEFINE r == Rendering(m)
              n == Len(said)
              a == cleared + 1
  <2>1. OnScreen = SubSeq(said, a, n + (1 - 1)) /\ OnScreen' = SubSeq(said', a, n + (1 - 1))
    BY <1>1, <1>2 DEF OnScreen
  <2>2. said' = said \o r /\ r \in Seq(Symbol)
    BY <1>2, <1>3
  <2>3. a \in 1..(n + 1) /\ n \in Nat /\ n + (1 - 1) = n
    BY <1>1
  <2>. HIDE DEF r, a
  <2>4. SubSeq(said \o r, a, n) = SubSeq(said, a, n)
    <3>1. /\ SubSeq(said \o r, a, n) = [k \in 1..(n - a + 1) |-> (said \o r)[a + k - 1]]
          /\ SubSeq(said, a, n) = [k \in 1..(n - a + 1) |-> said[a + k - 1]]
      BY <1>1, <2>2, <2>3
    <3>2. \A k \in 1..(n - a + 1) : a + k - 1 \in 1..n
      <4>. HIDE DEF n
      <4>. QED  BY <2>3
    <3>3. \A j \in 1..n : (said \o r)[j] = said[j]
      BY <1>1, <2>2
    <3>. QED  BY <3>1, <3>2, <3>3
  <2>. QED  BY <2>1, <2>2, <2>3, <2>4
<1>7. Shows'
  BY <1>2, <1>6, ShowsSame DEF TInv
<1>. QED  BY <1>5, <1>7 DEF TInv

(* The buffer holds the message, to its last character. *)
LEMMA TInvTerminate ==
  ASSUME TInv, screen \in Screens, Reading, Terminate
  PROVE  TInv'
<1>1. /\ stage = "format" /\ pc = "returned" /\ szBuffer' = SubSeq(str, 1, Length)
      /\ i' = 1 /\ stage' = "screen" /\ UNCHANGED <<screen, glyphs, serial, said, cleared>>
  BY DEF Terminate
<1>2. /\ i = 1 /\ message \in MessagesOn(screen) /\ said = serial \o Rendering(message)
      /\ cleared \in 0..Len(serial)
  BY <1>1, ToldBetween DEF TInv, Told, Pending
<1>3. szBuffer' = Rendering(message)
  BY <1>1, <1>2, NothingCut
<1>4. szBuffer' \in Seq(Character) /\ Len(szBuffer') \in Nat
  BY <1>2, <1>3, MessageFits
<1>5. Told'
  <2>1. Pending' = Rendering(message)
    BY <1>1, <1>3 DEF Pending
  <2>2. i' \in 1..(Len(szBuffer') + 1)
    BY <1>1, <1>4
  <2>. QED  BY <1>1, <1>2, <1>4, <2>1, <2>2 DEF Told, TInv
<1>6. OnScreen' = OnScreen
  BY <1>1, <1>2 DEF OnScreen
<1>7. Shows'
  BY <1>1, <1>6, ShowsSame DEF TInv
<1>. QED  BY <1>5, <1>7 DEF TInv

(* COM1 is sent what the screen shows. *)
LEMMA TInvSerial ==
  ASSUME TInv, PrintToSerial
  PROVE  TInv'
<1>1. /\ stage = "serial" /\ serial' = serial \o szBuffer /\ szBuffer' = <<>> /\ i' = 1
      /\ stage' = "idle" /\ UNCHANGED <<glyphs, said, cleared>>
  BY DEF PrintToSerial
<1>2. /\ said = serial \o szBuffer /\ i = Len(szBuffer) + 1
      /\ said \in Seq(Symbol) /\ serial \in Seq(Symbol) /\ szBuffer \in Seq(Character)
      /\ cleared \in 0..Len(serial) /\ Len(serial) \in Nat /\ Len(szBuffer) \in Nat
  BY <1>1, ToldBetween DEF TInv, Told, Pending
<1>3. serial' = said /\ Len(said) = Len(serial) + Len(szBuffer)
  BY <1>1, <1>2
<1>4. Told'
  <2>1. Pending' = <<>>
    BY <1>1 DEF Pending
  <2>2. said = said \o <<>>
    BY <1>2, NothingBehind
  <2>3. cleared \in 0..Len(said)
    BY <1>2, <1>3
  <2>4. <<>> \in Seq(Character) /\ 1 \in 1..(Len(<<>>) + 1)
    OBVIOUS
  <2>. QED  BY <1>1, <1>2, <1>3, <2>1, <2>2, <2>3, <2>4 DEF Told
<1>5. OnScreen' = OnScreen
  <2>1. Len(serial') + (i' - 1) = Len(serial) + (i - 1)
    BY <1>1, <1>2, <1>3
  <2>. QED  BY <1>1, <2>1 DEF OnScreen
<1>6. Shows'
  BY <1>1, <1>5, ShowsSame DEF TInv
<1>. QED  BY <1>4, <1>6 DEF TInv

(* A turn of PrintToScreen's loop sends COM1 nothing. *)
LEMMA ToldPrinting ==
  ASSUME Told, PrintNewline \/ PrintGlyph
  PROVE  Told'
<1>1. /\ stage = "screen" /\ i <= Len(szBuffer) /\ i' = i + 1
      /\ UNCHANGED <<text, screen, stage, szBuffer, serial, said, cleared>>
  BY DEF PrintNewline, PrintGlyph, PrintCharacter
<1>2. i \in 1..(Len(szBuffer) + 1) /\ Len(szBuffer) \in Nat
  BY ToldBetween DEF Told
<1>3. i' \in 1..(Len(szBuffer') + 1)
  BY <1>1, <1>2
<1>. QED  BY <1>1, <1>3 DEF Told, Pending

(* Every step keeps the account of what was said. *)
LEMMA TInvStep ==
  ASSUME TInv, screen \in Screens, IInv, Reading, Next
  PROVE  TInv'
<1>1. ASSUME UNCHANGED vars PROVE TInv'
  <2>1. UNCHANGED <<screen, stage, szBuffer, i, glyphs, serial, said, cleared, message>>
    BY <1>1 DEF vars, text
  <2>2. Told' /\ OnScreen' = OnScreen
    BY <2>1 DEF TInv, Told, Pending, OnScreen
  <2>. QED  BY <2>1, <2>2, ShowsSame DEF TInv
<1>2. CASE SetupScreen
  <2>1. Setup /\ stage = "off" /\ glyphs' = {}
    BY <1>2 DEF SetupScreen, IInv, Counted
  <2>. QED  BY <2>1, TInvSetup
<1>3. ASSUME NEW VerboseEnable \in BOOLEAN, ClearScreen(VerboseEnable) PROVE TInv'
  <2>1. Setup /\ stage = "idle" /\ glyphs' = {}
    BY <1>3 DEF ClearScreen, Call, Idle
  <2>. QED  BY <2>1, TInvSetup
<1>4. ASSUME Idle, NEW m \in MessagesOn(screen), printf(m) \/ debug_printf(m) PROVE TInv'
  <2>1. CASE printf(m)
    BY <1>4, <2>1, TInvCall
  <2>2. CASE ~printf(m)
    <3>1. UNCHANGED <<text, screen, stage, szBuffer, i, glyphs, serial, said, cleared>>
      BY <1>4, <2>2 DEF debug_printf
    <3>2. Told' /\ OnScreen' = OnScreen
      BY <3>1 DEF TInv, Told, Pending, OnScreen, text
    <3>. QED  BY <3>1, <3>2, ShowsSame DEF TInv
  <2>. QED  BY <2>1, <2>2
<1>5. CASE FormatText
  <2>1. /\ UNCHANGED <<screen, stage, szBuffer, i, glyphs, serial, said, cleared>>
        /\ message' = message
    BY <1>5, StepKeepsMessage DEF FormatText
  <2>2. Told' /\ OnScreen' = OnScreen
    BY <2>1 DEF TInv, Told, Pending, OnScreen
  <2>. QED  BY <2>1, <2>2, ShowsSame DEF TInv
<1>6. CASE Terminate
  BY <1>6, TInvTerminate
<1>7. CASE PrintNewline
  BY <1>7, ToldPrinting, ShowsNewline DEF TInv
<1>8. CASE PrintGlyph
  BY <1>8, ToldPrinting, ShowsGlyph DEF TInv
<1>9. CASE ScreenPrinted
  <2>1. /\ stage = "screen" /\ i > Len(szBuffer) /\ stage' = "serial"
        /\ UNCHANGED <<text, screen, szBuffer, i, glyphs, serial, said, cleared>>
    BY <1>9 DEF ScreenPrinted
  <2>2. i = Len(szBuffer) + 1
    <3>1. i \in 1..(Len(szBuffer) + 1) /\ Len(szBuffer) \in Nat
      BY ToldBetween DEF TInv, Told
    <3>. QED  BY <2>1, <3>1
  <2>3. Told' /\ OnScreen' = OnScreen
    BY <2>1, <2>2 DEF TInv, Told, Pending, OnScreen
  <2>. QED  BY <2>1, <2>3, ShowsSame DEF TInv
<1>10. CASE PrintToSerial
  BY <1>10, TInvSerial
<1>11. CASE Quiet
  BY <1>1, <1>11 DEF Quiet
<1>. QED
  BY <1>2, <1>3, <1>4, <1>5, <1>6, <1>7, <1>8, <1>9, <1>10, <1>11 DEF Next

(* The account of all text: what was said is in serial or on its way, and  *)
(* what PrintToScreen is done with is on the screen.                       *)
THEOREM TextIsAccounted ==
  Spec => []TInv
<1>1. Init => TInv
  <2>. SUFFICES ASSUME Init PROVE TInv
    OBVIOUS
  <2>1. /\ stage = "off" /\ szBuffer = <<>> /\ i = 1 /\ glyphs = {} /\ serial = <<>>
        /\ said = <<>> /\ cleared = 0
    BY DEF Init
  <2>. DEFINE e == <<>>
  <2>2. /\ e \in Seq(Symbol) /\ e \in Seq(Character) /\ Len(e) = 0 /\ e \o e = e
        /\ SubSeq(e, 0 + 1, 0 + (1 - 1)) = e /\ 0 \in 0..0 /\ 1 \in 1..(0 + 1)
    OBVIOUS
  <2>. HIDE DEF e
  <2>3. said = e /\ serial = e /\ szBuffer = e
    BY <2>1 DEF e
  <2>4. Pending = e
    BY <2>1, <2>3 DEF Pending
  <2>5. Told
    BY <2>1, <2>2, <2>3, <2>4 DEF Told, e
  <2>6. OnScreen = e
    BY <2>1, <2>2, <2>3 DEF OnScreen
  <2>7. Shows
    <3>1. Drawn(e) = e /\ First(e, 0) = {} /\ [k \in 1..0 |-> e[k][3]] = e
          /\ \A j, k \in 1..0 : j < k => Before(e[j], e[k])
      BY DrawnNone DEF First, e
    <3>2. e \in Seq(glyphs)
      BY DEF e
    <3>3. InOrder(e)
      BY <2>1, <2>2, <2>6, <3>1, <3>2 DEF InOrder
    <3>. QED  BY <3>3 DEF Shows
  <2>. QED  BY <2>5, <2>7 DEF TInv
<1>2. Placed /\ IInv /\ Reading /\ TInv /\ [Next]_vars => TInv'
  <2>1. ASSUME TInv, UNCHANGED vars PROVE TInv'
    <3>1. UNCHANGED <<screen, stage, szBuffer, i, glyphs, serial, said, cleared, message>>
      BY <2>1 DEF vars, text
    <3>2. Told' /\ OnScreen' = OnScreen
      BY <2>1, <3>1 DEF TInv, Told, Pending, OnScreen
    <3>. QED  BY <2>1, <3>1, <3>2, ShowsSame DEF TInv
  <2>. QED  BY <2>1, TInvStep DEF Placed
<1>. QED  BY <1>1, <1>2, CursorHasRoom, TextIsCounted, MessagesAreRead, PTL DEF Spec

(* Between two calls the screen reads what was said since it was cleared,  *)
(* and the serial log all that was ever said, to the last character.       *)
THEOREM ScreenAndSerialTellAll ==
  Spec => []BothTellAll
<1>1. IInv /\ TInv => BothTellAll
  <2>. SUFFICES ASSUME IInv, TInv, stage = "idle"
                PROVE  /\ serial = said
                       /\ ReadScreen = Drawn(SubSeq(said, cleared + 1, Len(said)))
    BY DEF BothTellAll
  <2>1. serial = said /\ i = 1 /\ Len(serial) \in Nat
    BY ToldBetween DEF TInv
  <2>2. OnScreen = SubSeq(said, cleared + 1, Len(said))
    <3>. DEFINE n == Len(serial)
    <3>1. n + (i - 1) = n
      BY <2>1
    <3>2. OnScreen = SubSeq(said, cleared + 1, n)
      BY <3>1 DEF OnScreen
    <3>. QED  BY <2>1, <3>2
  <2>3. PICK s : InOrder(s)
    BY DEF TInv, Shows
  <2>. DEFINE n == Len(s)
  <2>4. /\ n \in Nat /\ glyphs = First(s, n)
        /\ \A j, k \in 1..n : j < k => Before(s[j], s[k])
        /\ \A j \in 1..n : s[j] \in glyphs
        /\ Drawn(OnScreen) = [k \in 1..n |-> s[k][3]]
    <3>1. s \in Seq(glyphs)
      BY <2>3 DEF InOrder
    <3>2. n \in Nat /\ \A j \in 1..n : s[j] \in glyphs
      BY <3>1
    <3>. QED  BY <2>3, <3>2 DEF InOrder
  <2>5. \A j \in 1..n : s[j][1] \in Nat /\ s[j][2] \in Nat
    BY <2>4 DEF IInv, Counted
  <2>. HIDE DEF n
  <2>6. ReadScreen = [k \in 1..n |-> s[k][3]]
    <3>1. /\ n \in Nat /\ glyphs = First(s, n)
          /\ \A j, k \in 1..n : j < k => Before(s[j], s[k])
      BY <2>4
    <3>. QED  BY ONLY <2>5, <3>1, ReadInOrder
  <2>. QED  BY <2>1, <2>2, <2>4, <2>6
<1>. QED  BY <1>1, TextIsCounted, TextIsAccounted, PTL

-----------------------------------------------------------------------------
(* What the other invariants do not say of the words. *)
Ranges ==
  /\ WrapperVerbose \in BOOLEAN
  /\ stage = "off" => NeedsWrapAround = 0
  /\ \A g \in glyphs : g[1] \in 0..(U32 - 1) /\ g[2] \in 0..(U32 - 1)

(* Every step keeps words in their range. *)
LEMMA RangesStep ==
  ASSUME Placed, Told, Ranges, Next
  PROVE  Ranges'
<1>1. CASE SetupScreen
  BY <1>1 DEF SetupScreen, Setup, Ranges
<1>2. ASSUME NEW VerboseEnable \in BOOLEAN, ClearScreen(VerboseEnable) PROVE Ranges'
  BY <1>2 DEF ClearScreen, Setup, Ranges
<1>3. ASSUME UNCHANGED <<WrapperVerbose, NeedsWrapAround, glyphs>>, stage' # "off" \/ stage' = stage
      PROVE  Ranges'
  BY <1>3 DEF Ranges
<1>4. ASSUME Idle, NEW m \in MessagesOn(screen), printf(m) \/ debug_printf(m) PROVE Ranges'
  BY <1>3, <1>4 DEF printf, debug_printf
<1>5. CASE PrintGlyph
  <2>1. /\ glyphs' = glyphs \cup {<<VideoCursorX, VideoCursorY, szBuffer[i]>>}
        /\ UNCHANGED <<WrapperVerbose, NeedsWrapAround, stage>>
    BY <1>5 DEF PrintGlyph, PrintCharacter
  <2>2. VideoCursorX \in 0..(U32 - 1) /\ VideoCursorY \in 0..(U32 - 1)
    BY DEF Placed
  <2>3. ASSUME NEW g \in glyphs' PROVE g[1] \in 0..(U32 - 1) /\ g[2] \in 0..(U32 - 1)
    <3>1. g \in glyphs \/ (g[1] = VideoCursorX /\ g[2] = VideoCursorY)
      BY <2>1
    <3>. QED  BY <2>2, <3>1 DEF Ranges
  <2>. QED  BY <2>1, <2>3 DEF Ranges
<1>. QED
  BY <1>1, <1>2, <1>3, <1>4, <1>5
  DEF Next, FormatText, Terminate, PrintNewline, PrintCharacter, ScreenPrinted, PrintToSerial,
      Quiet, vars

(* The type invariant: vsprintf's format pointer stays in the format, the  *)
(* text in szBuffer, the cursor and every glyph's place in a word.         *)
THEOREM Typed ==
  Spec => []TypeOK
<1>1. Init => Ranges
  BY DEF Init, Ranges
<1>2. Placed /\ TInv /\ Ranges /\ [Next]_vars => Ranges'
  <2>1. Ranges /\ UNCHANGED vars => Ranges'
    BY DEF vars, Ranges
  <2>. QED  BY <2>1, RangesStep DEF TInv
<1>3. Placed /\ IInv /\ Reading /\ TInv /\ Ranges => TypeOK
  <2>. SUFFICES ASSUME Placed, IInv, Reading, TInv, Ranges PROVE TypeOK
    OBVIOUS
  <2>1. TextTypeOK
    BY ReadingTyped
  <2>2. NeedsWrapAround \in 0..(U32 - 1)
    <3>1. U32 \in Nat \ {0} /\ screen.RowPixels \in Nat
      BY Constants DEF Placed
    <3>2. WrapPosition \in 0..(U32 - 1)
      BY <3>1 DEF WrapPosition, VIDEO_STARTING_POSITION, ISO_CHAR_WIDTH
    <3>3. NeedsWrapAround = WrapPosition \/ NeedsWrapAround = 0
      BY DEF Placed, Ranges
    <3>. QED  BY <3>1, <3>2, <3>3
  <2>3. Len(szBuffer) < BufferSize
    <3>1. CASE stage \in {"screen", "serial"}
      BY <3>1, Constants DEF IInv, Counted
    <3>2. CASE stage \notin {"screen", "serial"}
      <4>1. szBuffer = <<>>
        BY <3>2 DEF TInv, Told
      <4>2. Len(szBuffer) = 0
        BY <4>1
      <4>. QED  BY <4>2, Constants
    <3>. QED  BY <3>1, <3>2
  <2>4. cleared \in 0..Len(said)
    <3>1. /\ said = serial \o Pending /\ serial \in Seq(Symbol) /\ cleared \in 0..Len(serial)
          /\ Len(serial) \in Nat
      BY ToldBetween DEF TInv, Told
    <3>2. Pending \in Seq(Character)
      <4>1. CASE stage = "format"
        BY <4>1, MessageFits DEF Placed, TInv, Told, Pending
      <4>2. CASE stage # "format"
        BY <4>2 DEF TInv, Told, Pending
      <4>. QED  BY <4>1, <4>2
    <3>3. Len(said) = Len(serial) + Len(Pending) /\ Len(Pending) \in Nat
      BY <3>1, <3>2
    <3>. QED  BY <3>1, <3>3
  <2>. QED
    BY <2>1, <2>2, <2>3, <2>4 DEF TypeOK, Placed, IInv, Counted, TInv, Told, Ranges
<1>. QED
  BY <1>1, <1>2, <1>3, CursorHasRoom, TextIsCounted, MessagesAreRead, TextIsAccounted, PTL DEF Spec
=============================================================================
