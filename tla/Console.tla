-------------------------------- MODULE Console --------------------------------
(***************************************************************************)
(* console.c: what printf and debug_printf make of a message, on the       *)
(* linear frame buffer and on the serial port.  Format is their vsprintf;  *)
(* here are the message buffer, where characters are placed, when the      *)
(* cursor wraps, and what verbose mode lets through.  One step is one      *)
(* call, one step of vsprintf, or one character of PrintToScreen.          *)
(*                                                                         *)
(* A glyph is known by the pixel its upper left corner is at, counted from *)
(* (1, 1), and by its character.                                           *)
(***************************************************************************)
EXTENDS Format, FiniteSets

CONSTANTS
  U16,           \* 2^16: wLength is u16
  U32,           \* 2^32: cursors and the wrap position are u32
  BufferSize,    \* sizeof(szBuffer)
  Screens,       \* BootArgs->Video: RowPixels is Pitch / 4
  MessagesOn(_), \* the messages printed on a screen
  CallsOn(_)     \* bound on the calls made on it

ISO_CHAR_WIDTH  == 8
ISO_CHAR_HEIGHT == 16
VIDEO_STARTING_POSITION == 1

VARIABLES
  screen,
  stage,             \* off | idle | format | screen | serial
  VideoCursorX, VideoCursorY,
  NeedsWrapAround,
  WrapperVerbose,
  szBuffer,
  i,                 \* PrintToScreen's index
  glyphs,            \* the glyphs on the screen
  serial,            \* the bytes sent to COM1
  calls,
  said,              \* what was said, both ways of clearing included
  cleared            \* the length of said when the screen was last cleared

cursor == <<VideoCursorX, VideoCursorY>>
vars   == <<text, cursor, screen, stage, NeedsWrapAround, WrapperVerbose, szBuffer, i,
            glyphs, serial, calls, said, cleared>>

(* Longer texts leave szBuffer before anything is clamped. *)
ASSUME ConsoleAssumption ==
  /\ U16 \in Nat /\ BufferSize \in 1..U16 /\ U32 \in Nat \ {0}
  /\ Screens \subseteq [RowPixels : 0..(U32 - 1)]
  /\ \A s \in Screens :
       /\ CallsOn(s) \in Nat
       /\ \A m \in MessagesOn(s) : WellFormed(m) /\ Len(Rendering(m)) < BufferSize

(* The cursor, a u32, counts all the text there is: some calls, and two of *)
(* them for every entry of the memory map, of which there are not 4000.    *)
ASSUME TextAssumption ==
  \A s \in Screens :
    VIDEO_STARTING_POSITION + ISO_CHAR_HEIGHT * (CallsOn(s) * BufferSize) < U32

Init ==
  /\ screen \in Screens /\ stage = "off"
  /\ VideoCursorX = 0 /\ VideoCursorY = 0 /\ NeedsWrapAround = 0
  /\ WrapperVerbose = FALSE
  /\ szBuffer = <<>> /\ i = 1 /\ glyphs = {} /\ serial = <<>>
  /\ calls = 0 /\ said = <<>> /\ cleared = 0
  /\ TextInit

(* Fault: the whole row, not the last place a glyph fits at. *)
WrapPositionAtRowEnd == (screen.RowPixels + U32 - VIDEO_STARTING_POSITION) % U32

(* Fault: one glyph too early. *)
WrapPositionEarly ==
  (screen.RowPixels + U32 - VIDEO_STARTING_POSITION - 2 * ISO_CHAR_WIDTH) % U32

(* u32 arithmetic: a row of less than nine pixels goes round. *)
WrapPosition ==
  (screen.RowPixels + U32 - VIDEO_STARTING_POSITION - ISO_CHAR_WIDTH) % U32

(* SetupScreen, and its "\n" that makes the serial log look better. *)
Setup ==
  /\ VideoCursorX' = VIDEO_STARTING_POSITION
  /\ VideoCursorY' = VIDEO_STARTING_POSITION
  /\ NeedsWrapAround' = WrapPosition
  /\ serial' = Append(serial, "\n")
  /\ stage' = "idle"
  /\ said' = Append(said, "\n") /\ cleared' = Len(said')
  /\ UNCHANGED <<text, screen, szBuffer, i>>

(* WrapperInit's first call; the boot logo stays on the screen. *)
SetupScreen ==
  /\ stage = "off"
  /\ Setup
  /\ UNCHANGED <<WrapperVerbose, glyphs, calls>>

(* Between two calls. *)
Idle == stage = "idle" /\ calls < CallsOn(screen)

Call == Idle /\ calls' = calls + 1

(* Every pixel black, then SetupScreen. *)
ClearScreen(VerboseEnable) ==
  /\ Call
  /\ glyphs' = {}
  /\ Setup
  /\ WrapperVerbose' = VerboseEnable

printf(m) ==
  /\ Call
  /\ vsprintf(m)
  /\ stage' = "format"
  /\ said' = said \o Rendering(m)
  /\ UNCHANGED <<screen, cursor, NeedsWrapAround, WrapperVerbose, szBuffer, i,
                 glyphs, serial, cleared>>

debug_printf(m) ==
  \/ WrapperVerbose /\ printf(m)
  \/ /\ ~WrapperVerbose /\ Call
     /\ UNCHANGED <<text, screen, stage, cursor, NeedsWrapAround, WrapperVerbose, szBuffer, i,
                    glyphs, serial, said, cleared>>

FormatText ==
  /\ stage = "format"
  /\ Step
  /\ UNCHANGED <<screen, stage, cursor, NeedsWrapAround, WrapperVerbose, szBuffer, i,
                 glyphs, serial, calls, said, cleared>>

(* Fault: a text that just fits is cut. *)
LengthShort ==
  LET wLength == Len(str) % U16 IN IF wLength >= BufferSize - 1 THEN BufferSize - 2 ELSE wLength

(* vsprintf's result is kept in a u16 and clamped. *)
Length ==
  LET wLength == Len(str) % U16 IN IF wLength > BufferSize - 1 THEN BufferSize - 1 ELSE wLength

(* The terminator is put at wLength. *)
Terminate ==
  /\ stage = "format" /\ pc = "returned"
  /\ szBuffer' = SubSeq(str, 1, Length)
  /\ i' = 1
  /\ stage' = "screen"
  /\ Leave
  /\ UNCHANGED <<screen, cursor, NeedsWrapAround, WrapperVerbose, glyphs, serial, calls,
                 said, cleared>>

(* Fault: a newline returns the carriage only. *)
StartLineSame ==
  /\ VideoCursorX' = VIDEO_STARTING_POSITION
  /\ VideoCursorY' = VideoCursorY

(* The next text line; there is no last one. *)
StartLine ==
  /\ VideoCursorX' = VIDEO_STARTING_POSITION
  /\ VideoCursorY' = (VideoCursorY + ISO_CHAR_HEIGHT) % U32

(* One turn of PrintToScreen's loop. *)
PrintCharacter(which) ==
  /\ stage = "screen" /\ i <= Len(szBuffer) /\ (szBuffer[i] = "\n") = (which = "newline")
  /\ i' = i + 1
  /\ UNCHANGED <<text, screen, stage, NeedsWrapAround, WrapperVerbose, szBuffer, serial,
                 calls, said, cleared>>

PrintNewline ==
  /\ PrintCharacter("newline")
  /\ StartLine
  /\ UNCHANGED glyphs

(* PlacePixel: where in the frame buffer the pixels of a glyph are whose   *)
(* corner is at g, counted in pixels.  Nothing ends at the end of a row.   *)
Pixels(g) ==
  {(g[1] + x - 1) + (g[2] + y - 1) * screen.RowPixels :
     x \in 0..(ISO_CHAR_WIDTH - 1), y \in 0..(ISO_CHAR_HEIGHT - 1)}

(* PlaceCharacter at the cursor, which moves on or wraps. *)
PrintGlyph ==
  /\ PrintCharacter("glyph")
  /\ glyphs' = glyphs \cup {<<VideoCursorX, VideoCursorY, szBuffer[i]>>}
  /\ IF VideoCursorX >= NeedsWrapAround
     THEN StartLine
     ELSE VideoCursorX' = (VideoCursorX + ISO_CHAR_WIDTH) % U32
          /\ UNCHANGED VideoCursorY

ScreenPrinted ==
  /\ stage = "screen" /\ i > Len(szBuffer)
  /\ stage' = "serial"
  /\ UNCHANGED <<text, screen, cursor, NeedsWrapAround, WrapperVerbose, szBuffer, i,
                 glyphs, serial, calls, said, cleared>>

PrintToSerial ==
  /\ stage = "serial"
  /\ serial' = serial \o szBuffer
  /\ szBuffer' = <<>> /\ i' = 1
  /\ stage' = "idle"
  /\ UNCHANGED <<text, screen, cursor, NeedsWrapAround, WrapperVerbose, glyphs, calls,
                 said, cleared>>

(* All calls made. *)
Quiet == stage = "idle" /\ calls = CallsOn(screen) /\ UNCHANGED vars

Next ==
  \/ SetupScreen
  \/ \E VerboseEnable \in BOOLEAN : ClearScreen(VerboseEnable)
  \/ Idle /\ \E m \in MessagesOn(screen) : printf(m) \/ debug_printf(m)
  \/ FormatText \/ Terminate
  \/ PrintNewline \/ PrintGlyph \/ ScreenPrinted
  \/ PrintToSerial
  \/ Quiet

Spec == Init /\ [][Next]_vars

(* Nothing interrupts the loader: a call begun is finished. *)
FairSpec ==
  /\ Spec
  /\ WF_vars(FormatText \/ Terminate \/ PrintNewline \/ PrintGlyph \/ ScreenPrinted \/ PrintToSerial)

-----------------------------------------------------------------------------
(* Rows that end on a whole glyph, up to two pixels more. *)
WholeGlyphs ==
  /\ screen.RowPixels >= VIDEO_STARTING_POSITION + ISO_CHAR_WIDTH
  /\ screen.RowPixels % ISO_CHAR_WIDTH \in 0..2

(* Type invariant; vsprintf's format pointer never passes the terminator.  *)
TypeOK ==
  /\ TextTypeOK
  /\ screen \in Screens /\ stage \in {"off", "idle", "format", "screen", "serial"}
  /\ WrapperVerbose \in BOOLEAN
  /\ VideoCursorX \in 0..(U32 - 1) /\ VideoCursorY \in 0..(U32 - 1)
  /\ NeedsWrapAround \in 0..(U32 - 1)
  /\ Len(szBuffer) < BufferSize /\ i \in 1..(Len(szBuffer) + 1)
  /\ \A g \in glyphs : g[1] \in 0..(U32 - 1) /\ g[2] \in 0..(U32 - 1)
  /\ calls \in 0..CallsOn(screen) /\ cleared \in 0..Len(said)

(* PlacePixel computes Y * Pitch + X * 4 and checks nothing: a glyph that  *)
(* does not end within its row is torn, its right part one pixel row down  *)
(* at the left edge.  On rows of whole glyphs none is.                     *)
GlyphInRow ==
  WholeGlyphs =>
    \A g \in glyphs : g[1] >= 1 /\ g[1] - 1 + ISO_CHAR_WIDTH <= screen.RowPixels

(* A row of any width is not left before it is full: by a glyph only if no *)
(* other fits behind it.                                                   *)
RowsFilled ==
  [][PrintGlyph /\ VideoCursorX' = VIDEO_STARTING_POSITION
       => VideoCursorX - 1 + 2 * ISO_CHAR_WIDTH > screen.RowPixels]_vars

(* On rows of whole glyphs no glyph is drawn over another: those on the    *)
(* screen have no pixel of the frame buffer in common with one drawn at    *)
(* the cursor, however it wrapped, broke lines and was sent home.  On      *)
(* others a torn glyph reaches into the first one of its line.             *)
NothingDrawnOver ==
  WholeGlyphs => \A g \in glyphs : Pixels(g) \cap Pixels(cursor) = {}

(* The characters on the screen, line by line. *)
Before(g, h) == g[2] < h[2] \/ (g[2] = h[2] /\ g[1] < h[1])
ReadScreen ==
  [k \in 1..Cardinality(glyphs) |->
     (CHOOSE h \in glyphs : Cardinality({g \in glyphs : Before(g, h)}) = k - 1)[3]]

(* The characters of a text that leave a glyph. *)
Drawn(s) == FlattenSeq([k \in 1..Len(s) |-> IF s[k] = "\n" THEN <<>> ELSE <<s[k]>>])

(* Between two calls the screen reads what was said since it was cleared,  *)
(* and the serial log all that was ever said: neither is cut short, not    *)
(* even by a message that fills szBuffer to its last byte.  It reads so by *)
(* where the glyphs are put; torn ones, and those below the last row of    *)
(* the screen, are put there but cannot be seen.                           *)
BothTellAll ==
  stage = "idle" =>
    /\ serial = said
    /\ ReadScreen = Drawn(SubSeq(said, cleared + 1, Len(said)))

(* Every call returns, also on a format that ends inside a directive. *)
CallsReturn == stage = "format" ~> stage = "idle"
=============================================================================
