# A verification project for freeldr-wrapper-appletv

`freeldr-wrapper-appletv` is a boot loader that Apple's `boot.efi` takes for a
Mac OS X kernel. It converts what `boot.efi` hands it into what ReactOS'
FreeLoader expects, copies FreeLoader to the address its header asks for, and
jumps to it. Everything runs once, on one CPU, without paging, interrupts of
its own or any memory management: what can go wrong is who writes where in
which order, which of the firmware's many legal inputs was never tried, and
what happens after something was not found.

## The system

| Component | Source | State it keeps | Operations | Interacts with |
|---|---|---|---|---|
| Boot sequence and hand-off | `loader.c`, `asm.S`, second half of `firmware.c` | `BootArgs`, `BootInfo` (never assigned: address 0), `FreeldrPtr`, physical memory | `WrapperInit`, `SetupCmdline`, `CreateBootInfo`, `ValidateFreeldr`, `LoadFreeldr`, `LegacyAcpiSmbiosFix`, `JumpToFreeldr`, `fail` | calls every other component; leaves its results in memory for FreeLoader |
| Memory-map conversion | first half of `firmware.c` | the Multiboot entries at 0x3F0000, counters | `FillMultibootMemoryMap`, `AddMemoryRegion`, `PrintMultibootMemoryMap` | reads the firmware's descriptors, fills two fields of the boot info |
| PCI IDE fixup | `pci.c`, `ioports.c` | `PciDevice` (never assigned: address 0), configuration space | `DetectPciIdeController`, `AppleTVFixupIdeController` | halts through `fail()` on a controller it does not know |
| Console | `console.c`, `font.h` | cursor, wrap position, `WrapperVerbose`, frame buffer | `SetupScreen`, `ClearScreen`, `printf`, `debug_printf`, `ChangeColors` | used by all others; `SetupCmdline` decides verbose mode |
| Mach-O section lookup | `macho.c` | none | `GetSectionDataFromHeader` | gives `ValidateFreeldr` the `__freeldr` section |
| Clock | `utils.c` | first time stamp | `mseconds`, `msleep`, `sleep` | the five-second pause of verbose mode |
| String and memory functions | `utils.c` | none | `memcpy`, `strstr`, `strncmp`, ... | all |
| Formatted output | `vsprintf.c` | the directive being read, the arguments left | `vsprintf`, `number`, `skip_atoi`, `sprintf` | console |

The code has no threads, no persistence and no messages. What is hard about it:

* **Loops that can be left early.** `FillMultibootMemoryMap` has a `for` whose
  counter is advanced in the header and whose pointer is advanced at the bottom
  of the body, and a `continue` in between.
* **Fixed places in memory.** Seven areas, two of them at address 0 because two
  globals are null, filled in an order in which a later step may write over an
  earlier one; the image goes wherever its header says.
* **Null as a result.** A table, controller or header that is not there is
  reported as 0, which is also a legal value.
* **Inputs read late.** The tables of the firmware are read after most of the
  loader's own writing is done, its memory map while the new map is written.
* **A parser of its own language.** A directive of `vsprintf` has five optional
  parts, two of which may take arguments, and may end anywhere.
* **Boundaries.** The 640K-1MB hole, the three nested scan loops, the wrap
  column of the screen, each with its off-by-one.

What makes each component correct:

* memory map: nothing is reported that the firmware did not promise, everything
  it promised is reported, entries do not overlap, one entry per descriptor, and
  the loop ends;
* hand-off: the loader either halts or enters the image it validated, and at the
  jump everything FreeLoader reads is in its place;
* PCI: the first IDE controller is found wherever it is, put into compatibility
  mode, and nothing else is changed;
* section lookup: the section with both names is found, and no other one in its
  place;
* clock: the pause lasts as long as it should, wherever the counter stands;
* formatted output: the text is what the caller means, each directive takes its
  own arguments, and every call returns;
* console: screen and serial log tell all that was said, in reading order, rows
  are filled, and where a row holds whole glyphs none is torn or overdrawn.

`PROJECT.json` lists the hazards line by line with the properties that cover
them.

## The modules

`EfiMemory` holds the vocabulary of the conversion: descriptors, Multiboot
kinds, which bytes a descriptor claims, and what a firmware map *promises* of a
byte; `Described` is the addresses promises are looked at, all of them in the
loader, a sample in a run. `MultibootMap` is the entries and `AddMemoryRegion`,
apart from the loop because `Boot` speaks of the map too. `MemoryMap` is the loop. `efi` is the firmware's table, `i` and `p` are
the loop counter and the descriptor pointer, kept apart as in the code, `map`
is the entries written so far (`NumberOfEntries` is its length). One step is one
iteration: `ConvertReserved` stands for all the arms that pass a region on
whole, `ConvertUsable`, `ConvertAcrossHole` and `ConvertEndsInHole` for the
three ways out of the usable arm, `Return` for the two assignments after the
loop. `ConvertEndsInHole` advances `i` and not `p`: that is what the `continue`
does. `MemoryMapContract` is the conversion in one step, as sets of addresses:
nothing but the promised bytes of each kind is published, and all of them unless
a descriptor before the last ends in the hole (finding 1).

`PhysicalMemory` is memory as a function from addresses to *which byte of which
object* is there, with `Store` and `Copy`. `CString` is `strlen`, `memcmp` and
`strstr` on a piece of memory. `Handoff` is the layout, the inputs (a *machine*:
where boot.efi's structures are, command line, firmware memory map,
configuration space, EFI tables, the `__freeldr` section) and what is owed to
FreeLoader. It extends the vocabularies of the map and of configuration space.
`Address` is the addresses memory is looked at; in a run they are a sample, and
`SampleAssumption` says of it only that where a copied byte is looked at, its
original is.

`Boot` is `WrapperInit`; `stage` names the function about to run. It composes the
components: `PciFixup` and `MemoryMap` are instances whose variables are `Boot`'s,
so the scan, the fixup and the conversion run in `Boot` by the very actions that
are checked on their own, one function of configuration space or one descriptor
at a time, and each writes its part of physical memory as it goes: the scan's
result to address 0, where `PciDevice` points, every entry to the map area. The
search for the header and the table loop take a step per turn. What the boot
needs to have been done is then said by the components' own properties:
`MapHeld` by `MemoryMap!ReportedExactly`, the item `ide` by
`PciFixup!ControllerReady`. What the loader runs on and reads is taken from
`machine`, which no step changes; in the code it lies in the memory the loader writes.
Once something it has still to go by (`ToRead`: itself, boot.efi's arguments, the
array of tables, the firmware's map until it is converted) is not what it was, the CPU may run or read
anything: `GoAstray` says so, and stage `astray` is where the model stops to follow.
On a *clear* machine (`Clear`: the map fits, the inputs lie outside the areas and the
image covers none of them) that never comes to pass, which is what
`NothingReadIsLost` shows. `HandoffContract` is the boot in one step: a clear machine
is handed over or refused; of any other nothing is promised.

`PciConfig` is configuration space as the ports reach it: an address is packed
by `ConfigAddress` and taken apart again by the host bridge (`FunctionAt`,
`RegisterAt`), a byte or a word is cut out of a longword. `PciFixup` is the scan,
one function per step, and the fixup. `PciDevice` starts as any function at all,
since the code never assigns the pointer and the bytes at address 0 are what the
firmware left there.

`Format` is `vsprintf`: a step is one part of a directive. A *message* is what
the caller means, a sequence of plain characters and directives with their
arguments; `Spelling` writes it as the format, `Arguments` as what `va_arg`
takes, and `Rendering` says what it means, item by item and without a format
pointer. `number` is the code's arithmetic (sizes counted down, digits divided off
a word), `IntegerRendered` a numeral in a field. Words are `Byte^4` wide;
`Character` is the alphabet, of which `CharacterAssumption` says only that it has
the characters `vsprintf` writes or gives a meaning, and not the terminator.
`WellFormed` says what a message is: flags in any order and as often as they
like, a conversion that is no other part of a directive, the argument each
conversion takes, and no conversion missing but at the end of the format.

`Console` is `printf` and `debug_printf` around it: the message buffer and its
length, the cursor and the glyphs, one character a step, and the serial port.
It extends `Format`, whose variables (`text`) are `vsprintf`'s own while a call is
under way. `said` and `cleared` record what was said and
when the screen was last cleared. `TextAssumption` bounds the calls: their buffers
together are not so much text that a line each would bring a `u32` cursor round.

`MachO` is the walk over the load commands. Because the walk may read a section
as a command, the header is modelled as its 32-bit words, laid out by
`CommandWords` and `SectionWords` as the linker does; `Segment` and `Section`
are the two pointers, `i` and `j` the two counters. Four characters of a name
are one number, and `Begins` says which of them begin which, which is all that
`strncmp` with the length of the header's own name can tell.

`Clock` is one `sleep` against a running time-stamp counter: every `rdtsc` reads
it some cycles (`Laps`) after the one before. `mseconds` is the arithmetic of
the code with the widths of the words as parameters.

Each operator commented `Fault:` is a plausible mistake in the definition right
below it; no specification uses it. `PROJECT.json` names for every property the
fault that breaks it.

## The runs

| Run | Instance | Shows |
|---|---|---|
| `memory_map` | a five-page memory with a two-page hole, pages of two bytes; all maps of up to two regions over six types (one for each arm, a second usable one, one only the default arm catches) and of up to three over two types | types, `NothingInvented`, `ReportedExactly`, `Coalesced`, `EntriesDisjoint`, `OneEntryPerDescriptor`, termination, and that the loop implements `MemoryMapContract` |
| `memory_map_gap` | two disjoint regions | violated: see finding 1 |
| `boot` | the real addresses but for the loader's own, memory sampled at the edges of every area; one scanned PCI bus and the last one, maps of up to four regions | types, `HandoffIntact`, `NothingReadIsLost`, and that on clear machines `Boot` implements `HandoffContract`, its liveness included |
| `boot_acpi`, `boot_header`, `boot_verbose` | the same | violated: findings 2 to 4 |
| `pci_fixup` | two scanned buses and the last one, two slots, two functions, at most two functions present | types, `FixesTheFirst`, `ControllerReady`, termination |
| `pci_stray` | the same | violated: finding 5 |
| `console` | words of eight bits; on a wide screen one call of every combination of flags, width, precision, qualifier, conversion and argument, and of two items in a row; on screens two or three glyphs wide with every remainder, and one narrower than a glyph, three calls of any of four messages | types, `RendersMessage`, `GlyphInRow`, `NothingDrawnOver`, `RowsFilled`, `BothTellAll`, and that every call returns |
| `macho` | headers of up to two commands, or three with `__PAGEZERO` first: `__TEXT` and `__DATA` with up to two sections, other commands longer and shorter than a segment, and relocatable files | types, `FindsSection`, `StaysInside`, termination |
| `macho_step` | the same | violated: finding 6 |
| `clock` | words of 64, units of 8 cycles, a pause of 9 units from any of 256 starts | types, `SleepsLongEnough`, `WakesInTime` |

**Why the bounds are enough.** The conversion looks at one descriptor and the
last entry, so two descriptors show every pair of neighbours and three show what
a lagging pointer does to the ones behind; five pages let a region lie below,
inside, above, reach in from either side or span the hole, with every boundary
met exactly. Every area of the boot has its first and its last byte in the
sample, so an overlap of intervals shows; images are placed over each kind of
area and clear of all of them. Where one lies over the loader or its arguments, `GoAstray` is
taken; the contract and the properties speak of the clear machines, of which there are
ones with and without each table, and with every outcome of the fixup and of the search. The loader begins three entries above the map, so
that three entries fill the map area exactly and four run into the loader; in the
source there is room for 3276. The firmware's own map lies either out of reach or
where the loader writes its own. The search for the header covers three words
instead of 2048: none, first, middle, last and several matches occur. A PCI loop
with two turns has a first and a last one. `number` and the qualifiers look at a
word only as its sign, its lower half and its digits: eight bits have the least
and the largest word, both halves, and one to three digits, fewer and more than
the precisions ask for. The buffer is 20 bytes, and widths of 19 fill it to the
last one. Rows of 16 to 26 pixels have every remainder modulo the width of a
glyph. `GlyphInRow` and `NothingDrawnOver` speak of those that hold whole glyphs
(`WholeGlyphs`): on the others `PlacePixel`, which knows of no row's end, puts the right
part of the last glyph one pixel row down at the left edge, over the first glyph of its
line. `RowsFilled` speaks of all. A header of two commands puts every kind of command in front of the sought
one, and two sections every other section. The pause is longer than a turn of the
low word, so that the carry into the high one happens in every pause, at each of
its places.

**Bounds by name**: `MC_Pages`, `MapsUpTo` in `MC_MemoryMap`; `MC_SearchWords`,
`MC_WRAPPER_BASE`, `MC_Address`, `MC_Described`, `MC_LastBus`, `MC_NumSlots`,
`MC_NumFuncs`, `MC_EfiMaps`, `MC_Machines` in `MC_Boot`; `MC_LastBus`,
`MC_NumSlots`, `MC_NumFuncs`, `MC_Devices` in `MC_PciFixup`; `MC_Byte`,
`MC_Character`, `MC_U16`, `MC_U32`, `MC_BufferSize`, `MC_Screens`, `MC_MessagesOn`, `MC_CallsOn`
in `MC_Console`; `UpToTwo`, `MC_Images` in `MC_MachO`; `MC_WordSize`, `MC_Unit`,
`MC_Pause`, `MC_Starts`, `MC_Laps` in `MC_Clock`.

**Fairness.** The loader is one thread of control that nothing preempts: a step
that can be taken is taken. `WF_vars(Next)` says no more than that the CPU
executes. `FairSpec` of `Console` is fair to the steps of a call begun, not to the
calls: nobody owes it one. `Clock` states none, since `WakesInTime` bounds the
pause by the counter itself.

**Deadlock** is checked in every run; a program that has halted or left for
FreeLoader stutters in an action of its own.

## Findings

1. `firmware.c:96`: the `continue` skips `p = NextEFIMemoryDescriptor(...)` at
   line 122. After a usable descriptor that ends in the hole, the remaining
   iterations convert it again and the descriptors after it are lost.
   `ReportedExactly` holds on maps where no such descriptor comes before the
   last (`CleanMap`), and that condition is as weak as it can be.
2. `firmware.c:222`: firmware that publishes its RSDP only under the ACPI 2.0
   GUID gets 36 bytes of the staged boot info at 0xE0000.
3. `loader.c:66`: a header in the first word of the section counts as none.
4. `loader.c:91`: `-v` and `-s` are also found inside longer words.
5. `pci.c:213`: when no controller is found the fixup goes on through a null
   pointer, and may change the programming interface of another function.
6. `macho.c:42`: the walk steps by the fixed size of a segment command instead of
   `CommandSize`, so a segment after a command of any other size is missed. It is
   latent: `ld` puts `__TEXT` first in the loader's own header.

## The proofs

Every theorem is of a specification without bounds: any number of descriptors,
functions, tables, commands, sections or calls. Each rests on an inductive
invariant (`IInv`; in `ConsoleProofs`, `Placed`, `IInv`, `Reading`, `TInv` and
`Ranges`, each resting on the ones before), which TLC also found to hold of the
runs' instances (of `Shows`, that the screen reads as the sequence it claims). Most properties follow from it without another
look at the actions; `Coalesced` and `EntriesDisjoint` are carried by an induction
of their own on top of it, and `RowsFilled` is about one action.

| Module | Theorems | What they state | Assumptions |
|---|---|---|---|
| `MemoryMapProofs` | `TypeCorrect`, `MapInventsNothing`, `MapIsExact`, `MapIsCoalesced`, `OneEntryEach`, `EntriesApart`, `MapImplementsContract`; invariant `Accounted` | every invariant of `memory_map`, and that the loop refines `MemoryMapContract` | `MemoryAssumption` |
| `PciFixupProofs` | `TypeCorrect`, `FixupTakesTheFirst`, `FixupIsExact`; invariant `Scans` | every invariant of `pci_fixup` | `GeometryAssumption`, `DevicesAssumption` |
| `BootProofs` | `TypeCorrect`, `InputsSurvive`, `HandoffKept`, `BootImplementsContract`; invariant `BootKept` | every invariant of `boot`, and that every step is one of `HandoffContract`, which promises nothing of machines that are not clear, or a stutter | `LayoutAssumption`, `MachineAssumption`, `SampleAssumption`, `AddressAssumption`, and those of the map and the scan |
| `MachOProofs` | `TypeCorrect`, `SectionIsFound`, `WalkStaysInside`; invariant `Walks` | every invariant of `macho` | `MachOAssumption` |
| `ClockProofs` | `TypeCorrect`, `SleepIsLongEnough`, `SleepEndsInTime`; invariant `Timed` | every invariant of `clock` | `ClockAssumption` |
| `FormatProofs` | `DigitsAre`, `NumberIs`, `NumberRead`; lemmas `ReadingCalled`, `ReadingStep`, `ReadingLeft`, `ReadingRenders` | what `number` and `skip_atoi` compute for every input, and that every step of `vsprintf` keeps `Reading`, from which `RendersMessage` follows | `ByteAssumption`, `CharacterAssumption` |
| `ConsoleProofs` | `Typed`, `MessagesAreRendered`, `GlyphsInRow`, `NothingIsDrawnOver`, `ScreenAndSerialTellAll`, `RowsAreFilled`; invariants `CursorHasRoom`, `TextIsCounted`, `MessagesAreRead`, `TextIsAccounted` | every invariant of `console`, and `RowsFilled` | `ConsoleAssumption`, `TextAssumption`, and those of `Format` |

`HardwareProofs` holds the facts the first three of them share: about the Multiboot
map and about configuration space.

The assumptions are what the code, its headers and the architecture fix of the
constants; TLC evaluates each of them in the runs.

**The map.** `NothingInvented` alone is not inductive: a step merges into an entry
whose extent it must know. `Account`, in `HardwareProofs`, says that the
entries report *exactly* what the descriptors seen so far promise. How many have
been seen is the point: `p` of them while the pointer is level with the counter,
and `p + 1` once it has been left behind, because a converted descriptor is then
converted again and again (`Seen`). That the pointer lags only at a descriptor
that ends in the hole makes re-converting it harmless to `NothingInvented` (the
same bytes are reported once more) and makes `CleanMap` sufficient for
`ReportedExactly`. `Account` also counts: a descriptor makes an entry, one that
sticks out of the hole at both ends makes two. For disjoint regions only one can
(`OneSpans`), which gives `OneEntryPerDescriptor`; for any regions the count is
what the boot needs to know that the map does not run into the loader.

**The scan and the fixup.** What the properties say of the end of the scan must be
known while it runs: `FixupState`, in `HardwareProofs`, adds that no controller
lies before the counters in scan order and that nothing has been written yet.
`PassToSuccessor` (what lies before the next function lies before this one or is
this one) and `BeforeTotal` carry it over the carries of the three loops. The
accesses are proved with their arithmetic: `AddressNames` (the host bridge takes
apart what `ConfigAddress` has packed, whatever the geometry), `ReadsLongword`,
`WritesLongword` and `Reconstructed` (the new longword differs in one byte).

**The boot.** `IInv` is a conjunction of two halves. `Control`, `Fixup`,
`Conversion`, `Search` and `LastTables` say what each function has found out by
the time the next one starts; `Fixup` and `Conversion` are the components' own
`FixupState` and `Account` on the boot's variables, so the lemmas about one step
of the scan or of the conversion are the same in `PciFixupProofs` or
`MemoryMapProofs` and here. `Memory` says who has written where: what is outside
the areas the loader fills is as the firmware left it (`Untouched`), and what has
been put in its place is there still (`InPlace`). There is one lemma for each
write (`CmdlineStored`, `PciDeviceStored`, `EntriesStored`, `BootInfoStored`,
`ImageStored`, `TablesCloned`). The map's is the one with an argument in it:
`MapFits` bounds the entries by `Account`. `InPlace` is claimed of *clear*
machines only, as the properties are: ones whose map fits, whose inputs lie
outside the areas and whose image covers none of them. That no two of the areas
meet is `LayoutAssumption`. `InputsSurvive` and `HandoffKept` follow, and with them that the boot
refines `HandoffContract`: in particular that a clear machine enters FreeLoader only
if the contract calls it loadable, and halts only if not. That such a machine does not go
astray is `NothingLost`, the same fact `InputsSurvive` states: all it has still to
read is untouched.

**The section lookup.** The header is words, so the proof first says where in them
everything is: `Flattened` gives the place of a piece in a sequence of pieces
whose predecessors all have one length, by induction over the pieces.
The prover takes no induction theorem that has an operator for a parameter, but
a set of numbers without a least element is empty (`LeastOf`), and a least
counterexample is all that is needed. `SectionLayout`, `SegmentLayout` and
`HeaderLayout` build on it. `IInv` says that until a section which is *due* (its
command is in step, no earlier name begins the sought one) has been found the walk
is in front of it, with both pointers at the start of a structure of their own
kind. `WalkStaysInside` needs of the layout only how long the commands are, and how
many sections a segment counts.

**The clock.** `Elapsed` is the lemma: what `mseconds` computes from the two words
of two readings, turns of the low word, of the high word and of the difference
included, is the units passed, since all the wrapping around comes to a multiple of the
word size, and as long as these fit an `int`. The invariant says the deadline is
the pause and the units between the first two readings, and that the loop goes on
up to it.

**Formatted output.** `RendersMessage` speaks of the end of a call; what carries it
is `Reading`, which says at every part of `vsprintf` where in the message it is.
Between two directives, `k - 1` items are behind it: `str` is their `Rendering`,
`stored` what they count, the format ahead of the pointer (`Ahead`) is the
spelling of the items from `k` on, and `args` are their arguments. Inside a
directive, `AtFlags`, `AtPrecision`, `AtQualifier` and `AtConversion` say which
parts of it are still ahead and that the locals hold what the parts behind mean.
Three groups of lemmas make it inductive:

* *One way to read.* The parser looks at one character, or two. `HeadOf` a tail of
  a directive is in a set that the next part's first characters are not in
  (`Conversions` leaves out the flags, the dot, the star, the qualifiers and the
  digits), so every guard of the parser decides what the message says. `NumberRead`
  is the part with digits: `skip_atoi` passes a numeral and no more, and returns
  its number, the value of its places (`Places`, `Power`).
* *Arithmetic.* `DigitsAre` relates division from the lowest digit up to the
  numeral from the highest one down, `NumberIs` the fields `number` fills by
  counting `size` down to the ones `Field` fills by the lengths of lead and body.
  Signs, shorts and the least word, which is its own negation, are cases of it.
* *Pieces.* `Spelling`, `Arguments` and `Rendering` are `FlattenSeq` of a piece
  per item; `FlattenNext` and `FlattenFrom` take the last or the first one off.

The digits, `skip_atoi` and `FlattenSeq` are functions defined by recursion. That they
exist is `Recursion`, what they are goes by `Induction`, and both take a *set* or a
*function* where the library's theorems take an operator, which the provers cannot
instantiate: a set that holds every number all smaller ones of which it holds is
all of them, because a set of numbers has a least element.

**The console.** That a glyph fits its row is inductive only with the cursor at a
whole number of glyphs and room for one more (`RoomAtCursor`). `RowsFilled` follows from
the guard and the wrap position alone, on rows of every width. By coordinates the cursor
is past every glyph (`CursorPastText`), which needs that the cursor, a `u32`, has
not come round: `Counted` bounds it by the characters printed, those by the calls, and that
a call prints no more than its buffer by the type of the text `vsprintf` leaves.
Coordinates are not pixels: `NothingDrawnOver` is about where in the frame buffer the
pixels are (`Pixels`), and follows where no glyph goes over the end of its row. There a
pixel's place tells its row and column (`RowAndColumn`), and what is past by
coordinates has no pixel in common.

`BothTellAll` is about the end of a call, too. `Told` follows the text on its way:
what was said is what COM1 has been sent and then the rendering of the message
`vsprintf` works on, or the buffer. `NothingCut` takes it from the one to the other:
the text fits, so neither the `u16` nor the clamp takes anything off it. `Shows` says of the screen that the
glyphs are the members of a sequence in reading order, and the characters of that
sequence those that leave a glyph among what was said since the screen was cleared
and `PrintToScreen` is done with. A glyph goes to the end of the sequence because it is
put at the cursor, which is past all the others: there `CursorPastText` is needed, and
is why the screen never reads anything else. `ReadInOrder` finishes it: the `k`-th
glyph in reading order is the one with `k - 1` before it.

**Only model-checked.** Liveness: `Returns`, `Ends`, `CallsReturn`, and that the boot of a
clear machine hands over or halts in the end (the fairness half of `HandoffContract`). The prover
has no rules for `ENABLED` and fairness that it could apply here. Every invariant and
every action property of the runs that pass is a theorem.

## Not modelled

What happens on a machine that is not clear once the loader has gone astray; what
happens to text below the last row of the screen (the console does not
scroll; `Console` lets the cursor go on, and `BothTellAll` reads by where glyphs are
put, whether they can be seen there, or whole, or not); a text longer than the message buffer,
which `vsprintf` writes past before anything is clamped (`ConsoleAssumption`);
`PrintMultibootMemoryMap`, the wording of messages and `ChangeColors`, which
nothing depends on; the bitmaps of the glyphs; the values of the video fields of
the boot info (the width is the pitch divided by four, see the hazards); `PciAssignIrq`, `simple_strtoul`,
`simple_strtol`, `seconds`, `strcpy`, `strncpy`, `strcat` and `memset`,
which have no caller; addresses beyond 2^64; an image that overlaps its own source
while it is copied; what a CPU does that is woken from `hlt` in `fail()`; names of
sixteen characters in a Mach-O header. `Boot` takes the section `MachO` finds as
given, does not repeat the console's calls, and takes the pause as one step: none
of the three writes memory the others read.

## Plan

1. Done: `EfiMemory`, `MultibootMap`, `MemoryMap`, `MemoryMapContract`;
   `PhysicalMemory`, `CString`, `Handoff`, `HandoffContract`, `Boot` with
   `PciFixup` and `MemoryMap` composed into it; `PciConfig`, `PciFixup`; `Format`,
   `Console`; `MachO`; `Clock`; and proofs of each of these parts,
   with `HardwareProofs` for what three of them need. Every invariant and every action
   property of the passing runs is proved.
2. If an owner wants it, the video fields of the boot info and the colours.
3. With a prover that takes `ENABLED`: the liveness properties.
