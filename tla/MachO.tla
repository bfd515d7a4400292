--------------------------------- MODULE MachO ---------------------------------
(***************************************************************************)
(* GetSectionDataFromHeader (macho.c): the walk over the load commands of  *)
(* a Mach-O header to the section that holds FreeLoader.                   *)
(*                                                                         *)
(* The structures are read where the walk's pointers are, whatever lies    *)
(* there, so the commands are modelled as the 32-bit words they are in     *)
(* memory.  A pointer is a word's index, 0 for the first load command.  A  *)
(* word is a number; four characters of a name are one number, abstract    *)
(* but for which number begins which.                                      *)
(***************************************************************************)
EXTENDS Naturals, Sequences, SequencesExt

CONSTANTS
  Images,       \* the Mach-O headers the walk may meet
  Begins,       \* pairs of words: the first holds the end of a string, and
                \* what it has of it begins the second
  SegmentName,  \* "__TEXT" as four words
  SectionName   \* "__freeldr"

MACHO_OBJECT     == 1
MACHO_LC_SEGMENT == 1

(* Sizes in words. *)
SegmentSize == 14      \* sizeof(MACHO_SEGMENT_COMMAND) / 4
SectionSize == 17      \* sizeof(MACHO_SECTION) / 4

Name  == [1..4 -> Nat]
Field == [addr : Nat, size : Nat, align : Nat, flags : Nat]

(* A header by its load commands; each of a segment and its sections, or,  *)
(* for any other command, its words.                                       *)
SectionType == [sect : Name, seg : Name, field : Field]
CommandType == [segment : {TRUE}, name : Name, sections : Seq(SectionType)]
                 \cup [segment : {FALSE}, words : Seq(Nat)]
Header      == [FileType : Nat, cmds : Seq(CommandType)]

ASSUME MachOAssumption ==
  /\ Images \subseteq Header
  /\ SegmentName \in Name /\ SectionName \in Name
  /\ SegmentName[4] = 0 /\ SectionName[4] = 0
  /\ \A w \in {SegmentName[k] : k \in 1..4} \cup {SectionName[k] : k \in 1..4} :
       <<0, w>> \in Begins

(* struct MACHO_SECTION.  Offset, RelocationOffset and NumberOfRelocation  *)
(* are left 0.                                                             *)
SectionWords(s) ==
  s.sect \o s.seg
    \o <<s.field.addr, s.field.size, 0, s.field.align, 0, 0, s.field.flags, 0, 0>>

(* struct MACHO_SEGMENT_COMMAND and the sections after it.  CommandSize is *)
(* in bytes and never read; the six words from VMAddress to                *)
(* InitialProtection only matter as not being names.                       *)
CommandWords(c) ==
  IF c.segment
  THEN <<MACHO_LC_SEGMENT, 4 * (SegmentSize + SectionSize * Len(c.sections))>>
         \o c.name \o <<4096, 4096, 0, 4096, 7, 7>> \o <<Len(c.sections), 0>>
         \o FlattenSeq([k \in 1..Len(c.sections) |-> SectionWords(c.sections[k])])
  ELSE c.words

Words(image) ==
  FlattenSeq([k \in 1..Len(image.cmds) |-> CommandWords(image.cmds[k])])

VARIABLES
  image,
  words,     \* Words(image)
  pc,        \* "segments", "sections", "found", or "failed" in fail()
  i, Segment,
  j, Section,
  data       \* what the caller gets: the section's address and *Size

vars == <<image, words, pc, i, Segment, j, Section, data>>

(* -sectalign __TEXT __text 0x1000: after the commands there is padding. *)
At(w) == IF w < Len(words) THEN words[w + 1] ELSE 0

(* strncmp(s, name, strlen(s)) = 0 for the string s at w: it begins name. *)
MatchesAt(w, name) ==
  \E k \in 1..4 :
    /\ \A m \in 1..(k - 1) : At(w + m - 1) = name[m]
    /\ <<At(w + k - 1), name[k]>> \in Begins

Init ==
  /\ image \in Images
  /\ words = Words(image)
  /\ pc = "segments"
  /\ i = 0 /\ Segment = 0
  /\ j = 0 /\ Section = 0
  /\ data = <<0, 0>>

NumberOfCmds == Len(image.cmds)

(* What the walk takes for the segment it looks for. *)
IsSegment ==
  /\ At(Segment) = MACHO_LC_SEGMENT
  /\ MatchesAt(Segment + 2, SegmentName) \/ image.FileType = MACHO_OBJECT

(* Fault: the pointer moves by the size of a section. *)
NextSegmentBySection == i' = i + 1 /\ Segment' = Segment + SectionSize

(* The next command is looked for right after this one's fixed part: where *)
(* its sections are, if it has any.                                        *)
NextSegment == i' = i + 1 /\ Segment' = Segment + SegmentSize

(* Fault: <= for <. *)
PassCommandOnceMore ==
  /\ pc = "segments" /\ i <= NumberOfCmds
  /\ ~IsSegment
  /\ NextSegment
  /\ UNCHANGED <<image, words, pc, j, Section, data>>

(* Not that segment, or no segment at all. *)
PassCommand ==
  /\ pc = "segments" /\ i < NumberOfCmds
  /\ ~IsSegment
  /\ NextSegment
  /\ UNCHANGED <<image, words, pc, j, Section, data>>

EnterSegment ==
  /\ pc = "segments" /\ i < NumberOfCmds
  /\ IsSegment
  /\ j' = 0 /\ Section' = Segment + SegmentSize
  /\ pc' = "sections"
  /\ UNCHANGED <<image, words, i, Segment, data>>

NumberOfSections == At(Segment + 12)

(* Fault: only the section's own name is compared. *)
IsSectionByName == MatchesAt(Section, SectionName)

IsSection ==
  MatchesAt(Section + 4, SegmentName) /\ MatchesAt(Section, SectionName)

PassSection ==
  /\ pc = "sections" /\ j < NumberOfSections
  /\ ~IsSection
  /\ j' = j + 1 /\ Section' = Section + SectionSize
  /\ UNCHANGED <<image, words, pc, i, Segment, data>>

(* return (Section); the caller takes Address and Size. *)
FindSection ==
  /\ pc = "sections" /\ j < NumberOfSections
  /\ IsSection
  /\ data' = <<At(Section + 8), At(Section + 9)>>
  /\ pc' = "found"
  /\ UNCHANGED <<image, words, i, Segment, j, Section>>

(* Fault: the command counter is not advanced. *)
LeaveSegmentUncounted ==
  /\ pc = "sections" /\ j >= NumberOfSections
  /\ pc' = "segments"
  /\ UNCHANGED <<image, words, i, Segment, j, Section, data>>

(* All sections looked at: on with the commands. *)
LeaveSegment ==
  /\ pc = "sections" /\ j >= NumberOfSections
  /\ NextSegment
  /\ pc' = "segments"
  /\ UNCHANGED <<image, words, j, Section, data>>

(* return 0; the caller fails. *)
NotFound ==
  /\ pc = "segments" /\ i >= NumberOfCmds
  /\ pc' = "failed"
  /\ UNCHANGED <<image, words, i, Segment, j, Section, data>>

Over == pc \in {"found", "failed"} /\ UNCHANGED vars

Next == PassCommand \/ EnterSegment \/ PassSection \/ FindSection
          \/ LeaveSegment \/ NotFound \/ Over

Spec == Init /\ [][Next]_vars /\ WF_vars(Next)

-----------------------------------------------------------------------------
(* The sections of the image with both names, as <<command, section>>. *)
Sought ==
  {s \in (1..NumberOfCmds) \X (1..Len(words)) :
     LET c == image.cmds[s[1]]
     IN  /\ c.segment /\ s[2] <= Len(c.sections)
         /\ c.sections[s[2]].seg = SegmentName
         /\ c.sections[s[2]].sect = SectionName}

(* The walk is still in step with the commands when it gets to command k,  *)
(* and has reason to look inside.                                          *)
InStep(k) ==
  /\ image.cmds[k].name = SegmentName \/ image.FileType = MACHO_OBJECT
  /\ \A m \in 1..(k - 1) : image.cmds[m].segment /\ image.cmds[m].sections = <<>>

BeginsName(own, name) ==
  \E k \in 1..4 : /\ \A m \in 1..(k - 1) : own[m] = name[m]
                  /\ <<own[k], name[k]>> \in Begins

(* No section before the n-th of command k has names that begin the sought *)
(* ones.                                                                   *)
FirstOfItsNames(k, n) ==
  \A m \in 1..(n - 1) :
    ~ /\ BeginsName(image.cmds[k].sections[m].seg, SegmentName)
      /\ BeginsName(image.cmds[k].sections[m].sect, SectionName)

(* Type invariant; the pointer keeps step with the counter.                *)
TypeOK ==
  /\ image \in Images /\ words \in Seq(Nat)
  /\ pc \in {"segments", "sections", "found", "failed"}
  /\ i \in 0..NumberOfCmds /\ Segment = i * SegmentSize
  /\ j \in Nat /\ Section \in Nat
  /\ pc = "sections" => j <= NumberOfSections
  /\ data \in Nat \X Nat

(* A __TEXT,__freeldr in the first segment, or in one that only segments   *)
(* without sections come before, as __PAGEZERO, is found, and the caller   *)
(* gets that section's own address and size.                               *)
FindsSection ==
  \A s \in Sought :
    /\ pc \in {"found", "failed"}
    /\ InStep(s[1]) /\ FirstOfItsNames(s[1], s[2])
    =>
      /\ pc = "found"
      /\ LET field == image.cmds[s[1]].sections[s[2]].field
         IN  data = <<field.addr, field.size>>

(* The walk reads no word beyond the commands: no command, where all are   *)
(* at least as long as a segment command, and no section of a segment it   *)
(* is in step with.                                                        *)
StaysInside ==
  /\ /\ pc = "segments" /\ i < NumberOfCmds
     /\ \A k \in 1..NumberOfCmds : Len(CommandWords(image.cmds[k])) >= SegmentSize
     => Segment + SegmentSize <= Len(words)
  /\ /\ pc = "sections" /\ j < NumberOfSections
     /\ image.cmds[i + 1].segment
     /\ \A m \in 1..i : image.cmds[m].segment /\ image.cmds[m].sections = <<>>
     => Section + SectionSize <= Len(words)

(* The walk ends, whatever it takes for commands and sections. *)
Ends == <>(pc \in {"found", "failed"})

(* macho.c:44, "Segment does not exist": that is when the walk ends        *)
(* without a section.                                                      *)
FailsOnlyWithout == pc = "failed" => Sought = {}
=============================================================================
