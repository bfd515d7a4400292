--------------------------------- MODULE Boot ---------------------------------
(***************************************************************************)
(* WrapperInit (loader.c): from the entry with boot.efi's arguments to the *)
(* jump into FreeLoader or the halt in fail().  Its functions run in the   *)
(* order it calls them; the PCI fixup and the conversion of the memory map *)
(* run step by step as their modules PciFixup and MemoryMap have them, the *)
(* search for the magic number and the loop over the EFI tables take a     *)
(* step per turn.                                                          *)
(*                                                                         *)
(* The module is about memory and control: who writes where, and what is   *)
(* still there when FreeLoader starts.  What the console shows on the way  *)
(* is left to Console, the pause to Clock.                                 *)
(*                                                                         *)
(* What the loader runs on and reads is taken from machine, which no step  *)
(* changes.  In memory it may be overwritten, by an image or a map that    *)
(* does not keep clear: then the loader may go astray, at any step, and    *)
(* the model does not follow it.                                           *)
(***************************************************************************)
EXTENDS Handoff

VARIABLES
  machine,         \* BootArgs, the section, the hardware, as they were at
                   \* the start
  stage,           \* where WrapperInit is
  mem,             \* physical memory
  WrapperVerbose,
  config, scan, Bus, Slot, Func, PciDevice,   \* PciFixup's; scan is its pc
  converted, passed, map, counts, returned,   \* MemoryMap's i, p, map,
                                              \* BootInfo, returned
  word,            \* ValidateFreeldr's i / 4
  offset,          \* FreeldrOffset / 4
  efitab,          \* acpi and smbios; 0 is NULL
  i,               \* the loop counter of LegacyAcpiSmbiosFix
  entry            \* WrapperInit's EntryPoint

pciVars == <<config, scan, Bus, Slot, Func, PciDevice>>
mapVars == <<converted, passed, map, counts, returned>>
imageVars == <<word, offset, entry>>
tableVars == <<efitab, i>>
vars == <<machine, stage, mem, WrapperVerbose, pciVars, mapVars, imageVars, tableVars>>

PciFixup == INSTANCE PciFixup
  WITH old <- machine.devices, pc <- scan

MemoryMap == INSTANCE MemoryMap
  WITH efi <- machine.EfiMemoryMap, i <- converted, p <- passed, BootInfo <- counts

(* boot.efi has placed the loader, its arguments and the tables: every     *)
(* byte is its own.                                                        *)
Init ==
  /\ machine \in Machines
  /\ stage = "SetupCmdline"
  /\ mem = [a \in Address |-> [of |-> "firmware", at |-> a]]
  /\ WrapperVerbose = FALSE
  /\ config = machine.devices /\ PciDevice = machine.stray
  /\ scan = "scan" /\ Bus = 0 /\ Slot = 0 /\ Func = 0
  /\ converted = 0 /\ passed = 0 /\ map = <<>> /\ returned = FALSE
  /\ counts = [MemoryMapEntries |-> 0, MemoryMapSize |-> 0]
  /\ word = 0 /\ offset = 0 /\ entry = 0
  /\ efitab = [acpi |-> 0, smbios |-> 0] /\ i = 0

(* The command line at CMDLINE_LOC: 1024 bytes of boot.efi's, after        *)
(* ScreenString without its terminator in verbose mode.                    *)
CmdlineAfter(verbose) ==
  LET prefixed == Store(mem, CMDLINE_LOC, ScreenStringSize, "ScreenString")
  IN  IF verbose
      THEN Store(prefixed, CMDLINE_LOC + ScreenStringSize - 1,
                 MACH_CMDLINE, "CmdLine")
      ELSE Store(mem, CMDLINE_LOC, MACH_CMDLINE, "CmdLine")

SetupCmdline ==
  /\ stage = "SetupCmdline"
  /\ WrapperVerbose' = AsksVerbose(machine.CmdLine)
  /\ mem' = CmdlineAfter(AsksVerbose(machine.CmdLine))
  /\ stage' = "AppleTVFixupIdeController"
  /\ UNCHANGED <<machine, pciVars, mapVars, imageVars, tableVars>>

(* The scan leaves its result where PciDevice points, address 0; without a *)
(* result the function the bytes there happen to name is fixed up.         *)
GetIdeController ==
  /\ stage = "AppleTVFixupIdeController"
  /\ UNCHANGED <<machine, stage, WrapperVerbose, mapVars, imageVars, tableVars>>
  /\ \/ PciFixup!Found /\ mem' = Store(mem, 0, 3, "PCIDEVICE")
     \/ (PciFixup!Pass \/ PciFixup!NotFound) /\ UNCHANGED mem

(* Fault: an unsupported controller is reported but not fatal. *)
AppleTVFixupIdeControllerGoesOn ==
  /\ stage = "AppleTVFixupIdeController"
  /\ UNCHANGED <<machine, mem, WrapperVerbose, mapVars, imageVars, tableVars>>
  /\ PciFixup!NothingToDo \/ PciFixup!WriteProgIf \/ PciFixup!Unsupported
  /\ stage' = "CreateBootInfo"

(* The programming interface is the right one, is made so, or is none that *)
(* the loader knows.                                                       *)
AppleTVFixupIdeController ==
  /\ stage = "AppleTVFixupIdeController"
  /\ UNCHANGED <<machine, mem, WrapperVerbose, mapVars, imageVars, tableVars>>
  /\ \/ (PciFixup!NothingToDo \/ PciFixup!WriteProgIf) /\ stage' = "CreateBootInfo"
     \/ PciFixup!Unsupported /\ stage' = "fail"

(* FillMultibootMemoryMap: what a descriptor becomes goes to MemoryMapAddr *)
(* at once.                                                                *)
FillMultibootMemoryMap ==
  /\ stage = "CreateBootInfo"
  /\ UNCHANGED <<machine, stage, WrapperVerbose, pciVars, imageVars, tableVars>>
  /\ \/ MemoryMap!ConvertReserved \/ MemoryMap!ConvertUsable
     \/ MemoryMap!ConvertAcrossHole \/ MemoryMap!ConvertEndsInHole
     \/ MemoryMap!Return
  /\ mem' = Store(mem, MEMORY_MAP_ADDR, MemoryMap!EntrySize * Len(map'), "mmap_entry")

(* Fault: the boot info is handed on before the map is complete. *)
CreateBootInfoEarly ==
  /\ stage = "CreateBootInfo"
  /\ mem' = Copy(Store(mem, 0, BootInfoSize, "BOOTINFO"), BOOTINFO_LOC, 0, BootInfoSize)
  /\ stage' = "ValidateFreeldr"
  /\ UNCHANGED <<machine, WrapperVerbose, pciVars, mapVars, imageVars, tableVars>>

(* The boot info is put together where BootInfo points, address 0, and     *)
(* when the map's counts are in it, too, is copied to its place.           *)
CreateBootInfo ==
  /\ stage = "CreateBootInfo" /\ returned
  /\ mem' = Copy(Store(mem, 0, BootInfoSize, "BOOTINFO"), BOOTINFO_LOC, 0, BootInfoSize)
  /\ stage' = "ValidateFreeldr"
  /\ UNCHANGED <<machine, WrapperVerbose, pciVars, mapVars, imageVars, tableVars>>

(* ValidateFreeldr: a word that is not the magic number is passed over ... *)
PassWord ==
  /\ stage = "ValidateFreeldr"
  /\ word < SearchWords /\ word \notin machine.freeldr.magic
  /\ word' = word + 1
  /\ UNCHANGED <<machine, stage, mem, WrapperVerbose, offset, entry, pciVars, mapVars, tableVars>>

(* ... and the first one that is ends the search. *)
FindMagic ==
  /\ stage = "ValidateFreeldr"
  /\ word < SearchWords /\ word \in machine.freeldr.magic
  /\ offset' = word
  /\ stage' = IF word = 0 THEN "fail" ELSE "LoadFreeldr"
  /\ UNCHANGED <<machine, mem, WrapperVerbose, word, entry, pciVars, mapVars, tableVars>>

(* All words passed: FreeldrOffset is still 0. *)
FindNoMagic ==
  /\ stage = "ValidateFreeldr"
  /\ word = SearchWords
  /\ stage' = "fail"
  /\ UNCHANGED <<machine, mem, WrapperVerbose, pciVars, mapVars, imageVars, tableVars>>

(* The whole section goes to the header's LoadAddress, whatever is there:  *)
(* over the loader itself or its arguments, it may go astray.              *)
LoadFreeldr ==
  /\ stage = "LoadFreeldr"
  /\ mem' = Store(mem, machine.freeldr.header[offset].LoadAddress,
                  machine.freeldr.len, "freeldr")
  /\ entry' = machine.freeldr.header[offset].EntryPoint
  /\ stage' = "LegacyAcpiSmbiosFix"
  /\ UNCHANGED <<machine, WrapperVerbose, word, offset, pciVars, mapVars, tableVars>>

(* Fault: <= for <; the entry beyond the array has no known GUID. *)
ScanTableOnceMore ==
  /\ stage = "LegacyAcpiSmbiosFix"
  /\ i <= Len(machine.tables)
  /\ efitab' = IF i = Len(machine.tables) THEN efitab
               ELSE LET t == machine.tables[i + 1]
                    IN  CASE t.guid = "ACPI"   -> [efitab EXCEPT !.acpi = t.table]
                          [] t.guid = "SMBIOS" -> [efitab EXCEPT !.smbios = t.table]
                          [] OTHER             -> efitab
  /\ i' = i + 1
  /\ UNCHANGED <<machine, stage, mem, WrapperVerbose, pciVars, mapVars, imageVars>>

(* One configuration table, and how many there are, as the system table    *)
(* has them unless it is overwritten, see GoAstray: of several with one    *)
(* GUID the last one counts.                                               *)
(* What the ACPI 2.0 one is, is never used.                                *)
ScanTable ==
  /\ stage = "LegacyAcpiSmbiosFix"
  /\ i < Len(machine.tables)
  /\ LET t == machine.tables[i + 1]
     IN  efitab' = CASE t.guid = "ACPI"   -> [efitab EXCEPT !.acpi = t.table]
                     [] t.guid = "SMBIOS" -> [efitab EXCEPT !.smbios = t.table]
                     [] OTHER             -> efitab
  /\ i' = i + 1
  /\ UNCHANGED <<machine, stage, mem, WrapperVerbose, pciVars, mapVars, imageVars>>

(* After the last table: the RSDP and the SMBIOS entry point go low.  A    *)
(* table that was not found is copied from address 0 all the same.         *)
CloneTables ==
  /\ stage = "LegacyAcpiSmbiosFix"
  /\ i = Len(machine.tables)
  /\ mem' = Copy(Copy(mem, ACPI_TABLE_LOW, efitab.acpi, RsdpSize),
                 SMBIOS_TABLE_LOW, efitab.smbios, SmbiosSize)
  /\ stage' = IF WrapperVerbose THEN "sleep" ELSE "JumpToFreeldr"
  /\ UNCHANGED <<machine, WrapperVerbose, pciVars, mapVars, imageVars, tableVars>>

(* sleep(5) and ClearScreen(FALSE), in verbose mode only. *)
Pause ==
  /\ stage = "sleep"
  /\ WrapperVerbose' = FALSE
  /\ stage' = "JumpToFreeldr"
  /\ UNCHANGED <<machine, mem, pciVars, mapVars, imageVars, tableVars>>

JumpToFreeldr ==
  /\ stage = "JumpToFreeldr"
  /\ stage' = "freeldr"
  /\ UNCHANGED <<machine, mem, WrapperVerbose, pciVars, mapVars, imageVars, tableVars>>

(* The message and the hlt. *)
Fail ==
  /\ stage = "fail"
  /\ stage' = "halted"
  /\ UNCHANGED <<machine, mem, WrapperVerbose, pciVars, mapVars, imageVars, tableVars>>

(* What WrapperInit has still to read: itself, while it runs; its inputs   *)
(* until LegacyAcpiSmbiosFix is over; the firmware's memory map until it   *)
(* is converted.                                                           *)
ToRead(inputs) ==
  {<<WRAPPER_BASE, WrapperSize>>}
  \cup {area \in inputs : stage \notin {"sleep", "JumpToFreeldr", "freeldr"}}
  \cup {area \in {EfiMapArea(machine)} :
          /\ stage \in {"SetupCmdline", "AppleTVFixupIdeController", "CreateBootInfo"}
          /\ ~returned}

(* Undefined behaviour: the code the CPU is to run, or the arguments, the  *)
(* tables or the map that the code goes by, are no longer what they were.  *)
(* It may still go on as if they were.  A table that is only cloned leads  *)
(* nobody astray: its bytes are copied as they are.                        *)
GoAstray ==
  /\ stage \notin {"freeldr", "halted", "astray"}
  /\ \E a \in Address, area \in ToRead(Arguments(machine)) :
       InArea(a, area[1], area[2]) /\ mem[a] # [of |-> "firmware", at |-> a]
  /\ stage' = "astray"
  /\ UNCHANGED <<machine, mem, WrapperVerbose, pciVars, mapVars, imageVars, tableVars>>

(* FreeLoader runs, the CPU stands still, or it is not known what it runs. *)
Over == stage \in {"freeldr", "halted", "astray"} /\ UNCHANGED vars

Next ==
  \/ SetupCmdline \/ GetIdeController \/ AppleTVFixupIdeController
  \/ FillMultibootMemoryMap \/ CreateBootInfo
  \/ PassWord \/ FindMagic \/ FindNoMagic \/ LoadFreeldr
  \/ ScanTable \/ CloneTables \/ Pause \/ JumpToFreeldr \/ Fail
  \/ GoAstray \/ Over

Spec == Init /\ [][Next]_vars /\ WF_vars(Next)

-----------------------------------------------------------------------------
(* The low area at lo is a copy of the firmware's bytes at from. *)
IsClone(lo, from, size) ==
  \A a \in Address :
    InArea(a, lo, size) => mem[a] = [of |-> "firmware", at |-> from + (a - lo)]

(* The command line FreeLoader parses: boot.efi's 1024 bytes, right after  *)
(* the prefix without its terminator if a flag asks for it.                *)
CmdlineHeld ==
  \E prefix \in {0, ScreenStringSize - 1} :
    /\ HasFlag(machine.CmdLine) => prefix # 0
    /\ Holds(mem, CMDLINE_LOC, prefix, "ScreenString")
    /\ Holds(mem, CMDLINE_LOC + prefix, MACH_CMDLINE, "CmdLine")

(* The entries the boot info announces are there, and say of every byte    *)
(* what the firmware said, as far as MemoryMap promises it.                *)
MapHeld ==
  /\ Holds(mem, MEMORY_MAP_ADDR, MapEntrySize * Len(map), "mmap_entry")
  /\ counts = [MemoryMapEntries |-> Len(map), MemoryMapSize |-> MapEntrySize * Len(map)]
  /\ returned /\ MemoryMap!ReportedExactly

(* What is in its place. *)
Delivered ==
  {what \in {"cmdline", "bootinfo", "map", "image", "ACPI", "SMBIOS", "ide"} :
     CASE what = "cmdline"  -> CmdlineHeld
       [] what = "bootinfo" -> Holds(mem, BOOTINFO_LOC, BootInfoSize, "BOOTINFO")
       [] what = "map"      -> MapHeld
       [] what = "image"    -> Holds(mem, LoadAddress(machine),
                                     machine.freeldr.len, "freeldr")
       [] what = "ACPI"     -> /\ Tables(machine, "ACPI") # {}
                               /\ IsClone(ACPI_TABLE_LOW,
                                          TableOf(machine, "ACPI"), RsdpSize)
       [] what = "SMBIOS"   -> /\ Tables(machine, "SMBIOS") # {}
                               /\ IsClone(SMBIOS_TABLE_LOW,
                                          TableOf(machine, "SMBIOS"), SmbiosSize)
       [] what = "ide"      -> /\ PciFixup!Controllers # {}
                               /\ scan = "done" /\ PciFixup!ControllerReady}

(* Type invariant; neither the search nor the table loop runs past its     *)
(* end, unless the loader has gone astray.                                 *)
TypeOK ==
  /\ machine \in MachineType
  /\ stage \in {"SetupCmdline", "AppleTVFixupIdeController", "CreateBootInfo",
                "ValidateFreeldr", "LoadFreeldr", "LegacyAcpiSmbiosFix", "sleep",
                "JumpToFreeldr", "fail", "halted", "astray", "freeldr"}
  /\ mem \in [Address -> [of : {"firmware", "ScreenString", "CmdLine",
                                "PCIDEVICE", "BOOTINFO", "mmap_entry", "freeldr"},
                          at : Nat]]
  /\ WrapperVerbose \in BOOLEAN
  /\ PciFixup!TypeOK /\ MemoryMap!TypeOK
  /\ word \in 0..SearchWords /\ offset \in 0..(SearchWords - 1)
  /\ efitab \in [acpi : Nat, smbios : Nat]
  /\ i \in 0..Len(machine.tables)
  /\ entry \in Nat

(* When FreeLoader starts, the image, the boot info, the map, the command  *)
(* line and the cloned tables are all in place, byte for byte, and the IDE *)
(* controller is ready: no later step of WrapperInit has written over what *)
(* an earlier one put there.                                               *)
HandoffIntact ==
  stage = "freeldr" /\ Clear(machine) => Owed(machine) \subseteq Delivered

(* No step writes over the loader that executes it, nor over anything of   *)
(* boot.efi's or the firmware's that is still to be read.                  *)
NothingReadIsLost ==
  Clear(machine) =>
    \A a \in Address, area \in ToRead(ReadLast(machine)) :
      InArea(a, area[1], area[2]) => mem[a] = [of |-> "firmware", at |-> a]

(* With no ACPI 1.0 table the loader clones what it has staged at address  *)
(* 0.  What loader.c:130 says of LegacyAcpiSmbiosFix, "Clone the ACPI and  *)
(* SMBIOS entries to low memory so that Windows detects them": if the      *)
(* firmware has an RSDP, under either GUID, the low one is a copy of it.   *)
AcpiEntryCloned ==
  /\ stage = "freeldr" /\ Clear(machine)
  /\ Tables(machine, "ACPI") \cup Tables(machine, "ACPI_20") # {}
  =>
    \E k \in Tables(machine, "ACPI") \cup Tables(machine, "ACPI_20") :
      IsClone(ACPI_TABLE_LOW, machine.tables[k].table, RsdpSize)

(* bootinfo.h:32, "This struct goes at the beginning of freeldr": with a   *)
(* usable IDE controller the loader halts only if there is no magic number *)
(* at all in the words it searches.                                        *)
HeaderFound ==
  stage = "halted" /\ IdeUsable(machine) => machine.freeldr.magic = {}

(* CONFIGURATION.md:22-28 lists -v and -s as the commands that enable      *)
(* debug printing: without either of them the loader is not verbose.       *)
VerboseByFlag == WrapperVerbose => HasFlag(machine.CmdLine)

-----------------------------------------------------------------------------
(* The boot as boot.efi and FreeLoader see it; see HandoffContract. *)
Contract == INSTANCE HandoffContract
  WITH outcome   <- IF stage \in {"freeldr", "halted"} THEN stage ELSE "booting",
       delivered <- IF stage = "freeldr" THEN Delivered ELSE {},
       target    <- IF stage = "freeldr" THEN entry ELSE 0

(* WrapperInit implements the contract: on a clear machine the machine     *)
(* alone decides whether FreeLoader starts or the loader halts, one of     *)
(* them does happen, and FreeLoader starts at the entry point of the       *)
(* header, with all it is owed.                                            *)
ContractSpec == Contract!Spec
=============================================================================
