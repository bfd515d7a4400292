-------------------------------- MODULE Handoff --------------------------------
(***************************************************************************)
(* What the loader and FreeLoader agree on (bootinfo.h, mach.h,            *)
(* firmware.h): the fixed places in physical memory, the inputs boot.efi   *)
(* and the linker provide, and how a FreeLoader image is recognised.       *)
(***************************************************************************)
EXTENDS PhysicalMemory, CString, MultibootMap, PciConfig, FiniteSets

CONSTANTS
  CMDLINE_LOC, BOOTINFO_LOC,           \* bootinfo.h
  MEMORY_MAP_ADDR,                     \* 0x003F0000, CreateBootInfo
  ACPI_TABLE_LOW, SMBIOS_TABLE_LOW,    \* firmware.h
  WRAPPER_BASE, WrapperSize,           \* -segaddr __TEXT, and all segments
  SearchWords,                         \* MULTIBOOT_SEARCH / 4
  Devices,                             \* of PciFixup
  Machines                             \* the machines the loader may start on

(* Sizes in bytes. *)
MACH_CMDLINE     == 1024
ScreenStringSize == 24      \* "debug=debugport=screen " and its terminator
BootInfoSize     == 40      \* sizeof(BOOTINFO)
BootArgsSize     == 1108    \* sizeof(MACH_BOOTARGS)
MapEntrySize     == 20      \* sizeof(struct mmap_entry)
RsdpSize         == 36      \* sizeof(acpi_rsdp_t)
SmbiosSize       == 31      \* sizeof(smbios_entry_t)
SystemTableSize  == 72      \* sizeof(efi_system_table_t)
ConfigTableSize  == 20      \* sizeof(efi_config_table_t)

(* No two of the fixed areas share a byte; the map area ends where the     *)
(* loader begins.  Where BootInfo and PciDevice point is address 0: both   *)
(* are globals that nothing assigns.                                       *)
ASSUME LayoutAssumption ==
  /\ {CMDLINE_LOC, BOOTINFO_LOC, MEMORY_MAP_ADDR, ACPI_TABLE_LOW,
      SMBIOS_TABLE_LOW, WRAPPER_BASE, WrapperSize} \subseteq Nat
  /\ SearchWords \in Nat \ {0}
  /\ BootInfoSize <= CMDLINE_LOC
  /\ CMDLINE_LOC + (ScreenStringSize - 1) + MACH_CMDLINE <= BOOTINFO_LOC
  /\ BOOTINFO_LOC + BootInfoSize <= ACPI_TABLE_LOW
  /\ ACPI_TABLE_LOW + RsdpSize <= SMBIOS_TABLE_LOW
  /\ SMBIOS_TABLE_LOW + SmbiosSize <= MEMORY_MAP_ADDR
  /\ MEMORY_MAP_ADDR <= WRAPPER_BASE

(* FLDRHEADER, as its three words lie in the __freeldr section. *)
Header == [LoadAddress : Nat, EntryPoint : Nat]

(* What a machine is to the loader.  Where boot.efi's and the firmware's   *)
(* structures are is kept apart from what they say.                        *)
MachineType ==
  [at : [BootArgs : Nat, EfiMemoryMap : Nat, EfiSystemTable : Nat, tables : Nat],
   CmdLine      : Seq(STRING),                 \* up to its terminator
   EfiMemoryMap : Seq(Descriptor),
   EfiMemoryDescriptorSize : Nat,
   devices      : Space,                       \* PCI configuration space
   stray        : Function,                    \* what the bytes at 0 name
   tables       : Seq([guid : {"ACPI", "ACPI_20", "SMBIOS", "other"},
                       table : Nat]),          \* EFI configuration tables
   freeldr      :                              \* section __TEXT,__freeldr
     [magic  : SUBSET (0..(SearchWords - 1)),  \* words = FREELDR_MAGIC_NUMBER
      header : [0..(SearchWords - 1) -> Header],
      len    : Nat]]

ASSUME MachineAssumption ==
  /\ Machines \subseteq MachineType
  /\ \A m \in Machines :
       /\ m.CmdLine # <<>>
       /\ \A k \in 1..Len(m.CmdLine) : m.CmdLine[k] = NUL <=> k = Len(m.CmdLine)
       /\ m.devices \in Devices /\ m.EfiMemoryMap \in EfiMaps

(* strstr(CmdLine, "-v") || strstr(CmdLine, "-s") *)
AsksVerbose(cmdline) ==
  \/ strstr(cmdline, <<"-", "v", NUL>>) # NULL
  \/ strstr(cmdline, <<"-", "s", NUL>>) # NULL

(* -v or -s is one of the command line's words.                            *)
HasFlag(cmdline) ==
  \E k \in 1..(Len(cmdline) - 2) :
    /\ cmdline[k] = "-" /\ cmdline[k + 1] \in {"v", "s"}
    /\ cmdline[k + 2] \in {" ", NUL}
    /\ k > 1 => cmdline[k - 1] = " "

(* The function that is fixed up: the first IDE controller or, with none   *)
(* to see, the one the firmware's bytes at address 0 name.                 *)
FixedUp(machine) ==
  LET controllers == ControllersOf(machine.devices)
  IN  IF controllers = {} THEN machine.stray
      ELSE CHOOSE f \in controllers : \A g \in controllers : g # f => Before(f, g)

(* 0x8A or 0x8F: the controller can be handed to FreeLoader. *)
IdeUsable(machine) == machine.devices[FixedUp(machine)][8][2] \in {138, 143}

(* The word of the header FreeLoader is recognised by: the first that is   *)
(* the magic number.  The search does not look at the length of the        *)
(* section: words beyond it are what the linker put there.                 *)
HeaderWord(freeldr) == CHOOSE k \in freeldr.magic : \A j \in freeldr.magic : k <= j

(* A header at word 0 counts for none. *)
HasHeader(freeldr) == freeldr.magic # {} /\ HeaderWord(freeldr) # 0

(* A machine the loader goes all the way on. *)
Loadable(machine) == IdeUsable(machine) /\ HasHeader(machine.freeldr)

LoadAddress(machine) ==
  machine.freeldr.header[HeaderWord(machine.freeldr)].LoadAddress
EntryPoint(machine) ==
  machine.freeldr.header[HeaderWord(machine.freeldr)].EntryPoint

(* The configuration tables of a GUID, by their place in the array. *)
Tables(machine, guid) ==
  {k \in 1..Len(machine.tables) : machine.tables[k].guid = guid}

(* The last one, which is the one that counts. *)
TableOf(machine, guid) ==
  machine.tables[CHOOSE k \in Tables(machine, guid) :
                   \A j \in Tables(machine, guid) : j <= k].table

(* Memory may be sampled, but where a byte is that the loader copies, the  *)
(* byte it is a copy of is, too.                                           *)
Sampled(to, from, size) ==
  \A a \in Address : InArea(a, to, size) => from + (a - to) \in Address

ASSUME SampleAssumption ==
  /\ Sampled(BOOTINFO_LOC, 0, BootInfoSize)
  /\ \A m \in Machines :
       /\ Tables(m, "ACPI") # {} => Sampled(ACPI_TABLE_LOW, TableOf(m, "ACPI"), RsdpSize)
       /\ Tables(m, "SMBIOS") # {} => Sampled(SMBIOS_TABLE_LOW, TableOf(m, "SMBIOS"), SmbiosSize)

(* What the loader goes by to the end of LegacyAcpiSmbiosFix: boot.efi's   *)
(* arguments, the system table and the array of tables they lead to.       *)
Arguments(machine) ==
  {<<machine.at.BootArgs, BootArgsSize>>, <<machine.at.EfiSystemTable, SystemTableSize>>,
   <<machine.at.tables, ConfigTableSize * Len(machine.tables)>>}

(* What LegacyAcpiSmbiosFix reads, the last step that reads any input: the *)
(* arguments and the tables to clone.                                      *)
ReadLast(machine) ==
  Arguments(machine)
  \cup {<<TableOf(machine, guid), IF guid = "ACPI" THEN RsdpSize ELSE SmbiosSize>> :
          guid \in {g \in {"ACPI", "SMBIOS"} : Tables(machine, g) # {}}}

(* The firmware's memory map is read before the image is loaded. *)
EfiMapArea(machine) ==
  <<machine.at.EfiMemoryMap,
    machine.EfiMemoryDescriptorSize * Len(machine.EfiMemoryMap)>>

(* The most Multiboot entries a firmware map can become: a descriptor      *)
(* becomes two only if it sticks out of the hole at both ends.             *)
MaxEntries(machine) ==
  LET efi == machine.EfiMemoryMap
  IN  Len(efi) + Cardinality({k \in 1..Len(efi) : SpansHole(efi[k])})

(* The areas the loader fills or runs from. *)
FixedAreas(machine) ==
  {<<0, BootInfoSize>>, <<CMDLINE_LOC, ScreenStringSize - 1 + MACH_CMDLINE>>,
   <<BOOTINFO_LOC, BootInfoSize>>,
   <<MEMORY_MAP_ADDR, MapEntrySize * MaxEntries(machine)>>,
   <<ACPI_TABLE_LOW, RsdpSize>>, <<SMBIOS_TABLE_LOW, SmbiosSize>>,
   <<WRAPPER_BASE, WrapperSize>>}

Apart(area1, area2) == ~Meet(area1[1], area1[2], area2[1], area2[2])

(* What the firmware and FreeLoader's own layout have to respect: the map  *)
(* fits below the loader, no input lies in an area the loader fills, and   *)
(* the image covers neither -- but it may cover the firmware's memory map. *)
Clear(machine) ==
  /\ MEMORY_MAP_ADDR + MapEntrySize * MaxEntries(machine) <= WRAPPER_BASE
  /\ \A area \in FixedAreas(machine), input \in ReadLast(machine) \cup {EfiMapArea(machine)} :
       Apart(area, input)
  /\ HasHeader(machine.freeldr) =>
       \A area \in FixedAreas(machine) \cup ReadLast(machine) :
         Apart(<<LoadAddress(machine), machine.freeldr.len>>, area)

(* What FreeLoader is owed at the jump. *)
Owed(machine) ==
  {"cmdline", "bootinfo", "map", "image"}
    \cup {g \in {"ACPI", "SMBIOS"} : Tables(machine, g) # {}}
    \cup {g \in {"ide"} : ControllersOf(machine.devices) # {}}
=============================================================================
