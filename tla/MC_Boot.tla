------------------------------- MODULE MC_Boot -------------------------------
(***************************************************************************)
(* Boot on the addresses of the source, but for the loader's own, which    *)
(* begins where three Multiboot entries end instead of 3276.  Memory is    *)
(* sampled at the first and last byte of every area and of every place an  *)
(* image or an input can be at, and the bytes the copies between them      *)
(* touch.                                                                  *)
(***************************************************************************)
EXTENDS Boot

MC_CMDLINE_LOC      == 20480      \* 0x5000
MC_BOOTINFO_LOC     == 24320      \* 0x5F00
MC_MEMORY_MAP_ADDR  == 4128768    \* 0x3F0000
MC_ACPI_TABLE_LOW   == 917504     \* 0xE0000
MC_SMBIOS_TABLE_LOW == 983040     \* 0xF0000
MC_WRAPPER_BASE     == 4128828    \* three entries on; 0x400000 in the Makefile
MC_WrapperSize      == 524288     \* half a megabyte, the image included

(* The search covers three words instead of 2048. *)
MC_SearchWords == 3

(* One scanned bus and the last one, one slot, two functions. *)
MC_LastBus  == 1
MC_NumSlots == 1
MC_NumFuncs == 2

MC_PageSize == 4096
MC_LowTop   == 655360
MC_HighBase == 1048576

Edges(lo, size) == {lo, lo + size - 1}

MC_Described ==
  UNION {Edges(n, 4096) : n \in {0, 655360, 1048576, 16777216}} \cup {655359, 1048575}

-----------------------------------------------------------------------------
(* Image windows: below the hole, over the command line, over the boot     *)
(* info and the RSDP, over the SMBIOS entry only, over the boot arguments, *)
(* over the firmware's memory map, into the loader, above it.              *)
Loads == {<<63488, 262144>>, <<20480, 1024>>, <<24319, 893186>>,
          <<983070, 4096>>, <<16777216, 4096>>, <<16781312, 4096>>,
          <<4063232, 131072>>, <<8388608, 262144>>}

(* boot.efi's structures in high memory; its memory map there, or where    *)
(* the loader writes the one it makes of it.                               *)
MC_At(efiMap) ==
  [BootArgs |-> 16777216, EfiMemoryMap |-> efiMap,
   EfiSystemTable |-> 2130735104, tables |-> 2130739200]

(* Firmware tables: high memory, and inside the loader's map area. *)
TablePlaces == {2130706432, 2130710528, 4128768}

MC_Address ==
  Edges(0, 40) \cup {2, 3, 30, 35}
  \cup Edges(20480, 23) \cup Edges(20480, 1024) \cup Edges(20503, 1024) \cup {21527}
  \cup Edges(24320, 40) \cup {24322, 24323, 24350, 24355}
  \cup Edges(917504, 36) \cup {917534}
  \cup Edges(983040, 31) \cup {983075}
  \cup UNION {Edges(4128768 + 20 * n, 20) : n \in 0..3} \cup {4128798, 4128803}
  \cup Edges(4128828, 524288)
  \cup Edges(16777216, 1108) \cup Edges(16781312, 96)
  \cup Edges(2130735104, 72) \cup Edges(2130739200, 20)
  \cup UNION {Edges(t, 36) \cup Edges(t, 31) : t \in TablePlaces}
  \cup UNION {Edges(l[1], l[2]) : l \in Loads}

(* Nothing; no flag; one that contains -v; -s after a word; -v at the end. *)
MC_CmdLines ==
  {<<NUL>>, <<"-", "x", NUL>>, <<"r", "-", "v", NUL>>,
   <<"x", " ", "-", "s", " ", "x", NUL>>, <<"x", " ", "-", "v", NUL>>}

MC_Flag == <<"-", "v", NUL>>

(* Conventional memory below, across and ending in the hole and above it,  *)
(* ACPI data, and what is reserved.                                        *)
Region(type, page, pages) ==
  [type |-> type, phys_addr |-> 4096 * page, num_pages |-> pages]

Low    == Region("CONVENTIONAL_MEMORY", 0, 160)
IntoIt == Region("BOOT_SERVICES_DATA", 0, 176)
Across == Region("CONVENTIONAL_MEMORY", 0, 4096)
High   == Region("LOADER_DATA", 256, 3840)
Acpi   == Region("ACPI_RECLAIM_MEMORY", 4096, 1)
Other  == Region("RESERVED_TYPE", 160, 96)

MC_EfiMaps ==
  {<<>>, <<Low>>, <<Low, Other, High>>, <<Across, Acpi>>, <<IntoIt>>, <<IntoIt, High, Acpi>>,
   <<Low, High, Acpi, Region("MEMORY_MAPPED_IO", 8192, 1)>>}

MC_Tables ==
  LET t(guid, place) == [guid |-> guid, table |-> place]
  IN  {<<>>,
       <<t("ACPI", 2130706432)>>,
       <<t("ACPI_20", 2130706432), t("SMBIOS", 2130710528)>>,
       <<t("SMBIOS", 2130710528), t("other", 4128768), t("ACPI", 2130706432)>>,
       <<t("ACPI", 2130710528), t("ACPI", 2130706432)>>,
       <<t("ACPI", 4128768), t("SMBIOS", 2130706432)>>}

(* Where the magic number is, and what the headers there say. *)
MC_Freeldr ==
  {[magic  |-> magic,
    header |-> [k \in 0..2 |-> [LoadAddress |-> load[1], EntryPoint |-> load[1] + k]],
    len    |-> load[2]] : magic \in SUBSET (0..2), load \in Loads}

MC_Low == {f \in MC_Freeldr : f.header[0].LoadAddress = 63488}

MC_Found == {f \in MC_Freeldr : f.magic = {1, 2}}

(* Functions present: an IDE controller in native mode, in compatibility   *)
(* mode or in neither, and a device that is none but has 0x8F.             *)
Present(progIf, class) ==
  [r \in {0, 8} |-> IF r = 0 THEN <<134, 128, 192, 39>> ELSE <<2, progIf, 1, class>>]

MC_Controllers ==
  {[f \in Function |-> IF f = f1 THEN d1 ELSE IF f = <<1, 0, 0>> THEN Present(143, 2)
                           ELSE Absent] :
     f1 \in {<<0, 0, 0>>, <<0, 0, 1>>, <<1, 0, 1>>},
     d1 \in {Present(143, 1), Present(138, 1), Present(128, 1)}}

MC_Native ==
  [f \in Function |-> IF f = <<0, 0, 1>> THEN Present(143, 1) ELSE Absent]

MC_Devices == MC_Controllers \cup {MC_Native}

(* Every combination of hardware and magic number, with the image where it *)
(* covers nothing; of magic number and image window; of the command line,  *)
(* the tables and the window; and of the memory map, its place, the tables *)
(* and the window.                                                         *)
MachineOf(cmdline, devices, stray, efiMap, efiMapAt, tables, freeldr) ==
  [at |-> MC_At(efiMapAt), CmdLine |-> cmdline,
   EfiMemoryMap |-> efiMap, EfiMemoryDescriptorSize |-> 48,
   devices |-> devices, stray |-> stray, tables |-> tables, freeldr |-> freeldr]

MC_Machines ==
  LET acpi == <<[guid |-> "ACPI", table |-> 2130706432]>>
  IN  {MachineOf(MC_Flag, d, s, <<Low>>, 16781312, acpi, f) :
         d \in MC_Controllers, s \in {<<0, 0, 0>>, <<1, 0, 0>>}, f \in MC_Low}
      \cup {MachineOf(MC_Flag, MC_Native, <<0, 0, 0>>, <<Low>>, 16781312, acpi, f) :
              f \in MC_Freeldr}
      \cup {MachineOf(c, MC_Native, <<0, 0, 0>>, <<Low>>, 16781312, t, f) :
              c \in MC_CmdLines, t \in MC_Tables, f \in MC_Found}
      \cup {MachineOf(MC_Flag, MC_Native, <<0, 0, 0>>, m, at, t, f) :
              m \in MC_EfiMaps, at \in {16781312, 4128768}, t \in MC_Tables,
              f \in MC_Found}
=============================================================================
