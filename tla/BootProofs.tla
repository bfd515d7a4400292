------------------------------ MODULE BootProofs ------------------------------
(***************************************************************************)
(* Proofs about WrapperInit, for any machine, any layout of the fixed      *)
(* areas and any image.                                                    *)
(*                                                                         *)
(* The inductive invariant has two sides.  One is what each function has   *)
(* found out by the time the next one starts: the controller, the account  *)
(* of the firmware's descriptors, the header, the last table of each GUID. *)
(* The other is memory: who has written where, byte by byte, and so what   *)
(* is still the firmware's when a step reads it, and what a later step     *)
(* must leave alone.                                                       *)
(***************************************************************************)
EXTENDS Boot, HardwareProofs, WellFoundedInduction

(* The image is in its place. *)
Loaded == stage \in {"LegacyAcpiSmbiosFix", "sleep", "JumpToFreeldr", "freeldr"}

(* The tables are in theirs. *)
Cloned == stage \in {"sleep", "JumpToFreeldr", "freeldr"}

Halting == stage \in {"fail", "halted"}

Stages ==
  {"SetupCmdline", "AppleTVFixupIdeController", "CreateBootInfo", "ValidateFreeldr",
   "LoadFreeldr", "LegacyAcpiSmbiosFix", "sleep", "JumpToFreeldr", "fail", "halted",
   "astray", "freeldr"}

(* Where WrapperInit may be.                                               *)
Control ==
  /\ machine \in Machines /\ stage \in Stages
  /\ WrapperVerbose \in BOOLEAN

(* The scan and the fixup: over when the boot info is put together, and a  *)
(* failure is the end.  Without a controller the stray function is fixed.  *)
Fixup ==
  /\ FixupState(machine.devices, config, scan, Bus, Slot, Func, PciDevice)
  /\ scan = "scan" \/ ControllersOf(machine.devices) = {} => PciDevice = machine.stray
  /\ stage = "SetupCmdline" => scan = "scan"
  /\ stage = "AppleTVFixupIdeController" => scan \in {"scan", "fixup"}
  /\ stage \notin {"SetupCmdline", "AppleTVFixupIdeController", "fail", "halted", "astray"}
       => scan = "done"
  /\ Halting => scan \in {"done", "failed"}

(* The conversion: over when the image is looked for.                      *)
Conversion ==
  /\ Account(machine.EfiMemoryMap, converted, passed, map)
  /\ counts \in [MemoryMapEntries : Nat, MemoryMapSize : Nat]
  /\ returned \in BOOLEAN
  /\ returned =>
       /\ converted = Len(machine.EfiMemoryMap)
       /\ counts = [MemoryMapEntries |-> Len(map), MemoryMapSize |-> MapEntrySize * Len(map)]
  /\ stage \in {"SetupCmdline", "AppleTVFixupIdeController"} => ~returned
  /\ stage \in {"ValidateFreeldr", "LoadFreeldr"} \/ Loaded => returned

(* The search: no word passed is the magic number, and the loader goes on  *)
(* only with the first that is.                                            *)
Search ==
  /\ word \in 0..SearchWords /\ offset \in 0..(SearchWords - 1) /\ entry \in Nat
  /\ \A k \in 0..(word - 1) : k \notin machine.freeldr.magic
  /\ stage = "LoadFreeldr" \/ Loaded =>
       HasHeader(machine.freeldr) /\ offset = HeaderWord(machine.freeldr)
  /\ Halting /\ scan = "done" => ~HasHeader(machine.freeldr)
  /\ Loaded => entry = EntryPoint(machine)

(* Of the tables of a GUID among the first n, t is the last.               *)
LastTable(guid, n, t) ==
  \A k \in 1..n :
    /\ machine.tables[k].guid = guid
    /\ \A j \in (k + 1)..n : machine.tables[j].guid # guid
    => t = machine.tables[k].table

(* The loop over the tables remembers the last of each kind.               *)
LastTables ==
  /\ efitab \in [acpi : Nat, smbios : Nat] /\ i \in 0..Len(machine.tables)
  /\ LastTable("ACPI", i, efitab.acpi) /\ LastTable("SMBIOS", i, efitab.smbios)
  /\ Cloned => i = Len(machine.tables)

(* The areas the loader fills: those of FixedAreas but its own.            *)
Filled ==
  {<<0, BootInfoSize>>, <<CMDLINE_LOC, ScreenStringSize - 1 + MACH_CMDLINE>>,
   <<BOOTINFO_LOC, BootInfoSize>>,
   <<MEMORY_MAP_ADDR, MapEntrySize * MaxEntries(machine)>>,
   <<ACPI_TABLE_LOW, RsdpSize>>, <<SMBIOS_TABLE_LOW, SmbiosSize>>}

ByteType ==
  [of : {"firmware", "ScreenString", "CmdLine", "PCIDEVICE", "BOOTINFO", "mmap_entry",
         "freeldr"},
   at : Nat]

(* What no step has reason to write to is as the firmware left it.         *)
Untouched ==
  \A a \in Address :
    /\ \A area \in Filled : ~InArea(a, area[1], area[2])
    /\ Loaded => ~InArea(a, LoadAddress(machine), machine.freeldr.len)
    => mem[a] = [of |-> "firmware", at |-> a]

(* What has been put in its place is there still.                          *)
InPlace ==
  /\ stage # "SetupCmdline" => CmdlineHeld
  /\ Holds(mem, MEMORY_MAP_ADDR, MapEntrySize * Len(map), "mmap_entry")
  /\ stage \in {"ValidateFreeldr", "LoadFreeldr"} \/ Loaded
       => Holds(mem, BOOTINFO_LOC, BootInfoSize, "BOOTINFO")
  /\ Loaded => Holds(mem, LoadAddress(machine), machine.freeldr.len, "freeldr")
  /\ Cloned =>
       /\ Tables(machine, "ACPI") # {} =>
            IsClone(ACPI_TABLE_LOW, TableOf(machine, "ACPI"), RsdpSize)
       /\ Tables(machine, "SMBIOS") # {} =>
            IsClone(SMBIOS_TABLE_LOW, TableOf(machine, "SMBIOS"), SmbiosSize)

(* On a clear machine the loader does not go astray.                       *)
Memory ==
  /\ mem \in [Address -> ByteType]
  /\ stage # "astray" => Untouched
  /\ Clear(machine) => InPlace /\ stage # "astray"

(* The inductive invariant.                                                *)
IInv == Control /\ Fixup /\ Conversion /\ Search /\ LastTables /\ Memory

-----------------------------------------------------------------------------
(* PciFixup and MemoryMap speak of configuration space and of the map in   *)
(* the words of Handoff.                                                   *)
LEMMA SameSpace ==
  /\ \A space, f : PciFixup!IsIde(space, f) <=> IsIde(space, f)
  /\ \A space, f, Offset : PciFixup!PciReadLong(space, f, Offset) = PciReadLong(space, f, Offset)
  /\ \A space, f, Offset, v :
       PciFixup!PciWriteLong(space, f, Offset, v) = PciWriteLong(space, f, Offset, v)
  /\ \A b0, b1, b2, b3 : PciFixup!FromBytes(b0, b1, b2, b3) = FromBytes(b0, b1, b2, b3)
<1>1. /\ \A f, Offset : PciFixup!ConfigAddress(f, Offset) = ConfigAddress(f, Offset)
      /\ \A a : PciFixup!FunctionAt(a) = FunctionAt(a) /\ PciFixup!RegisterAt(a) = RegisterAt(a)
      /\ \A b0, b1, b2, b3 : PciFixup!FromBytes(b0, b1, b2, b3) = FromBytes(b0, b1, b2, b3)
  BY DEF PciFixup!ConfigAddress, ConfigAddress, PciFixup!FunctionAt, FunctionAt,
         PciFixup!RegisterAt, RegisterAt, PciFixup!FromBytes, FromBytes
<1>2. \A space, a : PciFixup!Data(space, a) = Data(space, a)
  BY <1>1, Zenon DEF PciFixup!Data, Data
<1>3. \A space, f, Offset :
        /\ PciFixup!PciReadLong(space, f, Offset) = PciReadLong(space, f, Offset)
        /\ PciFixup!PciReadWord(space, f, Offset) = PciReadWord(space, f, Offset)
        /\ PciFixup!PciReadByte(space, f, Offset) = PciReadByte(space, f, Offset)
  BY <1>1, <1>2 DEF PciFixup!PciReadLong, PciReadLong, PciFixup!PciReadWord, PciReadWord,
         PciFixup!PciReadByte, PciReadByte
<1>4. \A space, f, Offset, v :
        PciFixup!PciWriteLong(space, f, Offset, v) = PciWriteLong(space, f, Offset, v)
  BY <1>1, Zenon DEF PciFixup!PciWriteLong, PciWriteLong
<1>5. \A space, f : PciFixup!IsIde(space, f) <=> IsIde(space, f)
  BY <1>3, Zenon DEF PciFixup!IsIde, IsIde, PciFixup!VENDOR_ID, VENDOR_ID,
         PciFixup!CLASS_CODE, CLASS_CODE, PciFixup!SUBCLASS_CODE, SUBCLASS_CODE
<1>. QED  BY <1>1, <1>3, <1>4, <1>5

LEMMA SameMap ==
  /\ MemoryMap!UsableTypes = UsableTypes
  /\ \A type : MemoryMap!KindOf(type) = KindOf(type)
  /\ \A d : /\ MemoryMap!Start(d) = Start(d) /\ MemoryMap!Size(d) = Size(d)
            /\ MemoryMap!End(d) = End(d)
            /\ MemoryMap!TouchesHole(d) <=> TouchesHole(d)
            /\ MemoryMap!EndsInHole(d) <=> EndsInHole(d)
  /\ \A m, a, l, type :
       MemoryMap!AddMemoryRegion(m, a, l, type) = AddMemoryRegion(m, a, l, type)
  /\ \A m, d : MemoryMap!AddBelowHole(m, d) = AddBelowHole(m, d)
<1>1. MemoryMap!UsableTypes = UsableTypes
  BY Zenon DEF MemoryMap!UsableTypes, UsableTypes
<1>2. \A type : MemoryMap!KindOf(type) = KindOf(type)
  BY <1>1, Zenon DEF MemoryMap!KindOf, KindOf
<1>3. \A d : MemoryMap!Start(d) = Start(d) /\ MemoryMap!Size(d) = Size(d)
             /\ MemoryMap!End(d) = End(d)
  BY Zenon DEF MemoryMap!Start, Start, MemoryMap!Size, Size, MemoryMap!End, End
<1>4. \A d : MemoryMap!TouchesHole(d) <=> TouchesHole(d)
  BY <1>1, <1>3, Zenon DEF MemoryMap!TouchesHole, TouchesHole
<1>5. \A d : MemoryMap!EndsInHole(d) <=> EndsInHole(d)
  BY <1>3, <1>4, Zenon DEF MemoryMap!EndsInHole, EndsInHole
<1>6. \A m, a, l, type :
       MemoryMap!AddMemoryRegion(m, a, l, type) = AddMemoryRegion(m, a, l, type)
  BY Zenon DEF MemoryMap!AddMemoryRegion, AddMemoryRegion
<1>7. \A m, d : MemoryMap!AddBelowHole(m, d) = AddBelowHole(m, d)
  BY <1>3, <1>6, Zenon DEF MemoryMap!AddBelowHole, AddBelowHole
<1>. QED  BY <1>1, <1>2, <1>3, <1>4, <1>5, <1>6, <1>7

-----------------------------------------------------------------------------
(* Nothing writes to boot.efi's arguments, the section or the hardware.    *)
LEMMA MachineKept == [Next]_vars => UNCHANGED machine
BY DEF Next, vars, SetupCmdline, GetIdeController, AppleTVFixupIdeController,
       FillMultibootMemoryMap, CreateBootInfo, PassWord, FindMagic, FindNoMagic,
       LoadFreeldr, ScanTable, CloneTables, Pause, JumpToFreeldr, Fail, GoAstray, Over

(* What MachineAssumption says of the one machine there is.                *)
LEMMA TheMachine ==
  ASSUME NEW m \in Machines
  PROVE  /\ m \in MachineType /\ m.devices \in Space /\ m.stray \in Function
         /\ m.EfiMemoryMap \in EfiMaps /\ Len(m.tables) \in Nat
         /\ \A k \in 1..Len(m.tables) : m.tables[k].table \in Nat
         /\ \A k \in 0..(SearchWords - 1) :
              /\ m.freeldr.header[k].LoadAddress \in Nat
              /\ m.freeldr.header[k].EntryPoint \in Nat
         /\ m.freeldr.magic \subseteq 0..(SearchWords - 1) /\ m.freeldr.len \in Nat
<1>1. m \in MachineType /\ m.EfiMemoryMap \in EfiMaps
  BY MachineAssumption
<1>2. m.tables \in Seq([guid : {"ACPI", "ACPI_20", "SMBIOS", "other"}, table : Nat])
  BY <1>1 DEF MachineType
<1>3. m.freeldr \in [magic : SUBSET (0..(SearchWords - 1)),
                     header : [0..(SearchWords - 1) -> Header], len : Nat]
  BY <1>1 DEF MachineType
<1>4. m.devices \in Space /\ m.stray \in Function
  BY <1>1 DEF MachineType
<1>. DEFINE Table == [guid : {"ACPI", "ACPI_20", "SMBIOS", "other"}, table : Nat]
            ts == m.tables
<1>5. Len(m.tables) \in Nat /\ \A k \in 1..Len(m.tables) : m.tables[k].table \in Nat
  <2>1. \A t \in Table : t.table \in Nat
    OBVIOUS
  <2>2. ts \in Seq(Table)
    BY <1>2
  <2>. HIDE DEF Table, ts
  <2>3. Len(ts) \in Nat /\ \A k \in 1..Len(ts) : ts[k] \in Table
    BY <2>2
  <2>4. \A k \in 1..Len(ts) : ts[k].table \in Nat
    BY <2>1, <2>3
  <2>. QED  BY <2>3, <2>4 DEF ts
<1>6. m.freeldr.magic \subseteq 0..(SearchWords - 1) /\ m.freeldr.len \in Nat
  BY <1>3
<1>7. m.freeldr.header \in [0..(SearchWords - 1) -> Header]
  BY <1>3
<1>8. \A k \in 0..(SearchWords - 1) :
        /\ m.freeldr.header[k].LoadAddress \in Nat
        /\ m.freeldr.header[k].EntryPoint \in Nat
  BY <1>7 DEF Header
<1>. QED  BY <1>1, <1>4, <1>5, <1>6, <1>8

-----------------------------------------------------------------------------
LEMMA InitIInv == Init => IInv
<1>. SUFFICES ASSUME Init PROVE IInv
  OBVIOUS
<1>1. machine \in Machines /\ stage = "SetupCmdline" /\ WrapperVerbose = FALSE
  BY DEF Init
<1>2. Control
  BY <1>1 DEF Control, Stages
<1>3. Fixup
  BY <1>1, TheMachine, ScanStarts DEF Init, Fixup, Halting
<1>4. Conversion
  <2>1. machine.EfiMemoryMap \in EfiMaps
    BY <1>1, TheMachine
  <2>2. Account(machine.EfiMemoryMap, converted, passed, map)
    BY <2>1, AccountStarts DEF Init
  <2>. QED  BY <1>1, <2>2 DEF Init, Conversion, Loaded
<1>5. Search
  BY <1>1, LayoutAssumption DEF Init, Search, Loaded, Halting
<1>6. LastTables
  BY <1>1, TheMachine DEF Init, LastTables, LastTable, Cloned
<1>7. Memory
  <2>1. mem = [a \in Address |-> [of |-> "firmware", at |-> a]] /\ map = <<>>
    BY DEF Init
  <2>2. mem \in [Address -> ByteType] /\ Untouched
    BY <2>1, AddressAssumption DEF ByteType, Untouched
  <2>3. Holds(mem, MEMORY_MAP_ADDR, MapEntrySize * Len(map), "mmap_entry")
    <3>1. MapEntrySize * Len(map) = 0 /\ MEMORY_MAP_ADDR \in Nat
      BY <2>1, LayoutAssumption DEF MapEntrySize
    <3>. QED  BY <3>1, AddressAssumption DEF Holds, InArea
  <2>. QED  BY <1>1, <2>2, <2>3 DEF Memory, InPlace, Loaded, Cloned
<1>. QED  BY <1>2, <1>3, <1>4, <1>5, <1>6, <1>7 DEF IInv

-----------------------------------------------------------------------------
(* The stages follow one another.                                          *)
LEMMA ControlKept == IInv /\ [Next]_vars => Control'
<1>. SUFFICES ASSUME IInv, [Next]_vars PROVE Control'
  OBVIOUS
<1>1. machine' = machine
  BY MachineKept
<1>2. stage' \in Stages
  BY DEF IInv, Control, Stages, Next, vars, SetupCmdline, GetIdeController,
         AppleTVFixupIdeController, FillMultibootMemoryMap, CreateBootInfo, PassWord,
         FindMagic, FindNoMagic, LoadFreeldr, ScanTable, CloneTables, Pause,
         JumpToFreeldr, Fail, GoAstray, Over
<1>3. WrapperVerbose' \in BOOLEAN
  BY DEF IInv, Control, Next, vars, SetupCmdline, GetIdeController,
         AppleTVFixupIdeController, FillMultibootMemoryMap, CreateBootInfo, PassWord,
         FindMagic, FindNoMagic, LoadFreeldr, ScanTable, CloneTables, Pause,
         JumpToFreeldr, Fail, GoAstray, Over, AsksVerbose
<1>. QED  BY <1>1, <1>2, <1>3 DEF IInv, Control

(* The scan and the fixup, in the boot.                                    *)
LEMMA FixupSteps ==
  ASSUME IInv
  PROVE  LET S(c, pc, b, s, f, d) == FixupState(machine.devices, c, pc, b, s, f, d)
         IN  /\ PciFixup!Found =>
                  /\ S(config', scan', Bus', Slot', Func', PciDevice')
                  /\ scan' = "fixup" /\ ControllersOf(machine.devices) # {}
             /\ PciFixup!Pass =>
                  /\ S(config', scan', Bus', Slot', Func', PciDevice')
                  /\ scan' = scan /\ PciDevice' = PciDevice
             /\ PciFixup!NotFound =>
                  /\ S(config', scan', Bus', Slot', Func', PciDevice')
                  /\ scan' = "fixup" /\ ControllersOf(machine.devices) = {}
                  /\ scan = "scan" /\ PciDevice' = PciDevice
             /\ PciFixup!NothingToDo \/ PciFixup!WriteProgIf =>
                  /\ S(config', scan', Bus', Slot', Func', PciDevice')
                  /\ scan = "fixup" /\ scan' = "done" /\ PciDevice' = PciDevice
             /\ PciFixup!Unsupported =>
                  /\ S(config', scan', Bus', Slot', Func', PciDevice')
                  /\ scan = "fixup" /\ scan' = "failed" /\ PciDevice' = PciDevice
<1>. DEFINE dev == machine.devices
            here == <<Bus, Slot, Func>>
            l == PciReadLong(config, PciDevice, 8)
<1>0. FixupState(dev, config, scan, Bus, Slot, Func, PciDevice)
  BY DEF IInv, Fixup
<1>1. ASSUME PciFixup!Found
      PROVE  /\ FixupState(dev, config', scan', Bus', Slot', Func', PciDevice')
             /\ scan' = "fixup" /\ ControllersOf(dev) # {}
  <2>1. /\ scan = "scan" /\ Bus < LastBus /\ IsIde(config, here)
        /\ PciDevice' = here /\ scan' = "fixup" /\ UNCHANGED <<config, Bus, Slot, Func>>
    BY <1>1, SameSpace DEF PciFixup!Found, PciFixup!Here
  <2>2. FixupState(dev, config, "scan", Bus, Slot, Func, PciDevice)
    BY <1>0, <2>1
  <2>3. FixupState(dev, config, "fixup", Bus, Slot, Func, here)
    BY <2>1, <2>2, ScanFinds
  <2>4. here \in ControllersOf(dev)
    BY <2>1, <2>2 DEF FixupState, ControllersOf, Scanned, Function
  <2>. QED  BY <2>1, <2>3, <2>4
<1>2. ASSUME PciFixup!Pass
      PROVE  /\ FixupState(dev, config', scan', Bus', Slot', Func', PciDevice')
             /\ scan' = scan /\ PciDevice' = PciDevice
  <2>1. /\ scan = "scan" /\ Bus < LastBus /\ ~IsIde(config, here)
        /\ IF Func < NumFuncs - 1 THEN Bus' = Bus /\ Slot' = Slot /\ Func' = Func + 1
           ELSE /\ Func' = 0
                /\ IF Slot < NumSlots - 1 THEN Bus' = Bus /\ Slot' = Slot + 1
                   ELSE Bus' = Bus + 1 /\ Slot' = 0
        /\ UNCHANGED <<config, scan, PciDevice>>
    BY <1>2, SameSpace DEF PciFixup!Pass, PciFixup!Here
  <2>2. FixupState(dev, config, "scan", Bus, Slot, Func, PciDevice)
    BY <1>0, <2>1
  <2>3. FixupState(dev, config, "scan", Bus', Slot', Func', PciDevice)
    BY <2>1, <2>2, ScanPasses
  <2>. QED  BY <2>1, <2>3
<1>3. ASSUME PciFixup!NotFound
      PROVE  /\ FixupState(dev, config', scan', Bus', Slot', Func', PciDevice')
             /\ scan' = "fixup" /\ ControllersOf(dev) = {}
             /\ scan = "scan" /\ PciDevice' = PciDevice
  <2>1. /\ scan = "scan" /\ Bus = LastBus /\ scan' = "fixup"
        /\ UNCHANGED <<config, Bus, Slot, Func, PciDevice>>
    BY <1>3 DEF PciFixup!NotFound
  <2>2. FixupState(dev, config, "scan", Bus, Slot, Func, PciDevice)
    BY <1>0, <2>1
  <2>3. /\ FixupState(dev, config, "fixup", Bus, Slot, Func, PciDevice)
        /\ ControllersOf(dev) = {}
    BY <2>1, <2>2, ScanEnds
  <2>. QED  BY <2>1, <2>3
<1>4. PciFixup!ProgIf = l[2] /\ PciFixup!PciOffsetOld = l
  BY SameSpace DEF PciFixup!ProgIf, PciFixup!PciOffsetOld
<1>5. ASSUME PciFixup!NothingToDo \/ PciFixup!WriteProgIf
      PROVE  /\ FixupState(dev, config', scan', Bus', Slot', Func', PciDevice')
             /\ scan = "fixup" /\ scan' = "done" /\ PciDevice' = PciDevice
  <2>1. /\ scan = "fixup" /\ scan' = "done"
        /\ UNCHANGED <<Bus, Slot, Func, PciDevice>>
    BY <1>5 DEF PciFixup!NothingToDo, PciFixup!WriteProgIf
  <2>2. FixupState(dev, config, "fixup", Bus, Slot, Func, PciDevice)
    BY <1>0, <2>1
  <2>3. CASE PciFixup!NothingToDo
    <3>1. l[2] = 138 /\ config' = config
      BY <1>4, <2>3 DEF PciFixup!NothingToDo
    <3>2. FixupState(dev, config, "done", Bus, Slot, Func, PciDevice)
      BY <2>2, <3>1, FixupLeaves
    <3>. QED  BY <2>1, <3>1, <3>2
  <2>4. CASE PciFixup!WriteProgIf
    <3>1. /\ l[2] = 143
          /\ config' = PciWriteLong(config, PciDevice, 8, FromBytes(l[1], 138, l[3], l[4]))
      BY <1>4, <2>4, SameSpace DEF PciFixup!WriteProgIf, PciFixup!PciOffsetNew,
         PciFixup!RevId, PciFixup!Subclass, PciFixup!ClassCode
    <3>2. FixupState(dev, config', "done", Bus, Slot, Func, PciDevice)
      BY <2>2, <3>1, FixupWrites
    <3>. QED  BY <2>1, <3>2
  <2>. QED  BY <1>5, <2>3, <2>4
<1>6. ASSUME PciFixup!Unsupported
      PROVE  /\ FixupState(dev, config', scan', Bus', Slot', Func', PciDevice')
             /\ scan = "fixup" /\ scan' = "failed" /\ PciDevice' = PciDevice
  <2>1. /\ scan = "fixup" /\ scan' = "failed" /\ l[2] \notin {138, 143}
        /\ UNCHANGED <<config, Bus, Slot, Func, PciDevice>>
    BY <1>4, <1>6 DEF PciFixup!Unsupported
  <2>2. FixupState(dev, config, "fixup", Bus, Slot, Func, PciDevice)
    BY <1>0, <2>1
  <2>3. FixupState(dev, config, "failed", Bus, Slot, Func, PciDevice)
    BY <2>1, <2>2, FixupRefuses
  <2>. QED  BY <2>1, <2>3
<1>. QED  BY <1>1, <1>2, <1>3, <1>5, <1>6

(* Steps of the boot that are none of the scan, the fixup or the           *)
(* conversion leave their variables alone.                                 *)
LEMMA ScanSteps ==
  ASSUME [Next]_vars
  PROVE  \/ GetIdeController \/ AppleTVFixupIdeController \/ UNCHANGED pciVars
BY DEF Next, vars, pciVars, SetupCmdline, FillMultibootMemoryMap, CreateBootInfo, PassWord,
       FindMagic, FindNoMagic, LoadFreeldr, ScanTable, CloneTables, Pause, JumpToFreeldr,
       Fail, GoAstray, Over

(* Where the stage can go in one step.                                     *)
LEMMA StageSteps ==
  ASSUME [Next]_vars, ~AppleTVFixupIdeController, stage' # stage
  PROVE  \/ stage = "SetupCmdline" /\ stage' = "AppleTVFixupIdeController"
         \/ stage = "CreateBootInfo" /\ stage' = "ValidateFreeldr" /\ returned
         \/ stage = "ValidateFreeldr" /\ stage' \in {"LoadFreeldr", "fail"}
         \/ stage = "LoadFreeldr" /\ stage' = "LegacyAcpiSmbiosFix"
         \/ /\ stage = "LegacyAcpiSmbiosFix" /\ stage' \in {"sleep", "JumpToFreeldr"}
            /\ i = Len(machine.tables)
         \/ stage = "sleep" /\ stage' = "JumpToFreeldr"
         \/ stage = "JumpToFreeldr" /\ stage' = "freeldr"
         \/ stage = "fail" /\ stage' = "halted"
         \/ GoAstray /\ stage' = "astray"
BY DEF Next, vars, SetupCmdline, GetIdeController, FillMultibootMemoryMap, CreateBootInfo,
       PassWord, FindMagic, FindNoMagic, LoadFreeldr, ScanTable, CloneTables, Pause,
       JumpToFreeldr, Fail, GoAstray, Over

LEMMA FixupKept == IInv /\ [Next]_vars => Fixup'
<1>. SUFFICES ASSUME IInv, [Next]_vars PROVE Fixup'
  OBVIOUS
<1>1. machine' = machine /\ Control /\ Fixup
  BY MachineKept DEF IInv
<1>2. CASE GetIdeController
  <2>1. stage = "AppleTVFixupIdeController" /\ stage' = stage
    BY <1>2 DEF GetIdeController
  <2>2. PciFixup!Found \/ PciFixup!Pass \/ PciFixup!NotFound
    BY <1>2 DEF GetIdeController
  <2>3. /\ FixupState(machine.devices, config', scan', Bus', Slot', Func', PciDevice')
        /\ scan' \in {"scan", "fixup"}
        /\ scan' = "scan" \/ ControllersOf(machine.devices) = {} => PciDevice' = machine.stray
    BY <1>1, <2>1, <2>2, FixupSteps DEF Fixup
  <2>. QED  BY <1>1, <2>1, <2>3 DEF Fixup, Halting
<1>3. CASE AppleTVFixupIdeController
  <2>1. \/ /\ PciFixup!NothingToDo \/ PciFixup!WriteProgIf
           /\ stage' = "CreateBootInfo"
        \/ PciFixup!Unsupported /\ stage' = "fail"
    BY <1>3 DEF AppleTVFixupIdeController
  <2>2. /\ FixupState(machine.devices, config', scan', Bus', Slot', Func', PciDevice')
        /\ scan = "fixup" /\ PciDevice' = PciDevice
        /\ scan' = IF stage' = "fail" THEN "failed" ELSE "done"
    BY <2>1, FixupSteps
  <2>. QED  BY <1>1, <2>1, <2>2 DEF Fixup, Halting
<1>4. CASE UNCHANGED pciVars /\ ~AppleTVFixupIdeController
  <2>1. UNCHANGED <<config, scan, Bus, Slot, Func, PciDevice>>
    BY <1>4 DEF pciVars
  <2>2. CASE stage' = stage
    BY <1>1, <2>1, <2>2 DEF Fixup, Halting
  <2>3. CASE stage' # stage
    BY <1>1, <1>4, <2>1, <2>3, StageSteps DEF Fixup, Halting
  <2>. QED  BY <2>2, <2>3
<1>. QED  BY <1>2, <1>3, <1>4, ScanSteps

-----------------------------------------------------------------------------
(* The conversion, in the boot.                                            *)
LEMMA ConversionSteps ==
  ASSUME IInv, FillMultibootMemoryMap
  PROVE  /\ Account(machine.EfiMemoryMap, converted', passed', map')
         /\ UNCHANGED <<machine, stage>> /\ stage = "CreateBootInfo" /\ ~returned
         /\ \/ UNCHANGED <<counts, returned>>
            \/ /\ returned' /\ UNCHANGED <<converted, passed, map>>
               /\ converted = Len(machine.EfiMemoryMap)
               /\ counts' = [MemoryMapEntries |-> Len(map),
                             MemoryMapSize    |-> MapEntrySize * Len(map)]
<1>. DEFINE efi == machine.EfiMemoryMap
            d == efi[passed + 1]
            Iterated == /\ map' = Converted(map, d) /\ converted' = converted + 1
                        /\ passed' = (IF EndsInHole(d) THEN passed ELSE passed + 1)
                        /\ converted < Len(efi) /\ ~returned
                        /\ UNCHANGED <<counts, returned>>
<1>0. Account(efi, converted, passed, map) /\ returned \in BOOLEAN
  BY DEF IInv, Conversion
<1>1. UNCHANGED <<machine, stage>> /\ stage = "CreateBootInfo"
  BY DEF FillMultibootMemoryMap
<1>2. MemoryMap!md = d /\ (MemoryMap!More <=> ~returned /\ converted < Len(efi))
  BY DEF MemoryMap!md, MemoryMap!More
<1>3. MemoryMap!More => Measured(d)
  BY <1>0, <1>2, CurrentDescriptor
<1>4. MemoryMap!NextDescriptor =>
        /\ converted' = converted + 1 /\ passed' = passed + 1
        /\ UNCHANGED <<counts, returned>>
  BY DEF MemoryMap!NextDescriptor
<1>. HIDE DEF d
<1>5. CASE MemoryMap!ConvertReserved
  <2>1. /\ MemoryMap!More /\ d.type \notin UsableTypes /\ MemoryMap!NextDescriptor
        /\ map' = AddMemoryRegion(map, Start(d), Size(d), KindOf(d.type))
    BY <1>2, <1>5, SameMap DEF MemoryMap!ConvertReserved
  <2>2. Iterated
    BY <1>2, <1>3, <1>4, <2>1, ArmsConvert
  <2>. QED  BY <1>0, <1>1, <2>2, AccountKept DEF d
<1>6. CASE MemoryMap!ConvertUsable
  <2>1. /\ MemoryMap!More /\ d.type \in UsableTypes /\ ~TouchesHole(d)
        /\ MemoryMap!NextDescriptor
        /\ map' = AddMemoryRegion(map, Start(d), Size(d), "AVAILABLE")
    BY <1>2, <1>6, SameMap DEF MemoryMap!ConvertUsable
  <2>2. Iterated
    BY <1>2, <1>3, <1>4, <2>1, ArmsConvert
  <2>. QED  BY <1>0, <1>1, <2>2, AccountKept DEF d
<1>7. CASE MemoryMap!ConvertAcrossHole
  <2>1. /\ MemoryMap!More /\ TouchesHole(d) /\ End(d) > HighBase
        /\ MemoryMap!NextDescriptor
        /\ map' = AddMemoryRegion(AddBelowHole(map, d), HighBase, End(d) - HighBase, "AVAILABLE")
    BY <1>2, <1>7, SameMap DEF MemoryMap!ConvertAcrossHole
  <2>2. Iterated
    BY <1>2, <1>3, <1>4, <2>1, ArmsConvert
  <2>. QED  BY <1>0, <1>1, <2>2, AccountKept DEF d
<1>8. CASE MemoryMap!ConvertEndsInHole
  <2>1. /\ MemoryMap!More /\ EndsInHole(d) /\ map' = AddBelowHole(map, d)
        /\ converted' = converted + 1 /\ UNCHANGED <<passed, counts, returned>>
    BY <1>2, <1>8, SameMap DEF MemoryMap!ConvertEndsInHole
  <2>2. Iterated
    BY <1>2, <1>3, <2>1, ArmsConvert
  <2>. QED  BY <1>0, <1>1, <2>2, AccountKept DEF d
<1>9. CASE MemoryMap!Return
  BY <1>0, <1>1, <1>9 DEF MemoryMap!Return, MemoryMap!EntrySize, MapEntrySize
<1>. QED  BY <1>5, <1>6, <1>7, <1>8, <1>9 DEF FillMultibootMemoryMap

LEMMA ConversionKept == IInv /\ [Next]_vars => Conversion'
<1>. SUFFICES ASSUME IInv, [Next]_vars PROVE Conversion'
  OBVIOUS
<1>1. machine' = machine /\ Control /\ Conversion
  BY MachineKept DEF IInv
<1>2. CASE FillMultibootMemoryMap
  <2>1. map \in Seq(Entry) /\ Len(map) \in Nat /\ MapEntrySize * Len(map) \in Nat
    BY DEF IInv, Conversion, Account, MapEntrySize
  <2>2. /\ Account(machine.EfiMemoryMap, converted', passed', map')
        /\ UNCHANGED <<machine, stage>> /\ stage = "CreateBootInfo" /\ ~returned
        /\ \/ UNCHANGED <<counts, returned>>
           \/ /\ returned' /\ UNCHANGED <<converted, passed, map>>
              /\ converted = Len(machine.EfiMemoryMap)
              /\ counts' = [MemoryMapEntries |-> Len(map),
                            MemoryMapSize    |-> MapEntrySize * Len(map)]
    BY <1>2, ConversionSteps
  <2>3. returned' \in BOOLEAN
    BY <1>1, <1>2 DEF Conversion, FillMultibootMemoryMap, MemoryMap!ConvertReserved,
       MemoryMap!ConvertUsable, MemoryMap!ConvertAcrossHole, MemoryMap!ConvertEndsInHole,
       MemoryMap!NextDescriptor, MemoryMap!Return
  <2>. QED  BY <1>1, <2>1, <2>2, <2>3 DEF Conversion, Loaded
<1>3. CASE UNCHANGED mapVars
  <2>1. UNCHANGED <<converted, passed, map, counts, returned>>
    BY <1>3 DEF mapVars
  <2>2. CASE stage' = stage
    BY <1>1, <2>1, <2>2 DEF Conversion, Loaded
  <2>3. CASE stage' # stage /\ ~AppleTVFixupIdeController
    BY <1>1, <2>1, <2>3, StageSteps DEF Conversion, Loaded
  <2>4. CASE AppleTVFixupIdeController
    BY <1>1, <2>1, <2>4 DEF Conversion, Loaded, AppleTVFixupIdeController
  <2>. QED  BY <2>2, <2>3, <2>4
<1>4. FillMultibootMemoryMap \/ UNCHANGED mapVars
  BY DEF Next, vars, mapVars, SetupCmdline, GetIdeController, AppleTVFixupIdeController,
         CreateBootInfo, PassWord, FindMagic, FindNoMagic, LoadFreeldr, ScanTable,
         CloneTables, Pause, JumpToFreeldr, Fail, GoAstray, Over
<1>. QED  BY <1>2, <1>3, <1>4

-----------------------------------------------------------------------------
(* The first magic number is the header's word.                            *)
LEMMA FirstMagic ==
  ASSUME NEW fr, fr.magic \subseteq Nat, NEW w \in fr.magic,
         \A k \in 0..(w - 1) : k \notin fr.magic
  PROVE  HeaderWord(fr) = w
<1>1. \A j \in fr.magic : w <= j
  OBVIOUS
<1>2. ASSUME NEW v \in fr.magic, \A j \in fr.magic : v <= j PROVE v = w
  BY <1>1, <1>2
<1>. QED  BY <1>1, <1>2 DEF HeaderWord

LEMMA SearchKept == IInv /\ [Next]_vars => Search'
<1>. SUFFICES ASSUME IInv, [Next]_vars PROVE Search'
  OBVIOUS
<1>1. machine' = machine /\ Control /\ Search
  BY MachineKept DEF IInv
<1>2. /\ SearchWords \in Nat \ {0} /\ word \in 0..SearchWords
      /\ machine.freeldr.magic \subseteq 0..(SearchWords - 1)
      /\ \A k \in 0..(SearchWords - 1) : machine.freeldr.header[k].EntryPoint \in Nat
      /\ \A k \in 0..(word - 1) : k \notin machine.freeldr.magic
  BY <1>1, TheMachine, LayoutAssumption DEF Control, Search
<1>3. CASE PassWord
  <2>1. /\ stage = "ValidateFreeldr" /\ word < SearchWords /\ word \notin machine.freeldr.magic
        /\ word' = word + 1 /\ UNCHANGED <<stage, offset, entry, scan>>
    BY <1>3 DEF PassWord, pciVars
  <2>2. word' \in 0..SearchWords /\ \A k \in 0..(word' - 1) : k \notin machine.freeldr.magic
    BY <1>2, <2>1
  <2>. QED  BY <1>1, <2>1, <2>2 DEF Search, Loaded, Halting
<1>4. CASE FindMagic
  <2>1. /\ stage = "ValidateFreeldr" /\ word < SearchWords /\ word \in machine.freeldr.magic
        /\ offset' = word /\ UNCHANGED <<word, entry, scan>>
        /\ stage' = IF word = 0 THEN "fail" ELSE "LoadFreeldr"
    BY <1>4 DEF FindMagic, pciVars
  <2>2. HeaderWord(machine.freeldr) = word
    BY <1>2, <2>1, FirstMagic
  <2>3. HasHeader(machine.freeldr) <=> word # 0
    BY <2>1, <2>2 DEF HasHeader
  <2>4. offset' \in 0..(SearchWords - 1)
    BY <1>2, <2>1
  <2>. QED  BY <1>1, <1>2, <2>1, <2>2, <2>3, <2>4 DEF Search, Loaded, Halting
<1>5. CASE FindNoMagic
  <2>1. stage' = "fail" /\ word = SearchWords /\ UNCHANGED <<word, offset, entry>>
    BY <1>5 DEF FindNoMagic, imageVars
  <2>2. ~HasHeader(machine.freeldr)
    BY <1>2, <2>1 DEF HasHeader
  <2>. QED  BY <1>1, <2>1, <2>2 DEF Search, Loaded, Halting
<1>6. CASE LoadFreeldr
  <2>1. /\ stage = "LoadFreeldr" /\ stage' = "LegacyAcpiSmbiosFix"
        /\ entry' = machine.freeldr.header[offset].EntryPoint /\ UNCHANGED <<word, offset>>
    BY <1>6 DEF LoadFreeldr
  <2>2. entry' = EntryPoint(machine) /\ entry' \in Nat
    BY <1>1, <1>2, <2>1 DEF Search, EntryPoint
  <2>. QED  BY <1>1, <2>1, <2>2 DEF Search, Loaded, Halting
<1>7. CASE /\ UNCHANGED <<word, offset, entry>> /\ ~FindMagic /\ ~FindNoMagic
           /\ ~LoadFreeldr
  <2>1. CASE AppleTVFixupIdeController
    <3>1. stage' = "CreateBootInfo" \/ (stage' = "fail" /\ scan' = "failed")
      BY <2>1 DEF AppleTVFixupIdeController, PciFixup!Unsupported
    <3>. QED  BY <1>1, <1>7, <3>1 DEF Search, Loaded, Halting
  <2>2. CASE ~AppleTVFixupIdeController /\ stage' # stage
    <3>1. \/ ~Loaded' /\ ~Halting' /\ stage' # "LoadFreeldr"
          \/ Loaded /\ Loaded' /\ ~Halting'
          \/ stage = "fail" /\ stage' = "halted" /\ scan' = scan
      BY <1>7, <2>2 DEF Next, vars, SetupCmdline, GetIdeController, AppleTVFixupIdeController,
         FillMultibootMemoryMap, CreateBootInfo, PassWord, ScanTable, CloneTables, Pause,
         JumpToFreeldr, Fail, GoAstray, Over, Loaded, Halting, pciVars
    <3>. QED  BY <1>1, <1>7, <2>2, <3>1 DEF Search, Loaded, Halting
  <2>3. CASE ~AppleTVFixupIdeController /\ stage' = stage
    <3>1. Halting => scan' = scan
      BY <2>3, ScanSteps DEF GetIdeController, Halting, pciVars
    <3>. QED  BY <1>1, <1>7, <2>3, <3>1 DEF Search, Loaded, Halting
  <2>. QED  BY <2>1, <2>2, <2>3
<1>8. PassWord \/ FindMagic \/ FindNoMagic \/ LoadFreeldr \/ UNCHANGED <<word, offset, entry>>
  BY DEF Next, vars, imageVars, SetupCmdline, GetIdeController, AppleTVFixupIdeController,
         FillMultibootMemoryMap, CreateBootInfo, ScanTable, CloneTables, Pause,
         JumpToFreeldr, Fail, GoAstray, Over
<1>. QED  BY <1>3, <1>4, <1>5, <1>6, <1>7, <1>8

-----------------------------------------------------------------------------
(* One table more.                                                         *)
LEMMA LastTableNext ==
  ASSUME NEW guid, NEW n \in Nat, NEW t, LastTable(guid, n, t), NEW t2,
         IF machine.tables[n + 1].guid = guid THEN t2 = machine.tables[n + 1].table
         ELSE t2 = t
  PROVE  LastTable(guid, n + 1, t2)
<1>. SUFFICES ASSUME NEW k \in 1..(n + 1), machine.tables[k].guid = guid,
                     \A j \in (k + 1)..(n + 1) : machine.tables[j].guid # guid
              PROVE  t2 = machine.tables[k].table
  BY DEF LastTable
<1>1. CASE k = n + 1
  BY <1>1
<1>2. CASE k # n + 1
  <2>1. k \in 1..n /\ n + 1 \in (k + 1)..(n + 1) /\ (k + 1)..n \subseteq (k + 1)..(n + 1)
    BY <1>2
  <2>. QED  BY <2>1 DEF LastTable
<1>. QED  BY <1>1, <1>2

LEMMA LastTablesKept == IInv /\ [Next]_vars => LastTables'
<1>. SUFFICES ASSUME IInv, [Next]_vars PROVE LastTables'
  OBVIOUS
<1>1. machine' = machine /\ machine \in Machines /\ LastTables
  BY MachineKept DEF IInv, Control
<1>2. CASE ScanTable
  <2>. DEFINE t == machine.tables[i + 1]
              acpi == IF t.guid = "ACPI" THEN t.table ELSE efitab.acpi
              smbios == IF t.guid = "SMBIOS" THEN t.table ELSE efitab.smbios
  <2>1. /\ stage = "LegacyAcpiSmbiosFix" /\ stage' = stage /\ i < Len(machine.tables)
        /\ i' = i + 1
        /\ efitab' = CASE t.guid = "ACPI"   -> [efitab EXCEPT !.acpi = t.table]
                        [] t.guid = "SMBIOS" -> [efitab EXCEPT !.smbios = t.table]
                        [] OTHER             -> efitab
    BY <1>2 DEF ScanTable
  <2>2. i \in Nat /\ i + 1 \in 1..Len(machine.tables) /\ t.table \in Nat
    BY <1>1, <2>1, TheMachine DEF LastTables
  <2>3. efitab \in [acpi : Nat, smbios : Nat]
    BY <1>1 DEF LastTables
  <2>. HIDE DEF t
  <2>4. efitab' = [acpi |-> acpi, smbios |-> smbios]
    <3>1. CASE t.guid = "ACPI"
      <4>1. efitab' = [efitab EXCEPT !.acpi = t.table]
        BY <2>1, <3>1
      <4>. QED  BY <2>3, <3>1, <4>1
    <3>2. CASE t.guid = "SMBIOS"
      <4>1. efitab' = [efitab EXCEPT !.smbios = t.table]
        BY <2>1, <3>2
      <4>. QED  BY <2>3, <3>2, <4>1
    <3>3. CASE t.guid # "ACPI" /\ t.guid # "SMBIOS"
      <4>1. efitab' = efitab
        BY <2>1, <3>3
      <4>. QED  BY <2>3, <3>3, <4>1
    <3>. QED  BY <3>1, <3>2, <3>3
  <2>5. acpi \in Nat /\ smbios \in Nat
    BY <2>2, <2>3
  <2>6. LastTable("ACPI", i + 1, acpi) /\ LastTable("SMBIOS", i + 1, smbios)
    BY <1>1, <2>2, LastTableNext DEF LastTables, t
  <2>. HIDE DEF acpi, smbios
  <2>7. efitab' \in [acpi : Nat, smbios : Nat] /\ efitab'.acpi = acpi /\ efitab'.smbios = smbios
    BY <2>4, <2>5
  <2>8. i' \in 0..Len(machine.tables)
    BY <2>1, <2>2
  <2>. QED  BY <1>1, <2>1, <2>6, <2>7, <2>8 DEF LastTables, LastTable, Cloned
<1>3. CASE UNCHANGED <<efitab, i>> /\ (Cloned' => Cloned \/ i = Len(machine.tables))
  BY <1>1, <1>3 DEF LastTables, LastTable
<1>4. ScanTable \/ UNCHANGED <<efitab, i>>
  BY DEF Next, vars, tableVars, SetupCmdline, GetIdeController, AppleTVFixupIdeController,
         FillMultibootMemoryMap, CreateBootInfo, PassWord, FindMagic, FindNoMagic,
         LoadFreeldr, CloneTables, Pause, JumpToFreeldr, Fail, GoAstray, Over
<1>5. Cloned' => Cloned \/ i = Len(machine.tables)
  <2>1. AppleTVFixupIdeController => ~Cloned'
    BY DEF AppleTVFixupIdeController, Cloned
  <2>. QED  BY <2>1, StageSteps DEF Cloned
<1>. QED  BY <1>2, <1>3, <1>4, <1>5

-----------------------------------------------------------------------------
(* A set of numbers has a least one, and a bounded one a greatest.         *)
LEMMA LeastOf ==
  ASSUME NEW T \in SUBSET Nat, T # {}
  PROVE  \E x \in T : \A y \in T : x <= y
<1>1. PICK x \in T : \A y \in T : <<y, x>> \notin OpToRel(<, Nat)
  BY NatLessThanWellFounded, WFMin
<1>2. \A y, z \in Nat : y < z => <<y, z>> \in OpToRel(<, Nat)
  BY DEF OpToRel
<1>3. \A y \in T : ~(y < x) /\ y \in Nat /\ x \in Nat
  BY <1>1, <1>2
<1>4. \A y \in T : x <= y
  BY <1>3
<1>. QED  BY <1>4

LEMMA GreatestOf ==
  ASSUME NEW n \in Nat, NEW T \in SUBSET (1..n), T # {}
  PROVE  \E x \in T : \A y \in T : y <= x
<1>. DEFINE U == {n - x : x \in T}
<1>1. U \in SUBSET Nat /\ U # {}
  <2>1. \A x \in T : n - x \in Nat /\ n - x \in U
    OBVIOUS
  <2>2. \E x : x \in T
    OBVIOUS
  <2>3. U # {}
    <3>. HIDE DEF U
    <3>. QED  BY <2>1, <2>2
  <2>4. U \subseteq Nat
    BY <2>1
  <2>. QED  BY <2>3, <2>4
<1>. HIDE DEF U
<1>2. PICK u \in U : \A v \in U : u <= v
  BY <1>1, LeastOf
<1>3. PICK x \in T : u = n - x
  BY DEF U
<1>4. ASSUME NEW y \in T PROVE y <= x
  <2>1. n - y \in U
    BY DEF U
  <2>2. u <= n - y
    BY <1>2, <2>1
  <2>3. x \in 1..n /\ y \in 1..n
    OBVIOUS
  <2>. QED  BY <1>3, <2>2, <2>3
<1>. QED  BY <1>4

(* A string ends at its first NUL.                                         *)
LEMMA LengthOf ==
  ASSUME NEW c, NEW n \in 0..(Len(c) - 1), c[n + 1] = NUL, \A k \in 1..n : c[k] # NUL
  PROVE  strlen(c) = n
<1>1. ASSUME NEW x \in 0..(Len(c) - 1), c[x + 1] = NUL, \A k \in 1..x : c[k] # NUL
      PROVE  x = n
  <2>1. ~(x < n)
    <3>. SUFFICES ASSUME x < n PROVE FALSE
      OBVIOUS
    <3>1. x + 1 \in 1..n
      OBVIOUS
    <3>. QED  BY <1>1, <3>1
  <2>2. ~(n < x)
    <3>. SUFFICES ASSUME n < x PROVE FALSE
      OBVIOUS
    <3>1. n + 1 \in 1..x
      OBVIOUS
    <3>. QED  BY <1>1, <3>1
  <2>. QED  BY <2>1, <2>2
<1>. QED  BY <1>1 DEF strlen

(* A flag that is a word of the command line is found in it: the search    *)
(* finds no less than the words, it may find more.                         *)
LEMMA FlagAsks ==
  ASSUME NEW m \in Machines, HasFlag(m.CmdLine)
  PROVE  AsksVerbose(m.CmdLine)
<1>. DEFINE c == m.CmdLine
            n == Len(c)
<1>1. c \in Seq(STRING) /\ c # <<>> /\ \A k \in 1..n : c[k] = NUL <=> k = n
  BY MachineAssumption DEF MachineType
<1>2. n \in Nat \ {0}
  BY <1>1
<1>3. PICK k \in 1..(n - 2) : c[k] = "-" /\ c[k + 1] \in {"v", "s"}
  BY DEF HasFlag
<1>. DEFINE f == c[k + 1]
            flag == <<"-", f, NUL>>
<1>. HIDE DEF c, n, f
<1>4. strlen(c) = n - 1
  <2>1. n - 1 \in 0..(n - 1) /\ c[(n - 1) + 1] = NUL /\ \A j \in 1..(n - 1) : c[j] # NUL
    BY <1>1, <1>2
  <2>. QED  BY <2>1, LengthOf DEF n
<1>5. strlen(flag) = 2
  <2>1. Len(flag) = 3 /\ flag[1] = "-" /\ flag[2] = f /\ flag[3] = NUL
    OBVIOUS
  <2>2. f # NUL /\ "-" # NUL
    BY <1>3 DEF NUL, f
  <2>3. \A j \in 1..2 : j = 1 \/ j = 2
    OBVIOUS
  <2>. HIDE DEF flag
  <2>4. 2 \in 0..(Len(flag) - 1) /\ flag[2 + 1] = NUL /\ \A j \in 1..2 : flag[j] # NUL
    BY <2>1, <2>2, <2>3
  <2>. QED  BY <2>4, LengthOf
<1>. DEFINE At == {at \in 0..(strlen(c) - strlen(flag)) : Same(c, at, flag, strlen(flag))}
<1>6. k - 1 \in At
  <2>1. k - 1 \in 0..(strlen(c) - strlen(flag))
    BY <1>2, <1>4, <1>5
  <2>2. Same(c, k - 1, flag, 2)
    <3>1. c[(k - 1) + 1] = flag[1] /\ c[(k - 1) + 2] = flag[2]
      BY <1>3 DEF f
    <3>2. \A j \in 1..2 : j = 1 \/ j = 2
      OBVIOUS
    <3>. QED  BY <3>1, <3>2 DEF Same
  <2>. QED  BY <1>5, <2>1, <2>2
<1>7. At \in SUBSET Nat
  BY <1>2, <1>4, <1>5
<1>8. \E at \in At : \A other \in At : at <= other
  <2>. HIDE DEF At
  <2>. QED  BY <1>6, <1>7, LeastOf
<1>9. strstr(c, flag) \in At
  BY <1>6, <1>8 DEF strstr
<1>10. strstr(c, flag) # NULL
  BY <1>7, <1>9 DEF NULL
<1>. QED  BY <1>3, <1>10 DEF AsksVerbose, c, f

-----------------------------------------------------------------------------
Objects == {"firmware", "ScreenString", "CmdLine", "PCIDEVICE", "BOOTINFO", "mmap_entry",
            "freeldr"}

(* What Store does to a byte.                                              *)
LEMMA Stored ==
  ASSUME NEW m \in [Address -> ByteType], NEW lo \in Nat, NEW size \in Nat,
         NEW object \in Objects
  PROVE  LET new == Store(m, lo, size, object)
         IN  /\ new \in [Address -> ByteType]
             /\ Holds(new, lo, size, object)
             /\ \A a \in Address : ~InArea(a, lo, size) => new[a] = m[a]
<1>. DEFINE new == Store(m, lo, size, object)
<1>1. \A a \in Address : new[a] = IF InArea(a, lo, size) THEN [of |-> object, at |-> a - lo]
                                  ELSE m[a]
  BY DEF Store
<1>2. \A a \in Address : new[a] \in ByteType
  <2>1. \A a \in Address : InArea(a, lo, size) => a - lo \in Nat
    BY AddressAssumption DEF InArea
  <2>2. \A at \in Nat : [of |-> object, at |-> at] \in ByteType
    BY DEF ByteType, Objects
  <2>. HIDE DEF new
  <2>. QED  BY <1>1, <2>1, <2>2
<1>3. new \in [Address -> ByteType]
  BY <1>2 DEF Store
<1>. HIDE DEF new
<1>4. /\ new \in [Address -> ByteType]
      /\ Holds(new, lo, size, object)
      /\ \A a \in Address : ~InArea(a, lo, size) => new[a] = m[a]
  BY <1>1, <1>3 DEF Holds
<1>. QED  BY <1>4 DEF new

(* What Copy does to a byte.                                               *)
LEMMA Copied ==
  ASSUME NEW m \in [Address -> ByteType], NEW to \in Nat, NEW from \in Nat, NEW size \in Nat
  PROVE  LET new == Copy(m, to, from, size)
         IN  /\ new \in [Address -> ByteType]
             /\ \A a \in Address : ~InArea(a, to, size) => new[a] = m[a]
             /\ Sampled(to, from, size) =>
                  \A a \in Address : InArea(a, to, size) =>
                    from + (a - to) \in Address /\ new[a] = m[from + (a - to)]
<1>. DEFINE new == Copy(m, to, from, size)
            copied(a) == InArea(a, to, size) /\ from + (a - to) \in Address
<1>1. \A a \in Address : new[a] = IF copied(a) THEN m[from + (a - to)] ELSE m[a]
  BY DEF Copy
<1>2. \A a \in Address : new[a] \in ByteType
  BY <1>1
<1>3. new \in [Address -> ByteType]
  BY <1>2 DEF Copy
<1>. HIDE DEF new
<1>4. /\ new \in [Address -> ByteType]
      /\ \A a \in Address : ~InArea(a, to, size) => new[a] = m[a]
      /\ Sampled(to, from, size) =>
           \A a \in Address : InArea(a, to, size) =>
             from + (a - to) \in Address /\ new[a] = m[from + (a - to)]
  BY <1>1, <1>3 DEF Sampled
<1>. QED  BY <1>4 DEF new

(* The order of the fixed areas.                                           *)
LEMMA Layout ==
  /\ CMDLINE_LOC \in Nat /\ BOOTINFO_LOC \in Nat /\ MEMORY_MAP_ADDR \in Nat
  /\ ACPI_TABLE_LOW \in Nat /\ SMBIOS_TABLE_LOW \in Nat
  /\ WRAPPER_BASE \in Nat /\ WrapperSize \in Nat
  /\ BootInfoSize = 40 /\ ScreenStringSize = 24 /\ MACH_CMDLINE = 1024 /\ MapEntrySize = 20
  /\ RsdpSize = 36 /\ SmbiosSize = 31
  /\ 40 <= CMDLINE_LOC /\ CMDLINE_LOC + 1047 <= BOOTINFO_LOC
  /\ BOOTINFO_LOC + 40 <= ACPI_TABLE_LOW /\ ACPI_TABLE_LOW + 36 <= SMBIOS_TABLE_LOW
  /\ SMBIOS_TABLE_LOW + 31 <= MEMORY_MAP_ADDR /\ MEMORY_MAP_ADDR <= WRAPPER_BASE
BY LayoutAssumption DEF BootInfoSize, ScreenStringSize, MACH_CMDLINE, MapEntrySize, RsdpSize,
   SmbiosSize

(* Areas that do not meet share no byte.                                   *)
LEMMA ApartAreas ==
  ASSUME NEW lo1 \in Nat, NEW size1 \in Nat, NEW lo2 \in Nat, NEW size2 \in Nat,
         Apart(<<lo1, size1>>, <<lo2, size2>>), NEW a \in Nat, InArea(a, lo1, size1)
  PROVE  ~InArea(a, lo2, size2)
BY DEF Apart, Meet, InArea

(* The entries a map becomes fit the area set aside for them.              *)
LEMMA MapFits ==
  ASSUME Control, NEW c, NEW p, NEW m, Account(machine.EfiMemoryMap, c, p, m)
  PROVE  /\ MaxEntries(machine) \in Nat /\ MapEntrySize * MaxEntries(machine) \in Nat
         /\ MapEntrySize * Len(m) \in Nat
         /\ MapEntrySize * Len(m) <= MapEntrySize * MaxEntries(machine)
<1>. DEFINE efi == machine.EfiMemoryMap
<1>1. efi \in EfiMaps /\ Len(efi) \in Nat /\ Len(m) \in Nat
  BY MemoryAssumption DEF Account
<1>2. MaxEntries(machine) = Len(efi) + Cardinality(Spanning(efi, Len(efi)))
  BY DEF MaxEntries, Spanning
<1>3. Cardinality(Spanning(efi, Len(efi))) \in Nat
  BY <1>1, SpanningFinite
<1>4. Len(m) <= MaxEntries(machine)
  BY <1>2, EntriesBounded
<1>5. MaxEntries(machine) \in Nat
  BY <1>1, <1>2, <1>3
<1>. QED  BY <1>1, <1>4, <1>5 DEF MapEntrySize

(* The last table of a GUID.                                               *)
LEMMA TheTable ==
  ASSUME NEW m \in Machines, NEW guid, Tables(m, guid) # {}
  PROVE  /\ TableOf(m, guid) \in Nat
         /\ \E k \in Tables(m, guid) :
              /\ \A j \in Tables(m, guid) : j <= k
              /\ TableOf(m, guid) = m.tables[k].table
<1>1. /\ Len(m.tables) \in Nat /\ \A k \in 1..Len(m.tables) : m.tables[k].table \in Nat
      /\ Tables(m, guid) \in SUBSET (1..Len(m.tables))
  BY TheMachine DEF Tables
<1>2. \E k \in Tables(m, guid) : \A j \in Tables(m, guid) : j <= k
  BY <1>1, GreatestOf
<1>. DEFINE last == CHOOSE k \in Tables(m, guid) : \A j \in Tables(m, guid) : j <= k
<1>3. last \in Tables(m, guid) /\ \A j \in Tables(m, guid) : j <= last
  BY <1>2
<1>4. TableOf(m, guid) = m.tables[last].table
  BY DEF TableOf
<1>. HIDE DEF last
<1>. QED  BY <1>1, <1>3, <1>4

(* At its end the loop has it.                                             *)
LEMMA LoopFindsTable ==
  ASSUME Control, NEW guid, Tables(machine, guid) # {}, NEW t,
         LastTable(guid, Len(machine.tables), t)
  PROVE  t = TableOf(machine, guid)
<1>. DEFINE n == Len(machine.tables)
<1>1. PICK k \in Tables(machine, guid) :
        /\ \A j \in Tables(machine, guid) : j <= k
        /\ TableOf(machine, guid) = machine.tables[k].table
  BY TheTable DEF Control
<1>2. n \in Nat /\ k \in 1..n /\ machine.tables[k].guid = guid
  BY TheMachine DEF Control, Tables
<1>3. ASSUME NEW j \in (k + 1)..n, machine.tables[j].guid = guid PROVE FALSE
  <2>1. j \in 1..n /\ ~(j <= k)
    BY <1>2
  <2>2. j \in Tables(machine, guid)
    BY <1>3, <2>1 DEF Tables
  <2>. QED  BY <1>1, <2>1, <2>2
<1>. QED  BY <1>1, <1>2, <1>3 DEF LastTable

-----------------------------------------------------------------------------
(* The areas the loader fills, one by one.                                 *)
Elsewhere(a) ==
  /\ ~InArea(a, 0, 40) /\ ~InArea(a, CMDLINE_LOC, 1047) /\ ~InArea(a, BOOTINFO_LOC, 40)
  /\ ~InArea(a, MEMORY_MAP_ADDR, MapEntrySize * MaxEntries(machine))
  /\ ~InArea(a, ACPI_TABLE_LOW, 36) /\ ~InArea(a, SMBIOS_TABLE_LOW, 31)

LEMMA FilledAreas ==
  \A a : Elsewhere(a) <=> \A area \in Filled : ~InArea(a, area[1], area[2])
<1>1. ScreenStringSize - 1 + MACH_CMDLINE = 1047
  BY Layout
<1>. QED  BY <1>1, Layout DEF Elsewhere, Filled

InImage(a) == InArea(a, LoadAddress(machine), machine.freeldr.len)

(* What is still as it was.                                                *)
LEMMA UntouchedKept ==
  ASSUME machine' = machine, Untouched, Loaded => Loaded',
         \A a \in Address : Elsewhere(a) /\ (Loaded' => ~InImage(a)) => mem'[a] = mem[a]
  PROVE  Untouched'
<1>1. Filled' = Filled
  BY DEF Filled
<1>. SUFFICES ASSUME NEW a \in Address, \A area \in Filled : ~InArea(a, area[1], area[2]),
                     Loaded' => ~InImage(a)
              PROVE  mem'[a] = [of |-> "firmware", at |-> a]
  BY <1>1 DEF Untouched, InImage
<1>2. mem'[a] = mem[a]
  BY FilledAreas
<1>. QED  BY <1>2 DEF Untouched, InImage

LEMMA HoldsKept ==
  ASSUME NEW m, NEW m2, NEW lo, NEW size, NEW object, Holds(m, lo, size, object),
         \A a \in Address : InArea(a, lo, size) => m2[a] = m[a]
  PROVE  Holds(m2, lo, size, object)
BY DEF Holds

LEMMA CmdlineKept ==
  ASSUME machine' = machine, CmdlineHeld,
         \A a \in Address : InArea(a, CMDLINE_LOC, 1047) => mem'[a] = mem[a]
  PROVE  CmdlineHeld'
<1>1. PICK prefix \in {0, ScreenStringSize - 1} :
        /\ HasFlag(machine.CmdLine) => prefix # 0
        /\ Holds(mem, CMDLINE_LOC, prefix, "ScreenString")
        /\ Holds(mem, CMDLINE_LOC + prefix, MACH_CMDLINE, "CmdLine")
  BY DEF CmdlineHeld
<1>2. ASSUME NEW a \in Address,
             InArea(a, CMDLINE_LOC, prefix) \/ InArea(a, CMDLINE_LOC + prefix, MACH_CMDLINE)
      PROVE  InArea(a, CMDLINE_LOC, 1047)
  BY <1>2, Layout, AddressAssumption DEF InArea
<1>3. /\ Holds(mem', CMDLINE_LOC, prefix, "ScreenString")
      /\ Holds(mem', CMDLINE_LOC + prefix, MACH_CMDLINE, "CmdLine")
  BY <1>1, <1>2, HoldsKept
<1>. QED  BY <1>1, <1>3 DEF CmdlineHeld

(* On a clear machine the image covers none of the areas.                  *)
LEMMA ImageClear ==
  ASSUME Control, Clear(machine), stage = "LoadFreeldr" \/ Loaded, Search,
         MapEntrySize * MaxEntries(machine) \in Nat, NEW a \in Address, InImage(a)
  PROVE  /\ Elsewhere(a) /\ ~InArea(a, WRAPPER_BASE, WrapperSize)
         /\ \A area \in ReadLast(machine) :
              area[1] \in Nat /\ area[2] \in Nat /\ area = <<area[1], area[2]>>
                => ~InArea(a, area[1], area[2])
<1>1. /\ HasHeader(machine.freeldr) /\ LoadAddress(machine) \in Nat
      /\ machine.freeldr.len \in Nat /\ a \in Nat
  BY TheMachine, AddressAssumption DEF Control, Search, LoadAddress
<1>2. \A area \in FixedAreas(machine) \cup ReadLast(machine) :
        Apart(<<LoadAddress(machine), machine.freeldr.len>>, area)
  BY <1>1 DEF Clear
<1>3. \A area \in FixedAreas(machine) \cup ReadLast(machine) :
        area[1] \in Nat /\ area[2] \in Nat /\ area = <<area[1], area[2]>>
          => ~InArea(a, area[1], area[2])
  BY <1>1, <1>2, ApartAreas DEF InImage
<1>4. /\ <<0, 40>> \in FixedAreas(machine) /\ <<CMDLINE_LOC, 1047>> \in FixedAreas(machine)
      /\ <<BOOTINFO_LOC, 40>> \in FixedAreas(machine)
      /\ <<MEMORY_MAP_ADDR, MapEntrySize * MaxEntries(machine)>> \in FixedAreas(machine)
      /\ <<ACPI_TABLE_LOW, 36>> \in FixedAreas(machine)
      /\ <<SMBIOS_TABLE_LOW, 31>> \in FixedAreas(machine)
      /\ <<WRAPPER_BASE, WrapperSize>> \in FixedAreas(machine)
  <2>1. ScreenStringSize - 1 + MACH_CMDLINE = 1047
    BY Layout
  <2>. QED  BY <2>1, Layout DEF FixedAreas
<1>. DEFINE Out(lo, size) == ~InArea(a, lo, size)
<1>5. \A lo, size \in Nat : <<lo, size>> \in FixedAreas(machine) => Out(lo, size)
  BY <1>3
<1>. HIDE DEF Out
<1>6. /\ Out(0, 40) /\ Out(CMDLINE_LOC, 1047) /\ Out(BOOTINFO_LOC, 40)
      /\ Out(MEMORY_MAP_ADDR, MapEntrySize * MaxEntries(machine))
      /\ Out(ACPI_TABLE_LOW, 36) /\ Out(SMBIOS_TABLE_LOW, 31)
      /\ Out(WRAPPER_BASE, WrapperSize)
  BY <1>4, <1>5, Layout
<1>. QED  BY <1>3, <1>6 DEF Elsewhere, Out

-----------------------------------------------------------------------------
(* What the loader reads are areas of memory ...                           *)
LEMMA ReadAreas ==
  ASSUME NEW m \in Machines
  PROVE  /\ \A area \in ReadLast(m) \cup {EfiMapArea(m)} :
              area[1] \in Nat /\ area[2] \in Nat /\ area = <<area[1], area[2]>>
         /\ Tables(m, "ACPI") # {} => <<TableOf(m, "ACPI"), 36>> \in ReadLast(m)
         /\ Tables(m, "SMBIOS") # {} => <<TableOf(m, "SMBIOS"), 31>> \in ReadLast(m)
<1>1. /\ m \in MachineType /\ Len(m.tables) \in Nat
      /\ m.EfiMemoryMap \in EfiMaps
  BY TheMachine
<1>2. Len(m.EfiMemoryMap) \in Nat
  BY <1>1, MemoryAssumption
<1>3. /\ m.at \in [BootArgs : Nat, EfiMemoryMap : Nat, EfiSystemTable : Nat, tables : Nat]
      /\ m.EfiMemoryDescriptorSize \in Nat
  BY <1>1 DEF MachineType
<1>4. /\ m.at.BootArgs \in Nat /\ m.at.EfiMemoryMap \in Nat
      /\ m.at.EfiSystemTable \in Nat /\ m.at.tables \in Nat
  BY <1>3
<1>5. \A x, y \in Nat : x * y \in Nat
  OBVIOUS
<1>6. /\ ConfigTableSize * Len(m.tables) \in Nat
      /\ m.EfiMemoryDescriptorSize * Len(m.EfiMemoryMap) \in Nat
      /\ BootArgsSize \in Nat /\ SystemTableSize \in Nat
  BY <1>1, <1>2, <1>3, <1>5 DEF ConfigTableSize, BootArgsSize, SystemTableSize
<1>. DEFINE IsArea(area) == area[1] \in Nat /\ area[2] \in Nat /\ area = <<area[1], area[2]>>
            found == {g \in {"ACPI", "SMBIOS"} : Tables(m, g) # {}}
            clone(g) == <<TableOf(m, g), IF g = "ACPI" THEN RsdpSize ELSE SmbiosSize>>
<1>7. \A g \in found : IsArea(clone(g))
  <2>1. \A g \in found : TableOf(m, g) \in Nat
    BY TheTable
  <2>. QED  BY <2>1, Layout
<1>8. ReadLast(m) =
        {<<m.at.BootArgs, BootArgsSize>>, <<m.at.EfiSystemTable, SystemTableSize>>,
         <<m.at.tables, ConfigTableSize * Len(m.tables)>>} \cup {clone(g) : g \in found}
  BY DEF ReadLast, Arguments
<1>9. Tables(m, "ACPI") # {} => "ACPI" \in found /\ clone("ACPI") = <<TableOf(m, "ACPI"), 36>>
  BY Layout
<1>10. /\ Tables(m, "SMBIOS") # {} =>
            "SMBIOS" \in found /\ clone("SMBIOS") = <<TableOf(m, "SMBIOS"), 31>>
  BY Layout
<1>11. \A x, y \in Nat : IsArea(<<x, y>>)
  OBVIOUS
<1>12. IsArea(EfiMapArea(m))
  BY <1>4, <1>6, <1>11 DEF EfiMapArea
<1>. HIDE DEF IsArea, found, clone
<1>13. \A area \in ReadLast(m) : IsArea(area)
  BY <1>4, <1>6, <1>7, <1>8, <1>11
<1>14. /\ "ACPI" \in found => clone("ACPI") \in ReadLast(m)
       /\ "SMBIOS" \in found => clone("SMBIOS") \in ReadLast(m)
  BY <1>8
<1>. QED  BY <1>9, <1>10, <1>12, <1>13, <1>14 DEF IsArea

(* ... and on a clear machine no step has written to them by the time they *)
(* are read.                                                               *)
LEMMA InputKept ==
  ASSUME IInv, Clear(machine),
         NEW area \in ReadLast(machine) \cup {EfiMapArea(machine)},
         Loaded => area \in ReadLast(machine),
         NEW b \in Address, InArea(b, area[1], area[2])
  PROVE  Elsewhere(b) /\ mem[b] = [of |-> "firmware", at |-> b]
<1>1. /\ area[1] \in Nat /\ area[2] \in Nat /\ area = <<area[1], area[2]>> /\ b \in Nat
      /\ Control /\ Search /\ Untouched
  BY ReadAreas, AddressAssumption DEF IInv, Control, Memory
<1>2. MapEntrySize * MaxEntries(machine) \in Nat
  BY MapFits DEF IInv, Conversion
<1>3. \A fixed \in FixedAreas(machine) : Apart(fixed, area)
  BY DEF Clear
<1>. DEFINE Out(lo, size) == ~InArea(b, lo, size)
<1>4. \A lo, size \in Nat : <<lo, size>> \in FixedAreas(machine) => Out(lo, size)
  BY <1>1, <1>3, ApartAreas
<1>5. /\ <<0, 40>> \in FixedAreas(machine) /\ <<CMDLINE_LOC, 1047>> \in FixedAreas(machine)
      /\ <<BOOTINFO_LOC, 40>> \in FixedAreas(machine)
      /\ <<MEMORY_MAP_ADDR, MapEntrySize * MaxEntries(machine)>> \in FixedAreas(machine)
      /\ <<ACPI_TABLE_LOW, 36>> \in FixedAreas(machine)
      /\ <<SMBIOS_TABLE_LOW, 31>> \in FixedAreas(machine)
  <2>1. ScreenStringSize - 1 + MACH_CMDLINE = 1047
    BY Layout
  <2>. QED  BY <2>1, Layout DEF FixedAreas
<1>. HIDE DEF Out
<1>6. /\ Out(0, 40) /\ Out(CMDLINE_LOC, 1047) /\ Out(BOOTINFO_LOC, 40)
      /\ Out(MEMORY_MAP_ADDR, MapEntrySize * MaxEntries(machine))
      /\ Out(ACPI_TABLE_LOW, 36) /\ Out(SMBIOS_TABLE_LOW, 31)
  BY <1>2, <1>4, <1>5, Layout
<1>7. Elsewhere(b)
  BY <1>6 DEF Elsewhere, Out
<1>8. Loaded => ~InImage(b)
  BY <1>1, <1>2, ImageClear
<1>. QED  BY <1>1, <1>7, <1>8, FilledAreas DEF Untouched, InImage

(* Nothing that is still to be read, nor the loader itself, has been       *)
(* written to: on a clear machine the loader does not go astray.           *)
LEMMA NothingLost ==
  ASSUME IInv, Clear(machine), NEW a \in Address, NEW area \in ToRead(ReadLast(machine)),
         InArea(a, area[1], area[2])
  PROVE  mem[a] = [of |-> "firmware", at |-> a]
<1>1. CASE area # <<WRAPPER_BASE, WrapperSize>>
  <2>1. /\ area \in ReadLast(machine) \cup {EfiMapArea(machine)}
        /\ Loaded => area \in ReadLast(machine)
    BY <1>1 DEF ToRead, Loaded
  <2>. QED  BY <2>1, InputKept
<1>2. CASE area = <<WRAPPER_BASE, WrapperSize>>
  <2>. DEFINE room == MapEntrySize * MaxEntries(machine)
  <2>1. /\ Control /\ Search /\ Untouched /\ room \in Nat
        /\ InArea(a, WRAPPER_BASE, WrapperSize) /\ MEMORY_MAP_ADDR + room <= WRAPPER_BASE
    BY <1>2, MapFits DEF IInv, Memory, Conversion, Clear
  <2>2. Loaded => ~InImage(a)
    BY <2>1, ImageClear
  <2>. HIDE DEF room
  <2>3. /\ ~InArea(a, 0, 40) /\ ~InArea(a, CMDLINE_LOC, 1047) /\ ~InArea(a, BOOTINFO_LOC, 40)
        /\ ~InArea(a, MEMORY_MAP_ADDR, room)
        /\ ~InArea(a, ACPI_TABLE_LOW, 36) /\ ~InArea(a, SMBIOS_TABLE_LOW, 31)
    BY <2>1, Layout, AddressAssumption DEF InArea
  <2>4. Elsewhere(a)
    BY <2>3 DEF Elsewhere, room
  <2>. QED  BY <2>1, <2>2, <2>4, FilledAreas DEF Untouched, InImage
<1>. QED  BY <1>1, <1>2

-----------------------------------------------------------------------------
(* The command line goes to its place, in full.                            *)
LEMMA CmdlineStored == IInv /\ SetupCmdline => Memory'
<1>. SUFFICES ASSUME IInv, SetupCmdline PROVE Memory'
  OBVIOUS
<1>1. /\ machine' = machine /\ map' = map /\ stage = "SetupCmdline"
      /\ stage' = "AppleTVFixupIdeController"
      /\ mem' = CmdlineAfter(AsksVerbose(machine.CmdLine))
  BY DEF SetupCmdline, mapVars
<1>2. mem \in [Address -> ByteType] /\ Untouched /\ machine \in Machines
  BY <1>1 DEF IInv, Memory, Control
<1>. DEFINE prefixed == Store(mem, CMDLINE_LOC, 24, "ScreenString")
<1>3. /\ mem' \in [Address -> ByteType] /\ CmdlineHeld'
      /\ \A a \in Address : ~InArea(a, CMDLINE_LOC, 1047) => mem'[a] = mem[a]
  <2>1. CASE AsksVerbose(machine.CmdLine)
    <3>1. mem' = Store(prefixed, CMDLINE_LOC + 23, 1024, "CmdLine")
      BY <1>1, <2>1, Layout DEF CmdlineAfter
    <3>2. /\ prefixed \in [Address -> ByteType]
          /\ Holds(prefixed, CMDLINE_LOC, 24, "ScreenString")
          /\ \A a \in Address : ~InArea(a, CMDLINE_LOC, 24) => prefixed[a] = mem[a]
      BY <1>2, Stored, Layout DEF Objects
    <3>. HIDE DEF prefixed
    <3>3. CMDLINE_LOC + 23 \in Nat
      BY Layout
    <3>4. /\ mem' \in [Address -> ByteType]
          /\ Holds(mem', CMDLINE_LOC + 23, 1024, "CmdLine")
          /\ \A a \in Address : ~InArea(a, CMDLINE_LOC + 23, 1024) => mem'[a] = prefixed[a]
      BY <3>1, <3>2, <3>3, Stored DEF Objects
    <3>5. \A a \in Address : InArea(a, CMDLINE_LOC, 23) =>
            InArea(a, CMDLINE_LOC, 24) /\ ~InArea(a, CMDLINE_LOC + 23, 1024)
      BY Layout, AddressAssumption DEF InArea
    <3>6. Holds(mem', CMDLINE_LOC, 23, "ScreenString")
      BY <3>2, <3>4, <3>5 DEF Holds
    <3>7. \A a \in Address : ~InArea(a, CMDLINE_LOC, 1047) =>
            ~InArea(a, CMDLINE_LOC, 24) /\ ~InArea(a, CMDLINE_LOC + 23, 1024)
      BY Layout, AddressAssumption DEF InArea
    <3>8. CmdlineHeld'
      <4>1. ScreenStringSize - 1 = 23 /\ MACH_CMDLINE = 1024
        BY Layout
      <4>. QED  BY <3>4, <3>6, <4>1 DEF CmdlineHeld
    <3>. QED  BY <3>2, <3>4, <3>7, <3>8
  <2>2. CASE ~AsksVerbose(machine.CmdLine)
    <3>1. mem' = Store(mem, CMDLINE_LOC, 1024, "CmdLine")
      BY <1>1, <2>2, Layout DEF CmdlineAfter
    <3>2. /\ mem' \in [Address -> ByteType]
          /\ Holds(mem', CMDLINE_LOC, 1024, "CmdLine")
          /\ \A a \in Address : ~InArea(a, CMDLINE_LOC, 1024) => mem'[a] = mem[a]
      BY <1>2, <3>1, Stored, Layout DEF Objects
    <3>3. ~HasFlag(machine.CmdLine)
      BY <1>2, <2>2, FlagAsks
    <3>4. Holds(mem', CMDLINE_LOC, 0, "ScreenString") /\ CMDLINE_LOC + 0 = CMDLINE_LOC
      BY Layout, AddressAssumption DEF Holds, InArea
    <3>5. CmdlineHeld'
      <4>1. MACH_CMDLINE = 1024
        BY Layout
      <4>. QED  BY <1>1, <3>2, <3>3, <3>4, <4>1 DEF CmdlineHeld
    <3>6. \A a \in Address : ~InArea(a, CMDLINE_LOC, 1047) => ~InArea(a, CMDLINE_LOC, 1024)
      BY Layout, AddressAssumption DEF InArea
    <3>. QED  BY <3>2, <3>5, <3>6
  <2>. QED  BY <2>1, <2>2
<1>4. Untouched'
  <2>1. ~Loaded /\ ~Loaded'
    BY <1>1 DEF Loaded
  <2>. QED  BY <1>1, <1>2, <1>3, <2>1, UntouchedKept DEF Elsewhere
<1>5. ASSUME Clear(machine) PROVE InPlace'
  <2>1. Holds(mem, MEMORY_MAP_ADDR, MapEntrySize * Len(map), "mmap_entry")
    BY <1>5 DEF IInv, Memory, InPlace
  <2>2. \A a \in Address : \A size : InArea(a, MEMORY_MAP_ADDR, size) =>
          ~InArea(a, CMDLINE_LOC, 1047)
    BY Layout, AddressAssumption DEF InArea
  <2>3. Holds(mem', MEMORY_MAP_ADDR, MapEntrySize * Len(map), "mmap_entry")
    BY <1>3, <2>1, <2>2, HoldsKept
  <2>. QED  BY <1>1, <1>3, <2>3 DEF InPlace, Loaded, Cloned
<1>. QED  BY <1>1, <1>3, <1>4, <1>5 DEF Memory

(* Before the boot info is put together only the command line and the map  *)
(* are in their places, and a step that writes elsewhere leaves them.      *)
LEMMA EarlyKept ==
  ASSUME IInv, machine' = machine, Clear(machine), CmdlineHeld, map' = map,
         stage' \in {"AppleTVFixupIdeController", "CreateBootInfo"},
         \A a \in Address : ~InArea(a, 0, 40) => mem'[a] = mem[a]
  PROVE  InPlace'
<1>1. Holds(mem, MEMORY_MAP_ADDR, MapEntrySize * Len(map), "mmap_entry")
  BY DEF IInv, Memory, InPlace
<1>2. \A a \in Address : \A size : InArea(a, MEMORY_MAP_ADDR, size) => ~InArea(a, 0, 40)
  BY Layout, AddressAssumption DEF InArea
<1>3. Holds(mem', MEMORY_MAP_ADDR, MapEntrySize * Len(map), "mmap_entry")
  BY <1>1, <1>2, HoldsKept
<1>4. \A a \in Address : InArea(a, CMDLINE_LOC, 1047) => ~InArea(a, 0, 40)
  BY Layout, AddressAssumption DEF InArea
<1>5. CmdlineHeld'
  BY <1>4, CmdlineKept
<1>. QED  BY <1>3, <1>5 DEF InPlace, Loaded, Cloned

(* The scan's result goes to address 0.                                    *)
LEMMA PciDeviceStored == IInv /\ GetIdeController => Memory'
<1>. SUFFICES ASSUME IInv, GetIdeController PROVE Memory'
  OBVIOUS
<1>1. /\ machine' = machine /\ map' = map /\ stage = "AppleTVFixupIdeController"
      /\ stage' = stage /\ (mem' = Store(mem, 0, 3, "PCIDEVICE") \/ mem' = mem)
  BY DEF GetIdeController, mapVars
<1>2. mem \in [Address -> ByteType] /\ Untouched /\ machine \in Machines
  BY <1>1 DEF IInv, Memory, Control
<1>3. /\ mem' \in [Address -> ByteType]
      /\ \A a \in Address : ~InArea(a, 0, 40) => mem'[a] = mem[a]
  <2>1. CASE mem' = mem
    BY <1>2, <2>1
  <2>2. CASE mem' = Store(mem, 0, 3, "PCIDEVICE")
    <3>1. /\ mem' \in [Address -> ByteType]
          /\ \A a \in Address : ~InArea(a, 0, 3) => mem'[a] = mem[a]
      BY <1>2, <2>2, Stored DEF Objects
    <3>2. \A a \in Address : ~InArea(a, 0, 40) => ~InArea(a, 0, 3)
      BY AddressAssumption DEF InArea
    <3>. QED  BY <3>1, <3>2
  <2>. QED  BY <1>1, <2>1, <2>2
<1>4. Untouched'
  <2>1. ~Loaded /\ ~Loaded'
    BY <1>1 DEF Loaded
  <2>. QED  BY <1>1, <1>2, <1>3, <2>1, UntouchedKept DEF Elsewhere
<1>5. ASSUME Clear(machine) PROVE InPlace'
  <2>1. CmdlineHeld
    BY <1>1, <1>5 DEF IInv, Memory, InPlace
  <2>. QED  BY <1>1, <1>3, <1>5, <2>1, EarlyKept
<1>. QED  BY <1>1, <1>3, <1>4, <1>5 DEF Memory

(* The entries go to MemoryMapAddr, and never beyond the room there is for *)
(* as many as the firmware's descriptors account for.                      *)
LEMMA EntriesStored == IInv /\ FillMultibootMemoryMap => Memory'
<1>. SUFFICES ASSUME IInv, FillMultibootMemoryMap PROVE Memory'
  OBVIOUS
<1>. DEFINE size == MapEntrySize * Len(map')
            room == MapEntrySize * MaxEntries(machine)
<1>1. /\ machine' = machine /\ stage' = stage /\ stage = "CreateBootInfo"
      /\ Account(machine.EfiMemoryMap, converted', passed', map')
  BY ConversionSteps
<1>2. mem' = Store(mem, MEMORY_MAP_ADDR, size, "mmap_entry")
  BY DEF FillMultibootMemoryMap, MemoryMap!EntrySize, MapEntrySize
<1>3. mem \in [Address -> ByteType] /\ Untouched /\ Control /\ machine \in Machines
  BY <1>1 DEF IInv, Memory, Control
<1>4. size \in Nat /\ room \in Nat /\ size <= room
  BY <1>1, <1>3, MapFits
<1>. HIDE DEF size, room
<1>5. /\ mem' \in [Address -> ByteType]
      /\ Holds(mem', MEMORY_MAP_ADDR, size, "mmap_entry")
      /\ \A a \in Address : ~InArea(a, MEMORY_MAP_ADDR, size) => mem'[a] = mem[a]
  BY <1>2, <1>3, <1>4, Stored, Layout DEF Objects
<1>6. \A a \in Address : InArea(a, MEMORY_MAP_ADDR, size) => InArea(a, MEMORY_MAP_ADDR, room)
  BY <1>4, Layout, AddressAssumption DEF InArea
<1>7. Untouched'
  <2>1. ~Loaded /\ ~Loaded'
    BY <1>1 DEF Loaded
  <2>2. \A a \in Address : Elsewhere(a) => ~InArea(a, MEMORY_MAP_ADDR, room)
    BY DEF Elsewhere, room
  <2>3. \A a \in Address : Elsewhere(a) => mem'[a] = mem[a]
    BY <1>5, <1>6, <2>2
  <2>. QED  BY <1>1, <1>3, <2>1, <2>3, UntouchedKept
<1>8. ASSUME Clear(machine) PROVE InPlace'
  <2>1. CmdlineHeld
    BY <1>1, <1>8 DEF IInv, Memory, InPlace
  <2>2. \A a \in Address : InArea(a, CMDLINE_LOC, 1047) => ~InArea(a, MEMORY_MAP_ADDR, size)
    BY Layout, AddressAssumption DEF InArea
  <2>3. CmdlineHeld'
    BY <1>1, <1>5, <2>1, <2>2, CmdlineKept
  <2>. QED  BY <1>1, <1>5, <2>3 DEF InPlace, Loaded, Cloned, size
<1>. QED  BY <1>1, <1>5, <1>7, <1>8 DEF Memory

(* The boot info is a copy of the one put together at address 0.           *)
LEMMA BootInfoStored == IInv /\ CreateBootInfo => Memory'
<1>. SUFFICES ASSUME IInv, CreateBootInfo PROVE Memory'
  OBVIOUS
<1>. DEFINE staged == Store(mem, 0, 40, "BOOTINFO")
<1>1. /\ machine' = machine /\ map' = map /\ stage = "CreateBootInfo"
      /\ stage' = "ValidateFreeldr" /\ mem' = Copy(staged, BOOTINFO_LOC, 0, 40)
  BY Layout DEF CreateBootInfo, mapVars
<1>2. mem \in [Address -> ByteType] /\ Untouched /\ machine \in Machines
  BY <1>1 DEF IInv, Memory, Control
<1>3. /\ staged \in [Address -> ByteType]
      /\ Holds(staged, 0, 40, "BOOTINFO")
      /\ \A a \in Address : ~InArea(a, 0, 40) => staged[a] = mem[a]
  BY <1>2, Stored DEF Objects
<1>. HIDE DEF staged
<1>4. Sampled(BOOTINFO_LOC, 0, 40)
  BY SampleAssumption, Layout
<1>5. /\ mem' \in [Address -> ByteType]
      /\ \A a \in Address : ~InArea(a, BOOTINFO_LOC, 40) => mem'[a] = staged[a]
      /\ \A a \in Address : InArea(a, BOOTINFO_LOC, 40) =>
           0 + (a - BOOTINFO_LOC) \in Address /\ mem'[a] = staged[0 + (a - BOOTINFO_LOC)]
  BY <1>1, <1>3, <1>4, Copied, Layout
<1>6. Holds(mem', BOOTINFO_LOC, 40, "BOOTINFO")
  <2>. SUFFICES ASSUME NEW a \in Address, InArea(a, BOOTINFO_LOC, 40)
                PROVE  mem'[a] = [of |-> "BOOTINFO", at |-> a - BOOTINFO_LOC]
    BY DEF Holds
  <2>. DEFINE b == 0 + (a - BOOTINFO_LOC)
  <2>1. b \in Address /\ mem'[a] = staged[b]
    BY <1>5
  <2>2. InArea(b, 0, 40) /\ b - 0 = a - BOOTINFO_LOC
    BY Layout, AddressAssumption DEF InArea
  <2>. HIDE DEF b
  <2>. QED  BY <1>3, <2>1, <2>2 DEF Holds
<1>7. Untouched'
  <2>1. ~Loaded /\ ~Loaded'
    BY <1>1 DEF Loaded
  <2>. QED  BY <1>1, <1>2, <1>3, <1>5, <2>1, UntouchedKept DEF Elsewhere
<1>8. ASSUME Clear(machine) PROVE InPlace'
  <2>1. CmdlineHeld /\ Holds(mem, MEMORY_MAP_ADDR, MapEntrySize * Len(map), "mmap_entry")
    BY <1>1, <1>8 DEF IInv, Memory, InPlace
  <2>2. \A a \in Address : \A size : InArea(a, CMDLINE_LOC, 1047) \/ InArea(a, MEMORY_MAP_ADDR, size)
          => ~InArea(a, 0, 40) /\ ~InArea(a, BOOTINFO_LOC, 40)
    BY Layout, AddressAssumption DEF InArea
  <2>3. CmdlineHeld'
    BY <1>1, <1>3, <1>5, <2>1, <2>2, CmdlineKept
  <2>4. Holds(mem', MEMORY_MAP_ADDR, MapEntrySize * Len(map), "mmap_entry")
    BY <1>3, <1>5, <2>1, <2>2, HoldsKept
  <2>5. BootInfoSize = 40
    BY Layout
  <2>. QED  BY <1>1, <1>6, <2>3, <2>4, <2>5 DEF InPlace, Loaded, Cloned
<1>. QED  BY <1>1, <1>5, <1>7, <1>8 DEF Memory

(* What is in its place when the image is loaded is outside what a later   *)
(* step writes to.                                                         *)
LEMMA PlacesKept ==
  ASSUME IInv, Clear(machine), machine' = machine, map' = map,
         stage = "LoadFreeldr" \/ Loaded,
         \A a \in Address :
           \/ InArea(a, CMDLINE_LOC, 1047) \/ InArea(a, BOOTINFO_LOC, 40)
           \/ InArea(a, MEMORY_MAP_ADDR, MapEntrySize * MaxEntries(machine))
           => mem'[a] = mem[a]
  PROVE  /\ CmdlineHeld' /\ Holds(mem', BOOTINFO_LOC, BootInfoSize, "BOOTINFO")
         /\ Holds(mem', MEMORY_MAP_ADDR, MapEntrySize * Len(map'), "mmap_entry")
<1>1. /\ CmdlineHeld /\ Holds(mem, BOOTINFO_LOC, 40, "BOOTINFO")
      /\ Holds(mem, MEMORY_MAP_ADDR, MapEntrySize * Len(map), "mmap_entry")
  BY Layout DEF IInv, Memory, InPlace, Loaded
<1>2. CmdlineHeld'
  BY <1>1, CmdlineKept
<1>3. Holds(mem', BOOTINFO_LOC, 40, "BOOTINFO")
  BY <1>1, HoldsKept
<1>. DEFINE size == MapEntrySize * Len(map)
            room == MapEntrySize * MaxEntries(machine)
<1>4. size \in Nat /\ room \in Nat /\ size <= room
  BY MapFits DEF IInv, Conversion
<1>. HIDE DEF size, room
<1>5. \A a \in Address : InArea(a, MEMORY_MAP_ADDR, size) => InArea(a, MEMORY_MAP_ADDR, room)
  BY <1>4, Layout, AddressAssumption DEF InArea
<1>6. \A a \in Address : InArea(a, MEMORY_MAP_ADDR, size) => mem'[a] = mem[a]
  BY <1>5 DEF room
<1>7. Holds(mem', MEMORY_MAP_ADDR, size, "mmap_entry")
  BY <1>1, <1>6, HoldsKept DEF size
<1>. QED  BY <1>2, <1>3, <1>7, Layout DEF size

(* The image goes where its header says.                                   *)
LEMMA ImageStored == IInv /\ LoadFreeldr => Memory'
<1>. SUFFICES ASSUME IInv, LoadFreeldr PROVE Memory'
  OBVIOUS
<1>1. /\ machine' = machine /\ map' = map /\ stage = "LoadFreeldr"
      /\ stage' = "LegacyAcpiSmbiosFix"
      /\ mem' = Store(mem, machine.freeldr.header[offset].LoadAddress,
                      machine.freeldr.len, "freeldr")
  BY DEF LoadFreeldr, mapVars
<1>2. /\ mem \in [Address -> ByteType] /\ Untouched /\ Control /\ machine \in Machines
      /\ Search
  BY <1>1 DEF IInv, Memory, Control
<1>3. /\ mem' = Store(mem, LoadAddress(machine), machine.freeldr.len, "freeldr")
      /\ LoadAddress(machine) \in Nat /\ machine.freeldr.len \in Nat
  <2>1. offset \in 0..(SearchWords - 1) /\ offset = HeaderWord(machine.freeldr)
    BY <1>1, <1>2 DEF Search
  <2>. QED  BY <1>1, <1>2, <2>1, TheMachine DEF LoadAddress
<1>4. /\ mem' \in [Address -> ByteType]
      /\ Holds(mem', LoadAddress(machine), machine.freeldr.len, "freeldr")
      /\ \A a \in Address : ~InImage(a) => mem'[a] = mem[a]
  BY <1>2, <1>3, Stored DEF Objects, InImage
<1>5. Untouched'
  <2>1. ~Loaded /\ Loaded'
    BY <1>1 DEF Loaded
  <2>. QED  BY <1>1, <1>2, <1>4, <2>1, UntouchedKept
<1>6. ASSUME Clear(machine) PROVE InPlace'
  <2>1. MapEntrySize * MaxEntries(machine) \in Nat
    BY MapFits DEF IInv, Conversion
  <2>2. \A a \in Address : InImage(a) => Elsewhere(a)
    BY <1>1, <1>2, <1>6, <2>1, ImageClear
  <2>3. /\ CmdlineHeld' /\ Holds(mem', BOOTINFO_LOC, BootInfoSize, "BOOTINFO")
        /\ Holds(mem', MEMORY_MAP_ADDR, MapEntrySize * Len(map'), "mmap_entry")
    BY <1>1, <1>4, <1>6, <2>2, PlacesKept DEF Elsewhere
  <2>. QED  BY <1>1, <1>4, <2>3 DEF InPlace, Loaded, Cloned
<1>. QED  BY <1>1, <1>4, <1>5, <1>6 DEF Memory

(* The tables go low, each a copy of what the firmware has.                *)
LEMMA TablesCloned == IInv /\ CloneTables => Memory'
<1>. SUFFICES ASSUME IInv, CloneTables PROVE Memory'
  OBVIOUS
<1>. DEFINE halfway == Copy(mem, ACPI_TABLE_LOW, efitab.acpi, 36)
<1>1. /\ machine' = machine /\ map' = map /\ stage = "LegacyAcpiSmbiosFix"
      /\ stage' \in {"sleep", "JumpToFreeldr"} /\ i = Len(machine.tables)
      /\ mem' = Copy(halfway, SMBIOS_TABLE_LOW, efitab.smbios, 31)
  BY Layout DEF CloneTables, mapVars
<1>2. /\ mem \in [Address -> ByteType] /\ Untouched /\ Control /\ machine \in Machines
      /\ Search /\ LastTables /\ efitab.acpi \in Nat /\ efitab.smbios \in Nat
  BY <1>1 DEF IInv, Memory, Control, LastTables
<1>3. /\ halfway \in [Address -> ByteType]
      /\ \A a \in Address : ~InArea(a, ACPI_TABLE_LOW, 36) => halfway[a] = mem[a]
      /\ Sampled(ACPI_TABLE_LOW, efitab.acpi, 36) =>
           \A a \in Address : InArea(a, ACPI_TABLE_LOW, 36) =>
             /\ efitab.acpi + (a - ACPI_TABLE_LOW) \in Address
             /\ halfway[a] = mem[efitab.acpi + (a - ACPI_TABLE_LOW)]
  BY <1>2, Copied, Layout
<1>. HIDE DEF halfway
<1>4. /\ mem' \in [Address -> ByteType]
      /\ \A a \in Address : ~InArea(a, SMBIOS_TABLE_LOW, 31) => mem'[a] = halfway[a]
      /\ Sampled(SMBIOS_TABLE_LOW, efitab.smbios, 31) =>
           \A a \in Address : InArea(a, SMBIOS_TABLE_LOW, 31) =>
             /\ efitab.smbios + (a - SMBIOS_TABLE_LOW) \in Address
             /\ mem'[a] = halfway[efitab.smbios + (a - SMBIOS_TABLE_LOW)]
  <2>1. /\ halfway \in [Address -> ByteType] /\ SMBIOS_TABLE_LOW \in Nat
        /\ efitab.smbios \in Nat /\ 31 \in Nat
    BY <1>2, <1>3, Layout
  <2>2. mem' = Copy(halfway, SMBIOS_TABLE_LOW, efitab.smbios, 31)
    BY <1>1
  <2>. QED  BY ONLY <2>1, <2>2, Copied
<1>5. \A a \in Address : ~InArea(a, ACPI_TABLE_LOW, 36) /\ ~InArea(a, SMBIOS_TABLE_LOW, 31)
        => mem'[a] = mem[a]
  BY <1>3, <1>4
<1>6. Loaded /\ Loaded'
  BY <1>1 DEF Loaded
<1>7. Untouched'
  BY <1>1, <1>2, <1>5, <1>6, UntouchedKept DEF Elsewhere
<1>8. ASSUME Clear(machine) PROVE InPlace'
  <2>1. /\ CmdlineHeld' /\ Holds(mem', BOOTINFO_LOC, BootInfoSize, "BOOTINFO")
        /\ Holds(mem', MEMORY_MAP_ADDR, MapEntrySize * Len(map'), "mmap_entry")
    <3>1. \A a \in Address :
            \/ InArea(a, CMDLINE_LOC, 1047) \/ InArea(a, BOOTINFO_LOC, 40)
            \/ InArea(a, MEMORY_MAP_ADDR, MapEntrySize * MaxEntries(machine))
            => ~InArea(a, ACPI_TABLE_LOW, 36) /\ ~InArea(a, SMBIOS_TABLE_LOW, 31)
      BY Layout, AddressAssumption DEF InArea
    <3>. QED  BY <1>1, <1>5, <1>6, <1>8, <3>1, PlacesKept
  <2>2. Holds(mem', LoadAddress(machine), machine.freeldr.len, "freeldr")
    <3>1. Holds(mem, LoadAddress(machine), machine.freeldr.len, "freeldr")
      BY <1>6, <1>8 DEF IInv, Memory, InPlace
    <3>2. MapEntrySize * MaxEntries(machine) \in Nat
      BY MapFits DEF IInv, Conversion
    <3>3. \A a \in Address : InImage(a) => Elsewhere(a)
      BY <1>2, <1>6, <1>8, <3>2, ImageClear
    <3>. QED  BY <1>5, <3>1, <3>3, HoldsKept DEF Elsewhere, InImage
  <2>3. \A a \in Address : InArea(a, ACPI_TABLE_LOW, 36) => ~InArea(a, SMBIOS_TABLE_LOW, 31)
    BY Layout, AddressAssumption DEF InArea
  <2>4. ASSUME Tables(machine, "ACPI") # {}
        PROVE  IsClone(ACPI_TABLE_LOW, TableOf(machine, "ACPI"), RsdpSize)'
    <3>. DEFINE from == TableOf(machine, "ACPI")
    <3>1. efitab.acpi = from /\ from \in Nat
      BY <1>1, <1>2, <2>4, LoopFindsTable, TheTable DEF LastTables
    <3>2. Sampled(ACPI_TABLE_LOW, from, 36)
      BY <1>2, <2>4, SampleAssumption, Layout
    <3>3. <<from, 36>> \in ReadLast(machine)
      BY <1>2, <2>4, ReadAreas
    <3>. HIDE DEF from
    <3>4. ASSUME NEW a \in Address, InArea(a, ACPI_TABLE_LOW, 36)
          PROVE  mem'[a] = [of |-> "firmware", at |-> from + (a - ACPI_TABLE_LOW)]
      <4>. DEFINE b == from + (a - ACPI_TABLE_LOW)
      <4>1. b \in Address /\ mem'[a] = mem[b]
        BY <1>3, <1>4, <2>3, <3>1, <3>2, <3>4
      <4>2. InArea(b, from, 36)
        BY <3>1, <3>4, Layout, AddressAssumption DEF InArea
      <4>. HIDE DEF b
      <4>3. mem[b] = [of |-> "firmware", at |-> b]
        <5>. DEFINE area == <<from, 36>>
        <5>1. area[1] = from /\ area[2] = 36 /\ area \in ReadLast(machine)
          BY <3>3
        <5>. HIDE DEF area
        <5>2. InArea(b, area[1], area[2])
          BY <4>2, <5>1
        <5>. QED  BY <1>8, <4>1, <5>1, <5>2, InputKept
      <4>. QED  BY <4>1, <4>3 DEF b
    <3>. QED  BY <1>1, <3>4, Layout DEF IsClone, from
  <2>5. ASSUME Tables(machine, "SMBIOS") # {}
        PROVE  IsClone(SMBIOS_TABLE_LOW, TableOf(machine, "SMBIOS"), SmbiosSize)'
    <3>. DEFINE from == TableOf(machine, "SMBIOS")
    <3>1. efitab.smbios = from /\ from \in Nat
      BY <1>1, <1>2, <2>5, LoopFindsTable, TheTable DEF LastTables
    <3>2. Sampled(SMBIOS_TABLE_LOW, from, 31)
      BY <1>2, <2>5, SampleAssumption, Layout
    <3>3. <<from, 31>> \in ReadLast(machine)
      BY <1>2, <2>5, ReadAreas
    <3>. HIDE DEF from
    <3>4. ASSUME NEW a \in Address, InArea(a, SMBIOS_TABLE_LOW, 31)
          PROVE  mem'[a] = [of |-> "firmware", at |-> from + (a - SMBIOS_TABLE_LOW)]
      <4>. DEFINE b == from + (a - SMBIOS_TABLE_LOW)
      <4>1. b \in Address /\ mem'[a] = halfway[b]
        BY <1>4, <3>1, <3>2, <3>4
      <4>2. InArea(b, from, 31)
        BY <3>1, <3>4, Layout, AddressAssumption DEF InArea
      <4>. HIDE DEF b
      <4>3. mem[b] = [of |-> "firmware", at |-> b] /\ Elsewhere(b)
        <5>. DEFINE area == <<from, 31>>
        <5>1. area[1] = from /\ area[2] = 31 /\ area \in ReadLast(machine)
          BY <3>3
        <5>. HIDE DEF area
        <5>2. InArea(b, area[1], area[2])
          BY <4>2, <5>1
        <5>. QED  BY <1>8, <4>1, <5>1, <5>2, InputKept
      <4>4. halfway[b] = mem[b]
        BY <1>3, <4>1, <4>3 DEF Elsewhere
      <4>. QED  BY <4>1, <4>3, <4>4 DEF b
    <3>. QED  BY <1>1, <3>4, Layout DEF IsClone, from
  <2>. QED  BY <1>1, <2>1, <2>2, <2>4, <2>5 DEF InPlace
<1>. QED  BY <1>1, <1>4, <1>7, <1>8 DEF Memory

LEMMA MemoryKept == IInv /\ [Next]_vars => Memory'
<1>. SUFFICES ASSUME IInv, [Next]_vars PROVE Memory'
  OBVIOUS
<1>1. CASE \/ SetupCmdline \/ GetIdeController \/ FillMultibootMemoryMap \/ CreateBootInfo
           \/ LoadFreeldr \/ CloneTables
  BY <1>1, CmdlineStored, PciDeviceStored, EntriesStored, BootInfoStored, ImageStored,
     TablesCloned
<1>2. CASE \/ AppleTVFixupIdeController \/ PassWord \/ FindMagic \/ FindNoMagic \/ ScanTable
           \/ Pause \/ JumpToFreeldr \/ Fail \/ Over \/ UNCHANGED vars
  <2>1. /\ UNCHANGED <<machine, mem, map>>
        /\ (Loaded' <=> Loaded) /\ (Cloned' <=> Cloned)
        /\ stage' # "SetupCmdline" => stage # "SetupCmdline"
        /\ stage' = "astray" <=> stage = "astray"
        /\ stage' \in {"ValidateFreeldr", "LoadFreeldr"} =>
             stage \in {"ValidateFreeldr", "LoadFreeldr"}
    BY <1>2 DEF AppleTVFixupIdeController, PassWord, FindMagic, FindNoMagic, ScanTable, Pause,
       JumpToFreeldr, Fail, Over, vars, mapVars, Loaded, Cloned
  <2>2. mem' \in [Address -> ByteType] /\ (stage' # "astray" => Untouched')
    <3>1. mem \in [Address -> ByteType] /\ (stage # "astray" => Untouched)
      BY DEF IInv, Memory
    <3>. QED  BY <2>1, <3>1, UntouchedKept
  <2>3. ASSUME Clear(machine) PROVE InPlace' /\ stage' # "astray"
    <3>1. InPlace /\ stage # "astray"
      BY <2>3 DEF IInv, Memory
    <3>2. CmdlineHeld => CmdlineHeld'
      BY <2>1, CmdlineKept
    <3>3. \A lo, from, size : IsClone(lo, from, size) => IsClone(lo, from, size)'
      BY <2>1 DEF IsClone
    <3>. QED  BY <2>1, <3>1, <3>2, <3>3 DEF InPlace
  <2>. QED  BY <2>1, <2>2, <2>3 DEF Memory
<1>3. CASE GoAstray
  <2>1. UNCHANGED <<machine, mem>> /\ stage' = "astray"
    BY <1>3 DEF GoAstray
  <2>2. ~Clear(machine)
    <3>1. PICK a \in Address, area \in ToRead(Arguments(machine)) :
            InArea(a, area[1], area[2]) /\ mem[a] # [of |-> "firmware", at |-> a]
      BY <1>3 DEF GoAstray
    <3>2. area \in ToRead(ReadLast(machine))
      BY DEF ToRead, ReadLast
    <3>. QED  BY <3>1, <3>2, NothingLost
  <2>. QED  BY <2>1, <2>2 DEF IInv, Memory
<1>. QED  BY <1>1, <1>2, <1>3 DEF Next

(* No step of WrapperInit leaves the inductive invariant.                  *)
LEMMA NextIInv == IInv /\ [Next]_vars => IInv'
BY ControlKept, FixupKept, ConversionKept, SearchKept, LastTablesKept, MemoryKept DEF IInv

(* What each function found out holds for those after it, and every byte   *)
(* the loader has put in its place, or has not yet read, is still there.   *)
THEOREM BootKept == Spec => []IInv
<1>. QED  BY InitIInv, NextIInv, PTL DEF Spec

-----------------------------------------------------------------------------
(* Every counter stays in its range on every machine: neither the search   *)
(* for the header nor the loop over the tables runs past its end.          *)
THEOREM TypeCorrect == Spec => []TypeOK
<1>1. IInv => TypeOK
  <2>. SUFFICES ASSUME IInv PROVE TypeOK
    OBVIOUS
  <2>1. machine \in Machines /\ machine \in MachineType
    BY TheMachine DEF IInv, Control
  <2>2. PciFixup!TypeOK
    <3>1. PciFixup!Space = Space /\ PciFixup!Function = Function
      BY Zenon DEF PciFixup!Space, Space, PciFixup!Function, Function, PciFixup!Register,
         Register, PciFixup!Longword, Longword
    <3>. QED  BY <3>1 DEF IInv, Fixup, FixupState, PciFixup!TypeOK
  <2>3. MemoryMap!TypeOK
    <3>1. MemoryMap!Entry = Entry
      BY Zenon DEF MemoryMap!Entry, Entry, MemoryMap!MultibootKind, MultibootKind
    <3>. QED  BY <3>1 DEF IInv, Conversion, Account, MemoryMap!TypeOK
  <2>4. mem \in [Address -> ByteType] /\ stage \in Stages /\ WrapperVerbose \in BOOLEAN
    BY DEF IInv, Memory, Control
  <2>5. word \in 0..SearchWords /\ offset \in 0..(SearchWords - 1) /\ entry \in Nat
    BY DEF IInv, Search
  <2>6. efitab \in [acpi : Nat, smbios : Nat] /\ i \in 0..Len(machine.tables)
    BY DEF IInv, LastTables
  <2>. QED  BY <2>1, <2>2, <2>3, <2>4, <2>5, <2>6 DEF TypeOK, Stages, ByteType
<1>. QED  BY <1>1, BootKept, PTL

(* On a clear machine no step writes over the loader, nor over anything of *)
(* boot.efi's or the firmware's that is still to be read.                  *)
THEOREM InputsSurvive == Spec => []NothingReadIsLost
<1>1. IInv => NothingReadIsLost
  BY NothingLost DEF NothingReadIsLost
<1>. QED  BY <1>1, BootKept, PTL

-----------------------------------------------------------------------------
Deliverable == {"cmdline", "bootinfo", "map", "image", "ACPI", "SMBIOS", "ide"}

(* Delivered, one by one. *)
LEMMA EachDelivered ==
  /\ Delivered \subseteq Deliverable
  /\ "cmdline" \in Delivered <=> CmdlineHeld
  /\ "bootinfo" \in Delivered <=> Holds(mem, BOOTINFO_LOC, BootInfoSize, "BOOTINFO")
  /\ "map" \in Delivered <=> MapHeld
  /\ "image" \in Delivered <=> Holds(mem, LoadAddress(machine), machine.freeldr.len, "freeldr")
  /\ "ACPI" \in Delivered <=>
       /\ Tables(machine, "ACPI") # {}
       /\ IsClone(ACPI_TABLE_LOW, TableOf(machine, "ACPI"), RsdpSize)
  /\ "SMBIOS" \in Delivered <=>
       /\ Tables(machine, "SMBIOS") # {}
       /\ IsClone(SMBIOS_TABLE_LOW, TableOf(machine, "SMBIOS"), SmbiosSize)
  /\ "ide" \in Delivered <=>
       PciFixup!Controllers # {} /\ scan = "done" /\ PciFixup!ControllerReady
BY DEF Delivered, Deliverable

LEMMA SameControllers ==
  /\ PciFixup!Controllers = ControllersOf(machine.devices)
  /\ \A f, g : PciFixup!Before(f, g) <=> Before(f, g)
  /\ PciFixup!Function = Function
<1>1. PciFixup!Function = Function /\ PciFixup!Scanned = Scanned
  BY Zenon DEF PciFixup!Function, Function, PciFixup!Scanned, Scanned
<1>2. PciFixup!Controllers = ControllersOf(machine.devices)
  BY <1>1, SameSpace, Zenon DEF PciFixup!Controllers, PciFixup!ControllersOf, ControllersOf
<1>3. \A f, g : PciFixup!Before(f, g) <=> Before(f, g)
  BY Zenon DEF PciFixup!Before, Before
<1>. QED  BY <1>1, <1>2, <1>3

(* Nothing is delivered that is not owed ...                               *)
LEMMA DeliveredIsOwed == Delivered \subseteq Owed(machine)
<1>1. "ide" \in Delivered => ControllersOf(machine.devices) # {}
  BY EachDelivered, SameControllers
<1>. QED  BY <1>1, EachDelivered DEF Deliverable, Owed

(* ... and on a clear machine all that is owed is delivered.               *)
LEMMA OwedIsDelivered ==
  ASSUME IInv, stage = "freeldr", Clear(machine)
  PROVE  Owed(machine) \subseteq Delivered
<1>1. Loaded /\ Cloned /\ InPlace /\ scan = "done" /\ returned
  BY DEF Loaded, Cloned, IInv, Memory, Fixup, Conversion
<1>2. {"cmdline", "bootinfo", "image"} \subseteq Delivered
  BY <1>1, EachDelivered DEF InPlace
<1>3. Tables(machine, "ACPI") # {} => "ACPI" \in Delivered
  BY <1>1, EachDelivered DEF InPlace
<1>4. Tables(machine, "SMBIOS") # {} => "SMBIOS" \in Delivered
  BY <1>1, EachDelivered DEF InPlace
<1>5. "map" \in Delivered
  <2>. DEFINE efi == machine.EfiMemoryMap
  <2>1. /\ Account(efi, Len(efi), passed, map)
        /\ counts = [MemoryMapEntries |-> Len(map), MemoryMapSize |-> MapEntrySize * Len(map)]
    BY <1>1 DEF IInv, Conversion
  <2>2. /\ MemoryMap!Announced = 1..Len(map) /\ MemoryMap!MultibootKind = MultibootKind
        /\ MemoryMap!CleanMap(efi) <=> CleanMap(efi)
        /\ \A a, kind : MemoryMap!Promised(efi, Len(efi), a, kind) <=>
                          Promised(efi, Len(efi), a, kind)
        /\ \A e, a : MemoryMap!Covers(e, a) <=> Covers(e, a)
    <3>1. \A d, a : /\ MemoryMap!Claims(d, a) <=> Claims(d, a)
                    /\ MemoryMap!InHole(d, a) <=> InHole(d, a)
      BY SameMap, Zenon DEF MemoryMap!Claims, Claims, MemoryMap!InHole, InHole
    <3>2. \A a, kind : MemoryMap!Promised(efi, Len(efi), a, kind) <=>
                         Promised(efi, Len(efi), a, kind)
      BY <3>1, SameMap, Zenon DEF MemoryMap!Promised, Promised
    <3>3. MemoryMap!CleanMap(efi) <=> CleanMap(efi)
      BY SameMap, Zenon DEF MemoryMap!CleanMap, CleanMap
    <3>4. MemoryMap!MultibootKind = MultibootKind /\ \A e, a : MemoryMap!Covers(e, a) <=> Covers(e, a)
      BY Zenon DEF MemoryMap!MultibootKind, MultibootKind, MemoryMap!Covers, Covers
    <3>5. MemoryMap!Announced = 1..Len(map)
      <4>1. counts.MemoryMapEntries = Len(map)
        BY <2>1
      <4>. QED  BY <4>1 DEF MemoryMap!Announced
    <3>. QED  BY <3>2, <3>3, <3>4, <3>5
  <2>3. MemoryMap!ReportedExactly
    <3>1. ASSUME CleanMap(efi), NEW a \in Described, NEW kind \in MultibootKind
          PROVE  (\E k \in 1..Len(map) : map[k].Type = kind /\ Covers(map[k], a))
                   <=> Promised(efi, Len(efi), a, kind)
      <4>1. ReportedBy(map, a, kind) <=> Promised(efi, Len(efi), a, kind)
        BY <2>1, <3>1, AccountExact
      <4>. QED  BY <4>1, Zenon DEF ReportedBy
    <3>2. CleanMap(efi) =>
            \A a \in Described, kind \in MultibootKind :
              (\E k \in MemoryMap!Announced : map[k].Type = kind /\ MemoryMap!Covers(map[k], a))
                <=> MemoryMap!Promised(efi, Len(efi), a, kind)
      BY <2>2, <3>1, Zenon
    <3>. QED  BY <2>2, <3>2, Zenon DEF MemoryMap!ReportedExactly
  <2>4. MapHeld
    BY <1>1, <2>1, <2>3 DEF InPlace, MapHeld
  <2>. QED  BY <2>4, EachDelivered
<1>6. ControllersOf(machine.devices) # {} => "ide" \in Delivered
  <2>. SUFFICES ASSUME ControllersOf(machine.devices) # {} PROVE "ide" \in Delivered
    OBVIOUS
  <2>1. FixupState(machine.devices, config, "done", Bus, Slot, Func, PciDevice)
    BY <1>1 DEF IInv, Fixup
  <2>2. PICK f \in ControllersOf(machine.devices) :
          /\ FirstOf(machine.devices, f)
          /\ config[f][8] = [machine.devices[f][8] EXCEPT ![2] = 138]
          /\ config[f][0] = machine.devices[f][0]
          /\ \A g \in Function \ {f} : config[g] = machine.devices[g]
    BY <2>1, FirstIsReady
  <2>3. PciFixup!First(f)
    BY <2>2, SameControllers, Zenon DEF PciFixup!First, FirstOf
  <2>4. PciFixup!ControllerReady
    BY <2>2, <2>3, SameControllers, Zenon DEF PciFixup!ControllerReady
  <2>. QED  BY <1>1, <2>4, EachDelivered, SameControllers
<1>. QED  BY <1>2, <1>3, <1>4, <1>5, <1>6 DEF Owed

(* When FreeLoader starts on a clear machine, all it is owed is in its     *)
(* place: command line, boot info, map, image, tables and controller.      *)
THEOREM HandoffKept == Spec => []HandoffIntact
<1>1. IInv => HandoffIntact
  BY OwedIsDelivered DEF HandoffIntact
<1>. QED  BY <1>1, BootKept, PTL

-----------------------------------------------------------------------------
(* The contract speaks of machines in the words of Handoff.                *)
LEMMA SameContract ==
  /\ Contract!MachineType = MachineType
  /\ \A m : /\ Contract!Loadable(m) <=> Loadable(m)
            /\ Contract!EntryPoint(m) = EntryPoint(m)
            /\ Contract!Owed(m) = Owed(m)
            /\ Contract!Clear(m) <=> Clear(m)
<1>1. Contract!Function = Function /\ Contract!Scanned = Scanned
  BY Zenon DEF Contract!Function, Function, Contract!Scanned, Scanned
<1>2. /\ \A f, Offset : Contract!ConfigAddress(f, Offset) = ConfigAddress(f, Offset)
      /\ \A a : Contract!FunctionAt(a) = FunctionAt(a) /\ Contract!RegisterAt(a) = RegisterAt(a)
      /\ \A b0, b1, b2, b3 : Contract!FromBytes(b0, b1, b2, b3) = FromBytes(b0, b1, b2, b3)
  BY DEF Contract!ConfigAddress, ConfigAddress, Contract!FunctionAt, FunctionAt,
         Contract!RegisterAt, RegisterAt, Contract!FromBytes, FromBytes
<1>3. \A space, a : Contract!Data(space, a) = Data(space, a)
  BY <1>2, Zenon DEF Contract!Data, Data
<1>4. \A space, f, Offset :
        /\ Contract!PciReadWord(space, f, Offset) = PciReadWord(space, f, Offset)
        /\ Contract!PciReadByte(space, f, Offset) = PciReadByte(space, f, Offset)
  BY <1>2, <1>3 DEF Contract!PciReadWord, PciReadWord, Contract!PciReadByte, PciReadByte
<1>5. \A space, f : Contract!IsIde(space, f) <=> IsIde(space, f)
  BY <1>4, Zenon DEF Contract!IsIde, IsIde, Contract!VENDOR_ID, VENDOR_ID,
         Contract!CLASS_CODE, CLASS_CODE, Contract!SUBCLASS_CODE, SUBCLASS_CODE
<1>6. \A space : Contract!ControllersOf(space) = ControllersOf(space)
  BY <1>1, <1>5, Zenon DEF Contract!ControllersOf, ControllersOf
<1>7. \A f, g : Contract!Before(f, g) <=> Before(f, g)
  BY Zenon DEF Contract!Before, Before
<1>8. ASSUME NEW m PROVE Contract!FixedUp(m) = FixedUp(m)
  <2>. DEFINE controllers == ControllersOf(m.devices)
  <2>1. \A f : (\A g \in controllers : g # f => Contract!Before(f, g))
                 <=> (\A g \in controllers : g # f => Before(f, g))
    BY <1>7
  <2>2. (CHOOSE f \in controllers : \A g \in controllers : g # f => Contract!Before(f, g))
          = CHOOSE f \in controllers : \A g \in controllers : g # f => Before(f, g)
    BY <2>1, Zenon
  <2>3. Contract!ControllersOf(m.devices) = controllers
    BY <1>6
  <2>. DEFINE theirs == Contract!ControllersOf(m.devices)
  <2>4. Contract!FixedUp(m) =
          IF theirs = {} THEN m.stray
          ELSE CHOOSE f \in theirs : \A g \in theirs : g # f => Contract!Before(f, g)
    BY DEF Contract!FixedUp
  <2>5. FixedUp(m) =
          IF controllers = {} THEN m.stray
          ELSE CHOOSE f \in controllers : \A g \in controllers : g # f => Before(f, g)
    BY DEF FixedUp
  <2>. HIDE DEF theirs, controllers
  <2>6. theirs = controllers
    BY <2>3 DEF theirs
  <2>. QED  BY <2>2, <2>4, <2>5, <2>6
<1>9. \A fr : Contract!HeaderWord(fr) = HeaderWord(fr)
  BY Zenon DEF Contract!HeaderWord, HeaderWord
<1>10. \A fr : Contract!HasHeader(fr) <=> HasHeader(fr)
  BY <1>9, Zenon DEF Contract!HasHeader, HasHeader
<1>11. \A m : Contract!Loadable(m) <=> Loadable(m)
  BY <1>8, <1>10, Zenon DEF Contract!Loadable, Loadable, Contract!IdeUsable, IdeUsable
<1>12. \A m : /\ Contract!EntryPoint(m) = EntryPoint(m)
              /\ Contract!LoadAddress(m) = LoadAddress(m)
  BY <1>9, Zenon DEF Contract!EntryPoint, EntryPoint, Contract!LoadAddress, LoadAddress
<1>13. \A m, guid : /\ Contract!Tables(m, guid) = Tables(m, guid)
  BY Zenon DEF Contract!Tables, Tables
<1>14. \A m, guid : Contract!TableOf(m, guid) = TableOf(m, guid)
  BY <1>13, Zenon DEF Contract!TableOf, TableOf
<1>15. \A m : Contract!Owed(m) = Owed(m)
  BY <1>6, <1>13, Zenon DEF Contract!Owed, Owed
<1>16. /\ Contract!BootInfoSize = BootInfoSize /\ Contract!MACH_CMDLINE = MACH_CMDLINE
       /\ Contract!ScreenStringSize = ScreenStringSize /\ Contract!MapEntrySize = MapEntrySize
       /\ Contract!RsdpSize = RsdpSize /\ Contract!SmbiosSize = SmbiosSize
       /\ Contract!BootArgsSize = BootArgsSize /\ Contract!SystemTableSize = SystemTableSize
       /\ Contract!ConfigTableSize = ConfigTableSize
  BY DEF Contract!BootInfoSize, BootInfoSize, Contract!MACH_CMDLINE, MACH_CMDLINE,
         Contract!ScreenStringSize, ScreenStringSize, Contract!MapEntrySize, MapEntrySize,
         Contract!RsdpSize, RsdpSize, Contract!SmbiosSize, SmbiosSize,
         Contract!BootArgsSize, BootArgsSize, Contract!SystemTableSize, SystemTableSize,
         Contract!ConfigTableSize, ConfigTableSize
<1>17. \A m : Contract!ReadLast(m) = ReadLast(m) /\ Contract!EfiMapArea(m) = EfiMapArea(m)
  <2>1. \A m : Contract!Arguments(m) = Arguments(m)
    BY <1>16, Zenon DEF Contract!Arguments, Arguments
  <2>. QED  BY <1>13, <1>14, <1>16, <2>1, Zenon
            DEF Contract!ReadLast, ReadLast, Contract!EfiMapArea, EfiMapArea
<1>18. \A d : Contract!SpansHole(d) <=> SpansHole(d)
  BY Zenon DEF Contract!SpansHole, SpansHole, Contract!TouchesHole, TouchesHole,
         Contract!UsableTypes, UsableTypes, Contract!Start, Start, Contract!End, End,
         Contract!Size, Size
<1>19. ASSUME NEW m PROVE Contract!MaxEntries(m) = MaxEntries(m)
  <2>. DEFINE spanning == {k \in 1..Len(m.EfiMemoryMap) : SpansHole(m.EfiMemoryMap[k])}
  <2>1. {k \in 1..Len(m.EfiMemoryMap) : Contract!SpansHole(m.EfiMemoryMap[k])} = spanning
    BY <1>18, Zenon
  <2>2. Contract!Cardinality(spanning) = Cardinality(spanning)
    <3>. HIDE DEF spanning
    <3>. QED  BY Zenon DEF Contract!Cardinality, Cardinality
  <2>. QED  BY <2>1, <2>2, Zenon DEF Contract!MaxEntries, MaxEntries
<1>20. \A m : Contract!FixedAreas(m) = FixedAreas(m)
  BY <1>16, <1>19, Zenon DEF Contract!FixedAreas, FixedAreas
<1>21. \A x, y : Contract!Apart(x, y) <=> Apart(x, y)
  BY Zenon DEF Contract!Apart, Apart, Contract!Meet, Meet
<1>22. \A m : Contract!Clear(m) <=> Clear(m)
  BY <1>10, <1>12, <1>16, <1>17, <1>19, <1>20, <1>21, Zenon DEF Contract!Clear, Clear
<1>23. Contract!MachineType = MachineType
  BY Zenon DEF Contract!MachineType, MachineType, Contract!Descriptor, Descriptor,
     Contract!Space, Space, Contract!Function, Function, Contract!Register, Register,
     Contract!Longword, Longword, Contract!Header, Header
<1>. QED  BY <1>11, <1>12, <1>15, <1>22, <1>23

(* What is fixed up is what the machine says.                              *)
LEMMA FixedUpIsTheOne ==
  ASSUME IInv, scan # "scan"
  PROVE  FixedUp(machine) = PciDevice
<1>. DEFINE controllers == ControllersOf(machine.devices)
<1>1. /\ controllers = {} => PciDevice = machine.stray
      /\ controllers # {} =>
           PciDevice \in controllers /\ FirstOf(machine.devices, PciDevice)
  BY DEF IInv, Fixup, FixupState
<1>2. ASSUME NEW f \in Function, NEW g \in Function, Before(f, g), Before(g, f) PROVE FALSE
  <2>1. /\ f[1] \in Nat /\ f[2] \in Nat /\ f[3] \in Nat
        /\ g[1] \in Nat /\ g[2] \in Nat /\ g[3] \in Nat
    BY GeometryAssumption DEF Function
  <2>. QED  BY <1>2, <2>1 DEF Before
<1>3. controllers \subseteq Function
  BY DEF ControllersOf, Scanned
<1>4. CASE controllers = {}
  BY <1>1, <1>4 DEF FixedUp
<1>5. CASE controllers # {}
  <2>. DEFINE Least(f) == \A g \in controllers : g # f => Before(f, g)
  <2>1. PciDevice \in controllers /\ Least(PciDevice)
    BY <1>1, <1>5 DEF FirstOf
  <2>2. \A f \in controllers : Least(f) => f = PciDevice
    BY <1>2, <1>3, <2>1
  <2>3. FixedUp(machine) = CHOOSE f \in controllers : Least(f)
    BY <1>5 DEF FixedUp
  <2>. HIDE DEF controllers, Least
  <2>. QED  BY <2>1, <2>2, <2>3
<1>. QED  BY <1>4, <1>5

(* On a clear machine WrapperInit decides as the contract does: in the     *)
(* hand-over and in the halt its two actions happen, every other step it   *)
(* does not see.  On any other machine there is nothing to prove but that  *)
(* it starts and that the machine is the same.  That one of the two does   *)
(* happen in the end is left to TLC.                                       *)
THEOREM BootImplementsContract ==
  Spec => Contract!Init /\ [][Contract!Next]_(Contract!vars)
<1>1. Init => Contract!Init
  BY TheMachine, SameContract DEF Init, Contract!Init
<1>. DEFINE Due == HandoffIntact /\ Delivered \subseteq Owed(machine)
<1>2. IInv /\ IInv' /\ Due' /\ [Next]_vars => [Contract!Next]_(Contract!vars)
  <2>. SUFFICES ASSUME IInv, IInv', Due', [Next]_vars
                PROVE  Contract!Next \/ UNCHANGED Contract!vars
    OBVIOUS
  <2>1. machine' = machine
    BY MachineKept
  <2>2. CASE JumpToFreeldr
    <3>1. stage = "JumpToFreeldr" /\ stage' = "freeldr" /\ entry' = entry
      BY <2>2 DEF JumpToFreeldr, imageVars
    <3>2. Loadable(machine)
      <4>1. HasHeader(machine.freeldr)
        BY <3>1 DEF IInv, Search, Loaded
      <4>2. /\ FixupState(machine.devices, config, "done", Bus, Slot, Func, PciDevice)
            /\ scan = "done"
        BY <3>1 DEF IInv, Fixup
      <4>3. machine.devices[PciDevice][8][2] \in {138, 143}
        BY <4>2 DEF FixupState
      <4>. QED  BY <4>1, <4>2, <4>3, FixedUpIsTheOne DEF Loadable, IdeUsable
    <3>3. entry' = EntryPoint(machine)
      BY <3>1 DEF IInv, Search, Loaded
    <3>4. Delivered' \subseteq Owed(machine)
      BY <2>1
    <3>5. Clear(machine) => Delivered' = Owed(machine)
      BY <2>1, <3>1, <3>4 DEF HandoffIntact
    <3>. QED  BY <2>1, <3>1, <3>2, <3>3, <3>5, SameContract
              DEF Contract!Next, Contract!HandOver, Contract!NothingPromised
  <2>3. CASE Fail
    <3>1. stage = "fail" /\ stage' = "halted"
      BY <2>3 DEF Fail
    <3>2. ~Loadable(machine)
      <4>1. /\ FixupState(machine.devices, config, scan, Bus, Slot, Func, PciDevice)
            /\ scan \in {"done", "failed"}
        BY <3>1 DEF IInv, Fixup, Halting
      <4>2. CASE scan = "done"
        <5>1. ~HasHeader(machine.freeldr)
          BY <3>1, <4>2 DEF IInv, Search, Halting
        <5>. QED  BY <5>1 DEF Loadable
      <4>3. CASE scan = "failed"
        <5>1. machine.devices[PciDevice][8][2] \notin {138, 143}
          BY <4>1, <4>3 DEF FixupState
        <5>. QED  BY <4>3, <5>1, FixedUpIsTheOne DEF Loadable, IdeUsable
      <4>. QED  BY <4>1, <4>2, <4>3
    <3>. QED  BY <2>1, <3>1, <3>2, SameContract
              DEF Contract!Next, Contract!Refuse, Contract!NothingPromised
  <2>4. CASE UNCHANGED vars
    <3>1. Delivered' = Delivered
      BY <2>4 DEF vars, pciVars, mapVars, imageVars, tableVars, Delivered, CmdlineHeld, MapHeld,
         IsClone, MemoryMap!ReportedExactly, MemoryMap!Announced, PciFixup!Controllers,
         PciFixup!ControllerReady, PciFixup!First
    <3>. QED  BY <2>4, <3>1 DEF Contract!vars, vars, imageVars
  <2>5. CASE ~JumpToFreeldr /\ ~Fail /\ ~(UNCHANGED vars)
    <3>1. stage \notin {"freeldr", "halted"} /\ stage' \notin {"freeldr", "halted"}
      BY <2>5 DEF Next, SetupCmdline, GetIdeController, AppleTVFixupIdeController,
         FillMultibootMemoryMap, CreateBootInfo, PassWord, FindMagic, FindNoMagic,
         LoadFreeldr, ScanTable, CloneTables, Pause, GoAstray, Over
    <3>. QED  BY <2>1, <3>1 DEF Contract!vars
  <2>. QED  BY <2>2, <2>3, <2>4, <2>5
<1>3. IInv => Due
  BY OwedIsDelivered, DeliveredIsOwed DEF HandoffIntact
<1>. HIDE DEF Due
<1>. QED  BY <1>1, <1>2, <1>3, BootKept, PTL DEF Spec
=============================================================================
