------------------------------- MODULE PciFixup -------------------------------
(***************************************************************************)
(* AppleTVFixupIdeController (pci.c): the scan for the IDE controller and  *)
(* the change of its programming interface to the one FreeLoader can use.  *)
(*                                                                         *)
(* One step looks at one function of configuration space; Bus, Slot and    *)
(* Func are the counters of the three nested loops.                        *)
(***************************************************************************)
EXTENDS PciConfig

CONSTANT Devices     \* the contents of configuration space the scan may meet

ASSUME DevicesAssumption == Devices \subseteq Space

VARIABLES
  config,         \* configuration space
  old,            \* what it was when the loader started
  pc,             \* "scan", "fixup", "done", or "failed" in fail()
  Bus, Slot, Func,
  PciDevice       \* the function the three bytes at address 0 name

vars == <<config, old, pc, Bus, Slot, Func, PciDevice>>

(* PciDevice is NULL and the bytes at address 0 are what the firmware left *)
(* there: any function at all, its bus bits mixed with stray slot bits.    *)
Init ==
  /\ config \in Devices
  /\ old = config
  /\ pc = "scan"
  /\ Bus = 0 /\ Slot = 0 /\ Func = 0
  /\ PciDevice \in Function

Here == <<Bus, Slot, Func>>

(* The function at the counters is an IDE controller: goto Done. *)
Found ==
  /\ pc = "scan" /\ Bus < LastBus
  /\ IsIde(config, Here)
  /\ PciDevice' = Here
  /\ pc' = "fixup"
  /\ UNCHANGED <<config, old, Bus, Slot, Func>>

(* Fault: the innermost loop starts at function 1 after the first slot. *)
PassSkipsFunctionZero ==
  /\ pc = "scan" /\ Bus < LastBus
  /\ ~IsIde(config, Here)
  /\ IF Func < NumFuncs - 1
     THEN Func' = Func + 1 /\ UNCHANGED <<Bus, Slot>>
     ELSE /\ Func' = (IF NumFuncs > 1 THEN 1 ELSE 0)
          /\ IF Slot < NumSlots - 1
             THEN Slot' = Slot + 1 /\ UNCHANGED Bus
             ELSE Slot' = 0 /\ Bus' = Bus + 1
  /\ UNCHANGED <<config, old, pc, PciDevice>>

(* Fault: the slot is never reset, nor the bus ever advanced. *)
PassForever ==
  /\ pc = "scan" /\ Bus < LastBus
  /\ ~IsIde(config, Here)
  /\ IF Func < NumFuncs - 1
     THEN Func' = Func + 1 /\ UNCHANGED <<Bus, Slot>>
     ELSE Func' = 0 /\ Slot' = (Slot + 1) % NumSlots /\ UNCHANGED Bus
  /\ UNCHANGED <<config, old, pc, PciDevice>>

(* Fault: the bus is advanced and the slot is not reset. *)
PassSlotNotReset ==
  /\ pc = "scan" /\ Bus < LastBus
  /\ ~IsIde(config, Here)
  /\ IF Func < NumFuncs - 1
     THEN Func' = Func + 1 /\ UNCHANGED <<Bus, Slot>>
     ELSE /\ Func' = 0 /\ Slot' = Slot + 1
          /\ Bus' = IF Slot < NumSlots - 1 THEN Bus ELSE Bus + 1
  /\ UNCHANGED <<config, old, pc, PciDevice>>

(* It is not: on to the next function, slot, bus. *)
Pass ==
  /\ pc = "scan" /\ Bus < LastBus
  /\ ~IsIde(config, Here)
  /\ IF Func < NumFuncs - 1
     THEN Func' = Func + 1 /\ UNCHANGED <<Bus, Slot>>
     ELSE /\ Func' = 0
          /\ IF Slot < NumSlots - 1
             THEN Slot' = Slot + 1 /\ UNCHANGED Bus
             ELSE Slot' = 0 /\ Bus' = Bus + 1
  /\ UNCHANGED <<config, old, pc, PciDevice>>

(* The scan ends without a controller.  The result is NULL, as is          *)
(* PciDevice in the other case: the fixup goes on with the stray function. *)
NotFound ==
  /\ pc = "scan" /\ Bus = LastBus
  /\ pc' = "fixup"
  /\ UNCHANGED <<config, old, Bus, Slot, Func, PciDevice>>

(* The longword at the programming interface, split into its bytes. *)
PciOffsetOld == PciReadLong(config, PciDevice, 8)
RevId     == PciOffsetOld[1]
ProgIf    == PciOffsetOld[2]
Subclass  == PciOffsetOld[3]
ClassCode == PciOffsetOld[4]

(* 0x8A, as in VirtualBox: nothing to do. *)
NothingToDo ==
  /\ pc = "fixup" /\ ProgIf = 138
  /\ pc' = "done"
  /\ UNCHANGED <<config, old, Bus, Slot, Func, PciDevice>>

(* Fault: the subclass is shifted as far as the class, as PciAssignIrq     *)
(* does with its second byte.                                              *)
PciOffsetNewShifted == FromBytes(RevId, 138, 0, ClassCode)

(* Reconstructed, with 0x8A for the programming interface. *)
PciOffsetNew == FromBytes(RevId, 138, Subclass, ClassCode)

(* 0x8F, native mode, as on the Apple TV: the new longword is written. *)
WriteProgIf ==
  /\ pc = "fixup" /\ ProgIf = 143
  /\ config' = PciWriteLong(config, PciDevice, 8, PciOffsetNew)
  /\ pc' = "done"
  /\ UNCHANGED <<old, Bus, Slot, Func, PciDevice>>

(* Any other value, that of an absent function included: fail(). *)
Unsupported ==
  /\ pc = "fixup" /\ ProgIf \notin {138, 143}
  /\ pc' = "failed"
  /\ UNCHANGED <<config, old, Bus, Slot, Func, PciDevice>>

Over == pc \in {"done", "failed"} /\ UNCHANGED vars

Next == Found \/ Pass \/ NotFound \/ NothingToDo \/ WriteProgIf
          \/ Unsupported \/ Over

Spec == Init /\ [][Next]_vars /\ WF_vars(Next)

-----------------------------------------------------------------------------
(* The IDE controllers the scan can see, in the space as it was. *)
Controllers == ControllersOf(old)

First(f) == \A g \in Controllers : g # f => Before(f, g)

(* Type invariant; the counters stay in the ranges their u8 types hold.    *)
TypeOK ==
  /\ config \in Space /\ old \in Space
  /\ pc \in {"scan", "fixup", "done", "failed"}
  /\ Bus \in 0..LastBus /\ Slot \in 0..(NumSlots - 1) /\ Func \in 0..(NumFuncs - 1)
  /\ PciDevice \in Function

(* Whenever there is a controller to see, the function fixed up is one,    *)
(* and the first: the scan passes over none, wherever it is.               *)
FixesTheFirst ==
  pc # "scan" /\ Controllers # {} => PciDevice \in Controllers /\ First(PciDevice)

(* With a controller to see, the loader goes on only with the first one in *)
(* compatibility mode and every other function as the firmware left it.    *)
ControllerReady ==
  pc = "done" /\ Controllers # {} =>
    /\ \E f \in Controllers :
         /\ First(f)
         /\ config[f][8] = [old[f][8] EXCEPT ![2] = 138] /\ config[f][0] = old[f][0]
         /\ \A g \in Function \ {f} : config[g] = old[g]

(* The fixup returns or fails, on any machine. *)
Ends == <>(pc \in {"done", "failed"})

(* pci.c:209, "Get IDE controller": what the fixup writes to is an IDE     *)
(* controller.                                                             *)
WritesOnlyControllers ==
  \A f \in Function : config[f] # old[f] => IsIde(old, f)
=============================================================================
