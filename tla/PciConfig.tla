------------------------------- MODULE PciConfig -------------------------------
(***************************************************************************)
(* Configuration space as pci.c gets at it: an address goes to port 0xCF8, *)
(* a longword comes from or goes to port 0xCFC.  Nothing else runs, so an  *)
(* access is indivisible.  Of each function's registers there are the two  *)
(* longwords the loader looks at.                                          *)
(***************************************************************************)
EXTENDS Integers

CONSTANTS
  LastBus,     \* 255: the loop is Bus < 255, this bus is not scanned
  NumSlots,    \* 32
  NumFuncs     \* 8

(* The fields of an address are 8, 5 and 3 bits wide. *)
ASSUME GeometryAssumption ==
  /\ LastBus \in 1..255 /\ NumSlots \in 1..32 /\ NumFuncs \in 1..8

Function == (0..LastBus) \X (0..(NumSlots - 1)) \X (0..(NumFuncs - 1))
Scanned  == {f \in Function : f[1] < LastBus}

VENDOR_ID     == 0
PROG_IF       == 9
SUBCLASS_CODE == 10
CLASS_CODE    == 11

(* The longwords those are in; a longword is its bytes, the lowest first.  *)
Register == {0, 8}
Longword == [1..4 -> 0..255]
Space    == [Function -> [Register -> Longword]]

FromBytes(b0, b1, b2, b3) ==
  [k \in 1..4 |-> IF k = 1 THEN b0 ELSE IF k = 2 THEN b1 ELSE IF k = 3 THEN b2 ELSE b3]

(* What is not there reads as all ones. *)
Absent == [r \in Register |-> FromBytes(255, 255, 255, 255)]

(* The configuration address, but for bit 31, which is always set. *)
ConfigAddress(f, Offset) ==
  f[1] * 65536 + f[2] * 2048 + f[3] * 256 + (Offset - (Offset % 4))

(* The host bridge's half: the function and the register an address names. *)
FunctionAt(a) == <<a \div 65536, (a \div 2048) % 32, (a \div 256) % 8>>
RegisterAt(a) == a % 256

(* outl to the address port, inl from the data port. *)
Data(space, a) == space[FunctionAt(a)][RegisterAt(a)]

PciReadLong(space, f, Offset) ==
  LET data == Data(space, ConfigAddress(f, Offset))
  IN  IF Offset % 4 < 2 THEN data ELSE FromBytes(data[3], data[4], 0, 0)

PciWriteLong(space, f, Offset, Value) ==
  LET a == ConfigAddress(f, Offset)
  IN  [space EXCEPT ![FunctionAt(a)] = [@ EXCEPT ![RegisterAt(a)] = Value]]

(* The word and the byte at an offset, low byte first. *)
PciReadWord(space, f, Offset) ==
  LET data == Data(space, ConfigAddress(f, Offset))
  IN  IF Offset % 4 < 2 THEN <<data[1], data[2]>> ELSE <<data[3], data[4]>>

PciReadByte(space, f, Offset) == Data(space, ConfigAddress(f, Offset))[(Offset % 4) + 1]

(* A device is there, of class mass storage and subclass IDE. *)
IsIde(space, f) ==
  /\ PciReadWord(space, f, VENDOR_ID) # <<255, 255>>
  /\ PciReadByte(space, f, CLASS_CODE) = 1
  /\ PciReadByte(space, f, SUBCLASS_CODE) = 1

(* The order the three loops visit functions in. *)
Before(f, g) ==
  \/ f[1] < g[1]
  \/ f[1] = g[1] /\ f[2] < g[2]
  \/ f[1] = g[1] /\ f[2] = g[2] /\ f[3] < g[3]

(* The IDE controllers in a space that a scan can see. *)
ControllersOf(space) == {f \in Scanned : IsIde(space, f)}
=============================================================================
