---------------------------- MODULE PciFixupProofs ----------------------------
(***************************************************************************)
(* Proofs about the IDE fixup, for any number of buses, slots and          *)
(* functions and any contents of configuration space.  What a step of the  *)
(* scan or of the fixup does is proved in HardwareProofs.                  *)
(***************************************************************************)
EXTENDS PciFixup, HardwareProofs

(* The inductive invariant. *)
IInv == FixupState(old, config, pc, Bus, Slot, Func, PciDevice)

-----------------------------------------------------------------------------
LEMMA InitIInv == Init => IInv
  BY ScanStarts, DevicesAssumption DEF Init, IInv

LEMMA NextIInv == IInv /\ [Next]_vars => IInv'
<1>. SUFFICES ASSUME IInv, [Next]_vars PROVE IInv'  OBVIOUS
<1>1. CASE Found
  BY <1>1, ScanFinds DEF IInv, Found, Here
<1>2. CASE Pass
  BY <1>2, ScanPasses DEF IInv, Pass, Here
<1>3. CASE NotFound
  BY <1>3, ScanEnds DEF IInv, NotFound
<1>4. CASE NothingToDo
  BY <1>4, FixupLeaves DEF IInv, NothingToDo, ProgIf, PciOffsetOld
<1>5. CASE WriteProgIf
  <2>1. config' = PciWriteLong(config, PciDevice, 8,
                    LET l == PciReadLong(config, PciDevice, 8)
                    IN  FromBytes(l[1], 138, l[3], l[4]))
    BY <1>5 DEF WriteProgIf, PciOffsetNew, RevId, Subclass, ClassCode, PciOffsetOld
  <2>. QED  BY <1>5, <2>1, FixupWrites DEF IInv, WriteProgIf, ProgIf, PciOffsetOld
<1>6. CASE Unsupported
  BY <1>6, FixupRefuses DEF IInv, Unsupported, ProgIf, PciOffsetOld
<1>7. CASE UNCHANGED vars
  BY <1>7 DEF IInv, vars
<1>. QED  BY <1>1, <1>2, <1>3, <1>4, <1>5, <1>6, <1>7 DEF Next, Over

(* No step of the scan or the fixup leaves the inductive invariant: the    *)
(* scan passes no controller and writes nothing.                           *)
THEOREM Scans == Spec => []IInv
<1>. QED  BY InitIInv, NextIInv, PTL DEF Spec

(* The counters of the three loops stay in their ranges, and whatever is   *)
(* read or written is a function of configuration space.                   *)
THEOREM TypeCorrect == Spec => []TypeOK
<1>1. IInv => TypeOK
  BY DEF IInv, FixupState, TypeOK
<1>. QED  BY <1>1, Scans, PTL

(* With a controller on a scanned bus, the function fixed up is the first. *)
THEOREM FixupTakesTheFirst == Spec => []FixesTheFirst
<1>1. IInv => FixesTheFirst
  BY DEF IInv, FixupState, FixesTheFirst, Controllers, First, FirstOf
<1>. QED  BY <1>1, Scans, PTL

(* With a controller on a scanned bus, the loader goes on only with the    *)
(* first in compatibility mode and every other function as it was.         *)
THEOREM FixupIsExact == Spec => []ControllerReady
<1>1. IInv => ControllerReady
  <2>. SUFFICES ASSUME IInv, pc = "done", Controllers # {} PROVE ControllerReady
    BY DEF ControllerReady
  <2>. QED  BY FirstIsReady DEF IInv, ControllerReady, Controllers, First, FirstOf
<1>. QED  BY <1>1, Scans, PTL
=============================================================================
