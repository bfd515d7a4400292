--------------------------- MODULE MemoryMapProofs ---------------------------
(***************************************************************************)
(* Proofs about the memory-map conversion, for every page size, hole and   *)
(* firmware map.  What an iteration does to the account it keeps of the    *)
(* firmware's descriptors is proved in HardwareProofs.                     *)
(***************************************************************************)
EXTENDS MemoryMap, HardwareProofs

CountsPublished ==
  returned => i = Len(efi) /\ BootInfo.MemoryMapEntries = Len(map)

(* The inductive invariant: the account of HardwareProofs, kept by the     *)
(* loop's own variables, and handed to the boot info at the end.           *)
IInv ==
  /\ Account(efi, i, p, map)
  /\ BootInfo \in [MemoryMapEntries : Nat, MemoryMapSize : Nat]
  /\ returned \in BOOLEAN
  /\ CountsPublished

-----------------------------------------------------------------------------
(* Every arm of the switch is one conversion of the current descriptor.    *)
LEMMA Iteration ==
  ASSUME IInv,
         \/ ConvertReserved \/ ConvertUsable \/ ConvertAcrossHole \/ ConvertEndsInHole
  PROVE  /\ More /\ i < Len(efi) /\ Measured(md)
         /\ map' = Converted(map, md)
         /\ i' = i + 1 /\ p' = (IF EndsInHole(md) THEN p ELSE p + 1)
         /\ UNCHANGED <<efi, BootInfo, returned>>
<1>1. More /\ i < Len(efi)
  BY DEF ConvertReserved, ConvertUsable, ConvertAcrossHole, ConvertEndsInHole, More
<1>2. Measured(md)
  BY <1>1, CurrentDescriptor DEF IInv, md
<1>3. CASE ConvertReserved \/ ConvertUsable
  BY <1>1, <1>2, <1>3, ArmsConvert DEF NextDescriptor, ConvertReserved, ConvertUsable
<1>4. CASE ConvertAcrossHole
  BY <1>1, <1>2, <1>4, ArmsConvert DEF NextDescriptor, ConvertAcrossHole
<1>5. CASE ConvertEndsInHole
  BY <1>1, <1>2, <1>5, ArmsConvert DEF ConvertEndsInHole
<1>. QED  BY <1>3, <1>4, <1>5

(* The loop starts with an empty account.                                  *)
LEMMA InitIInv == Init => IInv
<1>. SUFFICES ASSUME Init PROVE IInv
  OBVIOUS
<1>1. Account(efi, i, p, map)
  BY AccountStarts DEF Init
<1>. QED  BY <1>1 DEF Init, IInv, CountsPublished

(* Every step keeps the invariant. *)
LEMMA NextIInv == IInv /\ [Next]_vars => IInv'
<1>. SUFFICES ASSUME IInv, [Next]_vars PROVE IInv'
  OBVIOUS
<1>1. CASE \/ ConvertReserved \/ ConvertUsable \/ ConvertAcrossHole \/ ConvertEndsInHole
  <2>1. /\ More /\ i < Len(efi) /\ map' = Converted(map, md)
        /\ i' = i + 1 /\ p' = (IF EndsInHole(md) THEN p ELSE p + 1)
        /\ UNCHANGED <<efi, BootInfo, returned>>
    BY <1>1, Iteration
  <2>2. Account(efi', i', p', map')
    BY <2>1, AccountKept DEF IInv, md
  <2>. QED  BY <2>1, <2>2 DEF IInv, CountsPublished, More
<1>2. CASE Return
  <2>1. Len(map) \in Nat /\ EntrySize * Len(map) \in Nat
    BY DEF IInv, Account, EntrySize
  <2>. QED  BY <1>2, <2>1 DEF IInv, CountsPublished, Return
<1>3. CASE Returned \/ UNCHANGED vars
  BY <1>3 DEF Returned, vars, IInv, CountsPublished
<1>. QED  BY <1>1, <1>2, <1>3 DEF Next

(* The invariant, of every behaviour of FillMultibootMemoryMap. *)
THEOREM Accounted == Spec => []IInv
<1>1. IInv /\ [Next]_vars => IInv'
  BY NextIInv
<1>. QED
  BY InitIInv, <1>1, PTL DEF Spec

(* The loop stays within the descriptors the firmware announced and writes *)
(* well-formed entries only.                                               *)
THEOREM TypeCorrect == Spec => []TypeOK
<1>1. IInv => TypeOK
  BY DEF IInv, Account, TypeOK
<1>. QED
  BY <1>1, Accounted, PTL

(* Everything in the Multiboot map comes from the firmware's, and usable   *)
(* memory never from the 640K-1MB hole -- whatever the firmware map, in    *)
(* any order, with any overlaps.                                           *)
THEOREM MapInventsNothing == Spec => []NothingInvented
<1>1. IInv => NothingInvented
  BY ReportedIsPromised DEF IInv, NothingInvented, Reported
<1>. QED
  BY <1>1, Accounted, PTL

(* When the pointer cannot be left behind before the last descriptor, the  *)
(* finished map is exactly what the firmware promised.                     *)
THEOREM MapIsExact == Spec => []ReportedExactly
<1>1. IInv => ReportedExactly
  <2>. SUFFICES ASSUME IInv, returned, CleanMap(efi),
                       NEW a \in Described, NEW kind \in MultibootKind
                PROVE  (\E k \in Announced :
                          map[k].Type = kind /\ Covers(map[k], a))
                         <=> Promised(efi, Len(efi), a, kind)
    BY DEF ReportedExactly
  <2>1. Announced = 1..Len(map) /\ i = Len(efi)
    BY DEF IInv, CountsPublished, Announced
  <2>2. ReportedBy(map, a, kind) <=> Promised(efi, Len(efi), a, kind)
    BY <2>1, AccountExact DEF IInv
  <2>. QED
    BY <2>1, <2>2 DEF ReportedBy
<1>. QED
  BY <1>1, Accounted, PTL

(* With disjoint descriptors the map has one entry more than there are     *)
(* descriptors, at the most: what the area at 0x3F0000 has to hold.        *)
THEOREM OneEntryEach == Spec => []OneEntryPerDescriptor
<1>1. IInv => OneEntryPerDescriptor
  <2>. SUFFICES ASSUME IInv, DisjointMap(efi) PROVE Len(map) <= i + 1
    BY DEF OneEntryPerDescriptor
  <2>. DEFINE c == Cardinality(Spanning(efi, p))
  <2>1. /\ Len(map) \in Nat /\ i \in Nat /\ p \in 0..Len(efi) /\ efi \in EfiMaps
        /\ Len(map) <= i + c
    BY MemoryAssumption DEF IInv, Account
  <2>2. c \in {0, 1}
    BY <2>1, OneSpans
  <2>. HIDE DEF c
  <2>. QED  BY <2>1, <2>2
<1>. QED  BY <1>1, Accounted, PTL

(* No two neighbouring entries are halves of one region, whatever regions  *)
(* the firmware lists in whatever order.                                   *)
THEOREM MapIsCoalesced == Spec => []Coalesced
<1>1. Init => NoHalves(map)
  BY DEF Init, NoHalves
<1>2. IInv /\ NoHalves(map) /\ [Next]_vars => NoHalves(map)'
  <2>. SUFFICES ASSUME IInv, NoHalves(map), [Next]_vars
                PROVE  NoHalves(map')
    BY DEF NoHalves
  <2>1. CASE \/ ConvertReserved \/ ConvertUsable \/ ConvertAcrossHole \/ ConvertEndsInHole
    BY <2>1, Iteration, ConvertedNoHalves DEF IInv, Account
  <2>2. CASE map' = map
    BY <2>2
  <2>. QED
    BY <2>1, <2>2 DEF Next, Return, Returned, vars
<1>3. NoHalves(map) => Coalesced
  BY DEF NoHalves, Coalesced
<1>. QED
  BY <1>1, <1>2, <1>3, Accounted, PTL DEF Spec

(* Where the map is exact, it also says nothing twice: entries of disjoint *)
(* descriptors share no byte, merged and cut as they may be.               *)
THEOREM EntriesApart == Spec => []EntriesDisjoint
<1>. DEFINE Inv == DisjointMap(efi) /\ CleanMap(efi) => ShareNoByte(map)
<1>1. Init => Inv
  BY DEF Init, ShareNoByte
<1>2. IInv /\ Inv /\ [Next]_vars => Inv'
  <2>. SUFFICES ASSUME IInv, Inv, [Next]_vars, DisjointMap(efi)', CleanMap(efi)'
                PROVE  ShareNoByte(map)'
    OBVIOUS
  <2>1. CASE \/ ConvertReserved \/ ConvertUsable \/ ConvertAcrossHole \/ ConvertEndsInHole
    <3>1. i < Len(efi) /\ map' = Converted(map, md) /\ efi' = efi
      BY <2>1, Iteration
    <3>2. ShareNoByte(map')
      BY <3>1, AccountApart DEF IInv, md
    <3>. QED  BY <3>2
  <2>2. CASE map' = map /\ efi' = efi
    BY <2>2
  <2>. QED  BY <2>1, <2>2 DEF Next, Return, Returned, vars
<1>3. Inv => EntriesDisjoint
  BY DEF ShareNoByte, EntriesDisjoint
<1>. HIDE DEF Inv
<1>. QED  BY <1>1, <1>2, <1>3, Accounted, PTL DEF Spec

-----------------------------------------------------------------------------
(* The contract speaks of the firmware map in the words of the loop. *)
LEMMA SameKinds ==
  /\ Contract!MultibootKind = MultibootKind
  /\ \A type : Contract!KindOf(type) = KindOf(type)
BY DEF Contract!MultibootKind, MultibootKind, Contract!KindOf, KindOf,
       Contract!UsableTypes, UsableTypes

LEMMA SamePromises ==
  /\ \A m, n, a, kind : Contract!Promised(m, n, a, kind) <=> Promised(m, n, a, kind)
  /\ \A m : Contract!CleanMap(m) <=> CleanMap(m)
<1>1. \A d, a : /\ Contract!Claims(d, a) <=> Claims(d, a)
                /\ Contract!InHole(d, a) <=> InHole(d, a)
                /\ Contract!EndsInHole(d) <=> EndsInHole(d)
  BY DEF Contract!Claims, Claims, Contract!InHole, InHole,
         Contract!EndsInHole, EndsInHole, Contract!TouchesHole, TouchesHole,
         Contract!Start, Start, Contract!End, End, Contract!Size, Size,
         Contract!UsableTypes, UsableTypes
<1>. QED
  BY <1>1, SameKinds DEF Contract!Promised, Promised, Contract!CleanMap, CleanMap

LEMMA SamePromisedOf ==
  \A kind : Contract!PromisedOf(kind) = {a \in Described : Promised(efi, Len(efi), a, kind)}
BY SamePromises DEF Contract!PromisedOf

(* The step of the contract is the return: until then the caller sees      *)
(* nothing, and then the bytes the entries report.                         *)
LEMMA ReturnPublishes ==
  ASSUME IInv, Return
  PROVE  Contract!Publish
<1>1. UNCHANGED <<efi, map>> /\ ~returned /\ returned' /\ i = Len(efi)
  BY DEF Return
<1>2. Announced' = 1..Len(map)
  BY <1>1 DEF Return, Announced
<1>3. ASSUME NEW kind \in MultibootKind
      PROVE  AnnouncedOf(kind)' = {a \in Described : Reported(a, kind)}
  BY <1>1, <1>2 DEF AnnouncedOf, Reported, ReportedBy
<1>4. ASSUME NEW kind \in MultibootKind
      PROVE  /\ AnnouncedOf(kind)' \subseteq Contract!PromisedOf(kind)
             /\ CleanMap(efi) => AnnouncedOf(kind)' = Contract!PromisedOf(kind)
  <2>1. AnnouncedOf(kind)' \subseteq Contract!PromisedOf(kind)
    BY <1>3, ReportedIsPromised, SamePromisedOf DEF IInv, Reported
  <2>2. ASSUME CleanMap(efi) PROVE AnnouncedOf(kind)' = Contract!PromisedOf(kind)
    BY <1>1, <1>3, <2>2, AccountExact, SamePromisedOf DEF IInv, Reported
  <2>. QED
    BY <2>1, <2>2
<1>5. ASSUME NEW kind \in MultibootKind PROVE AnnouncedOf(kind)' \subseteq Described
  BY <1>3
<1>. DEFINE rep == [kind \in MultibootKind |->
                      IF returned THEN AnnouncedOf(kind) ELSE {}]
<1>6. rep' = [kind \in MultibootKind |-> AnnouncedOf(kind)']
  BY <1>1
<1>7. rep' \in [MultibootKind -> SUBSET Described]
  BY <1>5, <1>6
<1>8. \A kind \in MultibootKind :
        /\ rep'[kind] \subseteq Contract!PromisedOf(kind)
        /\ CleanMap(efi) => rep'[kind] = Contract!PromisedOf(kind)
  BY <1>4, <1>6
<1>. QED
  BY <1>1, <1>7, <1>8, SameKinds, SamePromises DEF Contract!Publish

(* The loop implements the contract: every step but the return leaves what *)
(* the caller can see alone.                                               *)
THEOREM MapImplementsContract == Spec => ContractSpec
<1>1. Init => Contract!Init
  BY SameKinds DEF Init, Contract!Init
<1>2. IInv /\ [Next]_vars => [Contract!Publish]_(Contract!vars)
  <2>. SUFFICES ASSUME IInv, [Next]_vars
                PROVE  [Contract!Publish]_(Contract!vars)
    OBVIOUS
  <2>1. CASE Return
    BY <2>1, ReturnPublishes
  <2>2. CASE (More /\ NextDescriptor) \/ ConvertEndsInHole
    <3>1. returned = FALSE /\ returned' = FALSE /\ efi' = efi
      BY <2>2 DEF IInv, More, NextDescriptor, ConvertEndsInHole
    <3>2. [kind \in MultibootKind |-> IF returned THEN AnnouncedOf(kind) ELSE {}]'
            = [kind \in MultibootKind |-> IF returned THEN AnnouncedOf(kind) ELSE {}]
      BY <3>1
    <3>. QED
      BY <3>1, <3>2 DEF Contract!vars
  <2>3. CASE UNCHANGED vars
    BY <2>3 DEF vars, Contract!vars, AnnouncedOf, Announced
  <2>. QED
    BY <2>1, <2>2, <2>3
       DEF Next, Returned, ConvertReserved, ConvertUsable, ConvertAcrossHole
<1>. QED
  BY <1>1, <1>2, Accounted, PTL DEF Spec, ContractSpec, Contract!Spec
=============================================================================
