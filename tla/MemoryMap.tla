------------------------------ MODULE MemoryMap ------------------------------
(***************************************************************************)
(* FillMultibootMemoryMap (firmware.c): the loop that turns the firmware's *)
(* descriptors into the Multiboot entries written at MemoryMapAddr.  One   *)
(* step is one iteration of the for loop.                                  *)
(*                                                                         *)
(* The loop counter i and the descriptor pointer p are separate variables, *)
(* as in the code: i is advanced by the for header, p only at the bottom   *)
(* of the body, which the continue inside the switch does not reach.       *)
(***************************************************************************)
EXTENDS MultibootMap

VARIABLES
  efi,       \* the descriptors at BootArgs->EfiMemoryMap, never written
  i,         \* iterations done
  p,         \* descriptors the pointer p has passed
  map,       \* the entries written so far; NumberOfEntries is its length
  BootInfo,  \* MemoryMapEntries and MemoryMapSize
  returned   \* the function has returned

vars == <<efi, i, p, map, BootInfo, returned>>

(* Fault: not packed, the entry is padded to a multiple of eight bytes. *)
EntrySizePadded == 24

EntrySize == 20     \* sizeof(struct mmap_entry), packed

Init ==
  /\ efi \in EfiMaps
  /\ i = 0 /\ p = 0
  /\ map = <<>>
  /\ BootInfo = [MemoryMapEntries |-> 0, MemoryMapSize |-> 0]
  /\ returned = FALSE

md == efi[p + 1]

More == ~returned /\ i < Len(efi)

(* The end of the loop body: p moves to the next descriptor. *)
NextDescriptor ==
  /\ i' = i + 1 /\ p' = p + 1
  /\ UNCHANGED <<efi, BootInfo, returned>>

(* Every arm but the usable one, default included: the whole region. *)
ConvertReserved ==
  /\ More
  /\ md.type \notin UsableTypes
  /\ map' = AddMemoryRegion(map, Start(md), Size(md), KindOf(md.type))
  /\ NextDescriptor

(* Fault: no break, the usable arm falls through into the NVS arm. *)
ConvertUsableFallsThrough ==
  /\ More
  /\ md.type \in UsableTypes /\ ~TouchesHole(md)
  /\ map' = AddMemoryRegion(
               AddMemoryRegion(map, Start(md), Size(md), "AVAILABLE"),
               Start(md), Size(md), "NVS")
  /\ NextDescriptor

(* Usable memory clear of the hole: the whole region. *)
ConvertUsable ==
  /\ More
  /\ md.type \in UsableTypes /\ ~TouchesHole(md)
  /\ map' = AddMemoryRegion(map, Start(md), Size(md), "AVAILABLE")
  /\ NextDescriptor

(* Fault: size is not recomputed after start moves to 1MB. *)
ConvertAcrossHoleOldSize ==
  /\ More
  /\ TouchesHole(md) /\ End(md) > HighBase
  /\ map' = AddMemoryRegion(AddBelowHole(map, md),
                            HighBase, Size(md), "AVAILABLE")
  /\ NextDescriptor

(* Usable memory that comes out of the hole at the top: the part below     *)
(* 640K, then the part from 1MB.                                           *)
ConvertAcrossHole ==
  /\ More
  /\ TouchesHole(md) /\ End(md) > HighBase
  /\ map' = AddMemoryRegion(AddBelowHole(map, md),
                            HighBase, End(md) - HighBase, "AVAILABLE")
  /\ NextDescriptor

(* Fault: leaving by continue does not count the iteration. *)
ConvertEndsInHoleUncounted ==
  /\ More
  /\ EndsInHole(md)
  /\ map' = map
  /\ UNCHANGED <<efi, i, p, BootInfo, returned>>

(* Usable memory that ends in the hole: the part below 640K, then continue *)
(* -- the iteration is counted and p stays where it is.                    *)
ConvertEndsInHole ==
  /\ More
  /\ EndsInHole(md)
  /\ map' = AddBelowHole(map, md)
  /\ i' = i + 1
  /\ UNCHANGED <<efi, p, BootInfo, returned>>

(* After the loop: the counts go to the boot info. *)
Return ==
  /\ ~returned /\ i = Len(efi)
  /\ BootInfo' = [MemoryMapEntries |-> Len(map),
                  MemoryMapSize    |-> EntrySize * Len(map)]
  /\ returned' = TRUE
  /\ UNCHANGED <<efi, i, p, map>>

(* The caller goes on; nothing here moves any more. *)
Returned == returned /\ UNCHANGED vars

Next ==
  \/ ConvertReserved
  \/ ConvertUsable
  \/ ConvertAcrossHole
  \/ ConvertEndsInHole
  \/ Return
  \/ Returned

Spec == Init /\ [][Next]_vars /\ WF_vars(Next)

-----------------------------------------------------------------------------
(* The entries the boot info announces: what FreeLoader reads. *)
Announced == 1..BootInfo.MemoryMapEntries

(* The map, as far as it is written, reports byte a as memory of a kind. *)
Reported(a, kind) == ReportedBy(map, a, kind)

(* Type invariant.  The pointer never passes the counter, so the loop      *)
(* never reads a descriptor beyond those the firmware announced.           *)
TypeOK ==
  /\ efi \in EfiMaps
  /\ i \in 0..Len(efi) /\ p \in 0..i
  /\ map \in Seq(Entry)
  /\ BootInfo \in [MemoryMapEntries : Nat, MemoryMapSize : Nat]
  /\ returned \in BOOLEAN

(* Nothing is invented (FillMultibootMemoryMap, AddMemoryRegion): a byte   *)
(* the map reports with a kind is one some firmware descriptor gives that  *)
(* kind, and no byte of the 640K-1MB hole is ever reported usable.         *)
NothingInvented ==
  \A a \in Described, kind \in MultibootKind :
    Reported(a, kind) => Promised(efi, Len(efi), a, kind)

(* When the function returns, every byte has exactly the kinds the         *)
(* firmware gave it -- for firmware maps where no descriptor before the    *)
(* last one ends in the hole.                                              *)
ReportedExactly ==
  returned /\ CleanMap(efi) =>
    \A a \in Described, kind \in MultibootKind :
      (\E k \in Announced : map[k].Type = kind /\ Covers(map[k], a))
        <=> Promised(efi, Len(efi), a, kind)

(* Neighbouring entries are never two halves of one region: an entry that  *)
(* starts where the previous one ends has another kind.                    *)
Coalesced ==
  \A k \in 1..(Len(map) - 1) :
    ~ /\ map[k].Address + map[k].Length = map[k + 1].Address
      /\ map[k].Type = map[k + 1].Type

(* Two entries share no byte if the firmware's descriptors share none, for *)
(* the same maps as ReportedExactly.                                       *)
EntriesDisjoint ==
  DisjointMap(efi) /\ CleanMap(efi) =>
    \A j, k \in 1..Len(map) :
      j # k => \A a \in Described : ~(Covers(map[j], a) /\ Covers(map[k], a))

(* Of disjoint descriptors only one can span the hole, so the conversion   *)
(* writes at most one entry more than the firmware has descriptors: the    *)
(* area at 0x3F0000 below the loader needs room for that many.             *)
OneEntryPerDescriptor == DisjointMap(efi) => Len(map) <= i + 1

(* What the comment "Convert EFI memory map to Multiboot memory map" says: *)
(* every byte the firmware describes is in the map.                        *)
EveryByteReported ==
  returned =>
    \A a \in Described, kind \in MultibootKind :
      Promised(efi, Len(efi), a, kind) => Reported(a, kind)

(* The conversion returns, whatever the firmware map is. *)
Returns == <>returned

-----------------------------------------------------------------------------
(* The bytes of a kind, in the entries BootInfo counts. *)
AnnouncedOf(kind) ==
  {a \in Described : \E k \in Announced : map[k].Type = kind /\ Covers(map[k], a)}

(* The conversion as its caller sees it; see MemoryMapContract. *)
Contract == INSTANCE MemoryMapContract
  WITH report    <- [kind \in MultibootKind |->
                       IF returned THEN AnnouncedOf(kind) ELSE {}],
       published <- returned

(* The loop implements the one-step contract: the caller sees the map only *)
(* when it is complete.                                                    *)
ContractSpec == Contract!Spec
=============================================================================
