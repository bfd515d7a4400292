----------------------------- MODULE MultibootMap -----------------------------
(***************************************************************************)
(* The Multiboot memory map being written, entry by entry (firmware.c):    *)
(* AddMemoryRegion, and what the entries say of a byte.                    *)
(***************************************************************************)
EXTENDS EfiMemory

Entry == [Address : Nat, Length : Nat, Type : MultibootKind]

(* Fault: the type of the previous entry is not looked at. *)
AddMemoryRegionAnyType(m, addr, length, type) ==
  LET x == Len(m)
  IN  IF x > 0 /\ m[x].Address + m[x].Length = addr
      THEN [m EXCEPT ![x].Length = @ + length]
      ELSE Append(m, [Address |-> addr, Length |-> length, Type |-> type])

(* Fault: never extends the previous entry. *)
AddMemoryRegionNoMerge(m, addr, length, type) ==
  Append(m, [Address |-> addr, Length |-> length, Type |-> type])

(* Fault: the extended entry starts over at the new length. *)
AddMemoryRegionResets(m, addr, length, type) ==
  LET x == Len(m)
  IN  IF x > 0 /\ m[x].Address + m[x].Length = addr /\ m[x].Type = type
      THEN [m EXCEPT ![x].Length = length]
      ELSE Append(m, [Address |-> addr, Length |-> length, Type |-> type])

(* A region that continues the last entry extends it; any other region is  *)
(* a new entry.                                                            *)
AddMemoryRegion(m, addr, length, type) ==
  LET x == Len(m)
  IN  IF x > 0 /\ m[x].Address + m[x].Length = addr /\ m[x].Type = type
      THEN [m EXCEPT ![x].Length = @ + length]
      ELSE Append(m, [Address |-> addr, Length |-> length, Type |-> type])

(* Fault: the low part of a region that reaches into the hole is cut at    *)
(* 1MB instead of 640K.                                                    *)
AddBelowHoleUncut(m, md) ==
  IF Start(md) < LowTop
  THEN AddMemoryRegion(m, Start(md), HighBase - Start(md), "AVAILABLE")
  ELSE m

(* The part of a hole-touching region below 640K, if there is one. *)
AddBelowHole(m, md) ==
  IF Start(md) < LowTop
  THEN AddMemoryRegion(m, Start(md), LowTop - Start(md), "AVAILABLE")
  ELSE m

(* An entry covers a byte; a map reports it as memory of a kind. *)
Covers(e, a) == e.Address <= a /\ a < e.Address + e.Length

ReportedBy(m, a, kind) ==
  \E k \in 1..Len(m) : m[k].Type = kind /\ Covers(m[k], a)
=============================================================================
