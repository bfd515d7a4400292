----------------------------- MODULE MC_MemoryMap -----------------------------
(***************************************************************************)
(* Instances of MemoryMap.  Pages of two bytes; the hole is the two pages  *)
(* 1 and 2 of a five-page memory, so a region can lie below, inside,       *)
(* above, reach in from either side or span it.  Regions may be empty, and *)
(* the firmware lists them in any order, unsorted and overlapping ones     *)
(* included.                                                               *)
(***************************************************************************)
EXTENDS MemoryMap

MC_PageSize == 2
MC_LowTop   == 2
MC_HighBase == 6
MC_Pages    == 5
MC_Described  == 0..(MC_PageSize * MC_Pages - 1)

(* One type for each arm of the switch, a second usable one, and a number  *)
(* that only the default arm catches.                                      *)
Regions(types) ==
  {md0 \in [type : types,
            phys_addr : {MC_PageSize * n : n \in 0..(MC_Pages - 1)},
            num_pages : 0..MC_Pages] :
     md0.phys_addr + MC_PageSize * md0.num_pages <= MC_PageSize * MC_Pages}

MapsUpTo(n, types) == UNION {[1..k -> Regions(types)] : k \in 0..n}

AllTypes == {"CONVENTIONAL_MEMORY", "LOADER_DATA", "RUNTIME_SERVICES_DATA",
             "ACPI_RECLAIM_MEMORY", "ACPI_MEMORY_NVS", "MAX_MEMORY_TYPE"}

(* Any two regions of any type; any three of the types that interact. *)
MC_AnyMaps == MapsUpTo(2, AllTypes)
MC_LongMaps == MapsUpTo(3, {"CONVENTIONAL_MEMORY", "RESERVED_TYPE"})
MC_EfiMaps == MC_AnyMaps \cup MC_LongMaps

(* Well-formed firmware maps: regions that do not overlap. *)
MC_DisjointMaps ==
  {m \in MapsUpTo(2, {"CONVENTIONAL_MEMORY", "RESERVED_TYPE"}) : DisjointMap(m)}
=============================================================================
