------------------------------ MODULE EfiMemory ------------------------------
(***************************************************************************)
(* The vocabulary of the memory-map conversion of firmware.c: the firmware *)
(* descriptors the loader is handed, the four Multiboot kinds it hands on, *)
(* and, byte by byte, what a firmware map promises.                        *)
(*                                                                         *)
(* Addresses and lengths are naturals.  The code computes in u64; a        *)
(* firmware map whose regions reach beyond 2^64 is not considered.         *)
(***************************************************************************)
EXTENDS Naturals, Sequences

CONSTANTS
  PageSize,   \* 1 << EFI_PAGE_SHIFT
  LowTop,     \* 640K, 0xA0000: where conventional low memory ends
  HighBase,   \* 1MB, 0x100000: where memory above the legacy hole begins
  Described,  \* the byte addresses the properties speak of
  EfiMaps     \* the firmware maps the loader may be handed

(* The EFI types of the usable arm of the switch.                          *)
UsableTypes == {"LOADER_CODE", "LOADER_DATA", "BOOT_SERVICES_CODE",
                "BOOT_SERVICES_DATA", "CONVENTIONAL_MEMORY"}

(* efi_memory_desc_t; virt_addr and attribute are never read. *)
Descriptor == [type : STRING, phys_addr : Nat, num_pages : Nat]

ASSUME MemoryAssumption ==
  /\ PageSize \in Nat \ {0}
  /\ LowTop \in Nat \ {0} /\ HighBase \in Nat /\ LowTop < HighBase
  /\ Described \subseteq Nat /\ LowTop \in Described
  /\ EfiMaps \subseteq Seq(Descriptor)

(* The MULTIBOOT_MEMORY_... codes of a struct mmap_entry. *)
MultibootKind == {"AVAILABLE", "RESERVED", "ACPI_RECLAIMABLE", "NVS"}

(* Fault: the default arm passes the EFI type on as it is. *)
KindOfUnlisted(type) ==
  CASE type \in UsableTypes           -> "AVAILABLE"
    [] type = "ACPI_RECLAIM_MEMORY"   -> "ACPI_RECLAIMABLE"
    [] type = "ACPI_MEMORY_NVS"       -> "NVS"
    [] OTHER                          -> type

(* The kind the switch gives a descriptor of an EFI type.  The types of    *)
(* the reserved arm and those only the default arm catches fare alike.     *)
KindOf(type) ==
  CASE type \in UsableTypes           -> "AVAILABLE"
    [] type = "ACPI_RECLAIM_MEMORY"   -> "ACPI_RECLAIMABLE"
    [] type = "ACPI_MEMORY_NVS"       -> "NVS"
    [] OTHER                          -> "RESERVED"

Start(md) == md.phys_addr
Size(md)  == md.num_pages * PageSize
End(md)   == Start(md) + Size(md)

Claims(md, a) == Start(md) <= a /\ a < End(md)

(* Conventional memory reported by the firmware in the 640K-1MB hole is    *)
(* not memory.                                                             *)
InHole(md, a) == md.type \in UsableTypes /\ LowTop <= a /\ a < HighBase

(* What the first n descriptors of a firmware map say of byte a. *)
Promised(efi, n, a, kind) ==
  \E k \in 1..n : /\ KindOf(efi[k].type) = kind
                  /\ Claims(efi[k], a)
                  /\ ~InHole(efi[k], a)

(* Firmware promises regions that share no byte. *)
DisjointMap(efi) ==
  \A j, k \in 1..Len(efi) :
    j # k => \A a \in Described : ~(Claims(efi[j], a) /\ Claims(efi[k], a))

(* Conventional memory that touches the 640K-1MB hole. *)
TouchesHole(md) ==
  md.type \in UsableTypes /\ Start(md) < HighBase /\ End(md) > LowTop

(* ... and does not come out of it at the top. *)
EndsInHole(md) == TouchesHole(md) /\ End(md) <= HighBase

(* ... or sticks out of it at both ends. *)
SpansHole(md) == TouchesHole(md) /\ Start(md) < LowTop /\ End(md) > HighBase

(* No descriptor but possibly the last ends in the hole. *)
CleanMap(efi) == \A k \in 1..(Len(efi) - 1) : ~EndsInHole(efi[k])
=============================================================================
