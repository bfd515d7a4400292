-------------------------- MODULE MemoryMapContract --------------------------
(***************************************************************************)
(* What FillMultibootMemoryMap promises CreateBootInfo: in one step, the   *)
(* set of addresses of each Multiboot kind, taken from the firmware map    *)
(* with the 640K-1MB hole cut out of usable memory -- or, when a           *)
(* descriptor before the last ends in the hole, part of that set.          *)
(***************************************************************************)
EXTENDS EfiMemory

VARIABLES
  efi,        \* the firmware map
  report,     \* the addresses reported for each kind
  published   \* the caller may read the report

vars == <<efi, report, published>>

Init ==
  /\ efi \in EfiMaps
  /\ report = [kind \in MultibootKind |-> {}]
  /\ published = FALSE

PromisedOf(kind) == {a \in Described : Promised(efi, Len(efi), a, kind)}

Publish ==
  /\ ~published
  /\ published' = TRUE
  /\ report' \in [MultibootKind -> SUBSET Described]
  /\ \A kind \in MultibootKind :
       /\ report'[kind] \subseteq PromisedOf(kind)
       /\ CleanMap(efi) => report'[kind] = PromisedOf(kind)
  /\ UNCHANGED efi

Spec == Init /\ [][Publish]_vars
=============================================================================
