----------------------------- MODULE MC_PciFixup -----------------------------
(***************************************************************************)
(* Two scanned buses and the last one, two slots, two functions: a         *)
(* controller can be at either end of every loop, and on the bus the scan  *)
(* does not reach.  At most two functions are present, of the class or the *)
(* subclass looked for, of both or of neither.                             *)
(***************************************************************************)
EXTENDS PciFixup

MC_LastBus  == 2
MC_NumSlots == 2
MC_NumFuncs == 2

Present(rev, progIf, sub, class) ==
  [r \in {0, 8} |-> IF r = 0 THEN <<134, 128, 192, 39>> ELSE <<rev, progIf, sub, class>>]

Any   == {Present(2, p, s, c) : p \in {138, 143, 128}, s \in {1, 6}, c \in {1, 2}}
Other == {Present(3, 143, 1, 1), Present(3, 138, 6, 1)}

MC_Devices ==
  {[f \in Function |-> IF f = f1 THEN d1 ELSE IF f = f2 THEN d2 ELSE Absent] :
     f1 \in Function, f2 \in Function, d1 \in Any, d2 \in Other \cup {Absent}}
=============================================================================
