---------------------------- MODULE PhysicalMemory ----------------------------
(***************************************************************************)
(* Physical memory as the loader sees it: no paging, every store lands at  *)
(* the address it names, whatever else lives there.  A byte is known by    *)
(* the object it belongs to and its offset in that object.                 *)
(***************************************************************************)
EXTENDS Naturals

CONSTANT Address    \* the byte addresses the properties speak of

ASSUME AddressAssumption == Address \subseteq Nat

InArea(a, lo, size) == lo <= a /\ a < lo + size

Meet(lo1, size1, lo2, size2) == lo1 < lo2 + size2 /\ lo2 < lo1 + size1

(* An object of some size is stored at lo. *)
Store(mem, lo, size, object) ==
  [a \in Address |-> IF InArea(a, lo, size)
                     THEN [of |-> object, at |-> a - lo]
                     ELSE mem[a]]

(* memcpy(to, from, size), areas that do not overlap. *)
Copy(mem, to, from, size) ==
  [a \in Address |-> IF InArea(a, to, size) /\ from + (a - to) \in Address
                     THEN mem[from + (a - to)]
                     ELSE mem[a]]

(* The area at lo holds bytes off .. off + size - 1 of an object. *)
Holds(mem, lo, size, object) ==
  \A a \in Address : InArea(a, lo, size) => mem[a] = [of |-> object, at |-> a - lo]
=============================================================================
