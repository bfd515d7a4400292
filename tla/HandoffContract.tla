---------------------------- MODULE HandoffContract ----------------------------
(***************************************************************************)
(* What WrapperInit promises of a clear machine: in one step, either       *)
(* FreeLoader runs with everything it is owed, or the loader halts.        *)
(*                                                                         *)
(* On any other machine the loader writes over itself, over what it still  *)
(* has to read, or over what it has put in its place, and it is not known  *)
(* what runs then: nothing is promised.                                    *)
(***************************************************************************)
EXTENDS Handoff

VARIABLES
  machine,
  outcome,     \* "booting", "freeldr" or "halted"
  delivered,   \* what FreeLoader finds in its place
  target       \* the address it is entered at

vars == <<machine, outcome, delivered, target>>

Init ==
  /\ machine \in MachineType
  /\ outcome = "booting"
  /\ delivered = {}
  /\ target = 0

HandOver ==
  /\ Clear(machine) /\ Loadable(machine)
  /\ outcome = "booting" /\ outcome' = "freeldr"
  /\ target' = EntryPoint(machine)
  /\ delivered' = Owed(machine)
  /\ UNCHANGED machine

Refuse ==
  /\ Clear(machine) /\ ~Loadable(machine)
  /\ outcome = "booting" /\ outcome' = "halted"
  /\ UNCHANGED <<machine, delivered, target>>

(* Any outcome, any time, or none. *)
NothingPromised == ~Clear(machine) /\ UNCHANGED machine

Next == HandOver \/ Refuse \/ NothingPromised

Spec == Init /\ [][Next]_vars /\ WF_vars(HandOver \/ Refuse)
=============================================================================
