--------------------------------- MODULE Clock ---------------------------------
(***************************************************************************)
(* sleep, msleep and mseconds (utils.c): a pause timed with the processor's *)
(* time-stamp counter.                                                     *)
(*                                                                         *)
(* rdtsc leaves the counter's low word in eax and its high word in edx.    *)
(* mseconds counts units of 2^20 cycles from both, in an int: a shift of   *)
(* the high word by 12 makes room for the 12 bits the low word keeps.      *)
(* The widths are parameters.  The counter starts anywhere, runs on while  *)
(* the code does, and the loader sleeps once.                              *)
(***************************************************************************)
EXTENDS Integers

CONSTANTS
  WordSize,    \* 2^32, what eax, edx and int hold
  Unit,        \* 2^20, the cycles of a unit
  Pause,       \* 5000, the units msleep is called for
  Starts,      \* values of the counter when sleep is called
  Laps         \* cycles that may pass between two rdtsc

(* What an unsigned shift by 12 multiplies with. *)
HighUnits == WordSize \div Unit

(* A unit divides the low word; a deadline and a read after it fit an int. *)
ASSUME ClockAssumption ==
  /\ WordSize \in Nat \ {0} /\ Unit \in Nat \ {0} /\ Pause \in Nat
  /\ WordSize = HighUnits * Unit
  /\ Starts \subseteq Nat /\ Laps \subseteq Nat \ {0}
  /\ \A lap \in Laps : 2 * (Pause + 3 + 2 * (lap \div Unit)) < WordSize

VARIABLES
  tsc,         \* the time-stamp counter
  start,       \* its value when sleep was called
  pc,          \* "sleep", "rdtsc" in the first mseconds, "msleep", "awake"
  l0, h0,      \* the words of the first rdtsc; set once
  s            \* msleep's deadline

vars == <<tsc, start, pc, l0, h0, s>>

Init ==
  /\ tsc \in Starts /\ start = tsc
  /\ pc = "sleep"
  /\ l0 = 0 /\ h0 = 0
  /\ s = 0

Low(t)  == t % WordSize
High(t) == (t \div WordSize) % WordSize

(* An unsigned word as an int. *)
AsInt(w) == IF 2 * w < WordSize THEN w ELSE w - WordSize

(* Fault: the time since the counter started. *)
msecondsAbsolute(t) == AsInt((High(t) * HighUnits + (Low(t) \div Unit)) % WordSize)

(* Fault: the shift is one too wide, or one too narrow. *)
msecondsWide(t) ==
  AsInt(((High(t) + WordSize - h0) * (2 * HighUnits) + (Low(t) \div Unit)
           + WordSize - (l0 \div Unit)) % WordSize)
msecondsNarrow(t) ==
  AsInt(((High(t) + WordSize - h0) * (HighUnits \div 2) + (Low(t) \div Unit)
           + WordSize - (l0 \div Unit)) % WordSize)

(* What mseconds returns when its rdtsc reads t. *)
mseconds(t) ==
  AsInt(((High(t) + WordSize - h0) * HighUnits + (Low(t) \div Unit)
         + WordSize - (l0 \div Unit)) % WordSize)

(* The first rdtsc, as set is 0. *)
FirstReading(lap) ==
  /\ pc = "sleep"
  /\ tsc' = tsc + lap
  /\ l0' = Low(tsc') /\ h0' = High(tsc')
  /\ pc' = "rdtsc"
  /\ UNCHANGED <<start, s>>

(* s += mseconds(), by the second rdtsc. *)
SetDeadline(lap) ==
  /\ pc = "rdtsc"
  /\ tsc' = tsc + lap
  /\ s' = Pause + mseconds(tsc')
  /\ pc' = "msleep"
  /\ UNCHANGED <<start, l0, h0>>

StillWaits(t) == mseconds(t) < s

(* One turn of while (mseconds() < s). *)
Poll(lap) ==
  /\ pc = "msleep"
  /\ tsc' = tsc + lap
  /\ pc' = IF StillWaits(tsc') THEN "msleep" ELSE "awake"
  /\ UNCHANGED <<start, l0, h0, s>>

Awake == pc = "awake" /\ UNCHANGED vars

Next ==
  \/ \E lap \in Laps : FirstReading(lap) \/ SetDeadline(lap) \/ Poll(lap)
  \/ Awake

Spec == Init /\ [][Next]_vars

-----------------------------------------------------------------------------
(* Type invariant. *)
TypeOK ==
  /\ tsc \in Nat /\ start \in Starts
  /\ pc \in {"sleep", "rdtsc", "msleep", "awake"}
  /\ l0 \in 0..(WordSize - 1) /\ h0 \in 0..(WordSize - 1)
  /\ 2 * s \in 0..(WordSize - 1)

(* The pause is not cut short: when it ends, all but a unit of it has      *)
(* passed since the call, wherever in its words the counter stood.         *)
SleepsLongEnough == pc = "awake" => tsc - start > (Pause - 1) * Unit

(* Nor drawn out: while the loop goes on after a reading, less than the    *)
(* pause, a unit and the two readings before the deadline have passed.     *)
(* The counter runs while the loop does, so the loop ends.                 *)
WakesInTime ==
  pc = "msleep" =>
    \E two \in {a + b : a \in Laps, b \in Laps} :
      tsc - start < (Pause + 1) * Unit + two
=============================================================================
