------------------------------- MODULE MC_Clock -------------------------------
(***************************************************************************)
(* Words of six bits and units of eight cycles, so that a low word is      *)
(* eight units and the pause of nine is longer than one turn of it.  The   *)
(* counter starts anywhere in the first four turns.                        *)
(***************************************************************************)
EXTENDS Clock

MC_WordSize == 64
MC_Unit     == 8
MC_Pause    == 9
MC_Starts   == 0..255
MC_Laps     == {1, 7, 10}
=============================================================================
