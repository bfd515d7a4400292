------------------------------- MODULE MC_MachO -------------------------------
(***************************************************************************)
(* Headers of one or two commands: __TEXT with up to two sections, one of  *)
(* them perhaps __freeldr or one whose name begins that; __PAGEZERO;       *)
(* __DATA with data or zero-filled sections; and commands that are no      *)
(* segments, longer and shorter than one.  Also a relocatable object file, *)
(* with everything in one unnamed segment.                                 *)
(***************************************************************************)
EXTENDS MachO

(* Four characters each; those with room for a terminator end the name. *)
__TE == 10001   __PA == 10003   GEZE == 10004   RO == 10005   XT == 10006
__DA == 10007   TA == 10008     __fr == 10009   eeld == 10010   r == 10011
ee == 10012     __te == 10013   xt == 10014     __bs == 10015   s == 10016

MC_Begins ==
  ({0} \X {0, __TE, XT, __fr, eeld, r}) \cup {<<XT, XT>>, <<r, r>>, <<ee, eeld>>}

MC_SegmentName == <<__TE, XT, 0, 0>>
MC_SectionName == <<__fr, eeld, r, 0>>

DATA     == <<__DA, TA, 0, 0>>
PAGEZERO == <<__PA, GEZE, RO, 0>>

(* A section, its address unlike any other number. *)
In(seg, sect, addr, flags) ==
  [sect |-> sect, seg |-> seg,
   field |-> [addr |-> addr, size |-> 3, align |-> 12, flags |-> flags]]

TextSections == {In(MC_SegmentName, <<__te, xt, 0, 0>>, 5001, 0),
                 In(MC_SegmentName, <<__fr, ee, 0, 0>>, 5002, 0),
                 In(MC_SegmentName, MC_SectionName, 5003, 0)}
DataSections == {In(DATA, MC_SectionName, 5004, 0),
                 In(DATA, <<__bs, s, 0, 0>>, 5005, 1)}

UpToTwo(S) == {<<>>} \cup {<<a>> : a \in S} \cup (S \X S)

Segments(name, S) ==
  {[segment |-> TRUE, name |-> name, sections |-> ss] : ss \in UpToTwo(S)}

Others == {[segment |-> FALSE, words |-> [k \in 1..20 |-> IF k = 1 THEN 5 ELSE 80]],
           [segment |-> FALSE, words |-> <<2, 24, 4096, 7, 4096, 7>>]}

Commands == Segments(MC_SegmentName, TextSections) \cup Segments(DATA, DataSections)
              \cup Segments(PAGEZERO, {}) \cup Others

MC_Images ==
  [FileType : {2}, cmds : {<<c>> : c \in Commands} \cup (Commands \X Commands)
                            \cup (Segments(PAGEZERO, {}) \X Commands \X Commands)]
    \cup [FileType : {1},
          cmds : {<<c>> : c \in Segments(<<0, 0, 0, 0>>, TextSections \cup DataSections)}]
=============================================================================
