-------------------------------- MODULE CString --------------------------------
(***************************************************************************)
(* The string functions of utils.c the command line is searched with.  A   *)
(* piece of memory is a sequence of characters; a string in it ends before *)
(* the first NUL.  A pointer into it is the number of characters passed.   *)
(***************************************************************************)
EXTENDS Integers, Sequences

NUL  == "NUL"
NULL == -1     \* no pointer into the string

strlen(s) == CHOOSE n \in 0..(Len(s) - 1) :
               s[n + 1] = NUL /\ \A k \in 1..n : s[k] # NUL

(* memcmp(s1 + at, s2, count) = 0 *)
Same(s1, at, s2, count) == \A k \in 1..count : s1[at + k] = s2[k]

(* The first place of s1 at which s2 is; l1 counts down to l2. *)
strstr(s1, s2) ==
  LET At == {at \in 0..(strlen(s1) - strlen(s2)) : Same(s1, at, s2, strlen(s2))}
  IN  IF At = {} THEN NULL ELSE CHOOSE at \in At : \A other \in At : at <= other
=============================================================================
