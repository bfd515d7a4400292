------------------------------ MODULE MC_Console ------------------------------
(***************************************************************************)
(* Screens two or three glyphs wide, with every number of pixels left over *)
(* at the end of a row, and one narrower than a glyph: some short messages *)
(* in any order.  A wide screen: one call, every combination of the parts  *)
(* of a directive.  Words have eight bits, bytes two.                      *)
(***************************************************************************)
EXTENDS Console

MC_Byte       == 4
MC_Character  == {"0", "1", "2", "3", "4", "5", "6", "7", "8", "9", "a", "b", "c", "d", "e", "f",
                  "A", "B", "C", "D", "E", "F", "-", "+", " ", "#", "%", "*", ".", ":", "<", ">",
                  "h", "l", "L", "o", "x", "X", "i", "u", "s", "p", "n", "@", "!", "N", "U",
                  "y", "\n"}
MC_U16        == 64
MC_U32        == 1024
MC_BufferSize == 20

None       == [is |-> "none"]
Dot        == [is |-> "dot"]
Digs(n)    == [is |-> "digits", n |-> n]
Star(n)    == [is |-> "star", n |-> n]
Plain(c)   == [plain |-> c]
Directive(f, w, p, q, c, a) ==
  [flags |-> f, width |-> w, precision |-> p, qualifier |-> q, conversion |-> c, args |-> a]
Bare(c, a) == Directive(<<>>, None, None, <<>>, c, a)

WordsOf(s) == {<<[word |-> n]>> : n \in s}

(* The flags of a set, in some order. *)
InSomeOrder(F) == {SetToSeq(f) : f \in F}

(* Flags, widths, precisions, values, conversions. *)
Integers ==
  {Directive(f, w, p, q, <<c>>, a) :
     f \in InSomeOrder(SUBSET FlagChar) \cup {<<"-", "0", "-">>},
     w \in {None, Digs(6), Star(-7), Star(4)},
     p \in {None, Dot, Digs(3), Star(-2), Star(5)},
     q \in {<<>>, <<"h">>},
     c \in {"d", "u", "o", "x", "X"},
     a \in WordsOf({0, 7, 28, 128, 255})}

Others ==
  {Directive(f, w, p, q, <<c>>, a) :
     f \in {<<>>, <<"-">>, <<"0", "#">>}, w \in {None, Digs(5), Star(-12)},
     p \in {None, Dot, Digs(1)}, q \in {<<"l">>, <<"L">>},
     c \in {"d", "i", "p"}, a \in WordsOf({0, 200})}
  \cup {Directive(f, w, p, <<>>, <<"s">>, <<a>>) :
     f \in InSomeOrder(SUBSET {"-", "0"}), w \in {None, Digs(5), Star(-12), Star(3)},
     p \in {None, Dot, Digs(2), Star(7), Star(-2)},
     a \in {[string |-> <<>>], [string |-> <<"a", "%", "d">>], [null |-> TRUE]}}
  \cup {Directive(f, w, None, <<>>, <<"c">>, <<[char |-> "c"]>>) :
     f \in InSomeOrder(SUBSET {"-", "0"}), w \in {None, Digs(1), Digs(19), Star(-19)}}

(* Where directives meet text, the end of the format, and each other. *)
Mixed ==
  {<<a, b>> : a, b \in {Plain("a"), Plain("5"), Bare(<<"%">>, <<>>), Bare(<<"y">>, <<>>),
                        Bare(<<"n">>, <<[count |-> TRUE]>>),
                        Bare(<<"d">>, <<[word |-> 250]>>),
                        Bare(<<"s">>, <<[string |-> <<"s", "\n">>]>>)}}
  \cup {<<Plain("a"), Directive(f, w, p, q, <<>>, <<>>)>> :
          f \in {<<>>, <<"0", "-">>}, w \in {None, Digs(12), Star(3)}, p \in {None, Dot, Digs(3)},
          q \in {<<>>, <<"l">>}}
  \cup {<<Bare(<<"@">>, <<[word |-> w]>>)>> : w \in {0, 228}}
  \cup {<<Bare(<<"!">>, <<[bytes |-> <<0, 1, 2, 3, 2, 1>>]>>), Plain(".")>>}

Wide == [RowPixels |-> 160]
MC_Screens == {Wide} \cup {[RowPixels |-> w] : w \in {8} \cup 16..26}

Brief == {<<Plain("c")>>,
          <<Plain("c"), Plain("d"), Plain("\n")>>,
          <<Plain("\n"), Bare(<<"d">>, <<[word |-> 7]>>)>>,
          <<Bare(<<"s">>, <<[string |-> <<"a", "b", "c", "d">>]>>)>>}

Every == {<<d>> : d \in Integers \cup Others} \cup Mixed

MC_MessagesOn(s) == IF s = Wide THEN Every ELSE Brief
MC_CallsOn(s)    == IF s = Wide THEN 1 ELSE 3
=============================================================================
