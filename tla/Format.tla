-------------------------------- MODULE Format --------------------------------
(***************************************************************************)
(* vsprintf and number (vsprintf.c): a format and its arguments become a   *)
(* text.  One step is one part of a directive: a flag, the field width,    *)
(* the precision, the qualifier, the conversion.                           *)
(*                                                                         *)
(* A message is what the caller means, a sequence of items; its spelling   *)
(* is the string vsprintf parses, its arguments what va_arg takes.  The    *)
(* words are Byte^4 wide: int, unsigned and long are one size on i386.     *)
(***************************************************************************)
EXTENDS Integers, Sequences, SequencesExt

CONSTANTS
  Byte,        \* 2^8
  Character    \* the bytes a text is made of, all but the terminator

ASSUME ByteAssumption == Byte \in Nat /\ Byte >= 2 /\ Byte % 2 = 0

Word  == Byte * Byte * Byte * Byte
Short == Byte * Byte

(* A word or a short as a signed number. *)
AsInt(w)   == IF w < Word \div 2 THEN w ELSE w - Word
AsShort(h) == IF h < Short \div 2 THEN h ELSE h - Short

Repeat(c, n) == IF n > 0 THEN [k \in 1..n |-> c] ELSE <<>>

Power(base, k) ==
  LET power[n \in Nat] == IF n = 0 THEN 1 ELSE base * power[n - 1]
  IN  power[k]

NUL == "NUL"     \* the byte that ends a string

LowerDigits == <<"0", "1", "2", "3", "4", "5", "6", "7",
                 "8", "9", "a", "b", "c", "d", "e", "f">>
UpperDigits == <<"0", "1", "2", "3", "4", "5", "6", "7",
                 "8", "9", "A", "B", "C", "D", "E", "F">>

(* Those with a meaning. *)
ASSUME CharacterAssumption ==
  /\ NUL \notin Character
  /\ {"0", "1", "2", "3", "4", "5", "6", "7", "8", "9", "a", "b", "c", "d", "e", "f",
      "A", "B", "C", "D", "E", "F", "-", "+", " ", "#", "%", "*", ".", ":", "<", ">",
      "h", "l", "L", "o", "x", "X", "i", "u", "s", "p", "n", "@", "!", "N", "U"} \subseteq Character

DigitOf(d, large) == IF large THEN UpperDigits[d + 1] ELSE LowerDigits[d + 1]

-----------------------------------------------------------------------------
(* What a message is.  A plain character is an item [plain |-> c]; the     *)
(* flags of a directive come in any order and as often as they like.       *)

FlagChar == {"-", "+", " ", "#", "0"}

(* The digits of n, by the value of their places. *)
Places(n, base) ==
  CHOOSE k \in 1..(n + 1) : n < Power(base, k) /\ (k = 1 \/ n >= Power(base, k - 1))
Numeral(n, base, large) ==
  LET places == Places(n, base)
  IN  [k \in 1..places |-> DigitOf((n \div Power(base, places - k)) % base, large)]

(* Width and precision: left out, a lone dot, digits, or a star whose int  *)
(* is the next argument.                                                   *)
SpellSize(size) ==
  CASE size.is = "digits" -> Numeral(size.n, 10, FALSE)
    [] size.is = "star"   -> <<"*">>
    [] OTHER              -> <<>>

SpellPrecision(size) == IF size.is = "none" THEN <<>> ELSE <<".">> \o SpellSize(size)

Spell(item) ==
  IF "plain" \in DOMAIN item THEN <<item.plain>>
  ELSE <<"%">> \o item.flags \o SpellSize(item.width) \o SpellPrecision(item.precision)
         \o item.qualifier \o item.conversion

StarOf(size) == IF size.is = "star" THEN <<[word |-> size.n % Word]>> ELSE <<>>

ArgsOf(item) ==
  IF "plain" \in DOMAIN item THEN <<>>
  ELSE StarOf(item.width) \o StarOf(item.precision) \o item.args

Spelling(m)  == FlattenSeq([k \in 1..Len(m) |-> Spell(m[k])])
Arguments(m) == FlattenSeq([k \in 1..Len(m) |-> ArgsOf(m[k])])

IntegerChar == {"o", "X", "x", "d", "i", "u"}
Qualifiers  == {<<>>, <<"h">>, <<"l">>, <<"L">>}

(* What a conversion takes. *)
Words  == [word : 0..(Word - 1)]
Bytes  == [bytes : [1..6 -> 0..(Byte - 1)]]
Argument == Words \cup Bytes \cup [char : Character] \cup [string : Seq(Character)]
              \cup [null : {TRUE}] \cup [count : {TRUE}]
Taking == IntegerChar \cup {"p", "@", "!", "c", "s", "n"}
TakenBy(c) ==
  CASE c \in IntegerChar \cup {"p", "@"} -> Words
    [] c = "!" -> Bytes
    [] c = "c" -> [char : Character]
    [] c = "s" -> [string : Seq(Character)] \cup [null : {TRUE}]
    [] c = "n" -> [count : {TRUE}]

(* Sizes are ints.  The first digit of a width is no flag. *)
Stars      == [is : {"star"}, n : (1 - Word \div 2)..(Word \div 2 - 1)]
Widths     == [is : {"none"}] \cup Stars \cup [is : {"digits"}, n : 1..(Word \div 2 - 1)]
Precisions == [is : {"none", "dot"}] \cup Stars \cup [is : {"digits"}, n : 0..(Word \div 2 - 1)]

(* What ends a directive is no other part of one. *)
Conversions ==
  Character \ (FlagChar \cup {"*", ".", "h", "l", "L"} \cup Range(SubSeq(LowerDigits, 1, 10)))

(* The conversion is missing where the format ends in the directive.       *)
Directives ==
  {d \in [flags : Seq(FlagChar), width : Widths, precision : Precisions, qualifier : Qualifiers,
          conversion : Seq(Conversions), args : Seq(Argument)] :
     /\ Len(d.conversion) <= 1
     /\ Len(d.args) = IF d.conversion # <<>> /\ d.conversion[1] \in Taking THEN 1 ELSE 0
     /\ \A k \in 1..Len(d.args) : d.args[k] \in TakenBy(d.conversion[1])}

Items == [plain : Character \ {"%"}] \cup Directives

WellFormed(m) ==
  /\ m \in Seq(Items)
  /\ \A k \in 1..Len(m) : "plain" \notin DOMAIN m[k] /\ m[k].conversion = <<>> => k = Len(m)

-----------------------------------------------------------------------------
VARIABLES
  message,        \* what the caller means
  format,         \* its spelling
  pc,             \* the part of vsprintf about to run
  fmt,            \* the position of the format pointer
  args,           \* the arguments va_arg has not taken
  str,            \* the text written so far
  stored,         \* what %n has stored
  directive       \* flags, field_width, precision, qualifier

text == <<message, format, pc, fmt, args, str, stored, directive>>

NoDirective == [flags |-> {}, field_width |-> -1, precision |-> -1, qualifier |-> <<>>]

TextInit ==
  /\ message = <<>> /\ format = <<>> /\ pc = "idle"
  /\ fmt = 1 /\ args = <<>> /\ str = <<>> /\ stored = <<>>
  /\ directive = NoDirective

(* vsprintf is called. *)
vsprintf(m) ==
  /\ pc = "idle"
  /\ message' = m /\ format' = Spelling(m) /\ args' = Arguments(m)
  /\ fmt' = 1 /\ str' = <<>> /\ stored' = <<>>
  /\ pc' = "text"
  /\ UNCHANGED directive

(* *fmt and fmt[1], the terminator included. *)
At(k)    == IF k <= Len(format) THEN format[k] ELSE NUL
Char     == At(fmt)
NextChar == At(fmt + 1)

Digit(c) == \E d \in 1..10 : LowerDigits[d] = c
DigitValue(c) == (CHOOSE d \in 1..10 : LowerDigits[d] = c) - 1

(* The digits skip_atoi passes, and what it returns. *)
DigitsFrom(k) ==
  CHOOSE n \in 1..(Len(format) - k + 1) :
    /\ \A j \in k..(k + n - 1) : Digit(format[j])
    /\ ~Digit(At(k + n))
skip_atoi(k) ==
  LET i[n \in 0..DigitsFrom(k)] ==
        IF n = 0 THEN 0 ELSE 10 * i[n - 1] + DigitValue(format[k + n - 1])
  IN  i[DigitsFrom(k)]

(* Passing n characters, va_arg taking some arguments, on to another part. *)
Goes(n, taken, part) ==
  /\ fmt' = fmt + n
  /\ args' = SubSeq(args, taken + 1, Len(args))
  /\ pc' = part
  /\ UNCHANGED <<message, format, stored>>

(* *str++ = *fmt *)
CopyPlain ==
  /\ pc = "text" /\ Char \notin {"%", NUL}
  /\ str' = Append(str, Char)
  /\ Goes(1, 0, "text")
  /\ UNCHANGED directive

(* The switch over flag characters; what else a directive has is -1 again. *)
Percent ==
  /\ pc = "text" /\ Char = "%"
  /\ directive' = NoDirective
  /\ Goes(1, 0, "flags")
  /\ UNCHANGED str

(* Fault: the switch looks at the same flag again. *)
ReadFlagAgain ==
  /\ pc = "flags" /\ Char \in FlagChar
  /\ directive' = [directive EXCEPT !.flags = @ \cup {Char}]
  /\ Goes(0, 0, "flags")
  /\ UNCHANGED str

ReadFlag ==
  /\ pc = "flags" /\ Char \in FlagChar
  /\ directive' = [directive EXCEPT !.flags = @ \cup {Char}]
  /\ Goes(1, 0, "flags")
  /\ UNCHANGED str

(* A negative int from the arguments means left adjustment. *)
ReadWidth ==
  /\ pc = "flags" /\ Char \notin FlagChar
  /\ UNCHANGED str
  /\ \/ /\ Digit(Char)
        /\ directive' = [directive EXCEPT !.field_width = skip_atoi(fmt)]
        /\ Goes(DigitsFrom(fmt), 0, "precision")
     \/ /\ Char = "*"
        /\ LET n == AsInt(Head(args).word)
           IN  directive' = [directive EXCEPT !.field_width = IF n < 0 THEN -n ELSE n,
                                              !.flags = IF n < 0 THEN @ \cup {"-"} ELSE @]
        /\ Goes(1, 1, "precision")
     \/ /\ ~Digit(Char) /\ Char # "*"
        /\ Goes(0, 0, "precision")
        /\ UNCHANGED directive

(* A dot with nothing after it is precision 0, and so is a negative one. *)
ReadPrecision ==
  /\ pc = "precision"
  /\ UNCHANGED str
  /\ \/ /\ Char = "." /\ Digit(NextChar)
        /\ directive' = [directive EXCEPT !.precision = skip_atoi(fmt + 1)]
        /\ Goes(1 + DigitsFrom(fmt + 1), 0, "qualifier")
     \/ /\ Char = "." /\ NextChar = "*"
        /\ LET n == AsInt(Head(args).word)
           IN  directive' = [directive EXCEPT !.precision = IF n < 0 THEN 0 ELSE n]
        /\ Goes(2, 1, "qualifier")
     \/ /\ Char = "." /\ ~Digit(NextChar) /\ NextChar # "*"
        /\ directive' = [directive EXCEPT !.precision = 0]
        /\ Goes(1, 0, "qualifier")
     \/ /\ Char # "."
        /\ Goes(0, 0, "qualifier")
        /\ UNCHANGED directive

ReadQualifier ==
  /\ pc = "qualifier"
  /\ UNCHANGED str
  /\ IF Char \in {"h", "l", "L"}
     THEN directive' = [directive EXCEPT !.qualifier = <<Char>>] /\ Goes(1, 0, "conversion")
     ELSE Goes(0, 0, "conversion") /\ UNCHANGED directive

-----------------------------------------------------------------------------
(* The digits of a word by repeated division, the lowest first. *)
Digits(n, base) ==
  LET tmp[m \in Nat] == IF m < base THEN <<m>> ELSE <<m % base>> \o tmp[m \div base]
  IN  tmp[n]

(* number: sign, prefix and digits in a field of some size.  The least     *)
(* word is its own negation, and divided as an unsigned long all the same. *)
number(num, base, size, precision, type) ==
  LET minus  == "SIGN" \in type /\ num >= Word \div 2
      sign   == IF minus THEN <<"-">>
                ELSE IF {"SIGN", "+"} \subseteq type THEN <<"+">>
                ELSE IF {"SIGN", " "} \subseteq type THEN <<" ">> ELSE <<>>
      prefix == IF "#" \notin type \/ base = 10 THEN <<>>
                ELSE IF base = 8 THEN <<"0">>
                ELSE <<"0", IF "LARGE" \in type THEN "X" ELSE "x">>
      tmp    == Digits(IF minus THEN Word - num ELSE num, base)
      zeros  == Repeat("0", precision - Len(tmp))
      room   == size - Len(sign \o prefix \o zeros \o tmp)
      fill(c, when) == IF when THEN Repeat(c, room) ELSE <<>>
  IN  fill(" ", {"0", "-"} \cap type = {})
        \o sign \o prefix
        \o fill("0", "0" \in type /\ "-" \notin type)
        \o zeros
        \o [k \in 1..Len(tmp) |-> DigitOf(tmp[Len(tmp) + 1 - k], "LARGE" \in type)]
        \o fill(" ", "-" \in type)

(* A conversion is written and the for loop goes on. *)
Write(piece, taken) == str' = str \o piece /\ Goes(1, taken, "text") /\ UNCHANGED directive

(* Text in a field, padded with blanks. *)
Padded(piece, size) ==
  LET blanks == Repeat(" ", size - Len(piece))
  IN  IF "-" \in directive.flags THEN piece \o blanks ELSE blanks \o piece

ConvertChar ==
  /\ pc = "conversion" /\ Char = "c"
  /\ Write(Padded(<<Head(args).char>>, directive.field_width), 1)

NullText == <<"<", "N", "U", "L", "L", ">">>

(* No more characters than the precision, which is unsigned here: -1 is    *)
(* no limit.                                                               *)
ConvertString ==
  /\ pc = "conversion" /\ Char = "s"
  /\ LET s   == IF "string" \in DOMAIN Head(args) THEN Head(args).string ELSE NullText
         len == IF directive.precision \in 0..Len(s) THEN directive.precision ELSE Len(s)
     IN  Write(Padded(SubSeq(s, 1, len), directive.field_width), 1)

(* Without a width, as many digits as a pointer has, zeros in front. *)
ConvertPointer ==
  /\ pc = "conversion" /\ Char = "p"
  /\ LET bare == directive.field_width = -1
     IN  Write(number(Head(args).word, 16,
                      IF bare THEN 8 ELSE directive.field_width, directive.precision,
                      directive.flags \cup (IF bare THEN {"0"} ELSE {})), 1)

ConvertCount ==
  /\ pc = "conversion" /\ Char = "n"
  /\ stored' = Append(stored, Len(str))
  /\ fmt' = fmt + 1 /\ args' = Tail(args) /\ pc' = "text"
  /\ UNCHANGED <<message, format, str, directive>>

ConvertPercent ==
  /\ pc = "conversion" /\ Char = "%"
  /\ Write(<<"%">>, 0)

(* The base of an integer conversion, and the flags it adds. *)
BaseOf(c)  == CASE c = "o" -> 8 [] c \in {"x", "X"} -> 16 [] OTHER -> 10
TypeOf(c)  == CASE c = "X" -> {"LARGE"} [] c \in {"d", "i"} -> {"SIGN"} [] OTHER -> {}

(* Fault: a short is never extended by its sign. *)
TakenUnsigned(w, type) == IF directive.qualifier = <<"h">> THEN w % Short ELSE w

(* The argument as the qualifier says: a short is cut off, and extended by *)
(* its sign where the conversion is signed.                                *)
Taken(w, type) ==
  CASE directive.qualifier = <<"h">> /\ "SIGN" \in type -> AsShort(w % Short) % Word
    [] directive.qualifier = <<"h">> /\ "SIGN" \notin type -> w % Short
    [] OTHER -> w

ConvertInteger ==
  /\ pc = "conversion" /\ Char \in IntegerChar
  /\ LET type == directive.flags \cup TypeOf(Char)
     IN  Write(number(Taken(Head(args).word, type), BaseOf(Char),
                      directive.field_width, directive.precision, type), 1)

(* The nested sprintf of each byte ends in a separator; str steps back     *)
(* over the last one.                                                      *)
ConvertAddress ==
  /\ pc = "conversion" /\ Char = "@"
  /\ LET w     == Head(args).word
         parts == [k \in 1..4 |->
                     number((w \div Power(Byte, k - 1)) % Byte, 10, -1, -1, {"SIGN"}) \o <<".">>]
     IN  Write(Front(FlattenSeq(parts)), 1)

ConvertEther ==
  /\ pc = "conversion" /\ Char = "!"
  /\ LET parts == [k \in 1..6 |->
                     number(Head(args).bytes[k], 16, 2, -1, {"0", "LARGE"}) \o <<":">>]
     IN  Write(Front(FlattenSeq(parts)), 1)

Known == {"c", "s", "p", "n", "%", "@", "!"} \cup IntegerChar

(* Fault: continue leaves out the step back from the terminator. *)
ConvertUnknownPastEnd ==
  /\ pc = "conversion" /\ Char \notin Known
  /\ Write(IF Char = NUL THEN <<"%">> ELSE <<"%", Char>>, 0)

(* Anything else is written as it is; at the terminator the format pointer *)
(* steps back, for the loop to step on it again.                           *)
ConvertUnknown ==
  /\ pc = "conversion" /\ Char \notin Known
  /\ IF Char = NUL
     THEN str' = Append(str, "%") /\ Goes(0, 0, "text") /\ UNCHANGED directive
     ELSE Write(<<"%", Char>>, 0)

(* The terminator is written and the length returned. *)
Return ==
  /\ pc = "text" /\ Char = NUL
  /\ Goes(0, 0, "returned")
  /\ UNCHANGED <<str, directive>>

(* The caller has the text; the locals are gone. *)
Leave ==
  /\ pc = "returned"
  /\ message' = <<>> /\ format' = <<>> /\ pc' = "idle"
  /\ fmt' = 1 /\ args' = <<>> /\ str' = <<>> /\ stored' = <<>>
  /\ directive' = NoDirective

(* The steps of one call. *)
Step ==
  \/ CopyPlain \/ Percent \/ ReadFlag \/ ReadWidth \/ ReadPrecision \/ ReadQualifier
  \/ ConvertChar \/ ConvertString \/ ConvertPointer \/ ConvertCount \/ ConvertPercent
  \/ ConvertInteger \/ ConvertAddress \/ ConvertEther \/ ConvertUnknown
  \/ Return

-----------------------------------------------------------------------------
(* What a message means.  A negative star width is left adjustment, and a  *)
(* negative star precision 0.                                              *)
WidthOf(item) ==
  LET n == item.width.n
  IN  IF item.width.is = "none" THEN 0 ELSE IF n < 0 THEN -n ELSE n

PrecisionOf(item) ==
  LET n == item.precision.n
  IN  IF item.precision.is = "dot" \/ n < 0 THEN 0 ELSE n

LeftAdjusted(item) ==
  "-" \in Range(item.flags) \/ (item.width.is = "star" /\ item.width.n < 0)

(* Lead and body in a field: filled up behind, in between or in front. *)
Field(item, lead, body, filler) ==
  LET gap(c) == Repeat(c, WidthOf(item) - Len(lead) - Len(body))
  IN  IF LeftAdjusted(item) THEN lead \o body \o gap(" ")
      ELSE IF filler = "0" THEN lead \o gap("0") \o body
      ELSE gap(" ") \o lead \o body

(* The integer an integer conversion is given. *)
ValueOf(item) ==
  LET w == item.args[1].word
      signed == item.conversion[1] \in {"d", "i"}
  IN  IF item.qualifier = <<"h">>
      THEN IF signed THEN AsShort(w % Short) ELSE w % Short
      ELSE IF signed THEN AsInt(w) ELSE w

IntegerRendered(item) ==
  LET c      == item.conversion[1]
      v      == ValueOf(item)
      digits == Numeral(IF v < 0 THEN -v ELSE v, BaseOf(c), c = "X")
      least  == IF item.precision.is = "none" THEN 1 ELSE PrecisionOf(item)
      flags  == Range(item.flags)
      sign   == IF v < 0 THEN <<"-">>
                ELSE IF c \in {"d", "i"} /\ "+" \in flags THEN <<"+">>
                ELSE IF c \in {"d", "i"} /\ " " \in flags THEN <<" ">> ELSE <<>>
      prefix == IF "#" \notin flags THEN <<>>
                ELSE IF c = "o" THEN <<"0">>
                ELSE IF c \in {"x", "X"} THEN <<"0", c>> ELSE <<>>
  IN  Field(item, sign \o prefix, Repeat("0", least - Len(digits)) \o digits,
            IF "0" \in flags THEN "0" ELSE " ")

StringRendered(item) ==
  LET s == IF "string" \in DOMAIN item.args[1] THEN item.args[1].string ELSE NullText
      kept == IF item.precision.is = "none" \/ PrecisionOf(item) > Len(s)
              THEN Len(s) ELSE PrecisionOf(item)
  IN  Field(item, <<>>, SubSeq(s, 1, kept), " ")

(* A pointer is hexadecimal, and eight digits wide if no width is given. *)
PointerRendered(item) ==
  IntegerRendered([item EXCEPT
    !.conversion = <<"x">>, !.qualifier = <<>>,
    !.flags = IF item.width.is = "none" THEN Append(@, "0") ELSE @,
    !.width = IF item.width.is = "none" THEN [is |-> "digits", n |-> 8] ELSE @])

(* A byte in two digits. *)
TwoDigits(b) == Repeat("0", 2 - Len(Numeral(b, 16, TRUE))) \o Numeral(b, 16, TRUE)

Rendered(item) ==
  IF "plain" \in DOMAIN item THEN <<item.plain>>
  ELSE IF item.conversion = <<>> THEN <<"%">>
  ELSE LET c == item.conversion[1]
       IN  CASE c \in IntegerChar -> IntegerRendered(item)
             [] c = "c" -> Field(item, <<>>, <<item.args[1].char>>, " ")
             [] c = "s" -> StringRendered(item)
             [] c = "p" -> PointerRendered(item)
             [] c = "n" -> <<>>
             [] c = "%" -> <<"%">>
             [] c = "@" -> LET w == item.args[1].word
                               d(k) == Numeral((w \div Power(Byte, k)) % Byte, 10, FALSE)
                           IN  d(0) \o <<".">> \o d(1) \o <<".">> \o d(2) \o <<".">> \o d(3)
             [] c = "!" -> LET b == item.args[1].bytes
                           IN  FlattenSeq([k \in 1..6 |->
                                 (IF k = 1 THEN <<>> ELSE <<":">>) \o TwoDigits(b[k])])
             [] OTHER   -> <<"%", c>>

Rendering(m) == FlattenSeq([k \in 1..Len(m) |-> Rendered(m[k])])

Counts(m) ==
  FlattenSeq([k \in 1..Len(m) |->
    IF "plain" \notin DOMAIN m[k] /\ m[k].conversion = <<"n">>
    THEN <<Len(Rendering(SubSeq(m, 1, k - 1)))>> ELSE <<>>])

(* Type invariant; the format pointer never passes the terminator, not     *)
(* even where the format ends inside a directive.                          *)
TextTypeOK ==
  /\ format = Spelling(message)
  /\ pc \in {"idle", "text", "flags", "precision", "qualifier", "conversion", "returned"}
  /\ fmt \in 1..(Len(format) + 1)
  /\ args \in Seq(Argument)
  /\ str \in Seq(Character) /\ stored \in Seq(Nat)
  /\ directive \in [flags : SUBSET FlagChar, field_width : Nat \cup {-1},
                    precision : Nat \cup {-1},
                    qualifier : Qualifiers]

(* The text is what the caller means, for every combination of flags,      *)
(* width, precision, qualifier and conversion and every order of them, and *)
(* each directive has taken its own arguments and no other's.              *)
RendersMessage ==
  pc = "returned" =>
    str = Rendering(message) /\ stored = Counts(message) /\ args = <<>>
=============================================================================
