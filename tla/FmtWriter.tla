----------------------------- MODULE FmtWriter ------------------------------
(***************************************************************************)
(* How fmt (vendored in spdlog: details/format.h) writes one value: the    *)
(* digits of integers, padding, and what BasicWriter and ArgFormatter do   *)
(* with each kind of argument.  Texts are sequences of characters, and     *)
(* characters strings of length one.  Writing gives the text and an error, *)
(* "" if there was none; the text is empty then.                           *)
(***************************************************************************)
EXTENDS Integers, SequencesExt

CONSTANTS
  IntBits,     \* width of int in bits: 32, scaled down for checking
  Precise(_)   \* what snprintf prints for a finite double

ASSUME WriterAssumption == IntBits \in Nat \ {0}

UIntRange == 2^IntBits
IntMax == 2^(IntBits - 1) - 1

\* FormatSpec.  The kinds of flags: "sign", "plus", "minus", "hash".
NoSpec == [width |-> 0, fill |-> " ", align |-> "default", flags |-> {},
           precision |-> -1, type |-> ""]

Text(t)  == [text |-> t, error |-> ""]
Error(e) == [text |-> <<>>, error |-> e]

Fill(n, c) == [i \in 1..n |-> c]

-----------------------------------------------------------------------------
(* Digits.                                                                 *)

DigitChars == <<"0","1","2","3","4","5","6","7","8","9","a","b","c","d","e","f">>
DigitChar(d) == DigitChars[d + 1]

\* The loop of write_int for the bases 2, 8 and 16.
digits(n, base) ==
  LET loop[k \in Nat] == IF k < base THEN <<DigitChar(k)>>
                         ELSE Append(loop[k \div base], DigitChar(k % base))
  IN  loop[n]

Powers == <<0, 10, 100, 1000, 10000, 100000, 1000000, 10000000, 100000000, 1000000000>>

\* 32 - clz(n | 1): the place of the highest bit, 1 for 0.
BitLength(n) ==
  LET loop[k \in Nat] == IF k < 2 THEN 1 ELSE 1 + loop[k \div 2] IN loop[n]

count_digits(n) ==
  LET t == (BitLength(n) * 1233) \div 4096
  IN  t - (IF n < Powers[t + 1] THEN 1 ELSE 0) + 1

\* Two digits at a time, from the end.
format_decimal_rest(n) ==
  LET Pair(k) == <<DigitChar(k \div 10), DigitChar(k % 10)>>
      loop[k \in Nat] == IF k >= 100 THEN loop[k \div 100] \o Pair(k % 100)
                         ELSE IF k < 10 THEN <<DigitChar(k)>> ELSE Pair(k)
  IN  loop[n]

\* The buffer has count_digits(n) characters, filled from its end; what is not
\* reached stays as it was.
format_decimal(n) ==
  LET d == format_decimal_rest(n) IN
  IF Len(d) <= count_digits(n) THEN Fill(count_digits(n) - Len(d), "?") \o d
                               ELSE <<"overrun">>

-----------------------------------------------------------------------------
(* Padding.                                                                *)

\* Mutant: an odd padding has its larger half on the left.
fill_padding_left(content, total, fill) ==
  LET padding == total - Len(content)
      left    == (padding + 1) \div 2
  IN  Fill(left, fill) \o content \o Fill(padding - left, fill)

fill_padding(content, total, fill) ==
  LET padding == total - Len(content)
      left    == padding \div 2
  IN  Fill(left, fill) \o content \o Fill(padding - left, fill)

write_str(content, spec) ==
  LET pad == Fill(spec.width - Len(content), spec.fill) IN
  CASE spec.width <= Len(content) -> content
    [] OTHER ->
         CASE spec.align = "right"  -> pad \o content
           [] spec.align = "center" -> fill_padding(content, spec.width, spec.fill)
           [] OTHER                 -> content \o pad

\* Precision is a number of digits, width a number of characters; "numeric"
\* alignment pads between the prefix and the digits.  With a precision, all
\* alignments but "left" are to the right.
prepare_int_buffer(num, prefix, spec) ==
  IF spec.precision > Len(num)
    THEN LET octal  == prefix # <<>> /\ Last(prefix) = "0"
             number == (IF octal THEN Front(prefix) ELSE prefix)
                         \o Fill(spec.precision - Len(num), "0") \o num
             pad    == Fill(spec.width - Len(number), spec.fill)
         IN  CASE Len(number) >= spec.width -> number
               [] OTHER -> IF spec.align = "left" THEN number \o pad
                                                  ELSE pad \o number
    ELSE LET number == prefix \o num
             pad    == Fill(spec.width - Len(number), spec.fill)
         IN  CASE spec.width <= Len(number) -> number
               [] OTHER ->
                    CASE spec.align = "left"    -> number \o pad
                      [] spec.align = "center"  ->
                           fill_padding(number, spec.width, spec.fill)
                      [] spec.align = "numeric" -> prefix \o pad \o num
                      [] OTHER                  -> pad \o number

-----------------------------------------------------------------------------
(* BasicWriter::write_int, write_double, write_str.                        *)

\* Mutant: the magnitude computed in the signed type.
magnitude_signed(v) == IF v < -IntMax THEN IntMax ELSE IF v < 0 THEN -v ELSE v

\* The magnitude, in the unsigned type of the same width.
magnitude(v) == IF v < 0 THEN (0 - (v % UIntRange)) % UIntRange ELSE v

sign(negative, spec) ==
  CASE negative -> <<"-">>
    [] OTHER -> IF "sign" \notin spec.flags THEN <<>>
                ELSE IF "plus" \in spec.flags THEN <<"+">> ELSE <<" ">>

\* The digits above 9 are small letters here for "X", too.
write_int(v, spec) ==
  LET n == magnitude(v)
      hash(alt) == IF "hash" \in spec.flags THEN alt ELSE <<>>
      write(num, alt) ==
        Text(prepare_int_buffer(num, sign(v < 0, spec) \o hash(alt), spec))
  IN  CASE spec.type \in {"", "d"} -> write(format_decimal(n), <<>>)
        [] spec.type \in {"x", "X"} -> write(digits(n, 16), <<"0", spec.type>>)
        [] spec.type \in {"b", "B"} -> write(digits(n, 2), <<"0", spec.type>>)
        [] spec.type = "o" -> write(digits(n, 8), <<"0">>)
        [] OTHER -> Error("unknown format code")

write_string(s, spec) ==
  IF spec.type \notin {"", "s"} THEN Error("unknown format code")
  ELSE LET n == IF spec.precision >= 0 /\ spec.precision < Len(s)
                  THEN spec.precision ELSE Len(s)
       IN  Text(write_str(SubSeq(s, 1, n), spec))

\* What snprintf leaves in the buffer, behind the place kept for the sign.
snprintf(d, width, spec) ==
  LET body == Precise(d)
      pad  == Fill(width - Len(body), " ")
  IN  IF spec.align = "center" \/ Len(body) >= width THEN body
      ELSE IF spec.align = "left" THEN body \o pad ELSE pad \o body

write_double(d, spec) ==
  LET sg      == sign(d.negative, spec)
      width   == IF sg # <<>> /\ spec.width > 0 THEN spec.width - 1 ELSE spec.width
      printed == snprintf(d, width, spec)
      blanks  == LET at == SelectInSeq(printed, LAMBDA c : c # " ") IN at - 1
      number  == SubSeq(printed, blanks + 1, Len(printed))
      first   == sg = <<>> \/ spec.align \notin {"right", "default"} \/ blanks = 0
      pad(n)  == Fill(n, spec.fill)
      \* the sign in front of the blanks, or in place of the last one
      line    == IF first THEN sg \o pad(blanks) \o number
                          ELSE pad(blanks) \o sg \o number
  IN  CASE spec.type \notin {"", "f", "F", "g", "G", "e", "E", "a", "A"} -> Error("unknown format code")
        [] d.class = "nan" -> Text(write_str(sg \o <<"n", "a", "n">>, spec))
        [] d.class = "inf" -> Text(write_str(sg \o <<"i", "n", "f">>, spec))
        [] OTHER ->
             IF spec.align = "center" /\ spec.width > Len(sg \o printed)
               THEN Text(fill_padding(sg \o printed, spec.width, spec.fill))
               ELSE Text(line)

-----------------------------------------------------------------------------
(* ArgFormatterBase: the visitor of each kind of argument.                 *)

visit_char(v, spec) ==
  CASE spec.type \notin {"", "c"} -> write_int(v.code, spec)
    [] OTHER -> IF spec.align = "numeric" \/ spec.flags # {}
                  THEN Error("invalid format specifier for char")
                  ELSE Text(write_str(<<v.char>>, spec))

visit_bool(v, spec) ==
  IF spec.type # "" THEN write_int(IF v THEN 1 ELSE 0, spec)
  ELSE write_string(IF v THEN <<"t", "r", "u", "e">> ELSE <<"f", "a", "l", "s", "e">>, spec)

write_pointer(v, spec) == write_int(v, [spec EXCEPT !.flags = {"hash"}, !.type = "x"])

visit_pointer(v, spec) ==
  IF spec.type \notin {"", "p"} THEN Error("unknown format code")
                                ELSE write_pointer(v, spec)

visit_cstring(v, spec) ==
  CASE spec.type = "p" -> write_pointer(v.address, spec)
    [] OTHER -> IF spec.type \in {"", "s"} /\ v.address = 0
                  THEN Error("string pointer is null")
                  ELSE write_string(v.chars, spec)

visit(arg, spec) ==
  CASE arg.kind \in {"int", "uint"} -> write_int(arg.value, spec)
    [] arg.kind = "bool"    -> visit_bool(arg.value, spec)
    [] arg.kind = "char"    -> visit_char(arg.value, spec)
    [] arg.kind = "double"  -> write_double(arg.value, spec)
    [] arg.kind = "string"  -> write_string(arg.value, spec)
    [] arg.kind = "cstring" -> visit_cstring(arg.value, spec)
    [] arg.kind = "pointer" -> visit_pointer(arg.value, spec)
    [] OTHER -> Text(<<"garbage">>)

NumericKinds == {"int", "uint", "bool", "char", "double"}
IntegerKinds == NumericKinds \ {"double"}
=============================================================================
