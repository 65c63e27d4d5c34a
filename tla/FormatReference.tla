--------------------------- MODULE FormatReference ---------------------------
(***************************************************************************)
(* What a format string means, given as a tree rather than as text: pieces *)
(* of text, doubled braces and replacement fields.  Render gives the text  *)
(* of a tree and Meaning what formatting has to produce.  Nothing here is  *)
(* the program's; FormatString is measured against it.                     *)
(***************************************************************************)
EXTENDS FormatString

\* A reference to an argument: the next one, the one of an index or of a name.
Ref(kind, n, name) == [kind |-> kind, n |-> n, name |-> name]
AutoRef == Ref("auto", 0, <<>>)

\* A width or a precision: absent, a number, or the value of an argument.
Count(kind, n, ref) == [kind |-> kind, n |-> n, ref |-> ref]
NoCount == Count("none", 0, AutoRef)

PlainSpec == [align |-> "", fill |-> "", sign |-> "", hash |-> FALSE, zero |-> FALSE,
              width |-> NoCount, precision |-> NoCount, type |-> ""]

Piece(kind, char, ref, spec) == [kind |-> kind, char |-> char, ref |-> ref, spec |-> spec]
TextPiece(c)  == Piece("text", c, AutoRef, PlainSpec)
BracePiece(c) == Piece("brace", c, AutoRef, PlainSpec)
Field(ref, spec) == Piece("field", "", ref, spec)

\* Digits by place: the i-th of k digits of n.
DigitsOf(n, base) ==
  LET k == CHOOSE k \in 1..30 : n < base^k /\ (k = 1 \/ n >= base^(k - 1))
  IN  [i \in 1..k |-> DigitChars[((n \div base^(k - i)) % base) + 1]]

-----------------------------------------------------------------------------
(* The text of a tree.                                                     *)

OrNothing(c) == IF c = "" THEN <<>> ELSE <<c>>

RenderRef(r) == CASE r.kind = "auto"  -> <<>>
                  [] r.kind = "index" -> DigitsOf(r.n, 10)
                  [] OTHER            -> r.name

RenderCount(c) == CASE c.kind = "none"   -> <<>>
                    [] c.kind = "number" -> DigitsOf(c.n, 10)
                    [] OTHER             -> <<"{">> \o RenderRef(c.ref) \o <<"}">>

RenderSpec(sp) ==
  IF sp = PlainSpec THEN <<>>
  ELSE <<":">> \o OrNothing(sp.fill) \o OrNothing(sp.align) \o OrNothing(sp.sign)
         \o (IF sp.hash THEN <<"#">> ELSE <<>>) \o (IF sp.zero THEN <<"0">> ELSE <<>>)
         \o RenderCount(sp.width)
         \o (IF sp.precision.kind = "none" THEN <<>> ELSE <<".">> \o RenderCount(sp.precision))
         \o OrNothing(sp.type)

RenderPiece(x) == CASE x.kind = "text"  -> <<x.char>>
                    [] x.kind = "brace" -> <<x.char, x.char>>
                    [] OTHER -> <<"{">> \o RenderRef(x.ref) \o RenderSpec(x.spec) \o <<"}">>

Render(tree) == FlattenSeq([i \in 1..Len(tree) |-> RenderPiece(tree[i])])

-----------------------------------------------------------------------------
(* What a reference finds.                                                 *)

\* References are all automatic or all explicit; `used' is how many of each
\* kind came before.
Mixes(r, used) == IF r.kind = "auto" THEN used.explicit > 0 ELSE used.auto > 0

Place(r, used, as) ==
  CASE r.kind = "auto"  -> used.auto + 1
    [] r.kind = "index" -> r.n + 1
    [] OTHER -> SelectInSeq(as, LAMBDA a : a.name = r.name)

Finds(r, used, as) == ~Mixes(r, used) /\ Place(r, used, as) \in 1..Len(as)
Counted(r, used) == IF r.kind = "auto" THEN [used EXCEPT !.auto = @ + 1]
                                   ELSE [used EXCEPT !.explicit = @ + 1]

\* A width or a precision is a number an int can hold.
IsCount(c, used, as) ==
  CASE c.kind = "none"   -> TRUE
    [] c.kind = "number" -> c.n <= IntMax
    [] OTHER -> /\ Finds(c.ref, used, as)
                /\ LET a == as[Place(c.ref, used, as)] IN
                   KindOf[a.type] \in {"int", "uint"} /\ a.value \in 0..IntMax
CountOf(c, used, as) ==
  CASE c.kind = "none"   -> 0
    [] c.kind = "number" -> c.n
    [] OTHER -> as[Place(c.ref, used, as)].value
AfterCount(c, used) == IF c.kind = "ref" THEN Counted(c.ref, used) ELSE used

-----------------------------------------------------------------------------
(* What a value prints.                                                    *)

\* The prefix and the body within the width.
Padded(prefix, body, width, fill, align) ==
  LET size  == Len(prefix) + Len(body)
      total == IF size > width THEN size ELSE width
      gap   == total - size
      lead  == CASE align = "right" -> gap [] align = "center" -> gap \div 2 [] OTHER -> 0
      inner == IF align = "numeric" THEN gap ELSE 0
      from  == lead + Len(prefix) + inner
  IN  [i \in 1..total |->
         CASE i \in (lead + 1)..(lead + Len(prefix)) -> prefix[i - lead]
           [] i \in (from + 1)..(from + Len(body))   -> body[i - from]
           [] OTHER                                  -> fill]

IntTypes    == {"d", "x", "b", "o"}
FloatTypes  == {"f", "g", "e", "a"}
AsNumber(kind, code) ==
  \/ kind \in {"int", "uint", "double"}
  \/ kind \in {"bool", "char"} /\ code \in IntTypes
ValidTypes(kind) ==
  {""} \cup CASE kind \in {"int", "uint", "bool"} -> IntTypes
              [] kind = "char"    -> IntTypes \cup {"c"}
              [] kind = "double"  -> FloatTypes
              [] kind = "string"  -> {"s"}
              [] kind = "cstring" -> {"s", "p"}
              [] OTHER            -> {"p"}

AlignName == [c \in {"<", ">", "^", "="} |-> AlignOf(c)]
\* Numbers are on the right and texts, a boolean's name among them, on the left.
Alignment(kind, sp) ==
  IF kind = "bool" /\ sp.type = "" /\ (sp.zero \/ sp.align = "=") THEN "left"
  ELSE IF sp.zero THEN "numeric" ELSE IF sp.align # "" THEN AlignName[sp.align]
  ELSE IF AsNumber(kind, sp.type) \/ kind = "pointer" \/ sp.type = "p" THEN "right" ELSE "left"

\* Which specifications a kind of argument takes.
Valid(kind, v, sp) ==
  /\ sp.type \in ValidTypes(kind)
  /\ sp.sign # "" => kind \in NumericKinds \ {"uint"}
  /\ sp.hash \/ sp.zero \/ sp.align = "=" => kind \in NumericKinds
  /\ sp.precision.kind # "none" => kind \notin IntegerKinds \cup {"pointer"}
  /\ kind = "char" /\ sp.type \in {"", "c"} =>
       sp.sign = "" /\ ~sp.hash /\ Alignment(kind, sp) # "numeric"
  /\ kind = "cstring" /\ sp.type # "p" => v.address # 0

SignOf(negative, sp) ==
  IF negative THEN <<"-">> ELSE IF sp.sign \in {"+", " "} THEN <<sp.sign>> ELSE <<>>

Digital(v, sp) ==
  LET base == CASE sp.type = "x" -> 16 [] sp.type = "b" -> 2 [] sp.type = "o" -> 8 [] OTHER -> 10
      alt  == CASE ~sp.hash \/ base = 10 -> <<>>
                [] OTHER -> IF base = 8 THEN <<"0">> ELSE <<"0", sp.type>>
  IN  [prefix |-> SignOf(v < 0, sp) \o alt, body |-> DigitsOf(IF v < 0 THEN -v ELSE v, base)]

NumberOf(kind, v) == CASE kind = "bool" -> IF v THEN 1 ELSE 0
                       [] kind = "char" -> v.code
                       [] OTHER         -> v

\* A text, cut to the precision.
Cut(text, sp, precision) ==
  [prefix |-> <<>>,
   body |-> IF sp.precision.kind # "none" /\ precision < Len(text)
              THEN SubSeq(text, 1, precision) ELSE text]

Printed(kind, v, sp, precision) ==
  CASE kind = "double" -> [prefix |-> SignOf(v.negative, sp), body |-> Precise(v)]
    [] kind # "double" /\ AsNumber(kind, sp.type) -> Digital(NumberOf(kind, v), sp)
    [] kind = "bool" /\ sp.type = "" ->
         [prefix |-> <<>>, body |-> IF v THEN <<"t", "r", "u", "e">>
                                         ELSE <<"f", "a", "l", "s", "e">>]
    [] kind = "char" /\ sp.type \in {"", "c"} -> [prefix |-> <<>>, body |-> <<v.char>>]
    [] kind = "string" -> Cut(v, sp, precision)
    [] kind = "cstring" /\ sp.type # "p" -> Cut(v.chars, sp, precision)
    [] OTHER -> [prefix |-> <<"0", "x">>,
                 body |-> DigitsOf(IF kind = "cstring" THEN v.address ELSE v, 16)]

-----------------------------------------------------------------------------
(* The meaning of a tree.                                                  *)

\* A field: its argument, then the one of its width, then of its precision.
FieldMeaning(x, used, as) ==
  LET sp == x.spec
      u1 == Counted(x.ref, used)
      u2 == AfterCount(sp.width, u1)
      good == /\ Finds(x.ref, used, as)
              /\ IsCount(sp.width, u1, as)
              /\ IsCount(sp.precision, u2, as)
              /\ LET a == as[Place(x.ref, used, as)] IN Valid(KindOf[a.type], a.value, sp)
  IN  IF ~good THEN [good |-> FALSE, used |-> used, text |-> <<>>]
      ELSE LET a    == as[Place(x.ref, used, as)]
               kind == KindOf[a.type]
               out  == Printed(kind, a.value, sp, CountOf(sp.precision, u2, as))
               fill == IF sp.zero THEN "0" ELSE IF sp.fill # "" THEN sp.fill ELSE " "
           IN  [good |-> TRUE, used |-> AfterCount(sp.precision, u2),
                text |-> Padded(out.prefix, out.body, CountOf(sp.width, u1, as), fill,
                                Alignment(kind, sp))]

\* The pieces in order, up to the first field that is not right.
Meaning(tree, as) ==
  FoldLeft(LAMBDA m, x :
             CASE ~m.good -> m
               [] m.good /\ x.kind # "field" -> [m EXCEPT !.text = Append(@, x.char)]
               [] OTHER -> LET f == FieldMeaning(x, m.used, as)
                           IN  [good |-> f.good, used |-> f.used, text |-> m.text \o f.text],
           [good |-> TRUE, used |-> [auto |-> 0, explicit |-> 0], text |-> <<>>], tree)

=============================================================================
