----------------------------- MODULE MCLoggers ------------------------------
(* Loggers for TLC: families of calls, each rich in one respect.           *)
EXTENDS Loggers

Digits6(d) == d.printed
TwoSinks == <<"colour", "plain">>

Midday == [year |-> 114, mon |-> 7, mday |-> 3, wday |-> 6, hour |-> 15, min |-> 5, sec |-> 6,
           ns |-> 7000000, gmtoff |-> 90]
Times ==
  {Midday, [Midday EXCEPT !.hour = 12], [Midday EXCEPT !.hour = 9, !.ns = 999999999],
   [Midday EXCEPT !.year = 200, !.mon = 11, !.mday = 31, !.gmtoff = -120, !.ns = 1000]}

CallOf(tree, text, as, rest, pattern, time) ==
  [tree |-> tree, fmt |-> text, args |-> as, more |-> rest, pattern |-> pattern, time |-> time,
   level |-> 2, name |-> "server", thread |-> "tid", style |-> "format"]

Short == <<"%", "v">>
Tree(tree, as) == CallOf(tree, Render(tree), as, <<>>, Short, Midday)

Arg(ctype, v) == [type |-> ctype, value |-> v, name |-> <<>>]
NamedArg(ctype, v, name) == [type |-> ctype, value |-> v, name |-> name]

-----------------------------------------------------------------------------
(* References: all trees of up to three pieces.                            *)

Nested(r) == [PlainSpec EXCEPT !.width = Count("ref", 0, r), !.align = ">", !.fill = "*"]
Index(n)  == Ref("index", n, <<>>)
ByName(n) == Ref("name", 0, n)
Refs == {AutoRef, Index(0), Index(1), Index(3), ByName(<<"n">>), ByName(<<"x">>)}

Pieces ==
  {TextPiece("a"), BracePiece("{"), BracePiece("}")}
    \cup {Field(r, PlainSpec) : r \in Refs}
    \cup {Field(r, Nested(w)) : r \in {AutoRef, Index(0)}, w \in {AutoRef, Index(1), ByName(<<"n">>)}}

ArgLists == {<<Arg("int", 7), NamedArg("short", 3, <<"n">>)>>,
             <<Arg("int", 1), NamedArg("uchar", 5, <<"n">>), Arg("double", [class |-> "finite",
               negative |-> FALSE, printed |-> <<"1">>])>>,
             <<Arg("string", <<"a", "b">>), Arg("int", 4), NamedArg("long", -2, <<"n">>),
               NamedArg("int", 1, <<"n">>)>>}

ReferenceCalls ==
  {Tree(t, as) : t \in UNION {[1..k -> Pieces] : k \in 1..2}, as \in ArgLists}
    \cup {Tree(<<a, b, c>>, as) : a, b, c \in {Field(AutoRef, PlainSpec), Field(Index(1), PlainSpec),
                                              Field(AutoRef, Nested(AutoRef)), TextPiece("a")},
                                  as \in ArgLists}

-----------------------------------------------------------------------------
(* Specifications: those with at most three parts, for each kind.          *)

Aligns == {<<"", "">>} \cup ({"<", ">", "^", "="} \X {"", "*"})
Counts == {NoCount, Count("number", 6, AutoRef), Count("ref", 0, AutoRef)}
Precisions == {NoCount, Count("number", 2, AutoRef)}
Types == {"", "d", "x", "b", "o", "c", "s", "f", "p", "q"}

Parts(a, sg, h, z, w, p, t) ==
  Cardinality({i \in 1..7 : <<a # <<"", "">>, sg # "", h, z, w # NoCount, p # NoCount, t # "">>[i]})

SpecsOf(max) ==
  {[align |-> x[1][1], fill |-> x[1][2], sign |-> x[2], hash |-> x[3], zero |-> x[4],
    width |-> x[5], precision |-> x[6], type |-> x[7]] :
     x \in {y \in Aligns \X {"", "+", "-", " "} \X BOOLEAN \X BOOLEAN \X Counts \X Precisions \X Types :
              Parts(y[1], y[2], y[3], y[4], y[5], y[6], y[7]) <= max}}

\* Left out: a left-aligned double keeps the blanks snprintf has put behind it,
\* and the address of a C string takes a precision.
Kept(ctype, sp) ==
  /\ ~(ctype = "double" /\ sp.align = "<" /\ sp.fill # "" /\ ~sp.zero)
  /\ ~(ctype = "charp" /\ sp.type = "p" /\ sp.precision # NoCount)

Values ==
  {Arg("int", 0), Arg("int", 13), Arg("int", -IntMax - 1), Arg("unsigned", UIntRange - 1),
   Arg("bool", TRUE), Arg("bool", FALSE), Arg("char", [char |-> "z", code |-> 12]),
   Arg("string", <<"a", "b", "c">>), Arg("string", <<>>),
   Arg("charp", [address |-> 9, chars |-> <<"a", "b", "c", "d", "e", "f", "g">>]),
   Arg("charp", [address |-> 0, chars |-> <<>>]), Arg("voidp", 11),
   Arg("double", [class |-> "finite", negative |-> FALSE, printed |-> <<"1", ".", "5">>]),
   Arg("double", [class |-> "finite", negative |-> TRUE, printed |-> <<"1", ".", "5">>])}

SpecCallsOf(max) ==
  {Tree(<<Field(AutoRef, sp)>>, <<v, Arg("int", 5)>>) :
     <<sp, v>> \in {p \in SpecsOf(max) \X Values : Kept(p[2].type, p[1])}}

SpecCalls == SpecCallsOf(3)

-----------------------------------------------------------------------------
(* Texts that need not be format strings.                                  *)

Alphabet == {"{", "}", "0", "a", ":", "<", "."}
JunkCalls ==
  {CallOf(<<>>, t, <<Arg("int", 3), Arg("char", [char |-> "z", code |-> 12])>>, <<>>, Short, Midday) :
     t \in UNION {[1..k -> Alphabet] : k \in 0..4}}

-----------------------------------------------------------------------------
(* Patterns, and what is streamed to a line.                               *)

Streamed == <<Arg("int", -4), Arg("charp", [address |-> 9, chars |-> <<"x">>])>>
Plain(f) == IF f = "" THEN <<"q">> ELSE <<"%", f>>
PatternCalls ==
  {CallOf(<<TextPiece("a")>>, <<"a">>, <<>>, Streamed, Plain(f) \o <<"/">> \o Plain(g) \o end, t) :
     f \in Flags \cup {""}, g \in {"", "v", "+", "Q"}, end \in {<<>>, <<"%">>, <<"k">>}, t \in Times}

ForcedCalls == {[c EXCEPT !.style = "force"] : c \in {Tree(<<TextPiece("a")>>, <<>>)}}

\* Also a text that would be a wrong format string.
StreamedCalls ==
  {[CallOf(<<>>, <<>>, <<>>, values, Short, Midday) EXCEPT !.style = style] :
     style \in {"value", "stream"},
     values \in {<<Arg("charp", [address |-> 9, chars |-> <<"{", "x">>])>> \o rest :
                 rest \in {<<>>, Streamed}}}

MCCalls == ReferenceCalls \cup SpecCalls \cup JunkCalls \cup PatternCalls \cup ForcedCalls \cup StreamedCalls

-----------------------------------------------------------------------------
(* Calls that show what the README tells of.                               *)

BigWidth(n) == [PlainSpec EXCEPT !.width = Count("number", n, AutoRef)]
WrapCalls == {Tree(<<Field(AutoRef, BigWidth(n))>>, <<Arg("int", 7)>>) : n \in 1..99}
\* "{:}=" and the like.
LookaheadCalls ==
  {CallOf(<<Field(AutoRef, PlainSpec), TextPiece(c)>>, <<"{", ":", "}", c>>, <<v>>, <<>>, Short, Midday) :
     c \in {"a", "=", "<"}, v \in {w \in Values : w.type = "char"}}
DoubleCalls ==
  {Tree(<<Field(AutoRef, sp)>>, <<v, Arg("int", 5)>>) :
     sp \in SpecsOf(3), v \in {w \in Values : w.type = "double"}}
=============================================================================
