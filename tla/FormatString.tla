---------------------------- MODULE FormatString ----------------------------
(***************************************************************************)
(* fmt's BasicFormatter::format: one pass over a format string, in which   *)
(* each replacement field finds its argument - the next one, the n-th or   *)
(* the one of a name -, parses its specification and writes the argument.  *)
(* An error is an exception: what was written before stays in the writer.  *)
(***************************************************************************)
EXTENDS FmtWriter

CONSTANTS
  Letters,    \* letters of names and types
  MaxPacked   \* ArgList::MAX_PACKED_ARGS: 16, scaled down for checking

\* The terminating zero, "NUL", is no letter.
ASSUME FormatAssumption == MaxPacked \in Nat \ {0} /\ "NUL" \notin Letters

VARIABLES
  fmt,    \* the format string
  args,   \* the arguments: their C type, value, and name if they have one
  s,      \* the parser's place in fmt
  start,  \* where the text begins that is not written yet
  next,   \* next_arg_index_; -1 once an index or a name was used
  raw,    \* what is written
  error   \* "" or what the exception says

formatter == <<fmt, args, s, start, next, raw, error>>

-----------------------------------------------------------------------------
(* Arguments: MakeValue, ArgList and ArgMap.                               *)

KindOf ==
  [ bool |-> "bool", char |-> "char", schar |-> "int", uchar |-> "uint",
    short |-> "int", ushort |-> "uint", int |-> "int", unsigned |-> "uint",
    long |-> "int", ulong |-> "uint", float |-> "double", double |-> "double",
    charp |-> "cstring", string |-> "string", voidp |-> "pointer",
    \* a type with an operator<<, which is written to a string first
    streamed |-> "string" ]

NoArg == [kind |-> "none", value |-> 0]
make_arg(a) == [kind |-> KindOf[a.type], value |-> a.value]
Named(a) == a.name # <<>>

\* types_: four bits for each of the first MaxPacked arguments.
type(i) == IF i < Len(args) THEN args[i + 1].type ELSE "none"

\* Mutant: one argument more in an array without an end.
PackedArray_one_more == Len(args) <= MaxPacked

\* How many arguments there are decides whether the array holds bare values or
\* tagged ones with an end; ArgList learns it from the last packed type.
PackedArray == Len(args) < MaxPacked
UseValues   == type(MaxPacked - 1) = "none"

\* Reading the array as what it is not, or beyond its end.
Garbage == [kind |-> "garbage", value |-> 0]
values_(i) == IF PackedArray /\ i < Len(args) THEN make_arg(args[i + 1]) ELSE Garbage
args_(i) ==
  CASE PackedArray \/ i > Len(args) -> Garbage
    [] i = Len(args) -> NoArg
    [] OTHER -> make_arg(args[i + 1])

arg_at(i) ==
  IF i < MaxPacked
    THEN CASE type(i) = "none" -> NoArg
           [] OTHER -> IF UseValues THEN values_(i) ELSE args_(i)
    ELSE IF UseValues \/ \E j \in MaxPacked..i : args_(j).kind = "none" THEN NoArg
         ELSE args_(i)

\* ArgMap::init and find: the first argument of that name.
Entries == {i \in 0..(Len(args) - 1) : Named(args[i + 1])}
find(name) ==
  LET hits == {i \in Entries : args[i + 1].name = name}
  IN  IF hits = {} THEN NoArg
      ELSE LET i == CHOOSE i \in hits : \A j \in hits : i <= j
           IN  IF UseValues THEN values_(i) ELSE args_(i)

-----------------------------------------------------------------------------
(* The parser of a field.  Its state p holds the place, the specification  *)
(* so far, next_arg_index_, the argument found last and the error; every   *)
(* step leaves a state with an error alone.                                *)

at(i) == IF i <= Len(fmt) THEN fmt[i] ELSE "NUL"
DigitSet == {"0", "1", "2", "3", "4", "5", "6", "7", "8", "9"}
DigitValue(c) == (CHOOSE i \in 1..10 : DigitChars[i] = c) - 1

Failed(p, e) == [p EXCEPT !.error = e]
Skip(p) == [p EXCEPT !.s = @ + 1]

\* The first place behind i whose character is not one of cs.
Behind(i, cs) == CHOOSE j \in i..(Len(fmt) + 1) :
                   at(j) \notin cs /\ \A k \in i..(j - 1) : at(k) \in cs

\* Mutant: a number that wraps is used.
parse_nonnegative_int_wrap(p) ==
  LET end == Behind(p.s, DigitSet)
      v   == FoldLeft(LAMBDA n, c : (n * 10 + DigitValue(c)) % UIntRange, 0,
                      SubSeq(fmt, p.s, end - 1))
  IN  [p EXCEPT !.s = end, !.num = v % (IntMax + 1)]

\* `new_value < value' is taken for a wrap-around.
parse_nonnegative_int(p) ==
  LET end == Behind(p.s, DigitSet)
      add(n, c) == LET new == (n * 10 + DigitValue(c)) % UIntRange
                   IN  IF n = -1 \/ new < n THEN -1 ELSE new
      v == FoldLeft(add, 0, SubSeq(fmt, p.s, end - 1))
  IN  IF v = -1 \/ v > IntMax THEN Failed(p, "number is too big")
                              ELSE [p EXCEPT !.s = end, !.num = v]

do_get_arg(p, arg) ==
  IF arg.kind = "none" THEN Failed(p, "argument not found") ELSE [p EXCEPT !.arg = arg]

next_arg(p) ==
  IF p.next < 0 THEN Failed(p, "switch to automatic indexing")
  ELSE do_get_arg([p EXCEPT !.next = @ + 1], arg_at(p.next))

\* Mutant: names do not count as manual indexing.
check_no_auto_index_late(p) == IF p.next > 0 THEN p ELSE [p EXCEPT !.next = -1]

check_no_auto_index(p) ==
  IF p.next > 0 THEN Failed(p, "switch to manual indexing") ELSE [p EXCEPT !.next = -1]

Unless(p, q) == IF p.error # "" THEN p ELSE q

get_arg(p, arg) ==
  LET found(q) == Unless(q, do_get_arg(q, arg)) IN found(check_no_auto_index(p))

parse_arg_index(p) ==
  LET numbered(q) == Unless(q, get_arg(q, arg_at(q.num)))
  IN  IF at(p.s) \in DigitSet THEN numbered(parse_nonnegative_int(p)) ELSE next_arg(p)

parse_arg_name(p) ==
  LET end == Behind(p.s, Letters \cup DigitSet)
  IN  get_arg([p EXCEPT !.s = end], find(SubSeq(fmt, p.s, end - 1)))

parse_arg(p) == IF at(p.s) \in Letters THEN parse_arg_name(p) ELSE parse_arg_index(p)

AlignOf(c) == CASE c = "<" -> "left"   [] c = ">" -> "right"
                [] c = "^" -> "center" [] c = "=" -> "numeric" [] OTHER -> "default"

Numeric(p) == p.value.kind \in NumericKinds

\* An alignment behind a fill character, or else an alignment alone.  The
\* character behind "}" is looked at too.
parse_fill_and_align(p) ==
  LET c == at(p.s)
      second == AlignOf(at(p.s + 1))
      first  == AlignOf(c)
      need(q) == IF q.spec.align = "numeric" /\ ~Numeric(q)
                   THEN Failed(q, "requires numeric argument") ELSE q
  IN  CASE c = "NUL" -> p
        [] c # "NUL" /\ second # "default" ->
             CASE c = "}" -> [p EXCEPT !.spec.align = second]
               [] c = "{" -> Failed(p, "invalid fill character")
               [] OTHER -> need([p EXCEPT !.spec.align = second, !.spec.fill = c, !.s = @ + 2])
        [] OTHER -> IF first # "default"
                      THEN need([p EXCEPT !.spec.align = first, !.s = @ + 1]) ELSE p

parse_sign(p) ==
  LET flags == CASE at(p.s) = "+" -> {"sign", "plus"} [] at(p.s) = "-" -> {"minus"}
                 [] at(p.s) = " " -> {"sign"} [] OTHER -> {}
  IN  IF p.error # "" \/ flags = {} THEN p
      ELSE IF ~Numeric(p) THEN Failed(p, "requires numeric argument")
      ELSE IF p.value.kind = "uint" THEN Failed(p, "requires signed argument")
                    ELSE Skip([p EXCEPT !.spec.flags = flags])

parse_hash(p) ==
  IF p.error # "" \/ at(p.s) # "#" THEN p
  ELSE IF Numeric(p) THEN Skip([p EXCEPT !.spec.flags = @ \cup {"hash"}])
                     ELSE Failed(p, "requires numeric argument")

parse_zero(p) ==
  IF p.error # "" \/ at(p.s) # "0" THEN p
  ELSE IF Numeric(p) THEN Skip([p EXCEPT !.spec.align = "numeric", !.spec.fill = "0"])
                     ELSE Failed(p, "requires numeric argument")

\* The argument in braces as a number.
count(q) ==
  CASE q.error # "" -> q
    [] q.error = "" /\ at(q.s) # "}" -> Failed(q, "invalid format string")
    [] OTHER ->
         IF q.arg.kind \notin {"int", "uint"} THEN Failed(q, "not an integer")
         ELSE IF q.arg.value < 0 THEN Failed(q, "negative")
         ELSE IF q.arg.value > IntMax THEN Failed(q, "number is too big")
         ELSE Skip([q EXCEPT !.num = q.arg.value])

\* A number, or an argument in braces, for width and precision.
parse_count(p) ==
  CASE at(p.s) \in DigitSet -> parse_nonnegative_int(p)
    [] at(p.s) = "{"        -> count(parse_arg(Skip(p)))
    [] OTHER                -> p

parse_width(p) ==
  LET set(q) == [q EXCEPT !.spec.width = q.num]
  IN  IF p.error # "" \/ at(p.s) \notin DigitSet \cup {"{"} THEN p ELSE set(parse_count(p))

parse_precision(p) ==
  LET set(q) == IF at(p.s + 1) \notin DigitSet \cup {"{"} THEN Failed(q, "missing precision specifier")
                ELSE IF q.error # "" THEN q
                ELSE IF q.value.kind \in IntegerKinds \cup {"pointer"}
                  THEN Failed(q, "precision not allowed")
                  ELSE [q EXCEPT !.spec.precision = q.num]
  IN  IF p.error # "" \/ at(p.s) # "." THEN p ELSE set(parse_count(Skip(p)))

\* Mutant: the terminating zero is taken for a type.
parse_type_any(p) ==
  IF p.error # "" \/ at(p.s) = "}" THEN p ELSE Skip([p EXCEPT !.spec.type = at(p.s)])

parse_type(p) ==
  IF p.error # "" \/ at(p.s) \in {"}", "NUL"} THEN p
  ELSE Skip([p EXCEPT !.spec.type = at(p.s)])

parse_spec(p) ==
  IF p.error # "" \/ at(p.s) # ":" THEN p
  ELSE parse_type(parse_precision(parse_width(parse_zero(parse_hash(
         parse_sign(parse_fill_and_align(Skip(p))))))))

parse_end(p) ==
  IF p.error # "" THEN p
  ELSE IF at(p.s) = "}" THEN Skip(p) ELSE Failed(p, "missing '}' in format string")

\* The argument is found first and is the one to write.
parse_field(place) ==
  LET given(p) == [p EXCEPT !.value = p.arg]
  IN  parse_end(parse_spec(given(
        parse_arg([s |-> place, spec |-> NoSpec, next |-> next, num |-> 0,
                   arg |-> NoArg, value |-> NoArg, error |-> ""]))))

-----------------------------------------------------------------------------
(* The loop.                                                               *)

Pending(end) == SubSeq(fmt, start, end)
Running == error = "" /\ s <= Len(fmt)

literal ==
  /\ Running /\ at(s) \notin {"{", "}"}
  /\ s' = s + 1
  /\ UNCHANGED <<fmt, args, start, next, raw, error>>

\* A brace twice stands for itself.
escape ==
  /\ Running /\ at(s) \in {"{", "}"} /\ at(s + 1) = at(s)
  /\ raw' = raw \o Pending(s)
  /\ s' = s + 2 /\ start' = s + 2
  /\ UNCHANGED <<fmt, args, next, error>>

unmatched ==
  /\ Running /\ at(s) = "}" /\ at(s + 1) # "}"
  /\ error' = "unmatched '}' in format string"
  /\ UNCHANGED <<fmt, args, s, start, next, raw>>

field ==
  /\ Running /\ at(s) = "{" /\ at(s + 1) # "{"
  /\ \E p \in {parse_field(s + 1)} :
     \E w \in {IF p.error = "" THEN visit(p.value, p.spec) ELSE Error(p.error)} :
         /\ raw' = raw \o Pending(s - 1) \o w.text
         /\ error' = w.error
         /\ next' = p.next
         /\ s' = p.s /\ start' = p.s
  /\ UNCHANGED <<fmt, args>>

\* The end of the string.
finish ==
  /\ error = "" /\ s = Len(fmt) + 1 /\ start <= Len(fmt)
  /\ raw' = raw \o Pending(Len(fmt))
  /\ start' = s
  /\ UNCHANGED <<fmt, args, s, next, error>>

FormatStep == literal \/ escape \/ unmatched \/ field \/ finish
Formatted == error # "" \/ (s = Len(fmt) + 1 /\ start = s)

=============================================================================
