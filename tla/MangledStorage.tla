--------------------------- MODULE MangledStorage ---------------------------
(***************************************************************************)
(* boost::dll's mangled_storage: finds the symbol of a C++ entity by       *)
(* comparing what the demangler makes of every symbol with the text the    *)
(* wanted entity would give.  Names and texts are sequences of words.      *)
(*                                                                         *)
(* An entity that a library defines is a record of its kind ("plain" for   *)
(* extern "C", "variable", "function", "method", "constructor" or          *)
(* "destructor"), scope (the class, with its namespaces), name, type,      *)
(* args, const, static, virtual, and the variant of a constructor or       *)
(* destructor.  A request names a kind, scope, name, type, args and const. *)
(* A type is a record of its name, class, const and ref.                   *)
(***************************************************************************)
EXTENDS LibraryInfo

CONSTANTS Entities               \* everything the libraries' sources define

Separated(texts, comma) ==
  FlattenSeq([i \in DOMAIN texts |-> IF i = 1 THEN texts[i] ELSE comma \o texts[i]])
Scoped(scope, name) == IF scope = <<>> THEN name ELSE scope \o <<"::">> \o name
Words(condition, words) == IF condition THEN words ELSE <<>>
Unscoped(class) == <<Last(class)>>
Special == {"constructor", "destructor"}
Abi(os) == IF os = "windows" THEN "msvc" ELSE "itanium"

-----------------------------------------------------------------------------
(* External: how the compilers name the entities in a library. *)
Codes(types) ==
  FlattenSeq(Mapped(types, LAMBDA t : t.name \o Words(t.const, <<"K">>) \o <<t.ref>>))

mangle(abi, e) ==
  CASE e.kind = "plain" -> e.name
    [] e.kind # "plain" /\ abi = "itanium" ->
         <<"_Z">> \o Words(e.const, <<"K">>) \o SelectSeq(e.scope, LAMBDA w : w # "::")
           \o (IF e.kind \in Special THEN <<e.variant>> ELSE e.name) \o <<"E">> \o Codes(e.args)
    [] e.kind # "plain" /\ abi = "msvc" ->
         <<"?", e.kind>> \o Scoped(e.scope, e.name) \o <<"@">> \o Codes(<<e.type>>)
           \o Words(e.const, <<"K">>) \o <<"@">> \o Codes(e.args)

(* External: the text of a type and of an entity, as each ABI prints them. *)
Ptr64 == Words(PointerBits = 64, <<"__ptr64">>)
Spaced(words) == Words(words # <<>>, <<" ">> \o words)
printed_type(abi, t) ==
  IF abi = "itanium" THEN t.name \o Words(t.const, <<" const">>) \o Words(t.ref # "", <<t.ref>>)
  ELSE Words(t.class, <<"class", " ">>) \o t.name \o Words(t.const, <<" ", "const">>)
         \o Words(t.ref # "", <<" ", t.ref>> \o Spaced(Ptr64))

printed_args(abi, e) ==
  LET texts == Mapped(e.args, LAMBDA t : printed_type(abi, t))
  IN  <<"(">> \o (IF abi = "itanium" THEN Separated(texts, <<", ">>)
                  ELSE IF texts = <<>> THEN <<"void">> ELSE Separated(texts, <<",">>)) \o <<")">>

Convention(e) ==
  IF e.kind \in {"method"} \cup Special /\ PointerBits = 32 THEN <<"__thiscall", " ">>
  ELSE Words(e.kind # "variable", <<"__cdecl", " ">>)

own_name(e) ==
  Scoped(e.scope, CASE e.kind = "constructor" -> Unscoped(e.scope)
                    [] e.kind = "destructor" -> <<"~">> \o Unscoped(e.scope)
                    [] e.kind \notin Special -> e.name)

printed(abi, e) ==
  CASE e.kind = "plain" -> e.name
    [] e.kind # "plain" /\ abi = "itanium" ->
         own_name(e) \o Words(e.kind # "variable", printed_args(abi, e))
           \o Words(e.const, <<" const">>)
    [] e.kind # "plain" /\ abi = "msvc" ->
         Words(e.scope # <<>>, <<"public:">> \o Words(e.static, <<" ", "static">>)
                                 \o Words(e.virtual, <<" ", "virtual">>) \o <<" ">>)
           \o Words(e.kind \notin Special, printed_type(abi, e.type) \o <<" ">>)
           \o Convention(e) \o own_name(e)
           \o Words(e.kind # "variable", printed_args(abi, e))
           \o (IF e.const THEN <<"const", " ">> \o Ptr64
               ELSE Words(e.kind \in {"method"} \cup Special, Spaced(Ptr64)))

\* A name that no compiler gave is returned as it is.
demangle(abi, m) ==
  LET named == {e \in Entities : mangle(abi, e) = m}
  IN  IF named = {} THEN m ELSE printed(abi, CHOOSE e \in named : TRUE)

-----------------------------------------------------------------------------
(* demangle_symbol: the itanium one only takes names with an underscore. *)
demangle_symbol(abi, m) ==
  IF abi = "itanium" /\ m[1] # "_Z" THEN <<>> ELSE demangle(abi, m)

add_symbols(abi, names) ==
  Mapped(names, LAMBDA m : LET dm == demangle_symbol(abi, m)
                           IN [mangled |-> m, demangled |-> IF dm = <<>> THEN m ELSE dm])

FirstMangled(storage, Predicate(_)) ==
  LET is == {i \in DOMAIN storage : Predicate(storage[i])}
  IN  IF is = {} THEN <<>> ELSE storage[Min(is)].mangled
LastMangled(storage, Predicate(_)) == FirstMangled(Reverse(storage), Predicate)

(* add_alias keeps the first name given to a type. *)
add_alias(aliases, type, name) == IF type \in DOMAIN aliases THEN aliases ELSE aliases @@ (type :> name)

(* msvc's type names start with class or struct, which trim_typename drops. *)
pretty_name(abi, t) == Words(abi = "msvc" /\ t.class, <<"class", " ">>) \o t.name
trim_typename(name) == IF Len(name) > 2 /\ name[1] \in {"class", "struct"} THEN SubSeq(name, 3, Len(name)) ELSE name
get_name(abi, aliases, t) ==
  LET nm == IF t.name \in DOMAIN aliases THEN aliases[t.name] ELSE pretty_name(abi, t)
  IN  IF abi = "msvc" THEN trim_typename(nm) ELSE nm

-----------------------------------------------------------------------------
(* Itanium: the text is built and compared as a whole. *)
\* Mutant: members are found whether they are const or not.
const_rule_none(condition) == <<>>

const_rule(condition) == Words(condition, <<" const">>)
reference_rule(ref) == Words(ref # "", <<ref>>)
type_rule(aliases, t) == get_name("itanium", aliases, t) \o const_rule(t.const) \o reference_rule(t.ref)
arg_list(aliases, r) ==
  <<"(">> \o Separated(Mapped(r.args, LAMBDA t : type_rule(aliases, t)), <<", ">>) \o <<")">>

Find(storage, text) == FirstMangled(storage, LAMBDA e : e.demangled = text)
Includes(name, words) ==
  \E i \in 1 .. Len(name) - Len(words) + 1 : SubSeq(name, i, i + Len(words) - 1) = words
(* A later entry replaces an earlier one. *)
Variant(storage, text, words) ==
  LastMangled(storage, LAMBDA e : e.demangled = text /\ Includes(e.mangled, words))

(* What a search finds: the standard symbol and the one that also          *)
(* allocates or deletes; <<>> is the code's empty string. *)
Symbol(mangled) == [standard |-> mangled, other |-> <<>>]

itanium_find(storage, aliases, r) ==
  LET class == get_name("itanium", aliases, r.class)
      un == Unscoped(class)
  IN  CASE r.kind = "variable" -> Symbol(Find(storage, r.name))
        [] r.kind = "function" -> Symbol(Find(storage, r.name \o arg_list(aliases, r)))
        [] r.kind = "method" ->
             Symbol(Find(storage, Scoped(class, r.name) \o arg_list(aliases, r)
                                    \o const_rule(r.class.const)))
        [] r.kind = "constructor" ->
             LET text == Scoped(class, un) \o arg_list(aliases, r)
             IN  [standard |-> Variant(storage, text, un \o <<"C1", "E">>),
                  other |-> Variant(storage, text, un \o <<"C3", "E">>)]
        [] r.kind = "destructor" ->
             LET text == Scoped(class, <<"~">> \o un) \o <<"(", ")">>
             IN  [standard |-> Variant(storage, text, un \o <<"D1", "E">>),
                  other |-> Variant(storage, text, un \o <<"D0", "E">>)]

-----------------------------------------------------------------------------
(* msvc: the text is parsed by a sequence of rules.  A rule takes one of   *)
(* its phrases off the front of the text, or fails unless it is optional;  *)
(* no rule is tried a second time. *)
Needs(phrases) == [phrases |-> phrases, optional |-> FALSE]
May(phrases) == [phrases |-> phrases, optional |-> TRUE]
Lit(words) == Needs({words})
NoParse == <<"no parse">>

apply_rule(rule, text) ==
  LET taken == {p \in rule.phrases : IsPrefix(p, text)}
  IN  IF text = NoParse THEN NoParse
      ELSE IF taken # {} THEN SubSeq(text, Len(CHOOSE p \in taken : TRUE) + 1, Len(text))
      ELSE IF rule.optional THEN text ELSE NoParse
parse(rules, text) == FoldLeft(LAMBDA rest, rule : apply_rule(rule, rest), text, rules)

visibilities == {"public:", "protected:", "private:"}
visibility == Needs({<<v>> : v \in visibilities})
static_member == May({<<v, " ", "static", " ">> : v \in visibilities})
virtual_ == May({<<" ", "virtual">>})
space == Lit(<<" ">>)
ptr_rule == LET w == IF PointerBits = 64 THEN "__ptr64" ELSE "__ptr32" IN May({<<" ", w>>, <<w>>})
thiscall == Lit(<<IF PointerBits = 64 THEN "__cdecl" ELSE "__thiscall", " ">>)
inv_const_rule(condition) == Words(condition, <<Lit(<<"const", " ">>)>>)

msvc_type_rule(aliases, t) ==
  <<May({<<"class", " ">>, <<"struct", " ">>}), Lit(get_name("msvc", aliases, t))>>
    \o Words(t.const, <<Lit(<<" ", "const">>)>>)
    \o Words(t.ref # "", <<Lit(<<" ", t.ref>>)>>)
    \o <<ptr_rule>>
msvc_arg_list(aliases, r) ==
  <<Lit(<<"(">>)>>
    \o (IF r.args = <<>> THEN <<Lit(<<"void">>)>>
        ELSE Separated(Mapped(r.args, LAMBDA t : msvc_type_rule(aliases, t)), <<Lit(<<",">>)>>))
    \o <<Lit(<<")">>)>>

msvc_matcher(aliases, r) ==
  LET class == get_name("msvc", aliases, r.class)
      un == Unscoped(class)
      args == msvc_arg_list(aliases, r)
      type == msvc_type_rule(aliases, r.type) \o <<space>>
  IN  CASE r.kind = "variable" -> <<static_member>> \o type \o <<Lit(r.name)>>
        [] r.kind = "function" ->
             <<static_member>> \o type \o <<Lit(<<"__cdecl", " ">>), Lit(r.name)>> \o args
               \o <<ptr_rule>>
        [] r.kind = "method" ->
             <<visibility, virtual_, space>> \o type \o <<thiscall, Lit(Scoped(class, r.name))>>
               \o args \o inv_const_rule(r.class.const) \o <<ptr_rule>>
        [] r.kind = "constructor" ->
             <<visibility, space, thiscall, Lit(Scoped(class, un))>> \o args \o <<ptr_rule>>
        [] r.kind = "destructor" ->
             <<visibility, virtual_, space, thiscall,
               Lit(Scoped(class, <<"~">> \o un) \o <<"(", "void", ")">>), ptr_rule>>

(* A variable or function may also be there under its plain name. *)
msvc_find(storage, aliases, r) ==
  LET matcher == msvc_matcher(aliases, r)
  IN  Symbol(FirstMangled(storage, LAMBDA e :
        \/ r.kind \in {"variable", "function"} /\ e.demangled = r.name
        \/ parse(matcher, e.demangled) = <<>>))

find(os, storage, aliases, r) ==
  IF Abi(os) = "msvc" THEN msvc_find(storage, aliases, r)
  ELSE itanium_find(storage, aliases, r)
=============================================================================
