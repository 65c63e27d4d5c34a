---------------------------- MODULE MCLibraries ----------------------------
(***************************************************************************)
(* SmartLibrary with two versions of a plugin, the program itself, a file  *)
(* without symbols and a library of another platform, each as one of the   *)
(* platform's tools writes it.                                             *)
(***************************************************************************)
EXTENDS SmartLibrary

CONSTANTS
  s1, s2, m1, m2, f1, f2         \* shared and smart libraries, functions

MCSymmetry == Permutations({s1, s2}) \cup Permutations({m1, m2}) \cup Permutations({f1, f2})

Type(name, class, const, ref) == [name |-> name, class |-> class, const |-> const, ref |-> ref]
IntT == Type(<<"int">>, FALSE, FALSE, "")
VoidT == Type(<<"void">>, FALSE, FALSE, "")
KlassName == <<"ns", "::", "Klass">>
KlassRef == Type(KlassName, TRUE, TRUE, "&")
Mine == Type(<<"Mine">>, TRUE, FALSE, "")

E(kind, scope, name, type, args) ==
  [kind |-> kind, scope |-> scope, name |-> name, type |-> type, args |-> args,
   const |-> FALSE, static |-> FALSE, virtual |-> FALSE, variant |-> ""]
create == E("plain", <<>>, <<"create">>, VoidT, <<>>)
start == E("plain", <<>>, <<"start">>, VoidT, <<>>)
level == E("variable", <<>>, <<"ns", "::", "level">>, IntT, <<>>)
count == [E("variable", KlassName, <<"count">>, IntT, <<>>) EXCEPT !.static = TRUE]
run_int == E("function", <<>>, <<"run">>, IntT, <<IntT>>)
run_klass == E("function", <<>>, <<"run">>, IntT, <<KlassRef, IntT>>)
get_const == [E("method", KlassName, <<"get">>, IntT, <<>>) EXCEPT !.const = TRUE]
get_virtual == [E("method", KlassName, <<"get">>, IntT, <<>>) EXCEPT !.virtual = TRUE]
ctor(v) == [E("constructor", KlassName, <<>>, VoidT, <<IntT>>) EXCEPT !.variant = v]
dtor(v) == [E("destructor", KlassName, <<>>, VoidT, <<>>) EXCEPT !.virtual = TRUE, !.variant = v]

Source == [f \in {"A", "B", "server", "notes", "foreign"} |->
  CASE f \in {"A", "foreign"} -> <<create, level, run_int, run_klass, get_const, get_virtual,
                    ctor("C2"), ctor("C1"), dtor("D0"), dtor("D1"), dtor("D2")>>
    [] f = "B" -> <<create, count, run_int, ctor("C1"), ctor("C2"), dtor("D2"), dtor("D1")>>
    [] f = "server" -> <<start, run_int>>
    [] OTHER -> <<>>]
MCEntity == [f \in DOMAIN Source |-> ToSet(Source[f])]
MCFiles == DOMAIN MCEntity
MCEntityOf(f) == MCEntity[f]
MCEntities == UNION {MCEntity[f] : f \in MCFiles}
MCSectionOf(e) == IF e.kind = "variable" THEN <<".data">> ELSE <<".text">>
MCNative(p, f) == f \in {"A", "B", "server"}

MCPlatforms == {"linux", "macos", "windows"}
BuiltWith(p, f) == IF f = "foreign" THEN "itanium" ELSE Abi(p)
ExportTable == [p \in MCPlatforms, f \in MCFiles |-> {mangle(BuiltWith(p, f), e) : e \in MCEntity[f]}]
MCExports(p, f) == ExportTable[p, f]
FormatOf(p, f) == IF f = "foreign" THEN [linux |-> "macho", macos |-> "elf", windows |-> "elf"][p]
                  ELSE [linux |-> "elf", macos |-> "macho", windows |-> "pe"][p]

(* One function is protected, and one written in assembly has no size. *)
Protected == {run_klass}
Sizeless == {start}
MCUnseen(p, f) == IF FormatOf(p, f) = "elf" THEN MCEntity[f] \cap (Protected \cup Sizeless) ELSE {}
MCLocals(p, f) == IF FormatOf(p, f) = "macho" THEN {<<"tmp">>} ELSE {}
(* The new plugin is linked by another linker: on Linux by GNU ld, which   *)
(* puts .shstrtab last since version 2.27, where lld puts .strtab; on      *)
(* Windows with a function that is exported by its number only.            *)
Relinked(f) == f = "B"

-----------------------------------------------------------------------------
(* The files. *)
Table(names) == <<NUL>> \o FlattenSeq(Mapped(names, LAMBDA n : n \o <<NUL>>))
OffsetOf(names, i) == Len(Table(SubSeq(names, 1, i - 1)))

Once(s) ==                       \* one symbol for each name
  LET first == SelectSeq([i \in DOMAIN s |-> i], LAMBDA i : \A j \in 1 .. i - 1 : s[j] # s[i])
  IN  [k \in DOMAIN first |-> s[first[k]]]
Defined(abi, f) ==
  Once(Mapped(Source[f], LAMBDA e : [name |-> mangle(abi, e), section |-> MCSectionOf(e)]))
NamesOf(ss) == Mapped(ss, LAMBDA s : s.name)

(* A hidden, a local and an undefined symbol, which nobody can look up. *)
Others == <<<<"helper">>, <<"tmp">>, <<"printf">>>>
Headings == <<<<".text">>, <<".data">>, <<".symtab">>, <<".strtab">>, <<".shstrtab">>>>
elf(ss, names, text_last) ==
  LET Symbol_(i) ==
        [name |-> OffsetOf(names, i),
         visibility |-> IF names[i] = <<"helper">> THEN "hidden"
                        ELSE IF names[i] \in {mangle("itanium", e) : e \in Protected} THEN "protected"
                        ELSE "default",
         bind |-> IF names[i] = <<"tmp">> THEN "local" ELSE "global",
         size |-> IF names[i] \in {<<"printf">>} \cup {mangle("itanium", e) : e \in Sizeless} THEN 0 ELSE 4,
         shndx |-> IF names[i] = <<"printf">> THEN 0
                   ELSE IF i <= Len(ss) /\ ss[i].section = <<".data">> THEN 2 ELSE 1]
      S(name, type, data) == [name |-> name, type |-> type, data |-> data, link |-> 0]
      symtab == [S(OffsetOf(Headings, 3), "symtab", [i \in DOMAIN names |-> Symbol_(i)])
                   EXCEPT !.link = IF text_last THEN 5 ELSE 4]
      strtab == S(OffsetOf(Headings, 4), "strtab", Table(names))
      shstrtab == S(OffsetOf(Headings, 5), "strtab", Table(Headings))
  IN  [format |-> "elf64", shstrndx |-> IF text_last THEN 3 ELSE 5,
       sections |-> <<S(0, "null", <<>>), S(1, "progbits", <<>>),
                      S(OffsetOf(Headings, 2), "progbits", <<>>)>>
                      \o (IF text_last THEN <<shstrtab, symtab, strtab>>
                          ELSE <<symtab, strtab, shstrtab>>)]

macho(ss, names) ==
  LET S(i) == [strx |-> OffsetOf(names, i), type |-> "N_SECT",
               sect |-> IF ss[i].section = <<".data">> THEN 2 ELSE 1]
      undefined == [strx |-> 1, type |-> "N_UNDF", sect |-> 0]
  IN  [format |-> "macho64",
       commands |-> <<[cmd |-> "LC_SEGMENT_64", sections |-> <<<<".text">>>>],
                      [cmd |-> "LC_UUID"],
                      [cmd |-> "LC_SEGMENT_64", sections |-> <<<<".data">>, <<>>>>],
                      [cmd |-> "LC_SYMTAB", strings |-> Table(names),
                       symbols |-> <<undefined>> \o [i \in DOMAIN names |-> S(i)]]>>]

(* .text is loaded at 100 and .data at 200, from other places of the file. *)
pe(ss, numbered) ==
  LET n == Len(ss)
  IN  [format |-> "pe64",
       sections |-> <<[name |-> <<".text">>, va |-> 100, size |-> 50, raw |-> 10],
                      [name |-> <<".data">>, va |-> 200, size |-> 50, raw |-> 60]>>,
       export_va |-> IF ss = <<>> THEN 0 ELSE 240,
       dos |-> [behind |-> 0, names |-> <<Beyond>>, ordinals |-> <<>>, functions |-> <<>>],
       exports |-> [behind |-> 0,
                    names |-> NamesOf(ss),
                    ordinals |-> [i \in 1..n |-> n - i],
                    functions |-> [i \in 1..n |-> (IF ss[n + 1 - i].section = <<".data">> THEN 200 ELSE 100) + i]
                                   \o (IF numbered THEN <<149>> ELSE <<>>)]]

Local == <<[name |-> <<"tmp">>, section |-> <<".text">>]>>
Underscored(names) == Mapped(names, LAMBDA n : <<"_">> \o n)
Written(format, ss, f) ==
  CASE format = "elf" -> elf(ss, NamesOf(ss) \o Others, ~Relinked(f))
    [] format = "macho" -> macho(ss \o Local, Underscored(NamesOf(ss \o Local)))
    [] format = "pe" -> pe(ss, Relinked(f))
ContentTable == [p \in MCPlatforms, f \in MCFiles |->
  IF f = "notes" /\ p # "windows" THEN [format |-> "text"]
  ELSE Written(FormatOf(p, f), Defined(BuiltWith(p, f), f), f)]
MCContents(p, f) == ContentTable[p, f]
ASSUME FilesAreWellFormed == \A p \in MCPlatforms, f \in MCFiles : WellFormed(MCContents(p, f))

-----------------------------------------------------------------------------
PluginName == [linux |-> <<"lib", "plug", ".so">>, macos |-> <<"lib", "plug", ".dylib">>,
               windows |-> <<"plug", ".dll">>]
MCInitialDisk == [p \in MCPlatforms |->
  (<<"current", PluginName[p]>> :> "A") @@ (<<"system", PluginName[p]>> :> "B")
  @@ (<<"current", ProgramPath.name>> :> "server") @@ (<<"current", <<"notes">>>> :> "notes")
  @@ (<<"current", <<"foreign">>>> :> "foreign")]
MCReplacements == {[place |-> <<"current", PluginName[p]>>, file |-> "B"] : p \in MCPlatforms}

Request(parent, name, mode) == [path |-> [parent |-> parent, name |-> name], mode |-> mode]
MCRequested == [p \in MCPlatforms |->
  {Request(".", PluginName[p], {}),
   Request("", <<"plug">>, {"append_decorations"}),
   Request("", PluginName[p], {"search_system_folders"}),
   Request("/d", ProgramPath.name, {}), Request("", ProgramPath.name, {"search_system_folders"}),
   Request(".", <<"foreign">>, {}), Request(".", <<"notes">>, {}), Request("", <<>>, {})}]

Wants(kind, name, class, type, args) ==
  [kind |-> kind, name |-> name, class |-> class, type |-> type, args |-> args]
MineRef == [Mine EXCEPT !.const = TRUE, !.ref = "&"]
MCWanted ==
  {Wants("variable", level.name, VoidT, IntT, <<>>), Wants("variable", create.name, VoidT, VoidT, <<>>),
   Wants("variable", KlassName \o <<"::", "count">>, VoidT, IntT, <<>>),
   Wants("function", <<"run">>, VoidT, IntT, <<IntT>>), Wants("function", <<"run">>, VoidT, IntT, <<MineRef, IntT>>),
   Wants("method", <<"get">>, Mine, IntT, <<>>), Wants("method", <<"get">>, [Mine EXCEPT !.const = TRUE], IntT, <<>>),
   Wants("constructor", <<>>, Mine, VoidT, <<IntT>>), Wants("destructor", <<>>, Mine, VoidT, <<>>)}
MCAliases == {[type |-> Mine.name, name |-> n] : n \in {KlassName}}
MCAsked == {create.name, start.name}
MCSections == {<<".text">>, <<".data">>, <<".bss">>}
=============================================================================
