---------------------------- MODULE SmartLibrary ----------------------------
(***************************************************************************)
(* boost::dll::experimental::smart_library: a shared_library together with *)
(* the symbols library_info has read from a file of the same name, which   *)
(* finds C++ entities by their signatures.  Shared and smart libraries and *)
(* imported functions of one program share its loader.                     *)
(***************************************************************************)
EXTENDS SharedLibrary, MangledStorage

CONSTANTS
  Smart,                         \* the objects that are smart libraries
  Contents(_, _),                \* platform, file -> what library_info reads
  Entity(_),                     \* the entities a library exports
  Wanted,                        \* the requests for C++ entities
  Aliases,                       \* [type, name] pairs a program may add
  Unseen(_, _),                  \* those of an ELF file its reader passes over
  Locals(_, _),                  \* the local names a Mach-O file keeps
  SectionOf(_),                  \* the section an entity lies in
  SectionNames                   \* the sections programs ask for
ASSUME SmartAssumption == Smart \subseteq Objects

VARIABLES
  storage,                       \* smart library -> file whose symbols storage_ lists
  aliases                        \* smart library -> aliases_

vars == <<libraryVars, storage, aliases>>
smart == <<storage, aliases>>
NoAliases == <<>>
Shared == Objects \ Smart

Init ==
  /\ LibraryInit
  /\ storage = [s \in Smart |-> NoFile]
  /\ aliases = [s \in Smart |-> NoAliases]

-----------------------------------------------------------------------------
(* The symbols of every file, and what the storage makes of them. *)
Symbols == [p \in Platforms, f \in Files |->
  IF parsing_supported(Contents(p, f), p) THEN symbols(Contents(p, f)) ELSE <<>>]
Storage == [p \in Platforms, f \in Files |-> add_symbols(Abi(p), Symbols[p, f])]

(* An ifstream takes a path as it is, from the current directory. *)
Readable(p, throw_if_not_native) ==
  /\ FileAt(p) # NoFile
  /\ Opens(Contents(platform, FileAt(p)), platform, throw_if_not_native)

(* storage_.load clears the storage before it opens the file. *)
storage_load(p, throw_if_not_native) ==
  IF Readable(p, throw_if_not_native) THEN FileAt(p) ELSE NoFile

Stored(s, f) == storage' = [storage EXCEPT ![s] = f]

smart_construct(s) == construct(s) /\ UNCHANGED smart

(* The constructor without an error_code loads first, and passes the mode  *)
(* for the storage's flag; when either fails there is no object. *)
smart_construct_load(s, request) ==
  /\ \E can \in BOOLEAN : \E l \in {load(can, loader, NoFile, request.path, request.mode)} :
       \/ /\ ~l.ec /\ Readable(request.path, request.mode # {})
          /\ Attempt("load", s, NoObject, l, TRUE)
          /\ Stored(s, FileAt(request.path))
       \/ /\ l.ec \/ ~Readable(request.path, request.mode # {})
          /\ Attempt("load", s, NoObject, Holding(unload(l.loader, l.handle), NoFile, TRUE), TRUE)
          /\ Stored(s, NoFile)
  /\ UNCHANGED <<platform, disk, keeper, import, aliases>>

(* Those with one are as load, but without an object when it throws; the   *)
(* storage then lists what the path names. *)
smart_construct_load_ec(s, request) ==
  /\ Readable(request.path, TRUE)
  /\ Stored(s, FileAt(request.path))
  /\ \E can \in BOOLEAN :
       Attempt("load", s, NoObject, load(can, loader, NoFile, request.path, request.mode), FALSE)
  /\ UNCHANGED <<platform, disk, keeper, import, aliases>>

(* load reads the symbols first: when that throws, the library of before   *)
(* stays loaded with an empty storage. *)
smart_load(s, request) ==
  /\ Exists(s)
  /\ Stored(s, storage_load(request.path, TRUE))
  /\ IF Readable(request.path, TRUE)
     THEN \E can \in BOOLEAN :
            Attempt("load", s, NoObject, load(can, loader, handle[s], request.path, request.mode), FALSE)
     ELSE /\ result' = Report("read", s, NoObject, TRUE)
          /\ UNCHANGED <<loader, handle>>
  /\ UNCHANGED <<platform, disk, keeper, import, aliases>>

smart_unload(s) ==
  /\ unload_library(s)
  /\ Stored(s, NoFile)
  /\ aliases' = [aliases EXCEPT ![s] = NoAliases]

smart_destroy(s) ==
  /\ destroy(s)
  /\ Stored(s, NoFile)
  /\ aliases' = [aliases EXCEPT ![s] = NoAliases]

smart_move_construct(s, other) ==
  /\ move_construct(s, other)
  /\ storage' = [storage EXCEPT ![s] = storage[other], ![other] = NoFile]
  /\ aliases' = [aliases EXCEPT ![s] = aliases[other], ![other] = NoAliases]

(* The storage is assigned only when the library could be. *)
smart_assign(s, other) ==
  /\ copy_assign(s, other)
  /\ IF result'.error THEN UNCHANGED smart
     ELSE /\ Stored(s, storage[other])
          /\ aliases' = [aliases EXCEPT ![s] = aliases[other]]

smart_swap(s, other) ==
  /\ swap(s, other)
  /\ storage' = [storage EXCEPT ![s] = storage[other], ![other] = storage[s]]
  /\ aliases' = [aliases EXCEPT ![s] = aliases[other], ![other] = aliases[s]]

add_type_alias(s, a) ==
  /\ Exists(s)
  /\ aliases' = [aliases EXCEPT ![s] = add_alias(@, a.type, a.name)]
  /\ result' = Done
  /\ UNCHANGED <<platform, disk, state, storage>>

-----------------------------------------------------------------------------
storage_of(s) == IF storage[s] = NoFile THEN <<>> ELSE Storage[platform, storage[s]]

(* load_ctor and load_dtor leave out a symbol that was not found, except    *)
(* with msvc, where every search asks the library for what it found. *)
Optional(r, symbol) == r.kind \in Special /\ Abi(platform) = "itanium" /\ symbol = <<>>
Loads(s, r, symbol) == Optional(r, symbol) \/ has(handle[s], symbol)

(* get_variable, get_function, get_mem_fn, get_constructor, get_destructor *)
Nothing == [standard |-> {}, other |-> {}]
load_found(s, r, sym) ==
  IF Loads(s, r, sym.standard) /\ (sym.other = <<>> \/ Loads(s, r, sym.other))
  THEN [standard |-> get(handle[s], sym.standard), other |-> get(handle[s], sym.other)]
  ELSE Nothing
lookup(s, r) == load_found(s, r, find(platform, storage_of(s), aliases[s], r))

(* constructor::is_empty and destructor::is_empty *)
is_empty(found) == ~(found.other = {} /\ found.standard # {})

(* A library_info of a file, and its lists; none when it throws. *)
read(c, throw_if_not_native, section) ==
  IF ~Opens(c, platform, throw_if_not_native) THEN {}
  ELSE {IF section = <<>> THEN symbols(c) ELSE symbols_of(c, section)}
info(f, throw_if_not_native, section) ==
  IF f = NoFile THEN {} ELSE read(Contents(platform, f), throw_if_not_native, section)

-----------------------------------------------------------------------------
SharedStep(o) ==
  /\ \/ /\ Free(o)
        /\ \/ construct(o)
           \/ \E request \in Requested[platform], throws \in BOOLEAN : construct_load(o, request, throws)
           \/ \E p \in Objects : copy_construct(o, p)
           \/ \E p \in Shared : move_construct(o, p)
     \/ unload_library(o) \/ destroy(o)
     \/ \E request \in Requested[platform] : load_library(o, request)
     \/ \E p \in Shared : copy_assign(o, p) \/ move_assign(o, p) \/ swap(o, p)
  /\ UNCHANGED smart

SmartStep(s) ==
  \/ /\ Free(s)
     /\ \/ smart_construct(s)
        \/ \E request \in Requested[platform] :
             smart_construct_load(s, request) \/ smart_construct_load_ec(s, request)
        \/ \E p \in Smart : smart_move_construct(s, p)
  \/ smart_unload(s) \/ smart_destroy(s)
  \/ \E request \in Requested[platform] : smart_load(s, request)
  \/ \E p \in Smart : smart_assign(s, p) \/ smart_swap(s, p)
  \/ \E a \in Aliases : add_type_alias(s, a)

ImportStep(i) ==
  /\ \/ /\ Unused(i)
        /\ \/ \E symbol \in Asked :
                \/ \E request \in Requested[platform] : import_path(i, request, symbol)
                \/ \E o \in Objects : import_copy(i, o, symbol)
                \/ \E o \in Shared : import_move(i, o, symbol)
           \/ \E j \in Imports : copy_function(i, j)
     \/ drop_function(i)
  /\ UNCHANGED smart

Next ==
  \/ \E o \in Shared : SharedStep(o)
  \/ \E s \in Smart : SmartStep(s)
  \/ \E i \in Imports : ImportStep(i)
  \/ \E r \in Replacements : replace(r) /\ UNCHANGED smart

Spec == Init /\ [][Next]_vars

-----------------------------------------------------------------------------
(* The loader keeps a library mapped for exactly the objects that hold it, *)
(* the functions' shared libraries and, for the program's own file, the    *)
(* program: no sequence of loads that fail, assignments, moves, swaps and  *)
(* imports leaks a reference or gives one back twice.                      *)
LoaderReferences ==
  \A f \in Files :
    loader[f].refs = Cardinality({o \in Objects : handle[o] = f})
                     + Cardinality({i \in Imports : keeper[i] = f})
                     + (IF f = Program THEN 1 ELSE 0)

(* A load that reports success holds a library, and one that fails leaves  *)
(* the object without any, also without the one it had before.  A copy     *)
(* that succeeds holds the very library of its original, although it opens *)
(* it again by name: decorated names, the system's directories and files   *)
(* replaced in between make no difference.                                 *)
LoadedAsReported ==
  /\ result.op = "load" => (result.error <=> handle[result.object] \in {NoFile, NoObject})
  /\ result.op = "assign" /\ ~result.error => handle[result.object] = handle[result.other]

(* While an imported function or a copy of it exists, its library stays    *)
(* mapped, whatever became of the object it was imported from.             *)
ImportKeepsLoaded ==
  \A i \in Imports :
    import[i].keeper # NoObject =>
      keeper[import[i].keeper] = import[i].file /\ loader[import[i].file].refs > 0

Same(found, f, entities) == found \subseteq {<<f, mangle(Abi(platform), e)>> : e \in entities}

(* The tables a list is read from are those of the symbols: the last        *)
(* string table of an ELF file is the one its table of symbols is linked    *)
(* to, and a PE file has exports, all of them by name.                      *)
OwnTables(c, section) ==
  LET last(type) == Max({i \in DOMAIN c.sections : c.sections[i].type = type})
  IN  /\ c.format \in Elf => c.sections[last("symtab")].link + 1 = last("strtab")
      /\ c.format \in Pe =>
           /\ get_file_offset(c, c.export_va) # 0
           /\ section # <<>> => Len(c.exports.functions) = Len(c.exports.names)

ListIs(listed, f, section, entities, others) ==
  \A c \in {Contents(platform, f)} :
    LET Names(es) == {mangle(IF c.format \in Pe THEN "msvc" ELSE "itanium", e) : e \in es}
    IN  /\ ToSet(listed) \subseteq Exports(platform, f) \cup others
        /\ ToSet(listed) \cap Names(Entities) =
             Names({e \in entities : section \in {<<>>, SectionOf(e)}})
        /\ {SectionOf(e) : e \in Entity(f)} \subseteq ToSet(sections(c))

(* It reads the disk only: the states without an object show all its forms. *)
EveryList(Holds(_, _, _)) ==
  (\A o \in Objects : ~Exists(o)) =>
  \A request \in Requested[platform], native \in BOOLEAN, section \in {<<>>} \cup SectionNames :
    \A f \in {FileAt(request.path)} :
      \A listed \in info(f, native, section) : Holds(f, section, listed)

(* From the symbols' own tables library_info lists every entity a library  *)
(* exports, but the protected and the sizeless ones of an ELF file, and    *)
(* nothing that the loader would not find in it, but the local names of a  *)
(* Mach-O file; a section's list is the part of the whole list that lies   *)
(* in the section, and every such section is listed.                       *)
SymbolsAreListed ==
  EveryList(LAMBDA f, section, listed :
    OwnTables(Contents(platform, f), section) =>
      ListIs(listed, f, section, Entity(f) \ Unseen(platform, f), Locals(platform, f)))

(* What a program would expect, and ordinary files refute: library_info    *)
(* lists what the library exports (library_info.hpp, "symbols").           *)
SymbolsAreExports ==
  EveryList(LAMBDA f, section, listed : ListIs(listed, f, section, Entity(f), {}))

(* The entities a request can mean: what is called by the name, with the   *)
(* types as the aliases name them.  Only Microsoft's names tell the type   *)
(* of a variable and the result of a function.                             *)
Meant(s, r) ==
  LET abi == Abi(platform)
      named(t) == IF t.name \in DOMAIN aliases[s] THEN [t EXCEPT !.name = aliases[s][t.name]] ELSE t
      class == named(r.class).name
      args == [i \in DOMAIN r.args |-> named(r.args[i])]
      result_type(e) == abi = "msvc" => e.type = named(r.type)
      known(e) ==
        CASE r.kind = "variable" -> e.kind = "variable" /\ Scoped(e.scope, e.name) = r.name /\ result_type(e)
          [] r.kind = "function" -> e.kind = "function" /\ e.name = r.name /\ e.args = args /\ result_type(e)
          [] r.kind = "method" ->
               /\ e.kind = "method" /\ e.scope = class /\ e.name = r.name /\ e.args = args
               /\ e.const = r.class.const /\ result_type(e)
          [] r.kind \in Special -> e.kind = r.kind /\ e.scope = class /\ e.args = args
      plain(e) == /\ e.kind = "plain" /\ e.name = r.name
                  /\ r.kind \in (IF abi = "msvc" THEN {"variable", "function"} ELSE {"variable"})
  IN  {e \in Entities : known(e) \/ plain(e)}

Complete(e) == e.variant \in {"", "C1", "D1"}
Allocating(e) == e.variant \in {"C3", "D0"}

(* A lookup finds the entity the request means, among overloads, const and *)
(* virtual members and the variants of constructors and destructors, or it *)
(* finds nothing; and it finds every one whose symbol library_info lists   *)
(* for the loaded library.                                                 *)
LookupMeant ==
  \A s \in Smart, r \in Wanted :
    Exists(s) =>
      \A found \in {lookup(s, r)}, meant \in {Meant(s, r)}, h \in {handle[s]} :
        /\ Same(found.standard, h, {e \in meant : Complete(e)})
        /\ Same(found.other, h, {e \in meant : Allocating(e)})
        /\ (/\ h \in Files /\ storage[s] = h
            /\ \E e \in meant \cap Entity(h) :
                 Complete(e) /\ mangle(Abi(platform), e) \in ToSet(Symbols[platform, h]))
             => found.standard # {}

(* A constructor or destructor of which neither form was found is empty,   *)
(* and no other (ctor_dtor.hpp, the comments of is_empty).                 *)
EmptyMeansNeither ==
  \A s \in Smart, r \in Wanted :
    Exists(s) /\ r.kind \in Special =>
      \A found \in {lookup(s, r)} : is_empty(found) <=> found = Nothing
=============================================================================
