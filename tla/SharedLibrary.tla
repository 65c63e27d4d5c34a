--------------------------- MODULE SharedLibrary ---------------------------
(***************************************************************************)
(* boost::dll::shared_library: objects that each hold one reference to a   *)
(* library the dynamic loader has mapped, and the functions imported from  *)
(* a library, which hold a shared_library of their own in common.          *)
(*                                                                         *)
(* The loader is external: it maps a file once, whatever names it is       *)
(* opened under, counts the references and unmaps the file with the last   *)
(* one.  A library that is mapped is found again under the name it was     *)
(* first opened with, even when another file has that name by now.         *)
(*                                                                         *)
(* An operation is a function of the state it reads and is one action;     *)
(* `can' says whether the loader has the memory to map anything during it. *)
(***************************************************************************)
EXTENDS Integers, Sequences, FiniteSets, SequencesExt

CONSTANTS
  Objects,                       \* names of shared_library objects
  Imports,                       \* names of imported functions
  Files,                         \* files, whatever their names
  Program,                       \* the running program's file
  NoFile,                        \* no file, no library, no object
  NoObject,
  Exports(_, _),                 \* the symbols of a file built for a platform
  Native(_, _),                  \* the platform's loader can map the file
  Platforms,                     \* "linux", "macos", "windows"
  InitialDisk,                   \* platform -> [place -> file]
  Replacements,                  \* [place, file]: a file that is put in place later
  Requested,                     \* platform -> the [path, mode] pairs it is asked for
  Asked,                         \* the names of the symbols it imports
  Live                           \* bound: objects and functions at a time
ASSUME LibraryAssumption ==
  /\ IsFiniteSet(Objects) /\ IsFiniteSet(Imports)
  /\ Program \in Files /\ NoFile \notin Files
  /\ NoObject \notin Files \cup Imports \cup {NoFile}
  /\ Platforms \subseteq {"linux", "macos", "windows"}

VARIABLES
  platform,                      \* the one the program was built for
  disk,                          \* place -> file
  loader,                        \* file -> [refs, name]
  handle,                        \* object -> handle_ (NoObject: there is no object)
  keeper,                        \* import -> handle_ of the shared_library made for it
  import,                        \* import -> [keeper, file] (keeper = NoObject: no function)
  result                         \* what the last load, copy or import reports

libraryVars == <<platform, disk, loader, handle, keeper, import, result>>
state == <<loader, handle, keeper, import>>

-----------------------------------------------------------------------------
(* A path is its parent ("" none, "." or "/d" the current directory,       *)
(* "/lib" the system's) and its file name as a sequence of words. *)
Suffix == CASE platform = "linux" -> ".so" [] platform = "macos" -> ".dylib"
            [] platform = "windows" -> ".dll"
ProgramPath == [parent |-> "/d", name |-> <<"server", ".exe">>]
ProgramPlace == <<"current", ProgramPath.name>>
IsPath(p) == p = [parent |-> p.parent, name |-> p.name]

(* The running program's own file is not replaced. *)
ASSUME DiskAssumption ==
  /\ \A p \in Platforms :
       /\ ProgramPlace \in DOMAIN InitialDisk[p] /\ InitialDisk[p][ProgramPlace] = Program
       /\ \A place \in DOMAIN InitialDisk[p] : InitialDisk[p][place] \in Files
       /\ \A request \in Requested[p] : IsPath(request.path)
  /\ \A r \in Replacements : r.file \in Files /\ r.place # ProgramPlace

(* A name without a directory is searched for: by Windows in the current   *)
(* directory first, by macOS there last, by Linux not at all. *)
Directory(p) ==
  LET here == <<"current", p.name>> \in DOMAIN disk
      there == <<"system", p.name>> \in DOMAIN disk
  IN  IF \/ p.parent = "/lib"
         \/ p.parent = "" /\ ~(platform = "windows" /\ here) /\ ~(platform = "macos" /\ ~there)
      THEN "system" ELSE "current"
At(p) ==
  LET place == <<Directory(p), p.name>>
  IN  IF place \in DOMAIN disk THEN disk[place] ELSE NoFile
\* What every other call opens by a name without a directory.
FileAt(p) ==
  LET place == <<IF p.parent = "/lib" THEN "system" ELSE "current", p.name>>
  IN  IF place \in DOMAIN disk THEN disk[place] ELSE NoFile
Opened(p) ==
  [p EXCEPT !.parent = IF Directory(p) = "system" THEN "/lib"
                       ELSE IF platform = "linux" THEN @ ELSE "/d"]

(* External: dlopen, dlclose, dlsym and the Windows calls of this kind.    *)
(* An executable can only be opened by Windows. *)
Mappable(f) == f # NoFile /\ Native(platform, f) /\ (f = Program => platform = "windows")
Found(ld, p) ==
  LET named == {f \in Files : ld[f].refs > 0 /\ ld[f].name = Opened(p) /\ Mappable(f)}
  IN  IF named # {} THEN CHOOSE g \in named : TRUE
      ELSE IF Mappable(At(p)) THEN At(p) ELSE NoFile
dlopen(ld, f, p) ==
  [ld EXCEPT ![f] = [refs |-> @.refs + 1, name |-> IF @.refs = 0 THEN Opened(p) ELSE @.name]]
dlclose(ld, f) == [ld EXCEPT ![f].refs = @ - 1]
symbol_addr(f, symbol) == symbol \in Exports(platform, f)

-----------------------------------------------------------------------------
(* shared_library_impl: what becomes of the loader and of one handle_. *)
Holding(ld, h, ec) == [loader |-> ld, handle |-> h, ec |-> ec]
unload(ld, h) == IF h = NoFile THEN ld ELSE dlclose(ld, h)

located(p, mode) ==
  CASE "search_system_folders" \in mode -> p
    [] "search_system_folders" \notin mode /\ platform = "linux" ->
         IF p.parent = "" THEN [p EXCEPT !.parent = "."] ELSE p
    [] "search_system_folders" \notin mode /\ platform # "linux" ->
         IF p.parent \in {"", "."} THEN [p EXCEPT !.parent = "/d"] ELSE p

WithLib(name) == <<"lib">> \o name
decorated(p) ==
  IF platform = "windows"
  THEN <<[p EXCEPT !.name = @ \o <<Suffix>>], [p EXCEPT !.name = WithLib(@) \o <<Suffix>>]>>
  ELSE <<[p EXCEPT !.name = (IF @[1] = "lib" THEN @ ELSE WithLib(@)) \o <<Suffix>>]>>

(* Decorated names first; Windows would add its extension to a name        *)
(* without one, so a dot is put behind it. *)
candidates(p, mode) ==
  (IF "append_decorations" \in mode THEN decorated(located(p, mode)) ELSE <<>>)
    \o <<located(p, mode)>>

opened(ld, f, p) == Holding(dlopen(ld, f, p), f, FALSE)
(* When nothing is found and the path is equivalent() to the program's, the *)
(* program itself is opened, by no name. *)
open_first(ld, paths, p, mode) ==
  LET found == {i \in DOMAIN paths : Found(ld, paths[i]) # NoFile}
      first == paths[CHOOSE i \in found : \A j \in found : i <= j]
  IN  CASE found # {} -> opened(ld, Found(ld, first), first)
        [] found = {} /\ platform # "windows" /\ FileAt(located(p, mode)) = Program ->
             opened(ld, Program, ProgramPath)
        [] OTHER -> Holding(ld, NoFile, TRUE)

load_unloaded(can, ld, p, mode) ==
  IF p.name = <<>> \/ ~can THEN Holding(ld, NoFile, TRUE)
  ELSE open_first(ld, candidates(p, mode), p, mode)

(* The library of before is closed first. *)
load(can, ld, h, p, mode) == load_unloaded(can, unload(ld, h), p, mode)

\* Mutant: the name without its directory.
full_module_path_name(ld, h) == [(IF h = Program THEN ProgramPath ELSE ld[h].name) EXCEPT !.parent = ""]

(* path_from_handle: the name the library was opened with. *)
full_module_path(ld, h) == IF h = Program THEN ProgramPath ELSE ld[h].name

\* Mutant: the copy is not swapped, so that nothing closes the old library.
assign_no_swap(can, ld, h, other) ==
  IF h = other \/ other = NoFile THEN Holding(ld, other, FALSE)
  ELSE load(can, ld, NoFile, full_module_path(ld, other), {})

swapped(copy, ld, h) ==
  IF copy.ec THEN Holding(ld, h, TRUE)
  ELSE Holding(unload(copy.loader, h), copy.handle, FALSE)

(* assign: another reference is opened by the library's location and       *)
(* swapped in; the copy that goes out of scope closes the old one. *)
assign(can, ld, h, other) ==
  CASE h = other -> Holding(ld, h, FALSE)
    [] h # other /\ other = NoFile -> Holding(unload(ld, h), NoFile, FALSE)
    [] h # other /\ other # NoFile ->
         swapped(load(can, ld, NoFile, full_module_path(ld, other), {}), ld, h)

-----------------------------------------------------------------------------
Exists(o) == handle[o] # NoObject
Room == Cardinality({o \in Objects : Exists(o)})
        + Cardinality({i \in Imports : import[i].keeper # NoObject}) < Live
(* A new object, or a new function, takes a name that is free. *)
Free(o) == ~Exists(o) /\ Room
Report(op, o, p, error) == [op |-> op, object |-> o, other |-> p, error |-> error]
Done == Report("done", NoObject, NoObject, FALSE)

LibraryInit ==
  /\ platform \in Platforms
  /\ disk = InitialDisk[platform]
  /\ loader = [f \in Files |-> [refs |-> IF f = Program THEN 1 ELSE 0, name |-> ProgramPath]]
  /\ handle = [o \in Objects |-> NoObject]
  /\ keeper = [i \in Imports |-> NoFile]
  /\ import = [i \in Imports |-> [keeper |-> NoObject, file |-> NoFile]]
  /\ result = Done

Become(o, holding) == loader' = holding.loader /\ handle' = [handle EXCEPT ![o] = holding.handle]

(* A constructor that throws leaves no object. *)
Attempt(op, o, other, l, throws) ==
  /\ Become(o, [l EXCEPT !.handle = IF l.ec /\ throws THEN NoObject ELSE @])
  /\ result' = Report(op, o, other, l.ec)

construct(o) ==
  /\ handle' = [handle EXCEPT ![o] = NoFile]
  /\ result' = Done
  /\ UNCHANGED <<platform, disk, loader, keeper, import>>

(* The constructors from a path: without an error_code a failure throws. *)
construct_load(o, request, throws) ==
  /\ \E can \in BOOLEAN :
       Attempt("load", o, NoObject, load(can, loader, NoFile, request.path, request.mode), throws)
  /\ UNCHANGED <<platform, disk, keeper, import>>

load_library(o, request) ==
  /\ Exists(o)
  /\ \E can \in BOOLEAN :
       Attempt("load", o, NoObject, load(can, loader, handle[o], request.path, request.mode), FALSE)
  /\ UNCHANGED <<platform, disk, keeper, import>>

unload_library(o) ==
  /\ Exists(o) /\ handle[o] # NoFile
  /\ Become(o, Holding(unload(loader, handle[o]), NoFile, FALSE))
  /\ result' = Done
  /\ UNCHANGED <<platform, disk, keeper, import>>

destroy(o) ==
  /\ Exists(o)
  /\ Become(o, Holding(unload(loader, handle[o]), NoObject, FALSE))
  /\ result' = Done
  /\ UNCHANGED <<platform, disk, keeper, import>>

copy_construct(o, other) ==
  /\ Exists(other)
  /\ \E can, throws \in BOOLEAN :
       Attempt("assign", o, other, assign(can, loader, NoFile, handle[other]), throws)
  /\ UNCHANGED <<platform, disk, keeper, import>>

copy_assign(o, other) ==
  /\ Exists(o) /\ Exists(other)
  /\ \E can \in BOOLEAN :
       Attempt("assign", o, other, assign(can, loader, handle[o], handle[other]), FALSE)
  /\ UNCHANGED <<platform, disk, keeper, import>>

move_construct(o, other) ==
  /\ Exists(other)
  /\ handle' = [handle EXCEPT ![o] = handle[other], ![other] = NoFile]
  /\ result' = Done
  /\ UNCHANGED <<platform, disk, loader, keeper, import>>

(* Move assignment swaps, unless both hold the same library. *)
move_assign(o, other) ==
  /\ Exists(o) /\ Exists(other) /\ o # other
  /\ handle' = IF handle[o] = handle[other] THEN handle
               ELSE [handle EXCEPT ![o] = handle[other], ![other] = handle[o]]
  /\ result' = Done
  /\ UNCHANGED <<platform, disk, loader, keeper, import>>

swap(o, other) ==
  /\ Exists(o) /\ Exists(other) /\ o # other
  /\ handle' = [handle EXCEPT ![o] = handle[other], ![other] = handle[o]]
  /\ result' = Done
  /\ UNCHANGED <<platform, disk, loader, keeper, import>>

(* get: throws when nothing is loaded or the symbol is not there. *)
has(h, symbol) == h # NoFile /\ symbol_addr(h, symbol)
get(h, symbol) == IF has(h, symbol) THEN {<<h, symbol>>} ELSE {}

-----------------------------------------------------------------------------
(* import and import_alias: the function shares a new shared_library.      *)
(* When it cannot be made, or has no such symbol, it is gone again. *)
Imported(i, l, symbol) ==
  LET made == ~l.ec /\ has(l.handle, symbol)
  IN  /\ keeper' = [keeper EXCEPT ![i] = IF made THEN l.handle ELSE NoFile]
      /\ import' = IF made THEN [import EXCEPT ![i] = [keeper |-> i, file |-> l.handle]] ELSE import
      /\ loader' = IF made \/ l.ec THEN l.loader ELSE unload(l.loader, l.handle)
      /\ result' = IF made THEN Done ELSE Report("import", NoObject, NoObject, TRUE)
Unused(i) == import[i].keeper = NoObject /\ Room /\ \A j \in Imports : import[j].keeper # i

import_path(i, request, symbol) ==
  /\ \E can \in BOOLEAN :
       Imported(i, load(can, loader, NoFile, request.path, request.mode), symbol)
  /\ UNCHANGED <<platform, disk, handle>>

import_copy(i, o, symbol) ==
  /\ Exists(o)
  /\ \E can \in BOOLEAN : Imported(i, assign(can, loader, NoFile, handle[o]), symbol)
  /\ UNCHANGED <<platform, disk, handle>>

(* The library moves into the function even when the symbol is missing. *)
import_move(i, o, symbol) ==
  /\ Exists(o)
  /\ handle' = [handle EXCEPT ![o] = NoFile]
  /\ Imported(i, Holding(loader, handle[o], handle[o] = NoFile), symbol)
  /\ UNCHANGED <<platform, disk>>

copy_function(i, j) ==
  /\ import[j].keeper # NoObject
  /\ import' = [import EXCEPT ![i] = import[j]]
  /\ result' = Done
  /\ UNCHANGED <<platform, disk, loader, handle, keeper>>

\* Mutant: every function closes the library.
drop_function_closes(i) ==
  LET k == import[i].keeper
  IN  /\ k # NoObject
      /\ import' = [import EXCEPT ![i] = [keeper |-> NoObject, file |-> NoFile]]
      /\ keeper' = [keeper EXCEPT ![k] = NoFile]
      /\ loader' = unload(loader, keeper[k])
      /\ result' = Done
      /\ UNCHANGED <<platform, disk, handle>>

(* The last function of a keeper closes its library. *)
drop_function(i) ==
  LET k == import[i].keeper
      last == \A j \in Imports \ {i} : import[j].keeper # k
  IN  /\ k # NoObject
      /\ import' = [import EXCEPT ![i] = [keeper |-> NoObject, file |-> NoFile]]
      /\ keeper' = IF last THEN [keeper EXCEPT ![k] = NoFile] ELSE keeper
      /\ loader' = IF last THEN unload(loader, keeper[k]) ELSE loader
      /\ result' = Done
      /\ UNCHANGED <<platform, disk, handle>>

(* External: a new version is installed under a library's name. *)
replace(r) ==
  /\ r.place \in DOMAIN disk /\ disk[r.place] # r.file
  /\ disk' = [disk EXCEPT ![r.place] = r.file]
  /\ result' = Done
  /\ UNCHANGED <<platform, state>>
=============================================================================
