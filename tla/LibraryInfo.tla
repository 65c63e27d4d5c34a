---------------------------- MODULE LibraryInfo ----------------------------
(***************************************************************************)
(* boost::dll::library_info: what a shared library exports, read from the  *)
(* file without loading it, by three readers with one interface: ELF,      *)
(* Mach-O and PE.                                                          *)
(***************************************************************************)
EXTENDS BinaryFiles, Integers, SequencesExt

CONSTANTS PointerBits            \* the width of the program's own pointers
ASSUME BitsAssumption == PointerBits \in {32, 64}

Beyond == <<"?">>                \* what a read behind a table finds

(* The C string at an offset of a table. *)
CString(table, offset) ==
  LET ends == {k \in offset + 1 .. Len(table) : table[k] = NUL}
  IN  IF ends = {} THEN Beyond ELSE SubSeq(table, offset + 1, Min(ends) - 1)

Selected(s, Keep(_)) == SelectSeq(s, Keep)
NotEmpty(names) == SelectSeq(names, LAMBDA n : n # <<>>)
Mapped(s, F(_)) == [i \in DOMAIN s |-> F(s[i])]

-----------------------------------------------------------------------------
(* ELF: numbered sections, each with a name in the table shstrndx selects; *)
(* section 0 is the null section. *)
elf_names(f) == f.sections[f.shstrndx + 1].data
LastOf(f, type) ==
  LET is == {i \in DOMAIN f.sections : f.sections[i].type = type}
  IN  IF is = {} THEN <<>> ELSE f.sections[Max(is)].data

(* sections() walks the table of names, not the table of sections. *)
elf_sections(f) ==
  LET names == elf_names(f)
      starts == SelectSeq([k \in DOMAIN names |-> k - 1],
                          LAMBDA k : k = 0 \/ names[k] = NUL)
  IN  Mapped(starts, LAMBDA k : CString(names, k))

(* The symbols of the last symbol table with the last string table of the  *)
(* file, whichever it is. *)
symbols_text(f) == [symbols |-> LastOf(f, "symtab"), text |-> LastOf(f, "strtab")]

\* Mutant: hidden symbols are taken for visible.
is_visible_hidden(s) == s.bind # "local" /\ s.size # 0

is_visible(s) == s.visibility = "default" /\ s.bind # "local" /\ s.size # 0

elf_symbols(f) ==
  LET st == symbols_text(f)
  IN  NotEmpty(Mapped(Selected(st.symbols, is_visible),
                      LAMBDA s : CString(st.text, s.name)))

elf_symbols_of(f, section) ==
  LET st == symbols_text(f)
      named == {i \in DOMAIN f.sections :
                  CString(elf_names(f), f.sections[i].name) = section}
      index == IF named = {} THEN Len(f.sections) ELSE Min(named) - 1
  IN  NotEmpty(Mapped(Selected(st.symbols,
                               LAMBDA s : s.shndx = index /\ is_visible(s)),
                      LAMBDA s : CString(st.text, s.name)))

-----------------------------------------------------------------------------
(* Mach-O: a sequence of load commands; a symbol names its section by the  *)
(* number it has among the sections of all segments, counted from 1. *)
segment_cmd(f) == IF f.format = "macho64" THEN "LC_SEGMENT_64" ELSE "LC_SEGMENT"
command_finder(f, cmd) == SelectSeq(f.commands, LAMBDA c : c.cmd = cmd)

section_names_gather(c) == NotEmpty(c.sections)
macho_sections(f) ==
  FlattenSeq(Mapped(command_finder(f, segment_cmd(f)), section_names_gather))

(* The linker puts an underscore before every name. *)
unprefixed(name) == IF name[1] = "_" THEN Tail(name) ELSE name

symbol_names_gather(c, index) ==
  LET kept == Selected(c.symbols,
                LAMBDA s : /\ s.strx # 0
                           /\ s.type = "N_SECT" /\ s.sect # 0
                           /\ index = 0 \/ index = s.sect)
  IN  Mapped(NotEmpty(Mapped(kept, LAMBDA s : CString(c.strings, s.strx))), unprefixed)

macho_symbols(f, index) ==
  FlattenSeq(Mapped(command_finder(f, "LC_SYMTAB"),
                    LAMBDA c : symbol_names_gather(c, index)))

macho_symbols_of(f, section) ==
  LET all == macho_sections(f)
      named == {i \in DOMAIN all : all[i] = section}
  IN  IF named = {} THEN <<>> ELSE macho_symbols(f, Min(named))

-----------------------------------------------------------------------------
(* PE: sections map virtual addresses to the file; the export directory    *)
(* has as many names and ordinals as there are named functions, and the    *)
(* ordinals select the functions. *)
get_file_offset(f, va) ==
  LET in == {i \in DOMAIN f.sections :
               va >= f.sections[i].va /\ va < f.sections[i].va + f.sections[i].size}
  IN  IF in = {} THEN 0
      ELSE LET s == f.sections[Min(in)] IN s.raw + va - s.va

pe_sections(f) == Mapped(f.sections, LAMBDA s : s.name)

(* The assertions of this reader are compiled out.  Of a file without      *)
(* exports it takes the beginning, the DOS header, for their directory. *)
exports(f) == IF get_file_offset(f, f.export_va) = 0 THEN f.dos ELSE f.exports

pe_symbols(f) == exports(f).names

Nth(s, i, otherwise) == IF i \in DOMAIN s THEN s[i] ELSE otherwise

(* One turn per function, each reading the i-th ordinal and the i-th name:  *)
(* with functions exported by number only, behind the end of both tables.   *)
(* A section that is not there begins and ends at 0. *)
pe_symbols_of(f, section) ==
  LET named == {i \in DOMAIN f.sections : f.sections[i].name = section}
      s == IF named = {} THEN [raw |-> 0, size |-> 0] ELSE f.sections[Max(named)]
      x == exports(f)
      offset(i) == get_file_offset(f, Nth(x.functions, Nth(x.ordinals, i, x.behind) + 1, 0))
      kept == SelectSeq([i \in DOMAIN x.functions |-> i],
                        LAMBDA i : s.raw <= offset(i) /\ offset(i) < s.raw + s.size)
  IN  Mapped(kept, LAMBDA i : Nth(x.names, i, Beyond))

-----------------------------------------------------------------------------
(* library_info::init: the first reader that knows the file's first bytes. *)
NativeFormats(os) ==
  CASE os = "linux" -> Elf [] os = "windows" -> Pe [] os = "macos" -> MachO

(* PE's 32-bit fields are read as unsigned long, which has 64 bits where   *)
(* pointers have, except on Windows: there no PE file is recognised. *)
parsing_supported(f, os) ==
  \/ f.format \in Elf \cup MachO
  \/ f.format \in Pe /\ (os = "windows" \/ PointerBits = 32)

Opens(f, os, throw_if_not_native) ==
  /\ parsing_supported(f, os)
  /\ throw_if_not_native =>
       f.format \in NativeFormats(os) /\ (PointerBits = 32 => f.format \notin Wide)

sections(f) ==
  CASE f.format \in Elf -> elf_sections(f)
    [] f.format \in MachO -> macho_sections(f)
    [] f.format \in Pe -> pe_sections(f)

symbols(f) ==
  CASE f.format \in Elf -> elf_symbols(f)
    [] f.format \in MachO -> macho_symbols(f, 0)
    [] f.format \in Pe -> pe_symbols(f)

symbols_of(f, section) ==
  CASE f.format \in Elf -> elf_symbols_of(f, section)
    [] f.format \in MachO -> macho_symbols_of(f, section)
    [] f.format \in Pe -> pe_symbols_of(f, section)
=============================================================================
