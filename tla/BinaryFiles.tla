---------------------------- MODULE BinaryFiles -----------------------------
(***************************************************************************)
(* The files boost::dll::library_info reads, as far as its readers look at *)
(* them: the structures of the ELF, Mach-O and PE formats without the      *)
(* fields nothing reads, and with each table in place of its offset and    *)
(* its length.  A string table is a sequence of words in which NUL ends a  *)
(* name, so that a name may be the tail of another one, and an offset      *)
(* points at a word.                                                       *)
(***************************************************************************)
EXTENDS Naturals, Sequences

NUL   == "NUL"
StringTable == Seq(STRING)

-----------------------------------------------------------------------------
(* ELF.  The program headers and the machine are not read. *)
Binding    == {"local", "global", "weak"}
Visibility == {"default", "internal", "hidden", "protected"}

Elf_Sym == [name : Nat, bind : Binding, visibility : Visibility, size : Nat, shndx : Nat]

\* A section's contents are read in two of its types; link, the number of
\* the section a table of symbols has its names in, is not read.
Elf_Shdr(s) ==
  /\ s.name \in Nat /\ s.link \in Nat
  /\ \/ s.type = "symtab" /\ s.data \in Seq(Elf_Sym)
     \/ s.type = "strtab" /\ s.data \in StringTable
     \/ s.type \notin {"symtab", "strtab"}

Elf_Ehdr(f) ==
  /\ \A i \in DOMAIN f.sections : Elf_Shdr(f.sections[i])
  /\ f.shstrndx + 1 \in DOMAIN f.sections
  /\ f.sections[f.shstrndx + 1].type = "strtab"

-----------------------------------------------------------------------------
(* Mach-O.  A command is skipped by its size unless it is looked for. *)
load_command_types == {"LC_SEGMENT", "LC_SEGMENT_64", "LC_SYMTAB", "LC_UUID"}
nlist == [strx : Nat, type : {"N_SECT", "N_UNDF"}, sect : Nat]

segment_command(c) ==
  /\ c.cmd \in {"LC_SEGMENT", "LC_SEGMENT_64"}
  /\ c.sections \in Seq(StringTable)           \* sectname of each section

symtab_command(c) ==
  /\ c.cmd = "LC_SYMTAB"
  /\ c.symbols \in Seq(nlist)
  /\ c.strings \in StringTable

mach_header(f) ==
  \A i \in DOMAIN f.commands :
    LET c == f.commands[i]
    IN  /\ c.cmd \in load_command_types
        /\ segment_command(c) \/ symtab_command(c) \/ c.cmd = "LC_UUID"

-----------------------------------------------------------------------------
(* PE.  Of the optional header only the directory of the exports is read.  *)
IMAGE_SECTION_HEADER == [name : StringTable, va : Nat, size : Nat, raw : Nat]

\* behind: what the word behind the last ordinal holds.
IMAGE_EXPORT_DIRECTORY ==
  [functions : Seq(Nat), names : Seq(StringTable), ordinals : Seq(Nat), behind : Nat]

IMAGE_OPTIONAL_HEADER(f) == f.export_va \in Nat

\* What the file's first bytes hold, taken for a directory of exports.
IMAGE_DOS_HEADER(f) == f.dos \in IMAGE_EXPORT_DIRECTORY

IMAGE_NT_HEADERS(f) ==
  /\ f.sections \in Seq(IMAGE_SECTION_HEADER)
  /\ f.exports \in IMAGE_EXPORT_DIRECTORY
  /\ IMAGE_OPTIONAL_HEADER(f) /\ IMAGE_DOS_HEADER(f)

-----------------------------------------------------------------------------
(* What a file's first bytes promise. *)
Elf   == {"elf32", "elf64"}
Pe    == {"pe32", "pe64"}
MachO == {"macho32", "macho64"}
Wide  == {"elf64", "pe64", "macho64"}

WellFormed(f) ==
  /\ f.format \in Elf   => Elf_Ehdr(f)
  /\ f.format \in MachO => mach_header(f)
  /\ f.format \in Pe    => IMAGE_NT_HEADERS(f)

=============================================================================
