------------------------------- MODULE Library -------------------------------
(***************************************************************************)
(* A shared library as the converter reads it: the section header table of *)
(* the mapped file, indexed from 0 as in C, with the entries of its symbol *)
(* tables and relocation sections.                                         *)
(*                                                                         *)
(* A library is a record with                                              *)
(*   shdrs     the section headers, a function from 0..e_shnum-1           *)
(*   shstrndx  e_shstrndx                                                  *)
(* and a section header a record with                                      *)
(*   type, name, link, info, size, align   as in Elf64_Shdr                *)
(*   entries   what the section holds when it is a table: a sequence of    *)
(*             symbols or of relocations, whose first is entry 0           *)
(* A symbol without a name, or with one beyond its string table, has the   *)
(* name "" (elf_get_symbol_name).                                          *)
(***************************************************************************)
EXTENDS Integers, Sequences

CONSTANTS
  Null,        \* a NULL pointer: no name, no table
  IndexLimit   \* 2^16: section indexes are uint16_t

SectionTypes == {"NULL", "PROGBITS", "SYMTAB", "STRTAB", "RELA", "HASH", "DYNAMIC", "NOTE",
                 "NOBITS", "REL", "DYNSYM", "INIT_ARRAY", "FINI_ARRAY", "PREINIT_ARRAY", "OTHER"}

Bindings == {"LOCAL", "GLOBAL", "WEAK", "OTHER"}
Visibilities == {"DEFAULT", "INTERNAL", "HIDDEN", "PROTECTED"}

\* Elf64_Sym, Elf64_Rela and Elf64_Rel.
Symbol == [name : STRING, bind : Bindings, vis : Visibilities, shndx : Nat, value : Nat]
Rela == [offset : Nat, sym : Nat, type : STRING, addend : Int]
Rel == [offset : Nat, sym : Nat, type : STRING]

\* The special section indexes of elf_defs.h.
SHN_UNDEF == 0
SHN_ABS == 65521

Sections(lib) == DOMAIN lib.shdrs
Header(lib, k) == lib.shdrs[k]

OfType(lib, t) == {k \in Sections(lib) : Header(lib, k).type = t}

\* elf_get_section_name: nothing without a section name table; the name of a
\* header is Null when its sh_name is beyond the table.
SectionName(lib, k) ==
  IF lib.shstrndx \in Sections(lib) THEN Header(lib, k).name ELSE Null

\* ELF allows one table of each kind, and it names its string table.
OneTable(lib, t) ==
  \A k, l \in OfType(lib, t) : k = l /\ Header(lib, k).link \in Sections(lib)

\* A header table that elf_parse can index.
WellIndexed(lib) ==
  \E n \in 0..(IndexLimit - 1) : Sections(lib) = 0..(n - 1)

\* The fields of a header, and of the entries of the tables that are read.
WellTyped(lib) ==
  \A k \in Sections(lib) : LET h == Header(lib, k) IN
    /\ h.type \in SectionTypes /\ h.name \in STRING \union {Null}
    /\ h.link \in Nat /\ h.info \in Nat /\ h.size \in Nat /\ h.align \in Nat
    /\ h.type \in {"SYMTAB", "DYNSYM"} => h.entries \in Seq(Symbol)
    /\ h.type = "RELA" => h.entries \in Seq(Rela)
    /\ h.type = "REL" => h.entries \in Seq(Rel)
=============================================================================
