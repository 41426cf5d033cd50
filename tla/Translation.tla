---------------------------- MODULE Translation ----------------------------
(***************************************************************************)
(* What convert_so_to_archive does in memory between elf_parse and         *)
(* elf_writer_create (so2a.c:41-115): extract_sections, extract_symbols and*)
(* extract_relocations copy the library's sections, symbols and relocations*)
(* into tables of their own, and the convert_* functions rewrite them.     *)
(*                                                                         *)
(* Each iteration of a loop is a step.  C arrays are sequences: entry j is *)
(* at position j + 1.                                                      *)
(***************************************************************************)
EXTENDS Library, FiniteSets

CONSTANT Libraries    \* the libraries elf_parse accepts

TranslationAssumption ==
  /\ IndexLimit \in Nat \ {0} /\ Null \notin STRING
  /\ \A l \in Libraries : /\ WellIndexed(l) /\ WellTyped(l)
                          /\ OneTable(l, "SYMTAB") /\ OneTable(l, "DYNSYM")

ASSUME TranslationAssumption

VARIABLES
  lib,        \* the library that is converted
  pc,         \* which function is running
  i,          \* its loop's index
  sections,   \* section_set_t
  symtab,     \* symbol_table_t
  relocs,     \* reloc_set_t
  allocated,  \* reloc_count: the tables extract_relocations made room for
  strings     \* the copies made by xstrdup that have not been freed

tvars == <<lib, pc, i, sections, symtab, relocs, allocated, strings>>

-----------------------------------------------------------------------------
(***************************************************************************)
(* converter/section_builder.c                                             *)
(***************************************************************************)
LinkerNames == {".dynsym", ".dynstr", ".gnu.version", ".gnu.version_r", ".gnu.hash", ".interp"}
CodeAndData == {"PROGBITS", "NOBITS", "INIT_ARRAY", "FINI_ARRAY", "PREINIT_ARRAY"}
Relocating == {"RELA", "REL"}

\* Faulty: the names of the dynamic linker's sections are not looked at.
IncludeAnyName(h, name) ==
  name # Null /\ h.type \in CodeAndData \union Relocating \union {"SYMTAB", "STRTAB", "NOTE"}

ShouldInclude(h, name) ==
  /\ name # Null /\ name \notin LinkerNames
  /\ h.type \in CodeAndData \union Relocating \union {"SYMTAB", "STRTAB", "NOTE"}

\* The section_builder_t for section k; `from` says whose bytes its data are,
\* and `data` that it has any.
Section(k) ==
  LET h == Header(lib, k) IN
  [from |-> k, name |-> SectionName(lib, k), type |-> h.type, link |-> h.link, info |-> h.info,
   size |-> h.size, align |-> h.align, data |-> h.type # "NOBITS" /\ h.size > 0]

NullSection ==
  [from |-> 0, name |-> Null, type |-> "NULL", link |-> 0, info |-> 0,
   size |-> 0, align |-> 0, data |-> FALSE]

\* section_set_create.
StartSections ==
  /\ pc = "start"
  /\ sections' = <<NullSection>>
  /\ i' = 1
  /\ pc' = "extract_sections"
  /\ UNCHANGED <<lib, symtab, relocs, allocated, strings>>

ExtractSection ==
  /\ pc = "extract_sections" /\ i \in Sections(lib)
  /\ IF ShouldInclude(Header(lib, i), SectionName(lib, i))
     THEN sections' = Append(sections, Section(i)) /\ strings' = strings + 1
     ELSE UNCHANGED <<sections, strings>>
  /\ i' = i + 1
  /\ UNCHANGED <<lib, pc, symtab, relocs, allocated>>

(***************************************************************************)
(* converter/symbol_table.c                                                *)
(***************************************************************************)
NullSymbol == [name |-> Null, bind |-> "LOCAL", vis |-> "DEFAULT", shndx |-> SHN_UNDEF, value |-> 0]

\* convert_sections only clears addresses, which extract_sections has left 0;
\* then symbol_table_create.  The symbols start at entry 1.
StartSymbols ==
  /\ pc = "extract_sections" /\ i \notin Sections(lib)
  /\ symtab' = <<NullSymbol>>
  /\ i' = 1
  /\ pc' = "extract_symtab"
  /\ UNCHANGED <<lib, sections, relocs, allocated, strings>>

\* The symbols of elf->symtab or elf->dynsym; none when the library has no
\* such table.
Symbols(type) ==
  IF OfType(lib, type) = {} THEN <<>>
  ELSE Header(lib, CHOOSE k \in OfType(lib, type) : TRUE).entries

\* Faulty: undefined symbols are taken too.
WantedUndefined(sym) == sym.name # ""

Wanted(sym) == sym.shndx # SHN_UNDEF /\ sym.name # ""

\* One iteration of extract_elf_symbols: the name is copied twice, for the
\* entry and by symbol_table_add, which keeps the second copy only.
ExtractSymbol(label, type) ==
  LET syms == Symbols(type) IN
  /\ pc = label /\ i < Len(syms)
  /\ IF Wanted(syms[i + 1])
     THEN symtab' = Append(symtab, syms[i + 1]) /\ strings' = strings + 2
     ELSE UNCHANGED <<symtab, strings>>
  /\ i' = i + 1
  /\ UNCHANGED <<lib, pc, sections, relocs, allocated>>

ExtractStatic == ExtractSymbol("extract_symtab", "SYMTAB")
ExtractDynamic == ExtractSymbol("extract_dynsym", "DYNSYM")

StartDynamic ==
  /\ pc = "extract_symtab" /\ i >= Len(Symbols("SYMTAB"))
  /\ i' = 1
  /\ pc' = "extract_dynsym"
  /\ UNCHANGED <<lib, sections, symtab, relocs, allocated, strings>>

StartConversion ==
  /\ pc = "extract_dynsym" /\ i >= Len(Symbols("DYNSYM"))
  /\ i' = 1
  /\ pc' = "convert_symbols"
  /\ UNCHANGED <<lib, sections, symtab, relocs, allocated, strings>>

Visible(vis) == IF vis \in {"HIDDEN", "INTERNAL"} THEN "DEFAULT" ELSE vis

\* One iteration of convert_dynamic_symbols.
ConvertSymbol ==
  /\ pc = "convert_symbols" /\ i < Len(symtab)
  /\ symtab' = [symtab EXCEPT ![i + 1].vis = Visible(@)]
  /\ i' = i + 1
  /\ UNCHANGED <<lib, pc, sections, relocs, allocated, strings>>

(***************************************************************************)
(* converter/relocator.c                                                   *)
(***************************************************************************)

\* Faulty: the first pass counts the sections with addends only.
StartRelocationsRela ==
  /\ pc = "convert_symbols" /\ i >= Len(symtab)
  /\ allocated' = Cardinality(OfType(lib, "RELA"))
  /\ relocs' = <<>>
  /\ i' = 0
  /\ pc' = "extract_relocations"
  /\ UNCHANGED <<lib, sections, symtab, strings>>

\* The first pass counts the sections, the second starts at section 0.
StartRelocations ==
  /\ pc = "convert_symbols" /\ i >= Len(symtab)
  /\ allocated' = Cardinality({k \in Sections(lib) : Header(lib, k).type \in Relocating})
  /\ relocs' = <<>>
  /\ i' = 0
  /\ pc' = "extract_relocations"
  /\ UNCHANGED <<lib, sections, symtab, strings>>

\* The entries of a relocation section as Elf64_Rela; an Elf64_Rel has no
\* addend.
AsRela(h) ==
  [j \in DOMAIN h.entries |->
     [offset |-> h.entries[j].offset, sym |-> h.entries[j].sym, type |-> h.entries[j].type,
      addend |-> IF h.type = "RELA" THEN h.entries[j].addend ELSE 0]]

\* Faulty: the table shares the name of its section in the section table.
ExtractRelocationShared ==
  LET h == Header(lib, i) IN
  /\ pc = "extract_relocations" /\ i \in Sections(lib)
  /\ relocs' = IF h.type \in Relocating
               THEN Append(relocs, [name |-> SectionName(lib, i), target |-> h.info,
                                    entries |-> AsRela(h)])
               ELSE relocs
  /\ i' = i + 1
  /\ UNCHANGED <<lib, pc, sections, symtab, allocated, strings>>

ExtractRelocation ==
  LET h == Header(lib, i) IN
  /\ pc = "extract_relocations" /\ i \in Sections(lib)
  /\ IF h.type \in Relocating
     THEN /\ relocs' = Append(relocs, [name |-> SectionName(lib, i), target |-> h.info,
                                       entries |-> AsRela(h)])
          /\ strings' = strings + (IF SectionName(lib, i) = Null THEN 0 ELSE 1)
     ELSE UNCHANGED <<relocs, strings>>
  /\ i' = i + 1
  /\ UNCHANGED <<lib, pc, sections, symtab, allocated>>

StartRelocConversion ==
  /\ pc = "extract_relocations" /\ i \notin Sections(lib)
  /\ i' = 0
  /\ pc' = "convert_relocations"
  /\ UNCHANGED <<lib, sections, symtab, relocs, allocated, strings>>

\* convert_reloc_type.
StaticType(t) ==
  CASE t = "GLOB_DAT" -> "ABS64"
    [] t = "JUMP_SLOT" -> "CALL26"
    [] t = "RELATIVE" -> "PREL64"
    [] OTHER -> t

\* Faulty: only the first entry of a table is converted.
ConvertFirst(table) ==
  [table EXCEPT !.entries = [j \in DOMAIN table.entries |->
     IF j = 1 THEN [table.entries[j] EXCEPT !.type = StaticType(@)] ELSE table.entries[j]]]

\* The inner loop of convert_dynamic_relocs.
Converted(table) ==
  [table EXCEPT !.entries = [j \in DOMAIN table.entries |->
                               [table.entries[j] EXCEPT !.type = StaticType(@)]]]

ConvertTable ==
  /\ pc = "convert_relocations" /\ i < Len(relocs)
  /\ relocs' = [relocs EXCEPT ![i + 1] = Converted(@)]
  /\ i' = i + 1
  /\ UNCHANGED <<lib, pc, sections, symtab, allocated, strings>>

EndTranslation ==
  /\ pc = "convert_relocations" /\ i >= Len(relocs)
  /\ pc' = "translated"
  /\ UNCHANGED <<lib, i, sections, symtab, relocs, allocated, strings>>

-----------------------------------------------------------------------------
TranslationInit ==
  /\ lib \in Libraries
  /\ pc = "start" /\ i = 0
  /\ sections = <<>> /\ symtab = <<>> /\ relocs = <<>>
  /\ allocated = 0 /\ strings = 0

TranslationNext ==
  \/ StartSections \/ ExtractSection
  \/ StartSymbols \/ ExtractStatic \/ StartDynamic \/ ExtractDynamic
  \/ StartConversion \/ ConvertSymbol
  \/ StartRelocations \/ ExtractRelocation \/ StartRelocConversion \/ ConvertTable
  \/ EndTranslation

TranslationSpec == TranslationInit /\ [][TranslationNext]_tvars

-----------------------------------------------------------------------------
(***************************************************************************)
(* Properties.                                                             *)
(***************************************************************************)
\* Labels at which a table is not complete yet, or has been freed.
NoSections == {"start", "extract_sections", "freed"}
NoSymbols == NoSections \union {"extract_symtab", "extract_dynsym", "convert_symbols"}
NoRelocations == NoSymbols \union {"extract_relocations", "convert_relocations"}

\* Position of section k in the new section table, 0 when it is not kept.
NewIndex(k) ==
  IF \E j \in 2..Len(sections) : sections[j].from = k
  THEN (CHOOSE j \in 2..Len(sections) : sections[j].from = k) - 1
  ELSE 0

\* The sections that go into the object are exactly those after section 0 that
\* hold code or data, relocations, symbols, strings or notes and whose name is
\* none of the dynamic linker's: each once, in the library's order, with its
\* name, type, size and alignment, behind the null section
\* (section_builder.c:37-127).
SectionsKept ==
  pc \notin NoSections =>
    /\ sections[1] = NullSection
    /\ \A j, k \in 2..Len(sections) : j < k => sections[j].from < sections[k].from
    /\ {sections[j].from : j \in 2..Len(sections)} =
         {k \in Sections(lib) \ {0} :
            /\ Header(lib, k).type \in
                 CodeAndData \union {"RELA", "REL", "SYMTAB", "STRTAB", "NOTE"}
            /\ SectionName(lib, k) \notin LinkerNames \union {Null}}
    /\ \A j \in 2..Len(sections) : LET h == Header(lib, sections[j].from) IN
         /\ sections[j].name = SectionName(lib, sections[j].from) /\ sections[j].type = h.type
         /\ sections[j].size = h.size /\ sections[j].align = h.align

\* The defined symbols of a table that have a name.
Defined(type) ==
  {j \in 2..Len(Symbols(type)) :
     Symbols(type)[j].shndx # SHN_UNDEF /\ Symbols(type)[j].name # ""}

\* Every defined symbol that has a name becomes an entry, .symtab before
\* .dynsym, with nothing but its visibility changed, nothing else does, and
\* no symbol of the object stays hidden (symbol_table.c:44-109).
SymbolsTranslated ==
  pc \notin NoSymbols =>
    LET statics == Cardinality(Defined("SYMTAB")) IN
    /\ Len(symtab) = 1 + statics + Cardinality(Defined("DYNSYM"))
    /\ symtab[1] = NullSymbol
    /\ \A n \in 2..Len(symtab) :
         /\ symtab[n].vis \in {"DEFAULT", "PROTECTED"}
         /\ \E type \in {"SYMTAB", "DYNSYM"} : \E j \in Defined(type) :
              /\ type = "SYMTAB" <=> n <= 1 + statics
              /\ [symtab[n] EXCEPT !.vis = Symbols(type)[j].vis] = Symbols(type)[j]
    /\ \A type \in {"SYMTAB", "DYNSYM"} : \A j \in Defined(type) :
         \E n \in 2..Len(symtab) :
           [symtab[n] EXCEPT !.vis = Symbols(type)[j].vis] = Symbols(type)[j]

\* The second pass over the section headers never fills more tables than the
\* first has counted, and in the end all of them (relocator.c:11-65).
TablesFit ==
  /\ Len(relocs) <= allocated
  /\ pc \notin NoSymbols \union {"extract_relocations"} => Len(relocs) = allocated

RelocationSections == {k \in Sections(lib) : Header(lib, k).type \in Relocating}

\* What becomes of the types that the code translates.
StaticTypes == [GLOB_DAT |-> "ABS64", JUMP_SLOT |-> "CALL26", RELATIVE |-> "PREL64"]

\* The n-th table is that of the n-th relocation section, entry by entry, with
\* the place, the symbol and, of a section with addends, the addend unchanged.
\* Three types become those of StaticTypes.  Every other type stays as it is,
\* also those that only a dynamic linker handles: TLS_DTPREL64, TLS_DTPMOD64,
\* TLS_TPREL64, TLSDESC and IRELATIVE (relocator.c:31-104).
RelocationsTranslated ==
  pc \notin NoRelocations =>
    /\ Len(relocs) = Cardinality(RelocationSections)
    /\ \A k \in RelocationSections :
         LET h == Header(lib, k)
             table == relocs[Cardinality({l \in RelocationSections : l <= k})]
         IN  /\ table.name = SectionName(lib, k) /\ table.target = h.info
             /\ DOMAIN table.entries = DOMAIN h.entries
             /\ \A j \in DOMAIN h.entries :
                  LET old == h.entries[j]
                      new == table.entries[j]
                  IN  /\ new.offset = old.offset /\ new.sym = old.sym
                      /\ new.addend = IF h.type = "RELA" THEN old.addend ELSE 0
                      /\ new.type = IF old.type \in DOMAIN StaticTypes THEN StaticTypes[old.type]
                                    ELSE old.type

(***************************************************************************)
(* What the documentation says, and the code does not do.                  *)
(***************************************************************************)

\* "The converted static library can take part in a project's build"
\* (README.md:2): a symbol of the object is defined in the section it was
\* defined in (symbol_table.c:65, elf_writer.c:210).
SymbolsInTheirSections ==
  pc \notin NoSymbols =>
    \A n \in 2..Len(symtab) :
      symtab[n].shndx \in Sections(lib) /\ NewIndex(symtab[n].shndx) # 0
        => NewIndex(symtab[n].shndx) = symtab[n].shndx

\* "Extract the symbols (merging the static and the dynamic ones)"
\* (symbol_table.h:37): a global symbol is defined once.
GlobalsDefinedOnce ==
  pc \notin NoSymbols =>
    \A m, n \in 2..Len(symtab) :
      symtab[m].bind = "GLOBAL" /\ symtab[n].bind = "GLOBAL" /\ symtab[m].name = symtab[n].name
        => m = n
=============================================================================
