---------------------------- MODULE ObjectWriter ----------------------------
(***************************************************************************)
(* elf_writer_create and elf_writer_write (writer/elf_writer.c) up to the  *)
(* call of open(2): the object file is built in writer->buffer from the    *)
(* tables of Translation.                                                  *)
(*                                                                         *)
(* The buffer is a sequence of bytes that say what they are: byte n of the *)
(* header, of a section header, of a section's data, of a symbol.  A byte  *)
(* that realloc has added and nothing has written is Unset.  Sizes are     *)
(* constants, smaller in the checked instances than in ELF.                *)
(***************************************************************************)
EXTENDS Translation

CONSTANTS
  EhdrSize, ShdrSize, SymSize,   \* sizeof of Elf64_Ehdr, Elf64_Shdr, Elf64_Sym
  SymAlign,                      \* the alignment of .symtab, 8
  FirstCapacity,                 \* the size of the buffer at first, 65536
  NameLen                        \* NameLen[name]: strlen of the name, of all that occur

\* No odd number but 1 divides a power of two.
IsPowerOfTwo(n) == n \in Nat \ {0} /\ \A d \in 1..n : n % d = 0 => d = 1 \/ d % 2 = 0

WriterAssumption ==
  /\ EhdrSize \in Nat \ {0} /\ ShdrSize \in Nat \ {0} /\ SymSize \in Nat \ {0}
  /\ FirstCapacity \in Nat \ {0}
  /\ \A name \in DOMAIN NameLen : name # Null /\ NameLen[name] \in Nat
  /\ {".symtab", ".strtab", ".shstrtab"} \subseteq DOMAIN NameLen
  /\ \A l \in Libraries : \A k \in Sections(l) : LET h == Header(l, k) IN
       /\ h.name \in DOMAIN NameLen \union {Null, ""}
       /\ h.type \in {"SYMTAB", "DYNSYM"} =>
            \A j \in DOMAIN h.entries : h.entries[j].name \in DOMAIN NameLen \union {""}
  \* ELF allows no other alignment, and the code takes sh_addralign as it is.
  /\ IsPowerOfTwo(SymAlign)
  /\ \A l \in Libraries : \A k \in Sections(l) :
       Header(l, k).align = 0 \/ IsPowerOfTwo(Header(l, k).align)
  \* e_shnum is less than SHN_LORESERVE, so that three more sections fit.
  /\ 4 < IndexLimit /\ \A l \in Libraries : \A k \in Sections(l) : k + 4 < IndexLimit

ASSUME WriterAssumption

VARIABLES
  shstrtab,  \* the names in the section name table, in order
  strtab,    \* the names in the symbol name table
  buffer,    \* writer->buffer
  offset,    \* writer->buffer_offset
  shdrs      \* the section headers of the object

wvars == <<shstrtab, strtab, buffer, offset, shdrs>>
vars == <<lib, pc, i, sections, symtab, relocs, allocated, strings,
          shstrtab, strtab, buffer, offset, shdrs>>

-----------------------------------------------------------------------------
(***************************************************************************)
(* The string tables.  The string at offset 0 is empty.                    *)
(***************************************************************************)

\* Where the strings of a table start, and behind the last where it ends.
StringOffsets(table) ==
  LET start[k \in 1..(Len(table) + 1)] ==
        IF k = 1 THEN 1 ELSE start[k - 1] + NameLen[table[k - 1]] + 1
  IN  start
StringOffset(table, n) == StringOffsets(table)[n]
TableSize(table) == StringOffset(table, Len(table) + 1)

\* get_section_name_offset and get_string_offset: the first string that is
\* equal to the name.
NameOffset(table, name) ==
  IF name \in {Null, ""} \/ \A n \in 1..Len(table) : table[n] # name THEN 0
  ELSE StringOffset(table, CHOOSE n \in 1..Len(table) :
                             table[n] = name /\ \A m \in 1..(n - 1) : table[m] # name)

Named(entry) == entry.name \notin {Null, ""}

\* The names that are added for a table, an entry after the other.
NamesOf(s) ==
  LET added[n \in 0..Len(s)] ==
        IF n = 0 THEN <<>>
        ELSE IF Named(s[n]) THEN Append(added[n - 1], s[n].name) ELSE added[n - 1]
  IN  added[Len(s)]

\* Faulty: the name of .strtab is not added.
BuildWithoutStrtab ==
  /\ pc = "translated"
  /\ shstrtab' = NamesOf(sections) \o <<".symtab", ".shstrtab">>
  /\ strtab' = NamesOf(symtab)
  /\ pc' = "write_header"
  /\ UNCHANGED <<lib, i, sections, symtab, relocs, allocated, strings, buffer, offset, shdrs>>

\* elf_writer_create, then build_shstrtab and build_strtab.
BuildStringTables ==
  /\ pc = "translated"
  /\ shstrtab' = NamesOf(sections) \o <<".symtab", ".strtab", ".shstrtab">>
  /\ strtab' = NamesOf(symtab)
  /\ pc' = "write_header"
  /\ UNCHANGED <<lib, i, sections, symtab, relocs, allocated, strings, buffer, offset, shdrs>>

(***************************************************************************)
(* The buffer.                                                             *)
(***************************************************************************)
Byte(kind, of, n) == [kind |-> kind, of |-> of, n |-> n]
Unset == Byte("unset", 0, 0)
Zero == Byte("padding", 0, 0)
Bytes(kind, of, n) == [k \in 1..n |-> Byte(kind, of, k)]

\* Faulty: the buffer is doubled once, not until it is large enough.
NewCapacityOnce(required) ==
  IF required <= Len(buffer) THEN Len(buffer)
  ELSE IF Len(buffer) = 0 THEN FirstCapacity ELSE 2 * Len(buffer)

\* The size write_buffer gives the buffer: doubled until `required` fits.
NewCapacity(required) ==
  LET first == IF Len(buffer) = 0 THEN FirstCapacity ELSE Len(buffer)
      doubled[n \in 0..required] == IF n = 0 THEN first ELSE 2 * doubled[n - 1]
  IN  IF required <= Len(buffer) THEN Len(buffer)
      ELSE doubled[CHOOSE n \in 0..required :
                     required <= doubled[n] /\ \A m \in 0..(n - 1) : doubled[m] < required]

\* write_buffer of bs, and of nothing when bs is empty.
WriteBuffer(bs) ==
  /\ buffer' = IF bs = <<>> THEN buffer
               ELSE [k \in 1..NewCapacity(offset + Len(bs)) |->
                       IF offset < k /\ k <= offset + Len(bs) THEN bs[k - offset]
                       ELSE IF k <= Len(buffer) THEN buffer[k]
                       ELSE Unset]
  /\ offset' = offset + Len(bs)

\* Faulty: a mask that rounds down.
PadShort(align) == [k \in 1..((offset % align) % align) |-> Zero]

\* write_padding: up to the next multiple of align.  The mask of align_up gives
\* that of powers of two only, and WriterAssumption admits no other alignment.
Pad(align) == [k \in 1..((align - (offset % align)) % align) |-> Zero]

-----------------------------------------------------------------------------
(***************************************************************************)
(* elf_writer_write.                                                       *)
(***************************************************************************)

\* The uint16_t of a section count or index.
Shnum == (Len(sections) + 3) % IndexLimit

NullShdr == [name |-> 0, type |-> "NULL", offset |-> 0, size |-> 0, link |-> 0, info |-> 0,
             align |-> 0]

\* The header; the space of the section headers is skipped, not written.
WriteHeader ==
  /\ pc = "write_header"
  /\ buffer' = [k \in 1..NewCapacity(EhdrSize) |->
                  IF k <= EhdrSize THEN Byte("ehdr", 0, k) ELSE Unset]
  /\ offset' = EhdrSize + Shnum * ShdrSize
  /\ shdrs' = [k \in 0..(Shnum - 1) |-> NullShdr]
  /\ i' = 1
  /\ pc' = "write_sections"
  /\ UNCHANGED <<lib, sections, symtab, relocs, allocated, strings, shstrtab, strtab>>

\* Padding, then the data bs, and the section header k that says where.
Place(k, shdr, bs) ==
  /\ WriteBuffer(Pad(shdr.align) \o bs)
  /\ shdrs' = [shdrs EXCEPT ![k] = [shdr EXCEPT !.offset = offset + Len(Pad(shdr.align))]]
  /\ UNCHANGED <<lib, sections, symtab, relocs, allocated, strings, shstrtab, strtab>>

WriteSection ==
  LET sec == sections[i + 1] IN
  /\ pc = "write_sections" /\ i < Len(sections)
  /\ Place(i, [name |-> NameOffset(shstrtab, sec.name), type |-> sec.type, offset |-> 0,
               size |-> sec.size, link |-> sec.link, info |-> sec.info,
               align |-> IF sec.align > 0 THEN sec.align ELSE 1],
           IF sec.data THEN Bytes("data", sec.from, sec.size) ELSE <<>>)
  /\ i' = i + 1
  /\ UNCHANGED pc

\* The header of a table elf_writer_write adds itself.
OwnShdr(name, type, size, link, info, align) ==
  [name |-> NameOffset(shstrtab, name), type |-> type, offset |-> 0, size |-> size,
   link |-> link, info |-> info, align |-> align]

\* The symbols keep the order of symtab.
WriteSymtab ==
  LET size == Len(symtab) * SymSize IN
  /\ pc = "write_sections" /\ i >= Len(sections)
  /\ Place(Len(sections), OwnShdr(".symtab", "SYMTAB", size, Len(sections) + 1, 1, SymAlign),
           Bytes("symbols", 0, size))
  /\ pc' = "write_strtab"
  /\ UNCHANGED i

WriteStrtab ==
  /\ pc = "write_strtab"
  /\ Place(Len(sections) + 1, OwnShdr(".strtab", "STRTAB", TableSize(strtab), 0, 0, 1),
           Bytes("strtab", 0, TableSize(strtab)))
  /\ pc' = "write_shstrtab"
  /\ UNCHANGED i

WriteShstrtab ==
  /\ pc = "write_shstrtab"
  /\ Place(Len(sections) + 2, OwnShdr(".shstrtab", "STRTAB", TableSize(shstrtab), 0, 0, 1),
           Bytes("shstrtab", 0, TableSize(shstrtab)))
  /\ pc' = "write_back"
  /\ UNCHANGED i

\* Faulty: the null section's header is left out.
WriteBackFromOne ==
  /\ pc = "write_back"
  /\ buffer' = [k \in 1..Len(buffer) |->
                  IF EhdrSize + ShdrSize < k /\ k <= EhdrSize + Shnum * ShdrSize
                  THEN Byte("shdrs", 0, k - EhdrSize) ELSE buffer[k]]
  /\ pc' = "built"
  /\ UNCHANGED <<lib, i, sections, symtab, relocs, allocated, strings, shstrtab, strtab,
                 offset, shdrs>>

\* The section headers are copied into the space left for them.
WriteBack ==
  /\ pc = "write_back"
  /\ buffer' = [k \in 1..Len(buffer) |->
                  IF EhdrSize < k /\ k <= EhdrSize + Shnum * ShdrSize
                  THEN Byte("shdrs", 0, k - EhdrSize) ELSE buffer[k]]
  /\ pc' = "built"
  /\ UNCHANGED <<lib, i, sections, symtab, relocs, allocated, strings, shstrtab, strtab,
                 offset, shdrs>>

Names(s) == Cardinality({n \in 1..Len(s) : s[n].name # Null})

\* Faulty: the names of the relocation tables are not freed.
FreeTablesButNames ==
  /\ pc = "built"
  /\ strings' = strings - (Names(symtab) + Names(sections))
  /\ sections' = <<>> /\ symtab' = <<>> /\ relocs' = <<>>
  /\ shstrtab' = <<>> /\ strtab' = <<>> /\ buffer' = <<>>
  /\ pc' = "freed"
  /\ UNCHANGED <<lib, i, allocated, offset, shdrs>>

\* elf_writer_free, reloc_set_free, symbol_table_free and section_set_free at
\* the `cleanup` label, once the file is written.
FreeTables ==
  /\ pc = "built"
  /\ strings' = strings - (Names(relocs) + Names(symtab) + Names(sections))
  /\ sections' = <<>> /\ symtab' = <<>> /\ relocs' = <<>>
  /\ shstrtab' = <<>> /\ strtab' = <<>> /\ buffer' = <<>>
  /\ pc' = "freed"
  /\ UNCHANGED <<lib, i, allocated, offset, shdrs>>

-----------------------------------------------------------------------------
Init ==
  /\ TranslationInit
  /\ shstrtab = <<>> /\ strtab = <<>> /\ buffer = <<>>
  /\ offset = 0 /\ shdrs = <<>>

Next ==
  \/ TranslationNext /\ UNCHANGED wvars
  \/ BuildStringTables \/ WriteHeader \/ WriteSection \/ WriteSymtab \/ WriteStrtab
  \/ WriteShstrtab \/ WriteBack \/ FreeTables
  \/ pc = "freed" /\ UNCHANGED vars

Spec == Init /\ [][Next]_vars

-----------------------------------------------------------------------------
(***************************************************************************)
(* Properties.                                                             *)
(***************************************************************************)
TypeOK ==
  /\ i \in Nat /\ allocated \in Nat /\ strings \in Nat /\ offset \in Nat
  /\ \A n \in 1..Len(sections) : sections[n].from \in Sections(lib) \union {0}
  /\ \A n \in 1..Len(buffer) :
       /\ buffer[n].kind \in {"unset", "padding", "ehdr", "shdrs", "data", "symbols",
                              "strtab", "shstrtab"}
       /\ buffer[n].of \in Nat /\ buffer[n].n \in Nat
  /\ DOMAIN shdrs \in {{}} \union {0..(n - 1) : n \in 1..(IndexLimit - 1)}

\* The n-th byte of a section of the object.
ByteAt(k, n) == buffer[shdrs[k].offset + n]

\* In the object every section header points, at its alignment, to all the
\* bytes of its section, whatever was written after them and however often the
\* buffer was moved (elf_writer.c:26-56, 160-247); the headers are where the
\* ELF header says.
SectionsIntact ==
  pc = "built" =>
    LET own == Len(sections) IN
    /\ DOMAIN shdrs = 0..(own + 2)
    /\ \A k \in 1..(own + 2) : shdrs[k].offset % shdrs[k].align = 0
    /\ \A k \in 1..(own - 1) : LET sec == sections[k + 1] IN
         /\ shdrs[k].size = sec.size
         /\ sec.data => \A n \in 1..sec.size : ByteAt(k, n) = Byte("data", sec.from, n)
    /\ \A n \in 1..(Len(symtab) * SymSize) : ByteAt(own, n) = Byte("symbols", 0, n)
    /\ \A n \in 1..TableSize(strtab) : ByteAt(own + 1, n) = Byte("strtab", 0, n)
    /\ \A n \in 1..TableSize(shstrtab) : ByteAt(own + 2, n) = Byte("shstrtab", 0, n)
    /\ \A n \in 1..EhdrSize : buffer[n] = Byte("ehdr", 0, n)
    /\ \A n \in 1..((own + 3) * ShdrSize) : buffer[EhdrSize + n] = Byte("shdrs", 0, n)

\* Every byte of the object file has been written: the space skipped for the
\* section headers is filled in, so the file depends on the library alone
\* (elf_writer.c:151, 250).
NothingUnset ==
  pc = "built" => /\ offset <= Len(buffer)
                  /\ \A n \in 1..offset : buffer[n] # Unset

\* The skipped space is inside the buffer when the section headers are copied
\* there, although skipping it does not make the buffer larger
\* (elf_writer.c:151, 250).
HeadersInBuffer ==
  pc = "write_back" => EhdrSize + Shnum * ShdrSize <= Len(buffer)

\* The string of a table at this offset.
StringAt(table, at) ==
  IF at = 0 THEN "" ELSE table[CHOOSE n \in 1..Len(table) : StringOffset(table, n) = at]

OwnNames == <<".symtab", ".strtab", ".shstrtab">>

\* The name offsets of sections and symbols lead to their names, also when a
\* name occurs twice, or a section of the library has the name of one that is
\* added (elf_writer.c:59-114).
NamesFound ==
  pc = "built" =>
    /\ \A k \in 1..(Len(sections) - 1) :
         StringAt(shstrtab, shdrs[k].name) = sections[k + 1].name
    /\ \A k \in 1..3 : StringAt(shstrtab, shdrs[Len(sections) + k - 1].name) = OwnNames[k]
    /\ \A n \in 2..Len(symtab) :
         StringAt(strtab, NameOffset(strtab, symtab[n].name)) = symtab[n].name

\* At the end every copy of a section's, a symbol's or a relocation table's
\* name has been freed once, with the one exception the code has: of each
\* symbol, the copy that extract_elf_symbols makes for symbol_table_add, which
\* makes its own (symbol_table.c:32, 59; so2a.c:176-181).
NamesReleased ==
  pc = "freed" => strings = Cardinality(Defined("SYMTAB")) + Cardinality(Defined("DYNSYM"))

(***************************************************************************)
(* What comments say, and the code does not do.                            *)
(***************************************************************************)

\* sh_info of .symtab is "the index of the first symbol that is not local"
\* (elf_writer.c:198).
FirstNotLocal ==
  pc = "built" =>
    LET first == shdrs[Len(sections)].info IN
    \A n \in 1..Len(symtab) : symtab[n].bind = "LOCAL" <=> n <= first

\* "Convert the dynamic relocations into static ones" (relocator.h:23): no
\* relocation section of the object holds a type for the dynamic linker.
RelocationsConverted ==
  pc = "built" =>
    \A n \in 2..Len(sections) : sections[n].type \in Relocating =>
      \A j \in DOMAIN Header(lib, sections[n].from).entries :
        Header(lib, sections[n].from).entries[j].type \notin {"GLOB_DAT", "JUMP_SLOT", "RELATIVE"}
=============================================================================
