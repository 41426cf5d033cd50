--------------------------- MODULE MCObjectWriter ---------------------------
(***************************************************************************)
(* Libraries of up to three sections after the null section, each one of   *)
(* nine: code of an odd size, a section without data, one without a name,  *)
(* two of the dynamic linker, both symbol tables and both kinds of         *)
(* relocation section.  Sizes are a few bytes, and the buffer starts so    *)
(* small that it is moved several times.                                   *)
(***************************************************************************)
EXTENDS ObjectWriter, TLC

MCIndexLimit == 8

H(type, name, size, align, entries) ==
  [type |-> type, name |-> name, link |-> 0, info |-> 1, size |-> size, align |-> align,
   entries |-> entries]

Sym(name, bind, vis, shndx, value) ==
  [name |-> name, bind |-> bind, vis |-> vis, shndx |-> shndx, value |-> value]
NoSym == Sym("", "LOCAL", "DEFAULT", SHN_UNDEF, 0)

StaticSymbols == <<NoSym, Sym("f", "LOCAL", "DEFAULT", 2, 1), Sym("import", "GLOBAL", "DEFAULT", SHN_UNDEF, 0),
                   Sym("g", "GLOBAL", "HIDDEN", 2, 2)>>
DynamicSymbols == <<NoSym, Sym("", "GLOBAL", "DEFAULT", 1, 3), Sym("g", "GLOBAL", "PROTECTED", 2, 2),
                    Sym("w", "WEAK", "INTERNAL", SHN_ABS, 4)>>

RelaEntries == <<[offset |-> 0, sym |-> 0, type |-> "RELATIVE", addend |-> 5],
                 [offset |-> 8, sym |-> 1, type |-> "GLOB_DAT", addend |-> 0],
                 [offset |-> 16, sym |-> 0, type |-> "TLSDESC", addend |-> 1]>>
RelEntries == <<[offset |-> 4, sym |-> 2, type |-> "ABS64"], [offset |-> 6, sym |-> 1, type |-> "JUMP_SLOT"]>>

MCHeaders ==
  {H("PROGBITS", ".text", 3, 4, <<>>), H("PROGBITS", "", 1, 0, <<>>), H("NOBITS", ".bss", 2, 2, <<>>),
   H("OTHER", ".gnu.hash", 1, 1, <<>>), H("STRTAB", ".dynstr", 1, 1, <<>>),
   H("SYMTAB", ".symtab", 4, 2, StaticSymbols), H("DYNSYM", ".dynsym", 4, 2, DynamicSymbols),
   H("RELA", ".rela.dyn", 2, 2, RelaEntries), H("REL", ".rel.dyn", 1, 2, RelEntries)}

MCNullHeader == H("NULL", "", 0, 0, <<>>)

\* The smaller ones also without a section name table.
MCLibraries ==
  {l \in [shdrs : UNION {{[k \in 0..n |-> IF k = 0 THEN MCNullHeader ELSE h[k]] :
                            h \in [1..n -> MCHeaders]} : n \in 1..3},
          shstrndx : {1, 3}] :
     /\ l.shstrndx = 1 => DOMAIN l.shdrs # 0..3
     /\ OneTable(l, "SYMTAB") /\ OneTable(l, "DYNSYM")}

MCNameLen ==
  [name \in {".text", ".bss", ".gnu.hash", ".dynstr", ".symtab", ".dynsym", ".rela.dyn", ".rel.dyn",
             ".strtab", ".shstrtab", "f", "g", "w", "import"} |->
     CASE name \in {"f", "g", "w"} -> 1 [] name \in {".text", ".bss"} -> 2 [] OTHER -> 3]
=============================================================================
