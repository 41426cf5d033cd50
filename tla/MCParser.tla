------------------------------ MODULE MCParser ------------------------------
(***************************************************************************)
(* Every file of up to three sections, the most MCIndexLimit can count,    *)
(* with string tables that are there and that are not, and files that are  *)
(* refused.                                                                *)
(***************************************************************************)
EXTENDS Parser

MCIndexLimit == 4

MCHeaders == [type : {"STRTAB", "SYMTAB", "DYNSYM", "DYNAMIC"}, name : {"n"}, link : {0, 2, 5}]

\* The section name table is section 1, which smaller files do not have.
MCLibraries == {[shdrs |-> h, shstrndx |-> 1] :
                  h \in UNION {[0..(n - 1) -> MCHeaders] : n \in 0..3}}

As(lib, ident, machine, etype) ==
  [shdrs |-> lib.shdrs, shstrndx |-> lib.shstrndx,
   ident |-> ident, machine |-> machine, etype |-> etype]

MCFiles ==
  {As(lib, "valid", "AARCH64", "DYN") : lib \in MCLibraries}
    \union {As([shdrs |-> <<>>, shstrndx |-> 0], ident, machine, etype) :
              ident \in {"valid", "empty", "invalid"}, machine \in {"AARCH64", "X86_64"},
              etype \in {"DYN", "REL"}}
=============================================================================
