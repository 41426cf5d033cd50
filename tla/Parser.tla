------------------------------- MODULE Parser -------------------------------
(***************************************************************************)
(* elf_parse (elf/aarch64/parser.c): one call on one file, then elf_free at*)
(* the caller's `cleanup` label.  Each system call and the allocation may  *)
(* fail; the loop over the section headers is one step per header.         *)
(***************************************************************************)
EXTENDS Library

CONSTANT Files   \* the files elf_parse may be called on: a library with, in
                 \* addition, `ident` (what elf_is_valid finds), `machine`
                 \* and `etype`

ParserAssumption ==
  /\ IndexLimit \in Nat \ {0}
  /\ \A f \in Files : WellIndexed(f) /\ f.shstrndx \in 0..(IndexLimit - 1)
  /\ Null \notin Nat

ASSUME ParserAssumption

VARIABLES
  file,     \* the file at the path given
  pc,       \* where elf_parse is
  code,     \* the code it returns
  fd,       \* the file is open
  mapped,   \* the file is mapped
  elf,      \* the elf_file_t, Null before it is allocated and once it is freed
  out,      \* *elf_out is set
  i         \* the loop's index, a uint16_t

vars == <<file, pc, code, fd, mapped, elf, out, i>>

\* The tables an elf_file_t points to, as indexes of the sections they are in.
Fields == {"shstrtab", "symtab", "strtab", "dynsym", "dynstr", "dynamic"}
Empty == [f \in Fields |-> Null]

Labels == {"open", "fstat", "mmap", "close", "validate", "calloc", "machine", "type",
           "tables", "scan", "returned", "freed", "exited"}
Codes == {"ERR_OK", "ERR_FILE_NOT_FOUND", "ERR_READ_FAILED", "ERR_INVALID_ELF",
          "ERR_UNSUPPORTED_ARCH"}

TypeOK ==
  /\ file \in Files
  /\ pc \in Labels
  /\ code \in Codes
  /\ fd \in BOOLEAN /\ mapped \in BOOLEAN /\ out \in BOOLEAN
  /\ elf \in [Fields -> Sections(file) \union {Null}] \union {Null}
  /\ i \in 0..(IndexLimit - 1)

Init ==
  /\ file \in Files
  /\ pc = "open" /\ code = "ERR_OK"
  /\ fd = FALSE /\ mapped = FALSE /\ elf = Null /\ out = FALSE
  /\ i = 0

-----------------------------------------------------------------------------
Goto(label) == pc' = label /\ UNCHANGED code
Return(c) == pc' = "returned" /\ code' = c

Open ==
  /\ pc = "open"
  /\ \/ fd' = TRUE /\ Goto("fstat")
     \/ UNCHANGED fd /\ Return("ERR_FILE_NOT_FOUND")
  /\ UNCHANGED <<file, mapped, elf, out, i>>

Stat ==
  /\ pc = "fstat"
  /\ \/ UNCHANGED fd /\ Goto("mmap")
     \/ fd' = FALSE /\ Return("ERR_READ_FAILED")
  /\ UNCHANGED <<file, mapped, elf, out, i>>

\* Faulty: the descriptor is closed after a mapping only.
MapLeavesOpen ==
  /\ pc = "mmap"
  /\ \/ mapped' = TRUE /\ Goto("close")
     \/ UNCHANGED mapped /\ Return("ERR_READ_FAILED")
  /\ UNCHANGED <<file, fd, elf, out, i>>

\* mmap also fails on an empty file.
Map ==
  /\ pc = "mmap"
  /\ \/ /\ file.ident # "empty"
        /\ mapped' = TRUE /\ UNCHANGED fd /\ Goto("close")
     \/ fd' = FALSE /\ UNCHANGED mapped /\ Return("ERR_READ_FAILED")
  /\ UNCHANGED <<file, elf, out, i>>

Close ==
  /\ pc = "close"
  /\ fd' = FALSE
  /\ Goto("validate")
  /\ UNCHANGED <<file, mapped, elf, out, i>>

\* elf_is_valid: long enough for a header, the magic, 64 bits, little endian.
Validate ==
  /\ pc = "validate"
  /\ IF file.ident = "valid"
     THEN UNCHANGED mapped /\ Goto("calloc")
     ELSE mapped' = FALSE /\ Return("ERR_INVALID_ELF")
  /\ UNCHANGED <<file, fd, elf, out, i>>

Allocate ==
  /\ pc = "calloc"
  /\ elf' = Empty
  /\ Goto("machine")
  /\ UNCHANGED <<file, fd, mapped, out, i>>

\* `munmap(data, size); free(elf); return ERR(c, ...)`, or go on.
Check(label, ok, c, next) ==
  /\ pc = label
  /\ IF ok
     THEN UNCHANGED <<mapped, elf>> /\ Goto(next)
     ELSE mapped' = FALSE /\ elf' = Null /\ Return(c)
  /\ UNCHANGED <<file, fd, out, i>>

CheckMachine == Check("machine", file.machine = "AARCH64", "ERR_UNSUPPORTED_ARCH", "type")
CheckType == Check("type", file.etype = "DYN", "ERR_INVALID_ELF", "tables")

\* The section headers, and the table of their names.  The program headers are
\* found here too; nothing reads them.
FindTables ==
  /\ pc = "tables"
  /\ elf' = [elf EXCEPT !["shstrtab"] =
                           IF file.shstrndx \in Sections(file) THEN file.shstrndx ELSE @]
  /\ Goto("scan")
  /\ UNCHANGED <<file, fd, mapped, out, i>>

\* Faulty: the string table is not looked up when there is one already.
TakeFirst(table, strings) ==
  LET link == Header(file, i).link IN
  elf' = [elf EXCEPT ![table] = i,
                     ![strings] = IF link \in Sections(file) /\ @ = Null THEN link ELSE @]

\* Faulty: sh_link is not checked.
TakeUnchecked(table, strings) ==
  elf' = [elf EXCEPT ![table] = i, ![strings] = Header(file, i).link]

\* A symbol table, and the string table its sh_link names.
Take(table, strings) ==
  LET link == Header(file, i).link IN
  elf' = [elf EXCEPT ![table] = i,
                     ![strings] = IF link \in Sections(file) THEN link ELSE @]

\* Faulty: a section of no interest is not stepped over.
ScanStuck ==
  /\ pc = "scan" /\ i \in Sections(file)
  /\ LET type == Header(file, i).type IN
     \/ type = "SYMTAB" /\ Take("symtab", "strtab") /\ i' = i + 1
     \/ type = "DYNSYM" /\ Take("dynsym", "dynstr") /\ i' = i + 1
     \/ type = "DYNAMIC" /\ elf' = [elf EXCEPT !["dynamic"] = i] /\ i' = i + 1
     \/ type \notin {"SYMTAB", "DYNSYM", "DYNAMIC"} /\ UNCHANGED <<elf, i>>
  /\ UNCHANGED <<file, pc, code, fd, mapped, out>>

Scan ==
  /\ pc = "scan" /\ i \in Sections(file)
  /\ LET type == Header(file, i).type IN
     \/ type = "SYMTAB" /\ Take("symtab", "strtab")
     \/ type = "DYNSYM" /\ Take("dynsym", "dynstr")
     \/ type = "DYNAMIC" /\ elf' = [elf EXCEPT !["dynamic"] = i]
     \/ type \notin {"SYMTAB", "DYNSYM", "DYNAMIC"} /\ UNCHANGED elf
  /\ i' = (i + 1) % IndexLimit
  /\ UNCHANGED <<file, pc, code, fd, mapped, out>>

Deliver ==
  /\ pc = "scan" /\ i \notin Sections(file)
  /\ out' = TRUE
  /\ Return("ERR_OK")
  /\ UNCHANGED <<file, fd, mapped, elf, i>>

\* elf_free, called with NULL after an error.
Free ==
  /\ pc = "returned"
  /\ IF out THEN mapped' = FALSE /\ elf' = Null ELSE UNCHANGED <<mapped, elf>>
  /\ pc' = "freed"
  /\ UNCHANGED <<file, code, fd, out, i>>

\* exit in xcalloc; the operating system reclaims everything.
OutOfMemory ==
  /\ pc = "calloc"
  /\ pc' = "exited"
  /\ fd' = FALSE /\ mapped' = FALSE
  /\ UNCHANGED <<file, code, elf, out, i>>

Finished == pc \in {"freed", "exited"} /\ UNCHANGED vars

Step ==
  \/ Open \/ Stat \/ Map \/ Close \/ Validate \/ Allocate \/ CheckMachine \/ CheckType
  \/ FindTables \/ Scan \/ Deliver \/ Free \/ OutOfMemory

Next == Step \/ Finished

Spec == Init /\ [][Next]_vars
FairSpec == Spec /\ WF_vars(Step)

-----------------------------------------------------------------------------
\* Whichever call fails, elf_parse returns an error with the file closed, the
\* mapping undone and the elf_file_t freed, and hands out nothing
\* (parser.c:116-161); nothing is left once the caller has called elf_free.
FailureHoldsNothing ==
  /\ pc = "returned" => ~fd /\ (code = "ERR_OK" <=> out)
  /\ pc = "returned" /\ code # "ERR_OK" => ~mapped /\ elf = Null
  /\ pc = "freed" => ~mapped /\ elf = Null

\* The last section of this type, Null when there is none.
LastOf(type, k) ==
  IF OfType(file, type) = {} THEN k = Null
  ELSE k \in OfType(file, type) /\ \A l \in OfType(file, type) : l <= k

\* The sections of this type whose sh_link is the index of a section.
Linking(type) == {k \in OfType(file, type) : Header(file, k).link \in Sections(file)}

\* `strings` is what the last of these links to, Null when there is none.
LinkedFrom(type, strings) ==
  IF Linking(type) = {} THEN strings = Null
  ELSE \E k \in Linking(type) : /\ strings = Header(file, k).link
                              /\ \A l \in Linking(type) : l <= k

\* What elf_parse delivers is a 64-bit AArch64 library with its last symbol
\* table of each kind, and the string table of the last one whose sh_link is in
\* range.  That is the same one when every sh_link is; when the last one's is
\* not, its symbols come with the strings of an earlier symbol table, or with
\* none (parser.c:174-211).
TablesFound ==
  pc = "returned" /\ code = "ERR_OK" =>
    /\ mapped /\ file.ident = "valid" /\ file.machine = "AARCH64" /\ file.etype = "DYN"
    /\ LastOf("SYMTAB", elf["symtab"]) /\ LinkedFrom("SYMTAB", elf["strtab"])
    /\ LastOf("DYNSYM", elf["dynsym"]) /\ LinkedFrom("DYNSYM", elf["dynstr"])
    /\ LastOf("DYNAMIC", elf["dynamic"])

\* elf_parse returns, or exits in calloc, whatever fails and however many
\* sections there are (parser.c:116-215).
ParseEnds == <>(pc \in {"freed", "exited"})
=============================================================================
