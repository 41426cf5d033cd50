# so2a in TLA+

so2a converts an AArch64 shared library (`libfoo.so`) into a static library (`libfoo.a`): it
parses the library, copies its sections, symbols and relocations, builds one relocatable object
file from them, and wraps this object in an `ar` archive. This directory holds TLA+ models of the
program, TLC configurations that check them, and proofs checked by TLAPS.

1. [The system](#1-the-system)
2. [The modules](#2-the-modules)
3. [The runs](#3-the-runs)
4. [The proofs](#4-the-proofs)
5. [Where the code does not do what it says](#5-where-the-code-does-not-do-what-it-says)
6. [Assumptions and limits](#6-assumptions-and-limits)
7. [Plan](#7-plan)

To check: `tlc -config separate_outputs.cfg MCConversion` and so on with the configurations of
section 3, `tlapm ConversionProofs.tla` and so on for the modules named `...Proofs`.

## 1. The system

Paths are relative to `src/` of the repository.

| component | state | operations |
|---|---|---|
| **Conversion pipeline** `converter/so2a.c` | `result`, `temp_obj`, five heap objects | `convert_so_to_archive`: eleven calls in order, each failure goes to the label `cleanup` |
| **ELF parser** `elf/aarch64/parser.c` | the mapping, `elf_file_t` with pointers into it | `elf_parse`, `elf_free`, name lookups |
| **Section builder** `converter/section_builder.c` | `section_set_t` | `extract_sections` (filter by type and name), `convert_sections` |
| **Symbol table** `converter/symbol_table.c` | `symbol_table_t`, copies of names | `extract_symbols` from `.symtab`, then `.dynsym`; `convert_dynamic_symbols` |
| **Relocator** `converter/relocator.c` | `reloc_set_t` | `extract_relocations` (count, then fill), `convert_dynamic_relocs` |
| **Object writer** `writer/elf_writer.c` | a growing buffer, two string tables | `elf_writer_write`: header, sections, tables, header table, one `write` |
| **Archive writer** `writer/ar_writer.c` | the archive's descriptor | `create_archive`: reads the object back and writes magic, member header, data, padding; `fsync` |
| **Allocation helpers** `common/utils.h` | none | `x*alloc`: `exit` when memory runs out |
| **Command line** `main.c` | the options | a loop over `getopt_long`, the check of the operands, one call |
| **Memory header** `common/memory.h` | `memory_pool_t`, `data_view_t`, `resource_manager_t` | allocate, reset, free; read, seek, subview; register, unregister, release |
| **String table header** `common/string_table.h` | `string_table_t` and views of tables | `string_table_add`, two ways to read, a search |
| **Endian header** `common/endian.h` | a dynamic and a native converter | initialise, parse a field |
| **Other headers** `common/{logging,error,compression,elf_common,common,test_framework}.h` | none | macros, records, declarations |

No compiled file includes the headers of the last four rows, and `memory.h`, `string_table.h` and
`endian.h` would not compile: `types.h` lacks `ERR_INVALID_ARGUMENT`, `ERR_AT` and `ERR_MISMATCH`.
They are modelled as libraries whose client may call their functions in any order, which is how
they are meant; what can go wrong in them is no hazard of so2a, and `PROJECT.json` lists none there.

**Interactions.** Within a process, components are called one after the other and hand their
tables on through pointers. Between processes (so2a is run by build systems, several at a time),
the shared state is the file system: the input, the temporary object `<output>.tmp.<pid>.o`, and
the output. The input is not read but mapped, so what a run sees of it changes when another run, or
the run itself, writes that file. The object goes from the object writer to the archive writer *through the file
system*: it is written, closed, opened again by name, measured with `fstat` and read.

**What is hard.**

- *Interleaving*: two runs with one output; each names its temporary file after its output and
  its pid, truncates the output and writes it at an offset of its own.
- *Partial failure*: each system call may fail, each write may be short; the error paths of
  `create_archive` and `elf_parse` release what they hold at that point by hand.
- *Crashes*: a run may be killed, or call `exit` in an allocator, and leave a temporary file or
  part of an archive, which a later run finds.
- *Ordering*: the output is replaced in place, so when it is first touched decides whether a
  failed run destroys the archive of the last build.
- *Stale data*: section indexes, name offsets and string tables are looked up at one point and
  used at another, after sections have been filtered or a table has been replaced.
- *Limits*: section counts are `uint16_t`, the temporary name has 256 bytes, the buffer is grown
  by one function and skipped over by another.
- *Protocols*: options and operands in any order.

**What makes each component correct.**

- *Pipeline and archive writer*: success means the complete archive of this run's object is at
  the output; the output is touched late and never holds anything but the old file or a prefix
  of the archive; the temporary file ends as the options ask; nothing is leaked; runs do not mix
  their objects; a later run repairs what an earlier one left.
- *Parser*: failure holds nothing; success delivers the last table of each kind, with the strings
  it links to when the link is in range; it ends.
- *Section builder, symbol table, relocator*: nothing that belongs in the object is lost,
  nothing is invented, only what is to be converted is changed; the counted tables suffice.
- *Object writer*: every header points to the bytes of its section; every byte is written; no
  write is outside the buffer; names are found again.
- *Command line*: a file changes only when the words ask for a conversion; the status tells a
  success, a failure and a request for help apart; every run ends.
- *Headers*: blocks do not overlap; views stay in their data (as long as no sum wraps, see section
  5); a resource is released once, by the one
  that holds it; a name that was added is found for good; a field is the number that was stored.

`PROJECT.json` lists the components with what is modelled of each, and the hazards, each at its
line with the properties that cover it.

## 2. The modules

| module | models | lines it stands beside |
|---|---|---|
| `Conversion` | any number of so2a processes on one file system | `so2a.c`, the tail of `elf_writer_write`, `ar_writer.c`, `utils.h` |
| `ConversionInvariant` | the inductive invariant of `Conversion` | |
| `Publication` | abstract: what a run promises about its output | |
| `ConversionImplements` | the refinement mapping from `Conversion` to `Publication` | |
| `Library` | a shared library as the converter reads it | `elf_defs.h`, `elf_get_section_name` |
| `Parser` | one call of `elf_parse`, then `elf_free` | `parser.c` |
| `Translation` | the extract and convert functions | `section_builder.c`, `symbol_table.c`, `relocator.c` |
| `ObjectWriter` | the object in the buffer; extends `Translation` | `elf_writer.c`, the free functions |
| `Program` | `main` and the way from a mapped input to an output on one file system | `main.c`, `so2a.c`, `elf_parse`, the extract functions, `ar_writer.c` |
| `Memory` | pool, data views, resource manager | `memory.h` |
| `StringTable` | a table that a client fills, and views of tables | `string_table.h` |
| `Endian` | a client that reads fields through a converter | `endian.h` |
| `Headers` | `Memory`, `StringTable` and `Endian` side by side | |
| `MCConversion`, `MCParser`, `MCObjectWriter`, `MCProgram`, `MCHeaders` | constants for TLC | |
| `ConversionProofs`, `ConversionImplementsProofs`, `ParserProofs`, `ProgramProofs`, `HeadersProofs`, `TranslationProofs`, `ObjectWriterProofs` | proofs about the module of their name | |
| `Induction` | induction and recursion on numbers, stated with sets | |

`map` in `PROJECT.json` gives the source lines of every definition. Definitions whose comment
starts with "Faulty:" are not part of the model: they are plausible mistakes, and each shows, put
in place of the definition it stands before, that a property can be violated.

### Conversion

A process `p` is at a label `pc[p]`, named after the call it is about to make. A step is one
system call on a file that other processes can see, or one call that only changes the process's
own memory. `result.code` is `code[p]`; `held[p]` are the heap objects the process owns, so that
"every path releases what it holds" can be stated; `objfd`, `arfd` are open files, `off` the file
position of the archive, `size` what `fstat` returned, `data` what `read` returned.

The file system is `dir`, from paths to inodes, and `content`, from inodes to bytes, so that a
file that is unlinked or truncated while another process has it open behaves as on Unix. Bytes
say what they are (`magic`, `header` of a process and a size, byte `n` of the object of an input,
`pad`, a byte of a stale file, a hole). Any path may name a stale file in the initial state.

| code | actions |
|---|---|
| `elf_parse`; `extract_sections`, `extract_symbols`, `extract_relocations` with their conversions | `Parse`; `ExtractSections`, `ExtractSymbols`, `ExtractRelocations` |
| `generate_temp_filename`, `elf_writer_create` | `CreateWriter`, `TempName` |
| `open`; `write`, `close` of the object | `OpenObject`; `WriteObject` |
| `open`; `fstat`, `xmalloc`; `read`, `close` in `create_archive` | `ReopenObject`; `StatObject`; `ReadObject` |
| `ar_writer_create` | `OpenArchive`, `WriteMagic` |
| `ar_writer_add_file` | `WriteHeader`, `WriteData`, `WritePadding` |
| `ar_writer_finalize`, `ar_writer_free` | `Finalize` |
| the label `cleanup` | `Cleanup` |
| `exit` in an allocator; a signal | `OutOfMemory`; `Kill` |

`TempName` is what `snprintf` leaves in `temp[256]`: a path is a sequence of characters and what
does not fit is cut.

### Publication

A run is `working`, then `publishing`, then has `succeeded` or `failed`; its output is as it was
until it starts to publish, is then emptied once, and only ever extended towards the archive; it
succeeds only with the whole of it. `Conversion` implements this for every process that has its
two paths to itself (`PublishesInOrder`); for the others `SharersConverge`, `OwnObjectWrapped` and
`RerunRepairs` say what can be said.

### Parser

Holds (`fd`, `mapped`, `elf`), what is returned (`code`, `out`), and the loop index, which wraps
at `IndexLimit`. A pointer into a table is the index of its section. `Linking` are the tables of a
type whose `sh_link` is in range, and `LinkedFrom` the strings that the last of them names: what
`elf_parse` delivers, whether or not the last table of that type is one of them. Each call that may fail is an
action with both outcomes, each iteration of the loop is a step, and `elf_free` is the caller's.

### Translation and ObjectWriter

Each iteration of a loop is a step. Tables are sequences, C index `j` being position `j + 1`. In
`ObjectWriter` the bytes of the buffer say which byte of what they are, and a byte that was never
written is `Unset`, so "every header points to its section" is a statement about the buffer, not
about the arithmetic that was to fill it. `StringOffset` and `NameOffset` are the layout of a
string table and the search in it. `strings` counts the copies made by `xstrdup` that are not yet
freed.

### Program

A process starts with a list of words. `Option` is one turn of the loop over `getopt_long`, which
returns the options in order wherever they are before `--` (`OptionsOf`) and leaves the operands
behind (`OperandsOf`); what follows `--` is an operand even if it looks like an option; `CheckOperands` is the test of `optind` and the call. The conversion has one
step for each use of the mapping: `OpenInput` maps the file, `Validate`, `ExtractSections`,
`ExtractSymbols` and `MakeObject` read it, each from what the file holds *then*, and `OpenArchive`
and `WriteArchive` replace the output. A library is three bytes (headers, section data, symbols); a
byte that is read where no library's byte is any more is `Junk`, and a page that is gone raises
SIGBUS (`killed`). `Conversion` has the finer grain of system calls, the temporary file and kills at
any point, but takes the input as fixed: the two modules split the behaviour between them.

What keeps a run over its own output right is that `extract_sections` and `extract_symbols` *copy*
data and names (`xmalloc` and `memcpy`), so nothing reads the mapping after `extract_relocations`,
and the output is opened after that. `ArchiveOfInput` fails when they point into the mapping
instead (`ToWriteLazily`).

### Memory, StringTable, Endian, Headers

In `Memory`, `pool` is `memory_pool_t` and `blocks` what was handed out since the last reset; sums
are taken modulo `SizeLimit`, requests are at most `PTRDIFF_MAX`. `views` are two `data_view_t`,
each of which may be made a subview of the other; `slice` is what was read last. Any `size_t` may be
asked of a view (`Asked`), for such numbers come from files; `wrapped` is a history variable that says that
a request was granted although its offset and size add up to more than a `size_t` holds. After that
only `Seek` goes on (a bound: pointers may be anywhere). `entries` and
`count` are the manager's table, with the copies that shifting leaves behind `count`; `holder` says
who has to release a resource.

In `StringTable`, `bytes` has the length of the capacity and `size` of them are in use; `AddFails`,
`AddCopies` and `AddEmpty` are the ways through `string_table_add`, each realloc of the loop being
one that may fail. `added` is what the client keeps: the names with the offsets it was given. `block`
counts the moves of the data, so that "the view still points to the table" can be stated.

In `Endian`, a converter is the name of its order; `ParseBig` and `ParseLittle` are the shifts and
ors of the parse functions, each byte going in with a multiplication by `ByteLimit`, and `Stored` is
the reference: the bytes a writer of that order makes, digit by digit. `Power[n]` is the number of
values of `n` bytes.

The three share no state, so `Headers` lets each behaviour use one of them (`subject`).

## 3. The runs

| run | question | instance |
|---|---|---|
| `separate_outputs` | is a reported success true, and is everything settled on each way out? | two processes, two outputs, objects of 3 bytes (padded) and 2, one with `--keep-temp`; any path may hold a stale file of 7 bytes |
| `shared_output` | do two runs on one output and one input leave a complete archive? | one output, one input |
| `temp_removed` | do runs on one output with different inputs keep their objects apart, clean up, and repair? | one output, two inputs, fairness |
| `parser` | is `elf_parse` right on each way out? | every file of up to 3 sections of four types with links inside and outside the table, and refused files |
| `object_built` | is the object what the tables say, and are the tables what the library says? | every library of up to 3 sections out of nine kinds, small sizes, a first buffer of 2 bytes, and section counts of three bits |
| `one_file_system` | what do runs report and write when outputs are inputs? | two processes, three files (a library, a library or an archive, nothing or an archive), any two of ten command lines, one with a file called `-k` after `--` |
| `headers` | do the library headers keep their promises over every sequence of calls? | a `size_t` of six bits, pools of 5 to 31 bytes, two views of 6 bytes that are asked for offsets and sizes up to the largest `size_t`, three resources for two entries, a table of 2 bytes that grows to 16, every foreign table of up to 5 bytes, every file of ten bits |

The other runs each show one disagreement (section 5).

**What is checked.** `separate_outputs`: `SuccessMeansArchive`, `TempFileSettled`,
`NothingHeldOnReturn`, `OutputTouchedLate`, `PublishesInOrder` (the refinement) and `Inv` (the
invariant of the proof). `shared_output`: `SharersConverge`. `temp_removed`: `OwnObjectWrapped`,
`TempEventuallyRemoved`, `RerunRepairs`. `parser`: `FailureHoldsNothing`, `TablesFound`,
`ParseEnds`. `object_built`: `SectionsKept`, `SymbolsTranslated`, `TablesFit`,
`RelocationsTranslated`, `SectionsIntact`, `NothingUnset`, `HeadersInBuffer`, `NamesFound`,
`NamesReleased`. `one_file_system`: `ArchiveOfInput`, `DisturbedByOthersOnly`,
`CommandLineObeyed`, `OnlyAskedOutputsChange`, `RunsEnd`. `headers`: `PoolSound`, `ViewsInside`,
`HeldOnce`, `OnlyOwnReleased`, `NamesStay`, `ViewStays`, `ViewReads`, `FieldsAsStored`. Each is
stated in words above its definition.

Three of them say what the code does where one might expect more, and say it exactly. `TablesFound`
has the strings of an *earlier* symbol table when the `sh_link` of the last one is out of range.
`RelocationsTranslated` names the three types that are translated and has all others stay.
`ViewsInside` promises that a view is inside its data only until a request has wrapped. Section 5
comes back to them.

`one_file_system` says what holds *although* inputs are mapped, and shows what does not: a run whose
input another run overwrites may be killed, or report success with junk in the archive
(`DisturbedByOthersOnly` allows exactly that, and only then). A run over its own input is safe, and
one over an archive of an earlier run fails without touching any file.

**Why the bounds are enough.** *Conversion*: processes meet only in the file system and only
through a path they share, so two show every kind of meeting (the proofs cover any number). An
object of three bytes has a write that fails at once, one that is short, and one that is
complete; three is odd and two is even, the only thing padding depends on. The stale file is
longer than any archive of the instance, so a missing truncation shows. *Parser*: a table has to
be found, replaced by a later one, with a link that is there and one that is not, in any order:
three sections and four types do that; `IndexLimit` 4 is the largest section count plus one, so
the index gets as close to wrapping as it does at 65535 sections with 16 bits (it cannot wrap:
the count that it is compared with has 16 bits too). *ObjectWriter*: the kinds
are one for each way through `should_include_section` and the two extract functions, the sizes
leave each residue that alignment can meet, and the first capacity of 2 makes the buffer grow
several times while sections are written; `IndexLimit` 8 is the largest section count, 3 + 1 + 3,
plus one, so that the 16-bit sum of `elf_writer.c:123` is as close to wrapping as it gets. *Program*:
the ten command lines contain every way through the loop and the check, and for two runs every way
in which an output can meet an input or an output; the archive has one byte for its magic and one for
each part that is copied at a different time. *Headers*: the sizes are 0, 1, one that is
rounded up, the alignment and the largest request; pools have room for none to three blocks, with
and without a rest; the largest pool and request come to just below the wrap of a sum; the offsets and sizes asked of
views (0, 1, 3, 8, 31, 60, 63) lie inside, across and far behind the data, and 60 and 63 wrap with the
others to sums that are small enough to be granted; two entries and
three resources fill the table and shift it; a capacity of 2 has to be doubled up to three times in
one call; foreign tables have their strings end before, at and after the last byte; a field of 8
bytes fits once, behind a field of 2 at most.

**Fairness.** `FairSpec` of `Conversion` has weak fairness of each process's `Step`: a system call
returns and a process that can run is scheduled. There is no fairness of `Kill` nor of any single
outcome of a call. The code has no loop that waits, no lock and no retry, so nothing more is
needed. `FairSpec` of `Parser` and of `Program` have weak fairness of `Step` for the same reason. Deadlock is
checked in all runs; the headers never end, and elsewhere a state in which everything has ended has an explicit stuttering step.

## 4. The proofs

| theorem | says |
|---|---|
| `ConversionProofs!InvariantHolds` | `Spec => []Inv` |
| `TypeCorrect`, `ArchiveComplete`, `TempSettled`, `NothingHeld`, `OwnObject` | `[]` of `TypeOK`, `SuccessMeansArchive`, `TempFileSettled`, `NothingHeldOnReturn`, `OwnObjectWrapped` |
| `OutputLate` | `OutputTouchedLate`, an action property |
| `SharersInvariant`, `OutputShared` | `[]` of `SharedInv` and of `SharersConverge` |
| `Repaired` | `RerunRepairs`, a temporal property |
| `ConversionImplementsProofs!Implements` | `Spec => PublishesInOrder`: the refinement |
| `ParserProofs!TypeCorrect`, `NothingHeldOnFailure`, `TablesDelivered` | `[]` of `TypeOK`, `FailureHoldsNothing`, `TablesFound` |
| `ProgramProofs!InvariantHolds` | `Spec => []Inv` |
| `TypeCorrect`, `SuccessIsArchive`, `OnlyOthersDisturb`, `CommandLinesObeyed` | `[]` of `TypeOK`, `ArchiveOfInput`, `DisturbedByOthersOnly`, `CommandLineObeyed` |
| `OutputsOnly` | `OnlyAskedOutputsChange`, an action property |
| `TranslationProofs!TranslationInvariant` | `TranslationSpec => []TranslationInv` |
| `ObjectWriterProofs!WriterInvariant` | `Spec => []WriterInv` |
| `TypeCorrect`, `SectionsOnce`, `SymbolsOnce`, `RoomForTables`, `RelocationsStatic` | `[]` of `TypeOK`, `SectionsKept`, `SymbolsTranslated`, `TablesFit`, `RelocationsTranslated` |
| `HeadersCopiedInside`, `ObjectWritten`, `ObjectIntact`, `NamesLookedUp`, `NamesFreed` | `[]` of `HeadersInBuffer`, `NothingUnset`, `SectionsIntact`, `NamesFound`, `NamesReleased` |
| `HeadersProofs!HeadersInvariant`, `TypeCorrect` | `[]` of `HeadersInv` and of `TypeOK` |
| `BlocksApart`, `ViewsStayInside`, `ResourcesHeldOnce` | `[]` of `PoolSound`, `ViewsInside`, `HeldOnce` |
| `ManagerReleasesOwn` | `OnlyOwnReleased`, an action property |
| `NamesKept`, `ViewsKept`, `ViewsReadRight`, `FieldsReadRight` | `[]` of `NamesStay`, `ViewStays`, `ViewReads`, `FieldsAsStored` |

So every invariant and every action property that a passing run checks is a theorem. They hold for
every value of the constants that satisfies the assumptions of section 6: any set of processes,
paths, inputs, object sizes and capacities, any command lines and files, every library whose alignments are as in ELF, any sizes of
the ELF structures, any names, any width of a `size_t`, any strings and tables.

**The invariant of Conversion.** The properties speak of processes that have returned; what makes
them true is what holds before. `HomeInv` is the core: a file is reached, by the directory and by
open descriptors, only through the path it was created at, so a process whose paths no other
process has cannot have its files changed under it. With it, `ObjectInv` follows the temporary file
(empty when opened, the complete object from the write until `cleanup`, its size and its contents
when read back) and `ArchiveInv` the output (after each write exactly the part of the archive that
precedes the next one, with the file position at its end). `FdInv` and `HeldInv` say what is open
and owned at each label. The proof has a lemma per action for the process that steps (`ParseOK` to
`VanishOK`), and one (`OthersOK`) for all others. `OwnObject` needs one more argument: names that
were not cut end in the pid, so they differ between processes even when the output is the same.

**Processes that share an output.** `SharersConverge` is not a fact about one writer: each sharer
may truncate what another has written, and go on at its own offset. `SharedFileInv` names the one
that matters, the sharer `r` that truncated last: since then nobody has made the file shorter, so
the file is at least as long as `off[r]`, and below `off[r]` every byte is at its place in the
archive of a sharer (`RightUpTo`), because all write archives of the same length with bytes that
differ at most in the member header. When all have succeeded, `off[r]` is the length of the archive.
`RerunRepairs` is proved in the same module: `RepairInv` holds from the `open` on, and every step
keeps it, so that the temporal formula follows from a box under a box.

**The refinement.** Each step of `Conversion` is, for every run at once, a step of `Publication` or
none: `OpenArchive` is `Start`, the four writes are `Extend` (a short one also ends the run),
`Cleanup` after a success is `Succeed`, and failures, exits and kills are `Fail`. `PrefixExtended`
carries the arithmetic: a write of `n` bytes at the end of a prefix of the archive leaves a
prefix.

**The invariant of Parser.** What is held at each label (`HeldInv`), what has been checked
(`CheckedInv`), and, in the loop, that the tables found are the last of their type *among the
headers before `i`*, and the strings those that the last of them with a valid link names
(`ScanInv`, `LinkedSoFar`).

**The invariant of Program.** `LoopInv` divides the options into those that the loop has seen, none
of which ends it, and those that are left. `FileInv`, `OutputInv` and `MappedInv` carry the argument
about mapped inputs: a file that starts like a library is one of the initial libraries, because a run
that opens its output leaves no byte of a library in it; so the
file behind a mapping is either unchanged or holds nothing of a library any more. `UndisturbedInv` and `WrittenInv` then say what has been copied and what has
been written as long as nobody else is asked to write these files, with the run's own output allowed to be its
input.

**The invariant of Translation** says of each loop what it has done with the entries that it has
looked at. `SectionsInv`: the table is exactly the kept headers before `i`, in order. `SymbolsInv`:
as many entries as there are wanted symbols so far, those of `.symtab` first, each the symbol but
for its visibility. `RelocsInv`: `allocated` is the number of relocation sections, and as many tables
are filled as the second pass has passed, hence never more than were allocated. `StringsInv` counts
the copies of names: one for each section and relocation table, two for each symbol.

**The invariant of ObjectWriter** says what lies below `writer->buffer_offset`. `BufferInv`: the ELF
header at the start, behind it the space that is skipped for the section headers, behind that
nothing that is unset. The buffer is shorter than the offset only as long as nothing was written
behind the skipped space, which is why `HeadersInBuffer` needs an invariant and not a bound:
`write_buffer` grows the buffer to what it writes, and skipping does not grow it. `PlacedInv`: every
section already written is at its header's offset, which its alignment divides. `NamesInv`: what the
string tables were built of. That `write_buffer` doubles the capacity until it suffices, and that the
offsets of the strings of a table increase strictly, so that the search by name ends at a string's own
offset, are proved by induction (`Induction`).

**The invariant of Headers** has one part for each header. `PoolInv`: `used` is a multiple of
`Align`, and so are the starts of the blocks, so rounding a request up cannot make two overlap; no sum of
two sizes up to `PTRDIFF_MAX` wraps. `ViewInv`: the offset of a view is at most its size; as long as no
request has wrapped, a view ends within the data of the one it was made of, so the sums that give
its place do not wrap either. `ManagerInv`: the entries up to `count` differ, and are what the manager holds; shifting the
table keeps that. `TableInv`: each string that was added stands at its offset, with its
terminator, inside the used part, whose last byte is a NUL; growth copies it. `EndianInv`: the field
that was parsed is the number whose digits, to the base `ByteLimit`, are the bytes of the file; `Signed`
is the number below half of the range that has the same remainder.

**Induction.** The library's induction theorems take an operator as a parameter and cannot be used with
the provers at hand. `Induction` states induction with sets (a property is the set of numbers that
have it) and derives it from the well-foundedness of `<`; `RecursionExists` gives the existence of a
function defined by recursion. With these, `StringOffsets`, `NamesOf`, `ParseBig` and `Power`, all
recursive *functions*, are computed for every argument.

**Model-checked only.** Liveness under fairness (`TempEventuallyRemoved`, `ParseEnds`, `RunsEnd`),
which is out of the prover's reach, and the five violations of section 5. `Inv` of `Conversion` is also
checked by `separate_outputs`; `SharedInv`, the `Inv` of `Program`, `WriterInv` and `HeadersInv` were checked
with TLC on the instances of section 3 too, with no run kept for them.

## 5. Where the code does not do what it says

Each of these is a run that TLC finds violated; `PROJECT.json` quotes both sides.

- `long_output_path`: with an output path of 255 characters the temporary name is cut to the output
  path itself; `cleanup` unlinks the archive and success is reported.
- `symbol_sections`: `st_shndx` is copied although the filter renumbers sections, so a symbol of
  the object is defined in another section (`sh_link` and `sh_info` are copied in the same way).
- `global_twice`: a global in both `.symtab` and `.dynsym` is defined twice.
- `local_symbols`: `sh_info` of `.symtab` is always 1.
- `relocations_raw`: the converted relocations are never written.

Others show in properties that hold, by what these have to except:

- `NamesReleased`: one copy of each symbol's name, which `extract_elf_symbols` makes and nobody
  frees.
- `TempEventuallyRemoved`: a run that ends in `exit` (an allocator, while the object is read back)
  leaves its temporary file, with or without `--keep-temp`.
- `DisturbedByOthersOnly`: a run can report success for an input that was overwritten while it ran.
- `NamesStay`: a name that could not be added reads as the empty name, because
  `string_table_add` returns 0 for both; its caller cannot tell.
- `TablesFound`: when the `sh_link` of the last symbol table is out of range (`parser.c:190`, `201`),
  the strings of an earlier one stay, and the names of its symbols are looked up in them. It takes a
  library with two tables of one type.
- `RelocationsTranslated`: `relocator.h:23` promises static relocations, but TLS_DTPREL64,
  TLS_DTPMOD64, TLS_TPREL64, TLSDESC and IRELATIVE stay as they are (`relocator.c:81`). Nothing comes of
  it, for the tables are never written (`relocations_raw`).
- `ViewsInside`: `offset + size` is a `size_t` and may wrap (`memory.h:120`, `161`), so a view, or what is
  read, may lie outside the data; `wrapped` says when.
- `PoolSound` says nothing of `memory_pool_available`, which may report a rest that
  `memory_pool_alloc` refuses because it rounds the request up first.

`ar_writer_finalize` drops the result of `fsync`. What reaches the disk is not modelled, so no run
shows it.

## 6. Assumptions and limits

- `unlink` succeeds, and nobody but so2a touches its files. In `Conversion` the input does not
  change while a run works; `Program` drops this, and leaves out the temporary file instead.
- Beyond the end of a mapped file that has been cut, zeros are read up to the end of the page, then
  SIGBUS; `Program` allows both.
- `getopt_long` is that of glibc: operands in any place (no `POSIXLY_CORRECT`), every word after `--`
  is one, long options with their full names, none with a value.
- In `Memory` and `StringTable`: requests of memory up to `PTRDIFF_MAX`, which is all that `malloc`
  grants (a larger one asked of a pool may wrap, `memory.h:54`, `57`, and is left out);
  tables smaller than 2 GiB, so that offsets fit the `int` of the search; one client that frees
  nothing twice and calls a parse function only for a field inside its data.
- The archive's magic and its member header are one byte each: both are written by one `write` of a
  fixed even size, so only "none", "part" (an error either way) and "all" differ for the rest of
  the program. The text of the member header is who wrote it and the size.
- The object depends on the input alone. `NothingUnset` shows that no byte of it comes from
  uninitialised memory.
- Headers, tables and names lie inside the mapped file; fewer than `SHN_LORESERVE` sections, as in
  ELF files without extended numbering; one `.symtab` and one `.dynsym` in `Translation` (`Parser`
  allows any number). Addresses are left out: they are 0 from `extract_sections` on.
- Alignments of sections are zero or powers of two, as ELF has it. The code copies `sh_addralign` without
  a check (`section_builder.c:110`) and pads with the mask of `align_up` (`utils.h:47`), which is the next
  multiple for powers of two only: nothing is claimed of a library with other alignments.
- Verbose output and messages are left out.
- Not provable here: liveness under fairness.

The constants are restricted by named assumptions, which TLC evaluates in the runs and the proofs
use: `ConversionAssumption`, `InodeAssumption`, `StaleAssumption` (pids differ, objects are not empty,
sentinels are not values); `ParserAssumption` and `TranslationAssumption` (section indexes are
`0 .. e_shnum - 1` below `IndexLimit`, entries have the fields of the ELF structures, one table of
each kind); `WriterAssumption` (structures are not empty, each name has a length, alignments are zero or powers
of two, at least four indexes remain
below `IndexLimit`, which `SHN_LORESERVE` leaves in ELF files without extended numbering);
`ProgramAssumption` (operands name files, and a file that starts like a library is one);
`MemoryAssumption` (a `size_t` has a multiple of `2 * Align` values, no object is larger than
`PTRDIFF_MAX`, what is asked of a view is a `size_t`); `TableAssumption` (names do not contain a NUL, a table is at most half of
`OffsetLimit` long); `EndianAssumption` (a byte has an even number of values).

**Not modelled**, and why:

- `elf_find_section`, `elf_get_section` and `get_file_size`, which nothing calls; the first two hand
  out a copy of what `SectionName` and the header table say.
- `symbol_table_view_create`, which casts the bytes of a file to an `elf_symbol_t` of 32 bytes,
  whose fields are not where those of the 24 bytes of `Elf64_Sym` are: it has no use on a real
  table. `string_table_free`.
- `common.h`, `logging.h`, `error.h`, `compression.h`, `elf_common.h`, `test_framework.h`: constants,
  records, the wording of messages and declarations without an implementation, in no compiled file.
- The build.

## 7. Plan

Done, in this order: `Conversion` with its invariant, proofs and refinement; `Parser` with its
proofs; `Translation` and `ObjectWriter` with their runs; `Program`; `Memory`, `StringTable`,
`Endian` and their composition; then the proofs of `Program`, of the sharers and the repair in `Conversion`,
of `Translation`, `ObjectWriter` and `Headers`.

Next:

1. An abstract specification of the object writer (an object is a set of sections with their
   bytes and names) that `ObjectWriter` implements, with the refinement proved from `WriterInv`.
2. What `Program` and `Conversion` split between them, stated once: a `Publication` that both
   implement, so that the archive of a run over its own output is covered by the same refinement.
3. The safety part of the liveness properties: that each step of `Step` decreases a measure
   (labels left, options left, headers left), which leaves only fairness to TLC.
