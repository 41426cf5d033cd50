------------------------------- MODULE Program -------------------------------
(***************************************************************************)
(* main (main.c) and the way of a run's bytes from its input to its output *)
(* when both are files of one file system: processes of so2a whose command *)
(* lines name the same few files, so that the output of a run may be its   *)
(* own input or that of another run.                                       *)
(*                                                                         *)
(* elf_parse maps the input and closes it; what is read from the mapping   *)
(* later is what the file holds then, and a page that another process has  *)
(* cut off raises SIGBUS.  The temporary file, which no other run names,   *)
(* is the subject of Conversion and is left out here.                      *)
(*                                                                         *)
(* A library is three bytes: its headers, the data of its sections, its    *)
(* symbols.  The object made of it is two, the archive one more.           *)
(***************************************************************************)
EXTENDS Naturals, Sequences, SequencesExt

CONSTANTS
  Procs,         \* the so2a processes
  Paths,         \* the files that operands name
  CommandLines,  \* the argument lists that a process may be given
  Libraries,     \* the libraries there are
  FileSystems,   \* the files that may be there at first
  Null           \* no file, no status, no library

Byte(kind, of, n) == [kind |-> kind, of |-> of, n |-> n]
Bytes == [kind : {"magic", "junk", "lib", "obj"}, of : Libraries \union {Null}, n : 0..3]
Magic == Byte("magic", Null, 0)
Junk == Byte("junk", Null, 0)     \* what becomes of bytes that are no library's
LibraryOf(l) == [n \in 1..3 |-> Byte("lib", l, n)]
IsLibrary(s) == s # Null /\ Len(s) = 3 /\ s[1].kind = "lib" /\ s = LibraryOf(s[1].of)
ObjectOf(s) == [n \in 1..2 |-> Byte("obj", s[1].of, n + 1)]
Archive(object) == <<Magic>> \o object

-----------------------------------------------------------------------------
(***************************************************************************)
(* Command lines.  A word looks like a cluster of short options, a long    *)
(* option, an operand or `--`; its `path` is the file it names where it is *)
(* taken as an operand, which every word after `--` is.                    *)
(***************************************************************************)

\* long_options: the letter that each long option stands for.
LongOptions == [verbose |-> "v", keep_temp |-> "k", help |-> "h", version |-> "V"]
Known == {LongOptions[name] : name \in DOMAIN LongOptions}

Letters(word) ==
  CASE word.kind = "short" -> word.letters
    [] word.kind = "long" -> <<IF word.name \in DOMAIN LongOptions THEN LongOptions[word.name]
                               ELSE "?">>
    [] OTHER -> <<>>

IsEnd(word) == word.kind = "end"
IsOperand(word) == word.kind = "operand"

\* getopt_long of glibc returns the options in order, wherever they are before
\* `--`, and moves the operands behind them; every word after `--` is an operand,
\* whatever it looks like.
End(words) == SelectInSeq(words, IsEnd)
BeforeEnd(words) == IF End(words) = 0 THEN words ELSE SubSeq(words, 1, End(words) - 1)
AfterEnd(words) == IF End(words) = 0 THEN <<>> ELSE SubSeq(words, End(words) + 1, Len(words))

OptionsOf(words) ==
  LET before == BeforeEnd(words) IN FlattenSeq([n \in DOMAIN before |-> Letters(before[n])])
OperandsOf(words) ==
  LET operands == SelectSeq(BeforeEnd(words), IsOperand) \o AfterEnd(words)
  IN  [n \in DOMAIN operands |-> operands[n].path]

\* Operands name files, and a file that starts like a library is one.
ProgramAssumption ==
  /\ \A words \in CommandLines :
       OptionsOf(words) \in Seq(STRING) /\ OperandsOf(words) \in Seq(Paths)
  /\ FileSystems \subseteq [Paths -> Seq(Bytes) \union {Null}]
  /\ \A files \in FileSystems : \A x \in Paths :
       files[x] \notin {Null, <<>>} /\ files[x][1].kind = "lib" => IsLibrary(files[x])
  /\ Null \notin Nat \union Seq(Bytes) \union Libraries

ASSUME ProgramAssumption

-----------------------------------------------------------------------------
VARIABLES
  argv,     \* argv[p]: the words after the program's name
  pc,       \* pc[p]: where p is
  letters,  \* letters[p]: the options that getopt_long has not returned
  keep,     \* keep[p]: options.keep_temp
  status,   \* status[p]: what main returns, Null until that is decided
  mapped,   \* mapped[p]: what the input held when it was mapped
  object,   \* object[p]: what p has copied out of the mapping
  off,      \* off[p]: position in the archive, Null before it is opened
  file      \* file[x]: what file x holds, Null when there is none

vars == <<argv, pc, letters, keep, status, mapped, object, off, file>>

Final == {"returned", "exited", "killed"}
In(p) == OperandsOf(argv[p])[1]
OutPath(p) == OperandsOf(argv[p])[2]

Goto(p, label) == pc' = [pc EXCEPT ![p] = label]
Return(p, s) == Goto(p, "returned") /\ status' = [status EXCEPT ![p] = s]

\* Faulty: main returns result.code.
FailWithCode(p) == Goto(p, "cleanup") /\ status' = [status EXCEPT ![p] = 2]

\* A call returns an error: `goto cleanup`, and main returns 1.
Fail(p) == Goto(p, "cleanup") /\ status' = [status EXCEPT ![p] = 1]

-----------------------------------------------------------------------------
(***************************************************************************)
(* main.                                                                   *)
(***************************************************************************)

\* Faulty: the loop goes on after the usage text.
OptionWithoutReturn(p) ==
  /\ pc[p] = "options" /\ letters[p] # <<>>
  /\ letters' = [letters EXCEPT ![p] = Tail(@)]
  /\ keep' = [keep EXCEPT ![p] = @ \/ Head(letters[p]) = "k"]
  /\ IF Head(letters[p]) \notin Known THEN Return(p, 1) ELSE UNCHANGED <<pc, status>>
  /\ UNCHANGED <<argv, mapped, object, off, file>>

\* Faulty: the option at hand is looked at again.
OptionStays(p) ==
  /\ pc[p] = "options" /\ letters[p] # <<>>
  /\ keep' = [keep EXCEPT ![p] = @ \/ Head(letters[p]) = "k"]
  /\ IF Head(letters[p]) \in {"h", "V"} THEN Return(p, 0)
     ELSE IF Head(letters[p]) \notin Known THEN Return(p, 1)
     ELSE UNCHANGED <<pc, status>>
  /\ UNCHANGED <<argv, letters, mapped, object, off, file>>

\* One turn of the loop over getopt_long.
Option(p) ==
  /\ pc[p] = "options" /\ letters[p] # <<>>
  /\ letters' = [letters EXCEPT ![p] = Tail(@)]
  /\ keep' = [keep EXCEPT ![p] = @ \/ Head(letters[p]) = "k"]
  /\ IF Head(letters[p]) \in {"h", "V"} THEN Return(p, 0)
     ELSE IF Head(letters[p]) \notin Known THEN Return(p, 1)
     ELSE UNCHANGED <<pc, status>>
  /\ UNCHANGED <<argv, mapped, object, off, file>>

\* Faulty: operands after the second are ignored.
CheckTooFew(p) ==
  /\ pc[p] = "options" /\ letters[p] = <<>>
  /\ IF Len(OperandsOf(argv[p])) >= 2 THEN Goto(p, "open") /\ UNCHANGED status ELSE Return(p, 1)
  /\ UNCHANGED <<argv, letters, keep, mapped, object, off, file>>

\* `optind + 2 != argc`, and the call of convert_so_to_archive.
CheckOperands(p) ==
  /\ pc[p] = "options" /\ letters[p] = <<>>
  /\ IF Len(OperandsOf(argv[p])) = 2 THEN Goto(p, "open") /\ UNCHANGED status ELSE Return(p, 1)
  /\ UNCHANGED <<argv, letters, keep, mapped, object, off, file>>

-----------------------------------------------------------------------------
(***************************************************************************)
(* convert_so_to_archive.                                                  *)
(***************************************************************************)

\* open, fstat and mmap of elf_parse; a file that is empty cannot be mapped.
OpenInput(p) ==
  /\ pc[p] = "open"
  /\ \/ Fail(p) /\ UNCHANGED mapped
     \/ /\ file[In(p)] \notin {Null, <<>>}
        /\ mapped' = [mapped EXCEPT ![p] = file[In(p)]]
        /\ Goto(p, "validate") /\ UNCHANGED status
  /\ UNCHANGED <<argv, letters, keep, object, off, file>>

\* What p may read at place n of its mapping: what is in the file now; beyond
\* its end, zeros up to the end of the page.
Seen(p, n) == IF n <= Len(file[In(p)]) THEN file[In(p)][n] ELSE Junk

\* Faulty: any file is taken for a library.
ValidateNothing(p) ==
  /\ pc[p] = "validate"
  /\ Goto(p, "sections")
  /\ UNCHANGED <<argv, letters, keep, status, mapped, object, off, file>>

\* elf_is_valid, elf_is_aarch64, elf_is_dynamic_lib and the tables; the file may
\* have been emptied since it was mapped.
Validate(p) ==
  /\ pc[p] = "validate"
  /\ \/ file[In(p)] = <<>> /\ Goto(p, "killed") /\ UNCHANGED status
     \/ Fail(p)
     \/ Seen(p, 1).kind = "lib" /\ Goto(p, "sections") /\ UNCHANGED status
  /\ UNCHANGED <<argv, letters, keep, mapped, object, off, file>>

\* What the bytes at place n become in the object.
Copied(p, n) ==
  IF Seen(p, 1).kind = "lib" /\ Seen(p, n).kind = "lib"
  THEN [Seen(p, n) EXCEPT !.kind = "obj"] ELSE Junk

\* Part n is found through the headers and copied; when they are no longer
\* there the run may also read outside of the mapping.
Extract(p, n, next) ==
  /\ \/ /\ object' = [object EXCEPT ![p] = Append(@, Copied(p, n))]
        /\ Goto(p, next)
     \/ /\ Seen(p, 1).kind # "lib" \/ n > Len(file[In(p)])
        /\ Goto(p, "killed") /\ UNCHANGED object
  /\ UNCHANGED <<argv, letters, keep, status, mapped, off, file>>

\* extract_sections copies the data of the sections.
ExtractSections(p) == pc[p] = "sections" /\ Extract(p, 2, "symbols")

\* extract_symbols copies the symbols and their names.
ExtractSymbols(p) == pc[p] = "symbols" /\ Extract(p, 3, "relocations")

\* extract_relocations copies what the object does not hold.  Nothing reads the
\* mapping after it; elf_writer_write then makes the temporary file.
MakeObject(p) ==
  /\ pc[p] = "relocations"
  /\ \/ Seen(p, 1).kind # "lib" /\ Goto(p, "killed") /\ UNCHANGED status
     \/ Fail(p)
     \/ Goto(p, "ar_open") /\ UNCHANGED status
  /\ UNCHANGED <<argv, letters, keep, mapped, object, off, file>>

\* An x*alloc finds no memory: exit(ERR_MEMORY_ALLOC).
OutOfMemory(p) ==
  /\ pc[p] \in {"validate", "sections", "symbols", "relocations", "ar_open"}
  /\ Goto(p, "exited") /\ status' = [status EXCEPT ![p] = 4]
  /\ UNCHANGED <<argv, letters, keep, mapped, object, off, file>>

\* ar_writer_create: open with O_CREAT and O_TRUNC.
OpenArchive(p) ==
  /\ pc[p] = "ar_open"
  /\ \/ Fail(p) /\ UNCHANGED <<off, file>>
     \/ /\ file' = [file EXCEPT ![OutPath(p)] = <<>>]
        /\ off' = [off EXCEPT ![p] = 0]
        /\ Goto(p, "ar_write") /\ UNCHANGED status
  /\ UNCHANGED <<argv, letters, keep, mapped, object>>

\* Faulty: sections and symbols point into the mapping.
ToWriteLazily(p) == Archive([n \in 1..2 |-> Copied(p, n + 1)])

\* The bytes of the archive.
ToWrite(p) == Archive(object[p])

\* The writes of create_archive; `cleanup` follows the last of them.
WriteArchive(p) ==
  /\ pc[p] = "ar_write"
  /\ LET at == off[p] + 1
         old == file[OutPath(p)]
         end == IF Len(old) > at THEN Len(old) ELSE at IN
     \/ Fail(p) /\ UNCHANGED <<off, file>>
     \/ /\ at <= Len(ToWrite(p))
        /\ file' = [file EXCEPT ![OutPath(p)] =
                      [n \in 1..end |-> IF n = at THEN ToWrite(p)[n]
                                        ELSE IF n <= Len(old) THEN old[n] ELSE Junk]]
        /\ off' = [off EXCEPT ![p] = at]
        /\ UNCHANGED <<pc, status>>
     \/ /\ at > Len(ToWrite(p))
        /\ Goto(p, "cleanup") /\ status' = [status EXCEPT ![p] = 0]
        /\ UNCHANGED <<off, file>>
  /\ UNCHANGED <<argv, letters, keep, mapped, object>>

\* `cleanup`, elf_free, and the return from main.
Cleanup(p) ==
  /\ pc[p] = "cleanup" /\ Goto(p, "returned")
  /\ UNCHANGED <<argv, letters, keep, status, mapped, object, off, file>>

-----------------------------------------------------------------------------
Init ==
  /\ argv \in [Procs -> CommandLines]
  /\ pc = [p \in Procs |-> "options"]
  /\ letters = [p \in Procs |-> OptionsOf(argv[p])]
  /\ keep = [p \in Procs |-> FALSE]
  /\ status = [p \in Procs |-> Null]
  /\ mapped = [p \in Procs |-> Null]
  /\ object = [p \in Procs |-> <<>>]
  /\ off = [p \in Procs |-> Null]
  /\ file \in FileSystems

Step(p) ==
  \/ Option(p) \/ CheckOperands(p)
  \/ OpenInput(p) \/ Validate(p) \/ ExtractSections(p) \/ ExtractSymbols(p) \/ MakeObject(p)
  \/ OutOfMemory(p) \/ OpenArchive(p) \/ WriteArchive(p) \/ Cleanup(p)

Next ==
  \/ \E p \in Procs : Step(p)
  \/ (\A p \in Procs : pc[p] \in Final) /\ UNCHANGED vars

Spec == Init /\ [][Next]_vars

\* Every call returns and every process that can run is scheduled.
FairSpec == Spec /\ \A p \in Procs : WF_vars(Step(p))

-----------------------------------------------------------------------------
(***************************************************************************)
(* Properties.                                                             *)
(***************************************************************************)
\* The types of the variables.
TypeOK ==
  /\ argv \in [Procs -> CommandLines]
  /\ pc \in [Procs -> Final \union {"options", "open", "validate", "sections", "symbols",
                                    "relocations", "ar_open", "ar_write", "cleanup"}]
  /\ letters \in [Procs -> Seq(STRING)]
  /\ keep \in [Procs -> BOOLEAN]
  /\ status \in [Procs -> {Null, 0, 1, 4}]
  /\ off \in [Procs -> {Null} \union 0..3]
  /\ mapped \in [Procs -> Seq(Bytes) \union {Null}]
  /\ object \in [Procs -> Seq(Bytes)] /\ \A p \in Procs : Len(object[p]) <= 2
  /\ file \in [Paths -> Seq(Bytes) \union {Null}]

\* The options that end the loop over getopt_long.
Ending(p) == {n \in DOMAIN OptionsOf(argv[p]) : OptionsOf(argv[p])[n] \notin {"v", "k"}}
Converts(p) == Ending(p) = {} /\ Len(OperandsOf(argv[p])) = 2

\* A run that reports success has left the archive of the library that it found
\* at its input, also when it was told to replace that library by the archive:
\* all is copied out of the mapping before the output is emptied
\* (parser.c:130, section_builder.c:118, ar_writer.c:17).
ArchiveOfInput ==
  \A p \in Procs :
    /\ Converts(p) /\ pc[p] = "returned" /\ status[p] = 0
    /\ \A q \in Procs \ {p} : Converts(q) => OutPath(q) \notin {In(p), OutPath(p)}
    => IsLibrary(mapped[p]) /\ file[OutPath(p)] = Archive(ObjectOf(mapped[p]))

\* Only another run whose output is p's input can make p read what is not the
\* library it has mapped, or kill it; p's own output never does (parser.c:130).
DisturbedByOthersOnly ==
  \A p \in Procs :
    pc[p] = "killed" \/ ~IsPrefix(object[p], ObjectOf(IF IsLibrary(mapped[p]) THEN mapped[p]
                                                     ELSE <<Magic>>))
    => \E q \in Procs \ {p} : Converts(q) /\ OutPath(q) = In(p) /\ off[q] # Null

\* A file changes only as the output of a run that was asked to convert, with
\* no word too many and no `-h` in it, and that has copied all of its object
\* out of what was a library: a run over an archive of an earlier run, its own
\* or another's, leaves every file as it is (main.c:60, so2a.c:155).
OnlyAskedOutputsChange ==
  [][\A x \in Paths : file'[x] # file[x] =>
       \E p \in Procs : /\ Converts(p) /\ OutPath(p) = x
                        /\ pc[p] \in {"ar_open", "ar_write"}
                        /\ IsLibrary(mapped[p]) /\ Len(object[p]) = 2]_vars

\* What the loop and its early returns come to: the first option that ends the
\* loop decides, wherever the operands are; `-k` counts wherever it is before
\* `--`, and behind it is a file; and 0 is returned of a conversion only when
\* all of the archive was written (main.c:40-80).
CommandLineObeyed ==
  \A p \in Procs :
    /\ pc[p] \notin {"options", "returned"} => Converts(p)
    /\ Converts(p) /\ pc[p] # "options" =>
         (keep[p] <=> "k" \in ToSet(OptionsOf(argv[p])))
    /\ pc[p] = "returned" =>
         CASE Ending(p) # {} ->
                status[p] = IF \E n \in Ending(p) : /\ OptionsOf(argv[p])[n] \in {"h", "V"}
                                                    /\ \A m \in Ending(p) : n <= m
                            THEN 0 ELSE 1
           [] Converts(p) -> status[p] = 0 => off[p] = 3
           [] OTHER -> status[p] = 1

\* Every run ends, whatever its command line and whatever other runs do to its
\* input.
RunsEnd == \A p \in Procs : <>(pc[p] \in Final)
=============================================================================
