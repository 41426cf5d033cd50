---------------------------- MODULE ProgramProofs ----------------------------
(***************************************************************************)
(* Proofs about Program: what main makes of a command line, and what a run *)
(* makes of an input that is mapped while others, or the run itself, write.*)
(***************************************************************************)
EXTENDS Program, TLAPS

-----------------------------------------------------------------------------
(***************************************************************************)
(* The inductive invariant.                                                *)
(***************************************************************************)

\* Labels at which the input is mapped and the output is not yet open; labels
\* behind the check of the ELF header.
Reading == {"validate", "sections", "symbols", "relocations", "ar_open"}
Checked == {"sections", "symbols", "relocations", "ar_open", "ar_write"}

NoLibrary(s) == \A n \in 1..Len(s) : s[n].kind # "lib"

\* No other run has opened p's input as its output.
Undisturbed(p) == \A q \in Procs \ {p} : off[q] # Null => OutPath(q) # In(p)

\* No other run is asked to write p's input or output.
Alone(p) == \A q \in Procs \ {p} : Converts(q) => OutPath(q) \notin {In(p), OutPath(p)}

\* A file that starts like a library is one: what is written never does.
FileInv ==
  \A x \in Paths :
    file[x] \notin {Null, <<>>} /\ file[x][1].kind = "lib" => IsLibrary(file[x])

\* The loop over getopt_long: what it has seen, and what it has made of it.
Opts(p) == OptionsOf(argv[p])
Done(p) == Len(Opts(p)) - Len(letters[p])

LoopInv(p) ==
  /\ Done(p) \in 0..Len(Opts(p))
  /\ \A n \in 1..Len(letters[p]) : letters[p][n] = Opts(p)[Done(p) + n]
  /\ \A n \in 1..Done(p) : Opts(p)[n] \in {"v", "k"}
  /\ keep[p] <=> \E n \in 1..Done(p) : Opts(p)[n] = "k"

OptionInv(p) ==
  /\ pc[p] = "options" => LoopInv(p)
  /\ pc[p] \notin {"options", "returned"} => Converts(p)
  /\ Converts(p) /\ pc[p] # "options" => (keep[p] <=> "k" \in ToSet(Opts(p)))

\* What main returns.
StatusInv(p) ==
  /\ pc[p] = "cleanup" /\ status[p] = 0 => off[p] = 3
  /\ pc[p] = "returned" /\ Ending(p) # {} =>
       \E n \in Ending(p) :
         /\ \A m \in Ending(p) : n <= m
         /\ status[p] = IF Opts(p)[n] \in {"h", "V"} THEN 0 ELSE 1
  /\ pc[p] = "returned" /\ Ending(p) = {} /\ ~Converts(p) => status[p] = 1
  /\ pc[p] = "returned" /\ Converts(p) /\ status[p] = 0 => off[p] = 3

\* A file that a run has opened holds no byte of a library any more.
OutputInv(p) ==
  /\ pc[p] \in {"options", "open"} \union Reading => off[p] = Null
  /\ pc[p] = "ar_write" => off[p] # Null
  /\ off[p] # Null => Converts(p) /\ file[OutPath(p)] # Null /\ NoLibrary(file[OutPath(p)])

\* What p has mapped is what its input still holds, or the input holds nothing
\* of a library; and how much p has copied at each label.
MappedInv(p) ==
  /\ pc[p] \in {"options", "open"} => mapped[p] = Null
  /\ mapped[p] = Null => object[p] = <<>>
  /\ NoLibrary(object[p])
  /\ pc[p] \in Reading \union {"ar_write"} => mapped[p] # Null
  /\ pc[p] \in Checked => IsLibrary(mapped[p])
  /\ mapped[p] # Null =>
       /\ Converts(p) /\ mapped[p] # <<>>
       /\ file[In(p)] # Null
       /\ file[In(p)] = mapped[p] \/ NoLibrary(file[In(p)])
  /\ pc[p] \in {"validate", "sections"} => object[p] = <<>>
  /\ pc[p] = "symbols" => Len(object[p]) = 1
  /\ pc[p] \in {"relocations", "ar_open", "ar_write"} => Len(object[p]) = 2

\* As long as no other run has opened its input, p reads what it has mapped.
UndisturbedInv(p) ==
  Converts(p) /\ Undisturbed(p) =>
    /\ pc[p] # "killed"
    /\ pc[p] \in Reading => file[In(p)] = mapped[p]
    /\ object[p] # <<>> => IsLibrary(mapped[p])
    /\ \A n \in 1..Len(object[p]) : object[p][n] = Byte("obj", mapped[p][1].of, n + 1)

\* What p has written when no other run writes there.
WrittenInv(p) ==
  Converts(p) /\ Alone(p) =>
    /\ pc[p] = "ar_write" => file[OutPath(p)] = SubSeq(ToWrite(p), 1, off[p])
    /\ pc[p] \in {"cleanup", "returned"} /\ status[p] = 0 =>
         /\ IsLibrary(mapped[p]) /\ Len(object[p]) = 2
         /\ file[OutPath(p)] = ToWrite(p)

RunInv(p) ==
  /\ OptionInv(p) /\ StatusInv(p) /\ OutputInv(p) /\ MappedInv(p)
  /\ UndisturbedInv(p) /\ WrittenInv(p)

Inv == TypeOK /\ FileInv /\ \A p \in Procs : RunInv(p)

-----------------------------------------------------------------------------
(***************************************************************************)
(* What the definitions come to.                                           *)
(***************************************************************************)
LEMMA KnownOptions == Known = {"v", "k", "h", "V"}
  BY DEF Known, LongOptions

LEMMA OperandPaths ==
  ASSUME TypeOK, NEW p \in Procs, Converts(p)
  PROVE  In(p) \in Paths /\ OutPath(p) \in Paths
<1>1. OperandsOf(argv[p]) \in Seq(Paths) /\ Len(OperandsOf(argv[p])) = 2
  BY ProgramAssumption DEF TypeOK, ProgramAssumption, Converts
<1> QED
  BY <1>1 DEF In, OutPath

\* The command lines of the runs do not change.
LEMMA SameCommands ==
  ASSUME argv' = argv, NEW p
  PROVE  /\ Converts(p)' = Converts(p) /\ Ending(p)' = Ending(p)
         /\ In(p)' = In(p) /\ OutPath(p)' = OutPath(p)
         /\ Opts(p)' = Opts(p)
  BY DEF Opts, Converts, Ending, In, OutPath

LEMMA ByteTypes ==
  ASSUME NEW l \in Libraries \union {Null}, NEW n \in 0..3,
         NEW kind \in {"magic", "junk", "lib", "obj"}
  PROVE  /\ Byte(kind, l, n) \in Bytes
         /\ Byte(kind, l, n).kind = kind /\ Byte(kind, l, n).of = l /\ Byte(kind, l, n).n = n
         /\ Magic \in Bytes /\ Magic.kind = "magic"
         /\ Junk \in Bytes /\ Junk.kind = "junk"
  BY DEF Byte, Bytes, Magic, Junk

\* The bytes of a library.
LEMMA LibraryBytes ==
  ASSUME NEW s \in Seq(Bytes), IsLibrary(s)
  PROVE  /\ Len(s) = 3
         /\ s[1].of \in Libraries \union {Null}
         /\ \A n \in 1..3 : s[n] = Byte("lib", s[1].of, n)
<1>1. Len(s) = 3
  BY DEF IsLibrary
<1>2. s[1] \in Bytes
  BY <1>1
<1>3. s[1].of \in Libraries \union {Null}
  BY <1>2 DEF Bytes
<1>4. \A n \in 1..3 : s[n] = Byte("lib", s[1].of, n)
  BY DEF IsLibrary, LibraryOf
<1> QED
  BY <1>1, <1>3, <1>4

-----------------------------------------------------------------------------
(***************************************************************************)
(* What a step of p leaves alone.                                          *)
(***************************************************************************)

\* A step of p changes the local state of p only, and of the files only p's own
\* output, which p then has open and which holds nothing of a library.
Frame(p) ==
  /\ argv' = argv
  /\ \A q \in Procs \ {p} :
       /\ pc'[q] = pc[q] /\ letters'[q] = letters[q] /\ keep'[q] = keep[q]
       /\ status'[q] = status[q] /\ mapped'[q] = mapped[q] /\ object'[q] = object[q]
       /\ off'[q] = off[q]
  /\ \/ off' = off /\ file' = file
     \/ /\ Converts(p) /\ pc[p] \in {"ar_open", "ar_write"}
        /\ off'[p] # Null
        /\ \E s \in Seq(Bytes) : NoLibrary(s) /\ file' = [file EXCEPT ![OutPath(p)] = s]

\* The bytes of p's archive, while p writes it.
LEMMA ArchiveBytes ==
  ASSUME TypeOK, NEW p \in Procs, MappedInv(p), pc[p] = "ar_write"
  PROVE  /\ ToWrite(p) \in Seq(Bytes) /\ Len(ToWrite(p)) = 3
         /\ \A n \in 1..3 : ToWrite(p)[n].kind # "lib"
<1>1. object[p] \in Seq(Bytes) /\ Len(object[p]) = 2 /\ NoLibrary(object[p])
  BY DEF TypeOK, MappedInv
<1>2. Magic \in Bytes /\ Magic.kind = "magic"
  BY DEF Magic, Byte, Bytes
<1>3. ToWrite(p) = <<Magic>> \o object[p]
  BY DEF ToWrite, Archive
<1>4. <<Magic>> \in Seq(Bytes) /\ Len(<<Magic>>) = 1 /\ <<Magic>>[1] = Magic
  BY <1>2
<1>5. /\ ToWrite(p) \in Seq(Bytes) /\ Len(ToWrite(p)) = 3 /\ ToWrite(p)[1] = Magic
      /\ ToWrite(p)[2] = object[p][1] /\ ToWrite(p)[3] = object[p][2]
  BY <1>1, <1>3, <1>4, SMTT(60)
<1> QED
  BY <1>1, <1>2, <1>5 DEF NoLibrary

\* What a write of p leaves in its output.
WrittenFile(p) ==
  LET at == off[p] + 1
      old == file[OutPath(p)]
      end == IF Len(old) > at THEN Len(old) ELSE at IN
  [n \in 1..end |-> IF n = at THEN ToWrite(p)[n]
                    ELSE IF n <= Len(old) THEN old[n] ELSE Junk]

LEMMA WriteType ==
  ASSUME TypeOK, NEW p \in Procs, MappedInv(p), OutputInv(p), pc[p] = "ar_write",
         off[p] + 1 <= 3
  PROVE  /\ off[p] \in 0..2
         /\ WrittenFile(p) \in Seq(Bytes) /\ NoLibrary(WrittenFile(p))
<1> DEFINE at == off[p] + 1
           old == file[OutPath(p)]
           end == IF Len(old) > at THEN Len(old) ELSE at
<1>1. off[p] \in 0..2
  BY ProgramAssumption DEF TypeOK, OutputInv, ProgramAssumption
<1>2. Converts(p) /\ old \in Seq(Bytes) /\ NoLibrary(old)
  BY OperandPaths DEF TypeOK, OutputInv
<1>3. Junk \in Bytes /\ Junk.kind = "junk"
  BY DEF Junk, Byte, Bytes
<1>4. end \in Nat /\ Len(old) \in Nat /\ at \in 1..3
  BY <1>1, <1>2
<1>5. ASSUME NEW n \in 1..end
      PROVE  /\ WrittenFile(p)[n] \in Bytes /\ WrittenFile(p)[n].kind # "lib"
  BY <1>2, <1>3, <1>4, ArchiveBytes DEF WrittenFile, NoLibrary
<1>6. WrittenFile(p) = [n \in 1..end |-> WrittenFile(p)[n]]
  BY DEF WrittenFile
<1> HIDE DEF at, old, end
<1>7. WrittenFile(p) \in Seq(Bytes) /\ Len(WrittenFile(p)) = end
  BY <1>4, <1>5, <1>6
<1> QED
  BY <1>1, <1>5, <1>7 DEF NoLibrary

-----------------------------------------------------------------------------
(***************************************************************************)
(* The steps, each for the run that takes it.                              *)
(***************************************************************************)
\* A step to a label at which p neither reads nor writes.
LEMMA StopOK ==
  ASSUME TypeOK, NEW p \in Procs, RunInv(p), UNCHANGED <<argv, mapped, object, off, file>>,
         pc'[p] \in {"options", "returned", "exited", "cleanup"},
         pc'[p] = "options" => pc[p] = "options",
         status'[p] = 0 /\ pc'[p] # "options" => ~Converts(p)
  PROVE  OutputInv(p)' /\ MappedInv(p)' /\ UndisturbedInv(p)' /\ WrittenInv(p)'
<1>1. OutputInv(p)'
  BY SameCommands DEF RunInv, OutputInv, Reading
<1>2. MappedInv(p)'
  BY SameCommands DEF RunInv, MappedInv, Reading, Checked
<1>3. UndisturbedInv(p)'
  BY SameCommands DEF RunInv, UndisturbedInv, Undisturbed, Reading
<1>4. WrittenInv(p)'
  BY SameCommands DEF RunInv, WrittenInv
<1> QED
  BY <1>1, <1>2, <1>3, <1>4

LEMMA OptionOK ==
  ASSUME TypeOK, NEW p \in Procs, RunInv(p), Option(p)
  PROVE  TypeOK' /\ Frame(p) /\ RunInv(p)'
<1> DEFINE h == Head(letters[p])
<1>1. /\ pc[p] = "options" /\ letters[p] # <<>> /\ argv' = argv
      /\ letters' = [letters EXCEPT ![p] = Tail(@)]
      /\ keep' = [keep EXCEPT ![p] = @ \/ h = "k"]
      /\ UNCHANGED <<mapped, object, off, file>>
      /\ \/ /\ h \in {"h", "V"}
            /\ pc' = [pc EXCEPT ![p] = "returned"] /\ status' = [status EXCEPT ![p] = 0]
         \/ /\ h \notin {"v", "k", "h", "V"}
            /\ pc' = [pc EXCEPT ![p] = "returned"] /\ status' = [status EXCEPT ![p] = 1]
         \/ h \in {"v", "k"} /\ UNCHANGED <<pc, status>>
  BY KnownOptions DEF Option, Return, Goto
<1>2. /\ letters[p] \in Seq(STRING) /\ Opts(p) \in Seq(STRING)
      /\ Tail(letters[p]) \in Seq(STRING) /\ Len(Tail(letters[p])) = Len(letters[p]) - 1
      /\ h = letters[p][1] /\ Len(letters[p]) \in Nat \ {0} /\ Len(Opts(p)) \in Nat
      /\ \A n \in 1..(Len(letters[p]) - 1) : Tail(letters[p])[n] = letters[p][n + 1]
  BY <1>1, ProgramAssumption DEF TypeOK, ProgramAssumption, Opts
<1>3. TypeOK'
  BY <1>1, <1>2 DEF TypeOK, Final
<1>4. Frame(p)
  BY <1>1 DEF Frame, TypeOK
<1>5. LoopInv(p)
  BY <1>1 DEF RunInv, OptionInv
<1>6. Done(p) \in 0..(Len(Opts(p)) - 1) /\ h = Opts(p)[Done(p) + 1]
  <2>1. Done(p) = Len(Opts(p)) - Len(letters[p])
    BY DEF Done
  <2>2. Done(p) \in 0..Len(Opts(p))
    BY <1>5 DEF LoopInv
  <2>3. 1 \in 1..Len(letters[p])
    BY <1>2
  <2>4. letters[p][1] = Opts(p)[Done(p) + 1]
    BY <2>3, <1>5 DEF LoopInv
  <2>5. Len(Opts(p)) \in Nat /\ Len(letters[p]) \in Nat \ {0} /\ h = letters[p][1]
    BY <1>2
  <2>6. Done(p) \in 0..(Len(Opts(p)) - 1)
    BY <2>1, <2>2, <2>5
  <2> QED
    BY <2>4, <2>5, <2>6
<1>7. /\ letters'[p] = Tail(letters[p]) /\ keep'[p] = (keep[p] \/ h = "k")
      /\ Opts(p)' = Opts(p) /\ Done(p)' = Done(p) + 1
  <2>1. letters'[p] = Tail(letters[p])
    BY <1>1 DEF TypeOK
  <2>2. keep'[p] = (keep[p] \/ h = "k")
    BY <1>1, Zenon DEF TypeOK
  <2>3. Opts(p)' = Opts(p)
    BY <1>1 DEF Opts
  <2>4. Done(p)' = Len(Opts(p)') - Len(letters'[p])
    BY DEF Done
  <2>5. Done(p)' = Done(p) + 1
    <3>1. /\ Len(Opts(p)) \in Nat /\ Len(letters[p]) \in Nat
          /\ Len(Tail(letters[p])) = Len(letters[p]) - 1
      BY <1>2
    <3>2. Done(p)' = Len(Opts(p)) - Len(Tail(letters[p]))
      BY <2>1, <2>3, <2>4
    <3>3. Done(p) = Len(Opts(p)) - Len(letters[p])
      BY DEF Done
    <3>4. Done(p)' = Len(Opts(p)) - (Len(letters[p]) - 1)
      BY <3>1, <3>2
    <3> QED
      BY <3>1, <3>3, <3>4
  <2> QED
    BY <2>1, <2>2, <2>3, <2>5
<1>8. CASE h \in {"v", "k"}
  <2>1. pc'[p] = "options" /\ pc' = pc /\ status' = status
    BY <1>1, <1>8
  <2>2. \A n \in 1..(Done(p) + 1) : Opts(p)[n] \in {"v", "k"}
    BY <1>5, <1>6, <1>8 DEF LoopInv
  <2>3. keep'[p] <=> \E n \in 1..(Done(p) + 1) : Opts(p)[n] = "k"
    <3>1. keep[p] <=> \E n \in 1..Done(p) : Opts(p)[n] = "k"
      BY <1>5 DEF LoopInv
    <3>2. (\E n \in 1..(Done(p) + 1) : Opts(p)[n] = "k")
          <=> ((\E n \in 1..Done(p) : Opts(p)[n] = "k") \/ h = "k")
      BY <1>6
    <3> QED
      BY <3>1, <3>2, <1>7, Zenon
  <2>4. ASSUME NEW n \in 1..Len(Tail(letters[p]))
        PROVE  Tail(letters[p])[n] = Opts(p)[Done(p) + 1 + n]
    <3>1. n + 1 \in 1..Len(letters[p]) /\ Tail(letters[p])[n] = letters[p][n + 1]
      BY <1>2
    <3>2. letters[p][n + 1] = Opts(p)[Done(p) + (n + 1)]
      BY <3>1, <1>5 DEF LoopInv
    <3>3. Done(p) + (n + 1) = Done(p) + 1 + n
      BY <1>6
    <3> QED
      BY <3>1, <3>2, <3>3
  <2>5. Done(p) + 1 \in 0..Len(Opts(p))
    BY <1>2, <1>6
  <2>6. LoopInv(p)'
    BY <2>2, <2>3, <2>4, <2>5, <1>7 DEF LoopInv
  <2>7. OptionInv(p)' /\ StatusInv(p)'
    BY <2>1, <2>6 DEF OptionInv, StatusInv
  <2>8. OutputInv(p)' /\ MappedInv(p)' /\ UndisturbedInv(p)' /\ WrittenInv(p)'
    <3>1. OutputInv(p)'
      BY <2>1, <1>1, SameCommands DEF RunInv, OutputInv
    <3>2. MappedInv(p)'
      BY <2>1, <1>1, SameCommands DEF RunInv, MappedInv
    <3>3. UndisturbedInv(p)'
      BY <2>1, <1>1, SameCommands DEF RunInv, UndisturbedInv, Undisturbed
    <3>4. WrittenInv(p)'
      BY <2>1, <1>1, SameCommands DEF RunInv, WrittenInv
    <3> QED
      BY <3>1, <3>2, <3>3, <3>4
  <2> QED
    BY <2>7, <2>8, <1>3, <1>4 DEF RunInv
<1>9. CASE h \notin {"v", "k"}
  <2>1. /\ pc'[p] = "returned"
        /\ status'[p] = IF h \in {"h", "V"} THEN 0 ELSE 1
    BY <1>1, <1>9 DEF TypeOK
  <2>2. Done(p) + 1 \in Ending(p)
    BY <1>2, <1>6, <1>9 DEF Ending, Opts
  <2>3. ASSUME NEW m \in Ending(p)
        PROVE  Done(p) + 1 <= m
    <3>1. m \in 1..Len(Opts(p)) /\ Opts(p)[m] \notin {"v", "k"}
      BY <1>2 DEF Ending, Opts
    <3>2. m \notin 1..Done(p)
      BY <3>1, <1>5 DEF LoopInv
    <3> QED
      BY <3>1, <3>2, <1>6
  <2>4. Ending(p) # {} /\ ~Converts(p)
    BY <2>2 DEF Converts
  <2>5. OptionInv(p)' /\ StatusInv(p)'
    <3>1. Ending(p)' = Ending(p) /\ ~Converts(p)' /\ Opts(p)' = Opts(p)
      BY <2>4, <1>1, SameCommands
    <3>2. OptionInv(p)'
      BY <2>1, <3>1 DEF OptionInv
    <3>3. StatusInv(p)'
      BY <2>1, <2>2, <2>3, <2>4, <3>1, <1>6 DEF StatusInv
    <3> QED
      BY <3>2, <3>3
  <2> QED
    BY <2>1, <2>4, <2>5, <1>1, <1>3, <1>4, StopOK DEF RunInv
<1> QED
  BY <1>8, <1>9

LEMMA CheckOperandsOK ==
  ASSUME TypeOK, NEW p \in Procs, RunInv(p), CheckOperands(p)
  PROVE  TypeOK' /\ Frame(p) /\ RunInv(p)'
<1>1. /\ pc[p] = "options" /\ letters[p] = <<>>
      /\ UNCHANGED <<argv, letters, keep, mapped, object, off, file>>
      /\ \/ /\ Len(OperandsOf(argv[p])) = 2 /\ UNCHANGED status
            /\ pc' = [pc EXCEPT ![p] = "open"]
         \/ /\ Len(OperandsOf(argv[p])) # 2
            /\ pc' = [pc EXCEPT ![p] = "returned"] /\ status' = [status EXCEPT ![p] = 1]
  BY DEF CheckOperands, Return, Goto
<1>2. TypeOK' /\ Frame(p)
  BY <1>1 DEF TypeOK, Final, Frame
<1>3. Opts(p) \in Seq(STRING) /\ Done(p) = Len(Opts(p)) /\ LoopInv(p)
  BY <1>1, ProgramAssumption DEF TypeOK, ProgramAssumption, Opts, Done, RunInv, OptionInv
<1>4. Ending(p) = {} /\ (keep[p] <=> "k" \in ToSet(Opts(p)))
  BY <1>3 DEF Ending, ToSet, Opts, LoopInv
<1>5. CASE pc'[p] = "returned"
  <2>1. status'[p] = 1 /\ ~Converts(p)
    BY <1>1, <1>5 DEF TypeOK, Converts
  <2>2. OptionInv(p)' /\ StatusInv(p)'
    BY <2>1, <1>1, <1>4, <1>5, SameCommands DEF OptionInv, StatusInv
  <2> QED
    BY <2>1, <2>2, <1>1, <1>2, <1>5, StopOK DEF RunInv
<1>6. CASE pc'[p] # "returned"
  <2>1. pc'[p] = "open" /\ Converts(p) /\ status' = status
    BY <1>1, <1>4, <1>6 DEF TypeOK, Converts
  <2>2. OptionInv(p)' /\ StatusInv(p)'
    BY <2>1, <1>1, <1>4, SameCommands DEF OptionInv, StatusInv
  <2>3. OutputInv(p)' /\ MappedInv(p)'
    BY <2>1, <1>1, SameCommands DEF RunInv, OutputInv, MappedInv, Reading, Checked
  <2>4. UndisturbedInv(p)' /\ WrittenInv(p)'
    BY <2>1, <1>1, SameCommands DEF RunInv, UndisturbedInv, WrittenInv, Undisturbed, Reading
  <2> QED
    BY <2>2, <2>3, <2>4, <1>2 DEF RunInv
<1> QED
  BY <1>5, <1>6

\* A step by which p gives up, or is killed.
LEMMA HaltOK ==
  ASSUME TypeOK, NEW p \in Procs, RunInv(p), pc[p] \notin {"options", "returned"},
         UNCHANGED <<argv, letters, keep, mapped, object, off, file>>,
         pc'[p] \in {"cleanup", "exited", "killed"},
         pc'[p] = "cleanup" => status'[p] = 1,
         pc'[p] = "killed" => ~Undisturbed(p)
  PROVE  RunInv(p)'
<1>1. OptionInv(p)'
  BY SameCommands DEF RunInv, OptionInv
<1>2. StatusInv(p)'
  BY DEF StatusInv
<1>3. OutputInv(p)'
  BY SameCommands DEF RunInv, OutputInv, Reading
<1>4. MappedInv(p)'
  BY SameCommands DEF RunInv, MappedInv, Reading, Checked
<1>5. UndisturbedInv(p)'
  BY SameCommands DEF RunInv, UndisturbedInv, Undisturbed, Reading
<1>6. WrittenInv(p)'
  BY DEF WrittenInv
<1> QED
  BY <1>1, <1>2, <1>3, <1>4, <1>5, <1>6 DEF RunInv

LEMMA FailOK ==
  ASSUME TypeOK, NEW p \in Procs, RunInv(p), pc[p] \notin {"options", "returned"}, Fail(p),
         UNCHANGED <<argv, letters, keep, mapped, object, off, file>>
  PROVE  TypeOK' /\ Frame(p) /\ RunInv(p)'
<1>1. pc' = [pc EXCEPT ![p] = "cleanup"] /\ status' = [status EXCEPT ![p] = 1]
  BY DEF Fail, Goto
<1>2. TypeOK' /\ Frame(p)
  BY <1>1 DEF TypeOK, Frame
<1>3. pc'[p] = "cleanup" /\ status'[p] = 1
  BY <1>1 DEF TypeOK
<1> QED
  BY <1>2, <1>3, HaltOK

LEMMA KilledOK ==
  ASSUME TypeOK, NEW p \in Procs, RunInv(p), pc[p] \notin {"options", "returned"},
         Goto(p, "killed"), ~Undisturbed(p),
         UNCHANGED <<argv, letters, keep, status, mapped, object, off, file>>
  PROVE  TypeOK' /\ Frame(p) /\ RunInv(p)'
<1>1. pc' = [pc EXCEPT ![p] = "killed"]
  BY DEF Goto
<1>2. TypeOK' /\ Frame(p)
  BY <1>1 DEF TypeOK, Frame, Final
<1>3. pc'[p] = "killed"
  BY <1>1 DEF TypeOK
<1> QED
  BY <1>2, <1>3, HaltOK

LEMMA OutOfMemoryOK ==
  ASSUME TypeOK, NEW p \in Procs, RunInv(p), OutOfMemory(p)
  PROVE  TypeOK' /\ Frame(p) /\ RunInv(p)'
<1>1. /\ pc' = [pc EXCEPT ![p] = "exited"] /\ status' = [status EXCEPT ![p] = 4]
      /\ UNCHANGED <<argv, letters, keep, mapped, object, off, file>>
      /\ pc[p] \notin {"options", "returned"}
  BY DEF OutOfMemory, Goto
<1>2. TypeOK' /\ Frame(p)
  BY <1>1 DEF TypeOK, Frame, Final
<1>3. pc'[p] = "exited"
  BY <1>1 DEF TypeOK
<1> QED
  BY <1>1, <1>2, <1>3, HaltOK

LEMMA CleanupOK ==
  ASSUME TypeOK, NEW p \in Procs, RunInv(p), Cleanup(p)
  PROVE  TypeOK' /\ Frame(p) /\ RunInv(p)'
<1>1. /\ pc' = [pc EXCEPT ![p] = "returned"] /\ pc[p] = "cleanup"
      /\ UNCHANGED <<argv, letters, keep, status, mapped, object, off, file>>
  BY DEF Cleanup, Goto
<1>2. TypeOK' /\ Frame(p)
  BY <1>1 DEF TypeOK, Frame, Final
<1>3. pc'[p] = "returned" /\ Converts(p) /\ Ending(p) = {}
  BY <1>1 DEF TypeOK, RunInv, OptionInv, Converts
<1>4. OptionInv(p)' /\ StatusInv(p)'
  BY <1>1, <1>3, SameCommands DEF RunInv, OptionInv, StatusInv
<1>5. OutputInv(p)' /\ MappedInv(p)'
  BY <1>1, <1>3, SameCommands DEF RunInv, OutputInv, MappedInv, Reading, Checked
<1>6. UndisturbedInv(p)'
  BY <1>1, <1>3, SameCommands DEF RunInv, UndisturbedInv, Undisturbed, Reading
<1>7. WrittenInv(p)'
  BY <1>1, <1>3, SameCommands DEF RunInv, WrittenInv, Alone, ToWrite
<1> QED
  BY <1>2, <1>4, <1>5, <1>6, <1>7 DEF RunInv

LEMMA OpenInputOK ==
  ASSUME TypeOK, NEW p \in Procs, RunInv(p), OpenInput(p)
  PROVE  TypeOK' /\ Frame(p) /\ RunInv(p)'
<1>1. CASE Fail(p) /\ UNCHANGED mapped
  BY <1>1, FailOK DEF OpenInput
<1>2. CASE ~(Fail(p) /\ UNCHANGED mapped)
  <2>1. /\ pc[p] = "open" /\ file[In(p)] \notin {Null, <<>>}
        /\ mapped' = [mapped EXCEPT ![p] = file[In(p)]]
        /\ pc' = [pc EXCEPT ![p] = "validate"]
        /\ UNCHANGED <<argv, letters, keep, status, object, off, file>>
    BY <1>2 DEF OpenInput, Goto
  <2>2. Converts(p) /\ off[p] = Null /\ mapped[p] = Null /\ object[p] = <<>>
    BY <2>1 DEF RunInv, OptionInv, OutputInv, MappedInv
  <2>3. file[In(p)] \in Seq(Bytes)
    BY <2>1, <2>2, OperandPaths DEF TypeOK
  <2>4. TypeOK' /\ Frame(p)
    BY <2>1, <2>3 DEF TypeOK, Frame
  <2>5. pc'[p] = "validate" /\ mapped'[p] = file[In(p)]
    BY <2>1 DEF TypeOK
  <2>6. OptionInv(p)' /\ StatusInv(p)' /\ WrittenInv(p)'
    BY <2>1, <2>2, <2>5, SameCommands DEF RunInv, OptionInv, StatusInv, WrittenInv
  <2>7. OutputInv(p)'
    BY <2>1, <2>2, <2>5 DEF OutputInv
  <2>8. MappedInv(p)'
    BY <2>1, <2>2, <2>5, SameCommands DEF MappedInv, NoLibrary, Checked
  <2>9. UndisturbedInv(p)'
    BY <2>1, <2>2, <2>5, SameCommands DEF UndisturbedInv
  <2> QED
    BY <2>4, <2>6, <2>7, <2>8, <2>9 DEF RunInv
<1> QED
  BY <1>1, <1>2

\* What p reads of its mapping, while it reads it.
LEMMA SeenBytes ==
  ASSUME TypeOK, FileInv, NEW p \in Procs, RunInv(p), pc[p] \in Reading, NEW n \in 1..3
  PROVE  /\ Converts(p) /\ In(p) \in Paths
         /\ Seen(p, n) \in Bytes
         /\ Seen(p, 1).kind = "lib" => IsLibrary(mapped[p]) /\ file[In(p)] = mapped[p]
         /\ Undisturbed(p) => file[In(p)] = mapped[p]
         /\ Undisturbed(p) /\ IsLibrary(mapped[p]) =>
              Len(file[In(p)]) = 3 /\ Seen(p, n) = Byte("lib", mapped[p][1].of, n)
         /\ file[In(p)] \in Seq(Bytes) /\ mapped[p] \in Seq(Bytes) \ {<<>>}
<1> DEFINE s == file[In(p)]
<1>1. /\ Converts(p) /\ mapped[p] \notin {Null, <<>>}
      /\ s # Null /\ (s = mapped[p] \/ NoLibrary(s))
  BY DEF RunInv, OptionInv, MappedInv, Reading
<1>2. In(p) \in Paths /\ s \in Seq(Bytes) /\ mapped[p] \in Seq(Bytes)
  BY <1>1, OperandPaths DEF TypeOK
<1>3. Junk \in Bytes /\ Junk.kind = "junk"
  BY DEF Junk, Byte, Bytes
<1>4. Seen(p, n) \in Bytes
  BY <1>2, <1>3 DEF Seen
<1>5. ASSUME Seen(p, 1).kind = "lib"
      PROVE  IsLibrary(mapped[p]) /\ s = mapped[p]
  <2>1. 1 <= Len(s) /\ s[1].kind = "lib"
    BY <1>3, <1>5 DEF Seen
  <2>2. 1 \in 1..Len(s) /\ s # <<>>
    BY <1>2, <2>1
  <2>3. s = mapped[p]
    BY <2>1, <2>2, <1>1 DEF NoLibrary
  <2>4. IsLibrary(s)
    BY <1>1, <1>2, <2>1, <2>2 DEF FileInv
  <2> QED
    BY <2>3, <2>4
<1>6. Undisturbed(p) => s = mapped[p]
  BY <1>1 DEF RunInv, UndisturbedInv
<1>7. ASSUME Undisturbed(p), IsLibrary(mapped[p])
      PROVE  Len(s) = 3 /\ Seen(p, n) = Byte("lib", mapped[p][1].of, n)
  <2>1. s = mapped[p] /\ Len(mapped[p]) = 3 /\ mapped[p][n] = Byte("lib", mapped[p][1].of, n)
    BY <1>2, <1>6, <1>7, LibraryBytes
  <2>2. Len(s) = 3 /\ n <= Len(s) /\ s[n] = Byte("lib", mapped[p][1].of, n)
    BY <2>1
  <2> QED
    BY <2>2 DEF Seen
<1> QED
  BY <1>1, <1>2, <1>4, <1>5, <1>6, <1>7

LEMMA ValidateOK ==
  ASSUME TypeOK, FileInv, NEW p \in Procs, RunInv(p), Validate(p)
  PROVE  TypeOK' /\ Frame(p) /\ RunInv(p)'
<1>1. pc[p] = "validate" /\ UNCHANGED <<argv, letters, keep, mapped, object, off, file>>
  BY DEF Validate
<1>2. CASE file[In(p)] = <<>> /\ Goto(p, "killed") /\ UNCHANGED status
  <2>1. ~Undisturbed(p)
    BY <1>1, <1>2, SeenBytes DEF Reading
  <2> QED
    BY <1>1, <1>2, <2>1, KilledOK
<1>3. CASE Fail(p)
  BY <1>1, <1>3, FailOK
<1>4. CASE Seen(p, 1).kind = "lib" /\ Goto(p, "sections") /\ UNCHANGED status
  <2>1. Converts(p) /\ IsLibrary(mapped[p])
    BY <1>1, <1>4, SeenBytes DEF Reading
  <2>2. pc' = [pc EXCEPT ![p] = "sections"]
    BY <1>4 DEF Goto
  <2>3. TypeOK' /\ Frame(p)
    BY <1>1, <1>4, <2>2 DEF TypeOK, Frame
  <2>4. pc'[p] = "sections"
    BY <2>2 DEF TypeOK
  <2>5. OptionInv(p)' /\ StatusInv(p)' /\ WrittenInv(p)'
    BY <1>1, <2>1, <2>4, SameCommands DEF RunInv, OptionInv, StatusInv, WrittenInv
  <2>6. OutputInv(p)' /\ MappedInv(p)'
    BY <1>1, <2>1, <2>4, SameCommands DEF RunInv, OutputInv, MappedInv, Reading, Checked
  <2>7. UndisturbedInv(p)'
    BY <1>1, <2>1, <2>4, SameCommands DEF RunInv, UndisturbedInv, Undisturbed, Reading
  <2> QED
    BY <2>3, <2>5, <2>6, <2>7 DEF RunInv
<1> QED
  BY <1>2, <1>3, <1>4 DEF Validate

\* A copy is a byte of an object only when it is made of a library's.
LEMMA CopiedByte ==
  ASSUME TypeOK, FileInv, NEW p \in Procs, RunInv(p), pc[p] \in Reading, NEW n \in 1..3
  PROVE  /\ Copied(p, n) \in Bytes /\ Copied(p, n).kind # "lib"
         /\ Undisturbed(p) /\ IsLibrary(mapped[p]) =>
              Copied(p, n) = Byte("obj", mapped[p][1].of, n)
<1>1. Seen(p, n) \in Bytes /\ Seen(p, 1) \in Bytes
  BY SeenBytes
<1>2. Junk \in Bytes /\ Junk.kind = "junk"
  BY DEF Junk, Byte, Bytes
<1>3. /\ [Seen(p, n) EXCEPT !.kind = "obj"] \in Bytes
      /\ [Seen(p, n) EXCEPT !.kind = "obj"].kind = "obj"
  BY <1>1 DEF Bytes
<1>4. Copied(p, n) \in Bytes /\ Copied(p, n).kind # "lib"
  BY <1>2, <1>3 DEF Copied
<1>5. ASSUME Undisturbed(p), IsLibrary(mapped[p])
      PROVE  Copied(p, n) = Byte("obj", mapped[p][1].of, n)
  <2>1. /\ Seen(p, n) = Byte("lib", mapped[p][1].of, n)
        /\ Seen(p, 1) = Byte("lib", mapped[p][1].of, 1)
    BY <1>5, SeenBytes
  <2>2. Seen(p, n).kind = "lib" /\ Seen(p, 1).kind = "lib"
    BY <2>1 DEF Byte
  <2>3. Copied(p, n) = [Seen(p, n) EXCEPT !.kind = "obj"]
    BY <2>2 DEF Copied
  <2> QED
    BY <2>1, <2>3 DEF Byte
<1> QED
  BY <1>4, <1>5

LEMMA ExtractOK ==
  ASSUME TypeOK, FileInv, NEW p \in Procs, RunInv(p),
         ExtractSections(p) \/ ExtractSymbols(p)
  PROVE  TypeOK' /\ Frame(p) /\ RunInv(p)'
<1>1. PICK n \in {2, 3}, next \in {"symbols", "relocations"} :
        /\ \/ n = 2 /\ pc[p] = "sections" /\ next = "symbols"
           \/ n = 3 /\ pc[p] = "symbols" /\ next = "relocations"
        /\ Extract(p, n, next)
  BY DEF ExtractSections, ExtractSymbols
<1>2. /\ pc[p] \in Reading /\ pc[p] \in Checked /\ n \in 1..3
      /\ UNCHANGED <<argv, letters, keep, status, mapped, off, file>>
  BY <1>1 DEF Reading, Checked, Extract
<1>3. /\ Converts(p) /\ IsLibrary(mapped[p]) /\ NoLibrary(object[p])
      /\ object[p] \in Seq(Bytes) /\ Len(object[p]) = n - 2
      /\ mapped[p] \in Seq(Bytes)
  <2>1. /\ Converts(p) /\ IsLibrary(mapped[p]) /\ NoLibrary(object[p])
        /\ object[p] \in Seq(Bytes) /\ mapped[p] \in Seq(Bytes)
    BY <1>2, SeenBytes DEF TypeOK, RunInv, MappedInv
  <2>2. n = 2 => Len(object[p]) = n - 2
    BY <1>1 DEF RunInv, MappedInv
  <2>3. n = 3 => Len(object[p]) = n - 2
    BY <1>1 DEF RunInv, MappedInv
  <2> QED
    BY <2>1, <2>2, <2>3
<1>4. CASE /\ Seen(p, 1).kind # "lib" \/ n > Len(file[In(p)])
           /\ Goto(p, "killed") /\ UNCHANGED object
  <2>1. ASSUME Undisturbed(p) PROVE FALSE
    <3>1. Len(file[In(p)]) = 3 /\ Seen(p, 1) = Byte("lib", mapped[p][1].of, 1)
      BY <1>2, <1>3, <2>1, SeenBytes
    <3> QED
      BY <3>1, <1>1, <1>4 DEF Byte
  <2> QED
    BY <1>1, <1>2, <1>4, <2>1, KilledOK
<1>5. CASE object' = [object EXCEPT ![p] = Append(@, Copied(p, n))] /\ Goto(p, next)
  <2>1. pc' = [pc EXCEPT ![p] = next]
    BY <1>5 DEF Goto
  <2>2. object'[p] = Append(object[p], Copied(p, n)) /\ pc'[p] = next
    BY <1>5, <2>1 DEF TypeOK
  <2>3. /\ Copied(p, n) \in Bytes /\ Copied(p, n).kind # "lib"
        /\ Undisturbed(p) => Copied(p, n) = Byte("obj", mapped[p][1].of, n)
    BY <1>2, <1>3, CopiedByte
  <2>4. /\ object'[p] \in Seq(Bytes) /\ Len(object'[p]) = n - 1
        /\ \A i \in 1..(n - 2) : object'[p][i] = object[p][i]
        /\ object'[p][n - 1] = Copied(p, n)
    BY <2>2, <2>3, <1>1, <1>3
  <2>5. object' \in [Procs -> Seq(Bytes)] /\ \A q \in Procs : Len(object'[q]) <= 2
    BY <2>4, <1>1, <1>5 DEF TypeOK
  <2>6. TypeOK' /\ Frame(p)
    <3>1. TypeOK'
      BY <1>2, <2>1, <2>5 DEF TypeOK, Final
    <3>2. Frame(p)
      BY <1>2, <1>5, <2>1 DEF TypeOK, Frame
    <3> QED
      BY <3>1, <3>2
  <2>7. OptionInv(p)' /\ StatusInv(p)' /\ WrittenInv(p)'
    BY <1>1, <1>2, <1>3, <2>2, SameCommands DEF RunInv, OptionInv, StatusInv, WrittenInv
  <2>8. OutputInv(p)'
    BY <1>2, <2>2, SameCommands DEF RunInv, OutputInv, Reading
  <2>9. MappedInv(p)'
    <3>1. NoLibrary(object'[p])
      BY <2>3, <2>4, <1>1, <1>3 DEF NoLibrary
    <3>2. /\ mapped[p] # Null /\ mapped[p] # <<>> /\ file[In(p)] # Null
          /\ file[In(p)] = mapped[p] \/ NoLibrary(file[In(p)])
      BY <1>2 DEF RunInv, MappedInv, Reading
    <3>3. pc'[p] = "symbols" => Len(object'[p]) = 1
      BY <1>1, <2>2, <2>4
    <3>4. pc'[p] = "relocations" => Len(object'[p]) = 2
      BY <1>1, <2>2, <2>4
    <3> QED
      BY <3>1, <3>2, <3>3, <3>4, <1>1, <1>2, <1>3, <2>2, SameCommands DEF MappedInv
  <2>10. UndisturbedInv(p)'
    <3>1. SUFFICES ASSUME Undisturbed(p)
                   PROVE  /\ pc'[p] # "killed"
                          /\ file[In(p)] = mapped[p]
                          /\ IsLibrary(mapped[p])
                          /\ \A i \in 1..Len(object'[p]) :
                               object'[p][i] = Byte("obj", mapped[p][1].of, i + 1)
      BY <1>2, SameCommands DEF UndisturbedInv, Undisturbed
    <3>2. file[In(p)] = mapped[p]
      BY <3>1, <1>2, SeenBytes
    <3>3. \A i \in 1..(n - 2) : object[p][i] = Byte("obj", mapped[p][1].of, i + 1)
      BY <3>1, <1>3 DEF RunInv, UndisturbedInv
    <3>4. object'[p][n - 1] = Byte("obj", mapped[p][1].of, (n - 1) + 1)
      BY <3>1, <2>3, <2>4, <1>1
    <3>5. \A i \in 1..Len(object'[p]) : i \in 1..(n - 2) \/ i = n - 1
      BY <2>4, <1>1
    <3>6. \A i \in 1..Len(object'[p]) : object'[p][i] = Byte("obj", mapped[p][1].of, i + 1)
      BY <2>4, <3>3, <3>4, <3>5
    <3> QED
      BY <3>2, <3>6, <1>1, <1>3, <2>2
  <2> QED
    BY <2>6, <2>7, <2>8, <2>9, <2>10 DEF RunInv
<1> QED
  BY <1>1, <1>4, <1>5 DEF Extract

LEMMA MakeObjectOK ==
  ASSUME TypeOK, FileInv, NEW p \in Procs, RunInv(p), MakeObject(p)
  PROVE  TypeOK' /\ Frame(p) /\ RunInv(p)'
<1>1. /\ pc[p] = "relocations" /\ UNCHANGED <<argv, letters, keep, mapped, object, off, file>>
      /\ pc[p] \in Reading /\ pc[p] \in Checked
  BY DEF MakeObject, Reading, Checked
<1>2. CASE Seen(p, 1).kind # "lib" /\ Goto(p, "killed") /\ UNCHANGED status
  <2>1. ASSUME Undisturbed(p) PROVE FALSE
    <3>1. IsLibrary(mapped[p])
      BY <1>1 DEF RunInv, MappedInv
    <3>2. Seen(p, 1) = Byte("lib", mapped[p][1].of, 1)
      BY <1>1, <2>1, <3>1, SeenBytes
    <3> QED
      BY <3>2, <1>2 DEF Byte
  <2> QED
    BY <1>1, <1>2, <2>1, KilledOK
<1>3. CASE Fail(p)
  BY <1>1, <1>3, FailOK
<1>4. CASE Goto(p, "ar_open") /\ UNCHANGED status
  <2>1. pc' = [pc EXCEPT ![p] = "ar_open"]
    BY <1>4 DEF Goto
  <2>2. TypeOK' /\ Frame(p)
    BY <1>1, <1>4, <2>1 DEF TypeOK, Frame
  <2>3. pc'[p] = "ar_open"
    BY <2>1 DEF TypeOK
  <2>4. OptionInv(p)' /\ StatusInv(p)' /\ WrittenInv(p)'
    BY <1>1, <2>3, SameCommands DEF RunInv, OptionInv, StatusInv, WrittenInv
  <2>5. OutputInv(p)' /\ MappedInv(p)'
    BY <1>1, <2>3, SameCommands DEF RunInv, OutputInv, MappedInv, Reading, Checked
  <2>6. UndisturbedInv(p)'
    BY <1>1, <2>3, SameCommands DEF RunInv, UndisturbedInv, Undisturbed, Reading
  <2> QED
    BY <2>2, <2>4, <2>5, <2>6 DEF RunInv
<1> QED
  BY <1>2, <1>3, <1>4 DEF MakeObject

\* What a step that sets p's output to s, which holds nothing of a library,
\* keeps of what is known about p's input and output.
LEMMA OutputSet ==
  ASSUME TypeOK, NEW p \in Procs, RunInv(p), Converts(p), argv' = argv,
         NEW s \in Seq(Bytes), NoLibrary(s), file' = [file EXCEPT ![OutPath(p)] = s]
  PROVE  /\ OutPath(p) \in Paths /\ file'[OutPath(p)] = s /\ s # Null
         /\ file[In(p)] # Null /\ (file[In(p)] = mapped[p] \/ NoLibrary(file[In(p)])) =>
              file'[In(p)] # Null /\ (file'[In(p)] = mapped[p] \/ NoLibrary(file'[In(p)]))
         /\ file' \in [Paths -> Seq(Bytes) \union {Null}]
<1>1. OutPath(p) \in Paths /\ In(p) \in Paths
  BY OperandPaths
<1>2. s # Null
  BY ProgramAssumption DEF ProgramAssumption
<1>3. file'[OutPath(p)] = s /\ (In(p) # OutPath(p) => file'[In(p)] = file[In(p)])
  BY <1>1 DEF TypeOK
<1>4. file' \in [Paths -> Seq(Bytes) \union {Null}]
  BY DEF TypeOK
<1>5. file[In(p)] # Null /\ (file[In(p)] = mapped[p] \/ NoLibrary(file[In(p)])) =>
        file'[In(p)] # Null /\ (file'[In(p)] = mapped[p] \/ NoLibrary(file'[In(p)]))
  <2>1. CASE In(p) = OutPath(p)
    BY <1>2, <1>3, <2>1
  <2>2. CASE In(p) # OutPath(p)
    BY <1>3, <2>2
  <2> QED
    BY <2>1, <2>2
<1> QED
  BY <1>1, <1>2, <1>3, <1>4, <1>5

LEMMA OpenArchiveOK ==
  ASSUME TypeOK, NEW p \in Procs, RunInv(p), OpenArchive(p)
  PROVE  TypeOK' /\ Frame(p) /\ RunInv(p)'
<1>1. pc[p] = "ar_open" /\ UNCHANGED <<argv, letters, keep, mapped, object>>
  BY DEF OpenArchive
<1>2. CASE Fail(p) /\ UNCHANGED <<off, file>>
  BY <1>1, <1>2, FailOK
<1>3. CASE ~(Fail(p) /\ UNCHANGED <<off, file>>)
  <2>1. /\ file' = [file EXCEPT ![OutPath(p)] = <<>>] /\ off' = [off EXCEPT ![p] = 0]
        /\ pc' = [pc EXCEPT ![p] = "ar_write"] /\ UNCHANGED status
    BY <1>3 DEF OpenArchive, Goto
  <2>2. pc'[p] = "ar_write" /\ off'[p] = 0 /\ 0 # Null
    BY <2>1, ProgramAssumption DEF TypeOK, ProgramAssumption
  <2>3. Converts(p) /\ <<>> \in Seq(Bytes) /\ NoLibrary(<<>>)
    BY <1>1 DEF RunInv, OptionInv, NoLibrary
  <2>4. /\ OutPath(p) \in Paths /\ file'[OutPath(p)] = <<>> /\ <<>> # Null
        /\ file[In(p)] # Null /\ (file[In(p)] = mapped[p] \/ NoLibrary(file[In(p)])) =>
             file'[In(p)] # Null /\ (file'[In(p)] = mapped[p] \/ NoLibrary(file'[In(p)]))
        /\ file' \in [Paths -> Seq(Bytes) \union {Null}]
    BY <1>1, <2>1, <2>3, OutputSet
  <2>5. TypeOK'
    BY <1>1, <2>1, <2>4 DEF TypeOK
  <2>6. Frame(p)
    <3>1. \E s \in Seq(Bytes) : NoLibrary(s) /\ file' = [file EXCEPT ![OutPath(p)] = s]
      BY <2>1, <2>3
    <3> QED
      BY <1>1, <2>1, <2>2, <2>3, <3>1 DEF TypeOK, Frame
  <2>7. OptionInv(p)' /\ StatusInv(p)'
    BY <1>1, <2>2, SameCommands DEF RunInv, OptionInv, StatusInv
  <2>8. OutputInv(p)'
    BY <1>1, <2>2, <2>3, <2>4, SameCommands DEF OutputInv, Reading
  <2>9. MappedInv(p)'
    BY <1>1, <2>2, <2>4, SameCommands DEF RunInv, MappedInv, Reading, Checked
  <2>10. UndisturbedInv(p)'
    <3>1. Undisturbed(p)' => Undisturbed(p)
      BY <1>1, <2>1, SameCommands DEF Undisturbed, TypeOK
    <3> QED
      BY <1>1, <2>2, <3>1, SameCommands DEF RunInv, UndisturbedInv, Reading
  <2>11. WrittenInv(p)'
    <3>1. SubSeq(ToWrite(p)', 1, 0) = <<>>
      OBVIOUS
    <3> QED
      BY <1>1, <2>2, <2>4, <3>1, SameCommands DEF WrittenInv
  <2> QED
    BY <2>5, <2>6, <2>7, <2>8, <2>9, <2>10, <2>11 DEF RunInv
<1> QED
  BY <1>2, <1>3

LEMMA WriteArchiveOK ==
  ASSUME TypeOK, NEW p \in Procs, RunInv(p), WriteArchive(p)
  PROVE  TypeOK' /\ Frame(p) /\ RunInv(p)'
<1>1. /\ pc[p] = "ar_write" /\ UNCHANGED <<argv, letters, keep, mapped, object>>
      /\ ToWrite(p)' = ToWrite(p)
  BY DEF WriteArchive, ToWrite
<1>2. /\ Converts(p) /\ IsLibrary(mapped[p]) /\ Len(object[p]) = 2
      /\ off[p] \in 0..3 /\ file[OutPath(p)] # Null /\ NoLibrary(file[OutPath(p)])
      /\ mapped[p] # Null /\ mapped[p] # <<>>
      /\ file[In(p)] # Null /\ (file[In(p)] = mapped[p] \/ NoLibrary(file[In(p)]))
  BY <1>1 DEF TypeOK, RunInv, OptionInv, OutputInv, MappedInv, Checked
<1>3. /\ ToWrite(p) \in Seq(Bytes) /\ Len(ToWrite(p)) = 3
      /\ OutPath(p) \in Paths /\ file[OutPath(p)] \in Seq(Bytes)
  BY <1>1, <1>2, ArchiveBytes, OperandPaths DEF RunInv, TypeOK
<1>4. CASE Fail(p) /\ UNCHANGED <<off, file>>
  BY <1>1, <1>4, FailOK
<1>5. CASE /\ off[p] + 1 > Len(ToWrite(p)) /\ Goto(p, "cleanup")
           /\ status' = [status EXCEPT ![p] = 0] /\ UNCHANGED <<off, file>>
  <2>1. /\ pc' = [pc EXCEPT ![p] = "cleanup"] /\ pc'[p] = "cleanup" /\ status'[p] = 0
        /\ off[p] = 3
    BY <1>2, <1>3, <1>5 DEF Goto, TypeOK
  <2>2. TypeOK' /\ Frame(p)
    BY <1>1, <1>5, <2>1 DEF TypeOK, Frame
  <2>3. OptionInv(p)' /\ StatusInv(p)'
    BY <1>1, <1>5, <2>1, SameCommands DEF RunInv, OptionInv, StatusInv
  <2>4. OutputInv(p)' /\ MappedInv(p)'
    BY <1>1, <1>5, <2>1, SameCommands DEF RunInv, OutputInv, MappedInv, Reading, Checked
  <2>5. UndisturbedInv(p)'
    BY <1>1, <1>5, <2>1, SameCommands DEF RunInv, UndisturbedInv, Undisturbed, Reading
  <2>6. WrittenInv(p)'
    <3>1. Converts(p) /\ Alone(p) => file[OutPath(p)] = SubSeq(ToWrite(p), 1, 3)
      BY <1>1, <2>1 DEF RunInv, WrittenInv
    <3>2. SubSeq(ToWrite(p), 1, 3) = ToWrite(p)
      BY <1>3
    <3>3. Alone(p)' = Alone(p)
      BY <1>1, SameCommands DEF Alone
    <3> QED
      BY <1>1, <1>2, <1>5, <2>1, <3>1, <3>2, <3>3, SameCommands DEF WrittenInv
  <2> QED
    BY <2>2, <2>3, <2>4, <2>5, <2>6 DEF RunInv
<1>6. CASE /\ off[p] + 1 <= Len(ToWrite(p))
           /\ file' = [file EXCEPT ![OutPath(p)] = WrittenFile(p)]
           /\ off' = [off EXCEPT ![p] = off[p] + 1]
           /\ UNCHANGED <<pc, status>>
  <2>1. off[p] \in 0..2 /\ WrittenFile(p) \in Seq(Bytes) /\ NoLibrary(WrittenFile(p))
    BY <1>1, <1>3, <1>6, WriteType DEF RunInv
  <2>2. off'[p] = off[p] + 1 /\ off'[p] \in 1..3 /\ off'[p] # Null
    BY <1>6, <2>1, ProgramAssumption DEF TypeOK, ProgramAssumption
  <2>3. /\ file'[OutPath(p)] = WrittenFile(p) /\ WrittenFile(p) # Null
        /\ file'[In(p)] # Null /\ (file'[In(p)] = mapped[p] \/ NoLibrary(file'[In(p)]))
        /\ file' \in [Paths -> Seq(Bytes) \union {Null}]
    BY <1>1, <1>2, <1>6, <2>1, OutputSet
  <2>4. TypeOK'
    BY <1>1, <1>6, <2>2, <2>3 DEF TypeOK
  <2>5. Frame(p)
    <3>1. \E s \in Seq(Bytes) : NoLibrary(s) /\ file' = [file EXCEPT ![OutPath(p)] = s]
      BY <1>6, <2>1
    <3> QED
      BY <1>1, <1>2, <1>6, <2>2, <3>1 DEF TypeOK, Frame
  <2>6. OptionInv(p)' /\ StatusInv(p)'
    BY <1>1, <1>6, SameCommands DEF RunInv, OptionInv, StatusInv
  <2>7. OutputInv(p)'
    BY <1>1, <1>2, <1>6, <2>1, <2>2, <2>3, SameCommands DEF OutputInv, Reading
  <2>8. MappedInv(p)'
    BY <1>1, <1>2, <1>6, <2>3, SameCommands DEF RunInv, MappedInv
  <2>9. UndisturbedInv(p)'
    <3>1. Undisturbed(p)' => Undisturbed(p)
      BY <1>1, <1>6, SameCommands DEF Undisturbed, TypeOK
    <3> QED
      BY <1>1, <1>6, <3>1, SameCommands DEF RunInv, UndisturbedInv, Reading
  <2>10. WrittenInv(p)'
    <3>1. SUFFICES ASSUME Alone(p)
                   PROVE  file'[OutPath(p)] = SubSeq(ToWrite(p), 1, off[p] + 1)
      BY <1>1, <1>6, <2>2, SameCommands DEF WrittenInv, Alone
    <3>2. file[OutPath(p)] = SubSeq(ToWrite(p), 1, off[p])
      BY <1>1, <1>2, <3>1 DEF RunInv, WrittenInv
    <3>3. /\ Len(file[OutPath(p)]) = off[p]
          /\ \A n \in 1..off[p] : file[OutPath(p)][n] = ToWrite(p)[n]
      BY <1>3, <2>1, <3>2
    <3>4. WrittenFile(p) = [n \in 1..(off[p] + 1) |-> ToWrite(p)[n]]
      <4>1. WrittenFile(p) = [n \in 1..(off[p] + 1) |->
                                IF n = off[p] + 1 THEN ToWrite(p)[n]
                                ELSE IF n <= Len(file[OutPath(p)]) THEN file[OutPath(p)][n]
                                ELSE Junk]
        BY <2>1, <3>3 DEF WrittenFile
      <4>2. \A n \in 1..(off[p] + 1) :
              (IF n = off[p] + 1 THEN ToWrite(p)[n]
               ELSE IF n <= Len(file[OutPath(p)]) THEN file[OutPath(p)][n]
               ELSE Junk) = ToWrite(p)[n]
        BY <2>1, <3>3
      <4> QED
        BY <4>1, <4>2
    <3>5. SubSeq(ToWrite(p), 1, off[p] + 1) = [n \in 1..(off[p] + 1) |-> ToWrite(p)[n]]
      BY <1>3, <2>1
    <3> QED
      BY <2>3, <3>4, <3>5
  <2> QED
    BY <2>4, <2>5, <2>6, <2>7, <2>8, <2>9, <2>10 DEF RunInv
<1> QED
  BY <1>4, <1>5, <1>6 DEF WriteArchive, WrittenFile

\* Any step of a run.
LEMMA StepOK ==
  ASSUME TypeOK, FileInv, NEW p \in Procs, RunInv(p), Step(p)
  PROVE  TypeOK' /\ Frame(p) /\ RunInv(p)'
BY OptionOK, CheckOperandsOK, OpenInputOK, ValidateOK, ExtractOK, MakeObjectOK, OutOfMemoryOK,
   OpenArchiveOK, WriteArchiveOK, CleanupOK DEF Step

-----------------------------------------------------------------------------
(***************************************************************************)
(* What a step of p leaves of what is known about the other runs, and      *)
(* about the files.                                                        *)
(***************************************************************************)
LEMMA OthersOK ==
  ASSUME TypeOK, TypeOK', NEW p \in Procs, Frame(p), NEW q \in Procs \ {p}, RunInv(q)
  PROVE  RunInv(q)'
<1>1. /\ argv' = argv
      /\ pc'[q] = pc[q] /\ letters'[q] = letters[q] /\ keep'[q] = keep[q]
      /\ status'[q] = status[q] /\ mapped'[q] = mapped[q] /\ object'[q] = object[q]
      /\ off'[q] = off[q]
  BY DEF Frame
<1>2. /\ Converts(q)' = Converts(q) /\ Ending(q)' = Ending(q) /\ In(q)' = In(q)
      /\ OutPath(q)' = OutPath(q) /\ Opts(q)' = Opts(q) /\ Alone(q)' = Alone(q)
      /\ ToWrite(q)' = ToWrite(q)
  <2>1. Alone(q)' = Alone(q)
    BY <1>1, SameCommands DEF Alone
  <2> QED
    BY <1>1, <2>1, SameCommands DEF ToWrite
<1>3. OptionInv(q)' /\ StatusInv(q)'
  BY <1>1, <1>2, ZenonT(60) DEF RunInv, OptionInv, StatusInv, LoopInv, Done
\* A file of q is what it was, or p's output, and then it is there and holds
\* nothing of a library.
<1>4. ASSUME NEW x \in Paths
      PROVE  \/ file'[x] = file[x]
             \/ /\ Converts(p) /\ x = OutPath(p) /\ off'[p] # Null
                /\ file'[x] # Null /\ NoLibrary(file'[x])
  <2>1. CASE file' = file
    BY <2>1
  <2>2. CASE file' # file
    <3>1. /\ Converts(p) /\ off'[p] # Null /\ OutPath(p) \in Paths
          /\ \E s \in Seq(Bytes) : NoLibrary(s) /\ file' = [file EXCEPT ![OutPath(p)] = s]
      BY <2>2, OperandPaths DEF Frame
    <3>2. PICK s \in Seq(Bytes) : NoLibrary(s) /\ file' = [file EXCEPT ![OutPath(p)] = s]
      BY <3>1
    <3>3. s # Null
      BY ProgramAssumption DEF ProgramAssumption
    <3> QED
      BY <3>1, <3>2, <3>3 DEF TypeOK
  <2> QED
    BY <2>1, <2>2
<1>5. Converts(q) => In(q) \in Paths /\ OutPath(q) \in Paths
  BY OperandPaths
<1>6. OutputInv(q)'
  BY <1>1, <1>2, <1>4, <1>5 DEF RunInv, OutputInv
<1>7. MappedInv(q)'
  <2>1. mapped[q] # Null =>
          /\ file'[In(q)] # Null
          /\ file'[In(q)] = mapped[q] \/ NoLibrary(file'[In(q)])
    BY <1>4, <1>5 DEF RunInv, MappedInv
  <2> QED
    BY <1>1, <1>2, <2>1 DEF RunInv, MappedInv
<1>8. UndisturbedInv(q)'
  <2>1. SUFFICES ASSUME Converts(q), Undisturbed(q)'
                 PROVE  Undisturbed(q) /\ file'[In(q)] = file[In(q)]
    BY <1>1, <1>2 DEF RunInv, UndisturbedInv
  <2>2. off'[p] # Null => OutPath(p) # In(q)
    BY <1>1, <2>1, SameCommands DEF Undisturbed
  <2>3. file'[In(q)] = file[In(q)]
    BY <1>4, <1>5, <2>1, <2>2
  <2>4. off[p] # Null => OutPath(p) # In(q)
    BY <2>2 DEF Frame, TypeOK
  <2>5. Undisturbed(q)
    BY <1>1, <2>1, <2>4, SameCommands DEF Undisturbed, Frame
  <2> QED
    BY <2>3, <2>5
<1>9. WrittenInv(q)'
  <2>1. Converts(q) /\ Alone(q) => file'[OutPath(q)] = file[OutPath(q)]
    BY <1>4, <1>5 DEF Alone
  <2> QED
    BY <1>1, <1>2, <2>1 DEF RunInv, WrittenInv
<1> QED
  BY <1>3, <1>6, <1>7, <1>8, <1>9 DEF RunInv

LEMMA FilesOK ==
  ASSUME TypeOK, TypeOK', FileInv, NEW p \in Procs, Frame(p)
  PROVE  FileInv'
<1>1. SUFFICES ASSUME NEW x \in Paths, file'[x] \notin {Null, <<>>}, file'[x][1].kind = "lib"
               PROVE  IsLibrary(file'[x])
  BY DEF FileInv
<1>2. CASE file'[x] = file[x]
  BY <1>1, <1>2 DEF FileInv
<1>3. CASE file'[x] # file[x]
  <2>1. PICK s \in Seq(Bytes) :
          /\ NoLibrary(s) /\ file' = [file EXCEPT ![OutPath(p)] = s]
          /\ Converts(p)
    BY <1>3 DEF Frame
  <2>2. file'[x] = s
    BY <1>3, <2>1 DEF TypeOK
  <2>3. 1 \in 1..Len(s)
    BY <1>1, <2>2
  <2> QED
    BY <1>1, <2>1, <2>2, <2>3 DEF NoLibrary
<1> QED
  BY <1>2, <1>3

-----------------------------------------------------------------------------
(***************************************************************************)
(* The invariant holds.                                                    *)
(***************************************************************************)
LEMMA InitInv == Init => Inv
<1> SUFFICES ASSUME Init PROVE Inv
  OBVIOUS
<1>1. TypeOK
  BY ProgramAssumption DEF Init, TypeOK, ProgramAssumption
<1>2. FileInv
  BY ProgramAssumption DEF Init, FileInv, ProgramAssumption
<1>3. ASSUME NEW p \in Procs
      PROVE  RunInv(p)
  <2>1. /\ pc[p] = "options" /\ letters[p] = Opts(p) /\ keep[p] = FALSE
        /\ mapped[p] = Null /\ object[p] = <<>> /\ off[p] = Null
    BY DEF Init, Opts
  <2>2. Opts(p) \in Seq(STRING)
    BY ProgramAssumption DEF Init, Opts, ProgramAssumption
  <2>3. Done(p) = 0
    BY <2>1, <2>2 DEF Done
  <2>4. LoopInv(p)
    BY <2>1, <2>2, <2>3 DEF LoopInv
  <2>5. OptionInv(p) /\ StatusInv(p)
    BY <2>1, <2>4 DEF OptionInv, StatusInv
  <2>6. OutputInv(p) /\ MappedInv(p)
    BY <2>1 DEF OutputInv, MappedInv, NoLibrary, Reading, Checked
  <2>7. UndisturbedInv(p) /\ WrittenInv(p)
    BY <2>1 DEF UndisturbedInv, WrittenInv, Reading
  <2> QED
    BY <2>5, <2>6, <2>7 DEF RunInv
<1> QED
  BY <1>1, <1>2, <1>3 DEF Inv

LEMMA NextInv == Inv /\ [Next]_vars => Inv'
<1> SUFFICES ASSUME Inv, [Next]_vars PROVE Inv'
  OBVIOUS
<1>1. ASSUME NEW p \in Procs, Step(p)
      PROVE  Inv'
  <2>1. TypeOK /\ FileInv /\ \A q \in Procs : RunInv(q)
    BY DEF Inv
  <2>2. TypeOK' /\ Frame(p) /\ RunInv(p)'
    BY <1>1, <2>1, StepOK
  <2>3. FileInv'
    BY <2>1, <2>2, FilesOK
  <2>4. \A q \in Procs : RunInv(q)'
    BY <2>1, <2>2, OthersOK
  <2> QED
    BY <2>2, <2>3, <2>4 DEF Inv
<1>2. CASE UNCHANGED vars
  <2>1. UNCHANGED <<argv, pc, letters, keep, status, mapped, object, off, file>>
    BY <1>2 DEF vars
  <2>2. TypeOK' /\ FileInv'
    BY <2>1 DEF Inv, TypeOK, FileInv
  <2>3. ASSUME NEW p \in Procs
        PROVE  RunInv(p)'
    <3>1. RunInv(p)
      BY DEF Inv
    <3>2. OptionInv(p)' /\ StatusInv(p)'
      BY <2>1, <3>1, SameCommands DEF RunInv, OptionInv, LoopInv, Done, StatusInv
    <3>3. OutputInv(p)' /\ MappedInv(p)'
      BY <2>1, <3>1, SameCommands DEF RunInv, OutputInv, MappedInv
    <3>4. UndisturbedInv(p)'
      BY <2>1, <3>1, SameCommands DEF RunInv, UndisturbedInv, Undisturbed
    <3>5. WrittenInv(p)'
      BY <2>1, <3>1, SameCommands DEF RunInv, WrittenInv, Alone, ToWrite
    <3> QED
      BY <3>2, <3>3, <3>4, <3>5 DEF RunInv
  <2> QED
    BY <2>2, <2>3 DEF Inv
<1> QED
  BY <1>1, <1>2 DEF Next

\* The invariant of Program that the theorems below rest on.
THEOREM InvariantHolds == Spec => []Inv
  BY InitInv, NextInv, PTL DEF Spec

\* The variables keep their types.
THEOREM TypeCorrect == Spec => []TypeOK
<1>1. Inv => TypeOK
  BY DEF Inv
<1> QED
  BY <1>1, InvariantHolds, PTL

\* A run that reports success has left the archive of what it found at its
\* input, also when that was its output (main.c, parser.c, ar_writer.c).
THEOREM SuccessIsArchive == Spec => []ArchiveOfInput
<1>1. ASSUME Inv
      PROVE  ArchiveOfInput
  <2>1. SUFFICES ASSUME NEW p \in Procs, Converts(p), pc[p] = "returned", status[p] = 0, Alone(p)
                 PROVE  IsLibrary(mapped[p]) /\ file[OutPath(p)] = Archive(ObjectOf(mapped[p]))
    BY DEF ArchiveOfInput, Alone
  <2>2. /\ RunInv(p) /\ object[p] \in Seq(Bytes)
        /\ \A q \in Procs : off[q] # Null => Converts(q)
    BY <1>1 DEF Inv, TypeOK, RunInv, OutputInv
  <2>3. /\ IsLibrary(mapped[p]) /\ Len(object[p]) = 2
        /\ file[OutPath(p)] = Archive(object[p])
    BY <2>1, <2>2 DEF RunInv, WrittenInv, ToWrite
  <2>4. Undisturbed(p)
    BY <2>1, <2>2 DEF Undisturbed, Alone
  <2>5. \A n \in 1..2 : object[p][n] = Byte("obj", mapped[p][1].of, n + 1)
    BY <2>1, <2>2, <2>3, <2>4 DEF RunInv, UndisturbedInv
  <2>6. object[p] = [n \in 1..2 |-> object[p][n]]
    BY <2>2, <2>3
  <2>7. object[p] = ObjectOf(mapped[p])
    BY <2>5, <2>6 DEF ObjectOf
  <2> QED
    BY <2>3, <2>7
<1> QED
  BY <1>1, InvariantHolds, PTL

\* Only another run's output can disturb a run (parser.c).
THEOREM OnlyOthersDisturb == Spec => []DisturbedByOthersOnly
<1>1. ASSUME Inv
      PROVE  DisturbedByOthersOnly
  <2> DEFINE whole(p) == ObjectOf(IF IsLibrary(mapped[p]) THEN mapped[p] ELSE <<Magic>>)
  <2>1. SUFFICES ASSUME NEW p \in Procs, Undisturbed(p)
                 PROVE  pc[p] # "killed" /\ IsPrefix(object[p], whole(p))
    BY <1>1 DEF DisturbedByOthersOnly, Undisturbed, Inv, RunInv, OutputInv
  <2>2. /\ RunInv(p) /\ object[p] \in Seq(Bytes)
        /\ Len(object[p]) \in Nat /\ Len(object[p]) <= 2
    <3>1. object[p] \in Seq(Bytes) /\ Len(object[p]) <= 2
      BY <1>1 DEF Inv, TypeOK
    <3>2. Len(object[p]) \in Nat
      BY <3>1
    <3> QED
      BY <1>1, <3>1, <3>2 DEF Inv
  <2>3. pc[p] # "killed"
    BY <2>1, <2>2 DEF RunInv, OptionInv, UndisturbedInv
  <2>4. CASE object[p] = <<>>
    BY <2>3, <2>4 DEF IsPrefix, ObjectOf
  <2>5. CASE object[p] # <<>>
    <3>1. Converts(p)
      BY <2>2, <2>5 DEF RunInv, MappedInv
    <3>2. /\ IsLibrary(mapped[p])
          /\ \A n \in 1..Len(object[p]) : object[p][n] = Byte("obj", mapped[p][1].of, n + 1)
      BY <2>1, <2>2, <2>5, <3>1 DEF RunInv, UndisturbedInv
    <3>3. /\ Len(whole(p)) = 2
          /\ \A n \in 1..Len(object[p]) : whole(p)[n] = object[p][n]
      BY <2>2, <3>2 DEF ObjectOf
    <3>4. SubSeq(object[p], 1, Len(object[p])) = SubSeq(whole(p), 1, Len(object[p]))
      BY <2>2, <3>3
    <3> QED
      BY <2>2, <2>3, <3>3, <3>4 DEF IsPrefix
  <2> QED
    BY <2>4, <2>5
<1> QED
  BY <1>1, InvariantHolds, PTL

\* What the options and operands of a command line decide (main.c).
THEOREM CommandLinesObeyed == Spec => []CommandLineObeyed
<1>1. ASSUME Inv
      PROVE  CommandLineObeyed
  <2>1. SUFFICES ASSUME NEW p \in Procs, pc[p] = "returned"
                 PROVE  CASE Ending(p) # {} ->
                               status[p] = IF \E n \in Ending(p) :
                                                 /\ Opts(p)[n] \in {"h", "V"}
                                                 /\ \A m \in Ending(p) : n <= m
                                           THEN 0 ELSE 1
                          [] Converts(p) -> status[p] = 0 => off[p] = 3
                          [] OTHER -> status[p] = 1
    BY <1>1 DEF CommandLineObeyed, Inv, RunInv, OptionInv, Opts
  <2>2. StatusInv(p)
    BY <1>1 DEF Inv, RunInv
  <2>3. CASE Ending(p) # {}
    <3>1. PICK n \in Ending(p) :
            /\ \A m \in Ending(p) : n <= m
            /\ status[p] = IF Opts(p)[n] \in {"h", "V"} THEN 0 ELSE 1
      BY <2>1, <2>2, <2>3 DEF StatusInv
    <3>2. Ending(p) \subseteq Nat
      BY <1>1, ProgramAssumption DEF Ending, Inv, TypeOK, ProgramAssumption
    <3>3. \A k \in Ending(p) : (\A m \in Ending(p) : k <= m) => k = n
      BY <3>1, <3>2
    <3>4. (\E k \in Ending(p) : Opts(p)[k] \in {"h", "V"} /\ \A m \in Ending(p) : k <= m)
          <=> Opts(p)[n] \in {"h", "V"}
      BY <3>1, <3>3
    <3> QED
      BY <2>3, <3>1, <3>4 DEF Converts
  <2>4. CASE Ending(p) = {}
    BY <2>1, <2>2, <2>4 DEF StatusInv
  <2> QED
    BY <2>3, <2>4
<1> QED
  BY <1>1, InvariantHolds, PTL

\* A file changes only as the output of a run that converts a library into it
\* (main.c, so2a.c, ar_writer.c).
THEOREM OutputsOnly == Spec => OnlyAskedOutputsChange
<1>1. ASSUME Inv, [Next]_vars
      PROVE  [\A x \in Paths : file'[x] # file[x] =>
                \E p \in Procs : /\ Converts(p) /\ OutPath(p) = x
                                 /\ pc[p] \in {"ar_open", "ar_write"}
                                 /\ IsLibrary(mapped[p]) /\ Len(object[p]) = 2]_vars
  <2>1. CASE UNCHANGED vars
    BY <2>1
  <2>2. ASSUME NEW p \in Procs, Step(p), NEW x \in Paths, file'[x] # file[x]
        PROVE  /\ Converts(p) /\ OutPath(p) = x /\ pc[p] \in {"ar_open", "ar_write"}
               /\ IsLibrary(mapped[p]) /\ Len(object[p]) = 2
    <3>1. TypeOK /\ FileInv /\ RunInv(p)
      BY <1>1 DEF Inv
    <3>2. Frame(p)
      BY <2>2, <3>1, StepOK
    <3>3. /\ Converts(p) /\ pc[p] \in {"ar_open", "ar_write"}
          /\ \E s \in Seq(Bytes) : file' = [file EXCEPT ![OutPath(p)] = s]
      BY <2>2, <3>2 DEF Frame
    <3>4. x = OutPath(p)
      BY <2>2, <3>1, <3>3 DEF TypeOK
    <3> QED
      BY <3>1, <3>3, <3>4 DEF RunInv, MappedInv, Checked
  <2> QED
    BY <1>1, <2>1, <2>2 DEF Next, vars
<1> QED
  BY <1>1, InvariantHolds, PTL DEF OnlyAskedOutputsChange, Spec
=============================================================================
