--------------------- MODULE ConversionImplementsProofs ---------------------
(***************************************************************************)
(* Proof that Conversion implements Publication.                           *)
(***************************************************************************)
EXTENDS ConversionImplements, ConversionProofs

\* What is written so far, and a part of what is written next, is a prefix of
\* the whole.
LEMMA PrefixExtended ==
  ASSUME NEW s \in Seq(Bytes), NEW bs \in Seq(Bytes), NEW rest \in Seq(Bytes),
         NEW k \in 0..Len(bs)
  PROVE  LET whole == (s \o bs) \o rest IN
         /\ Len(s) + k \in 0..Len(whole)
         /\ s \o SubSeq(bs, 1, k) = SubSeq(whole, 1, Len(s) + k)
<1> DEFINE whole == (s \o bs) \o rest
           part == s \o SubSeq(bs, 1, k)
<1>1. /\ s \o bs \in Seq(Bytes)
      /\ Len(s \o bs) = Len(s) + Len(bs)
      /\ \A i \in 1..(Len(s) + Len(bs)) :
           (s \o bs)[i] = IF i <= Len(s) THEN s[i] ELSE bs[i - Len(s)]
  BY ConcatProperties
<1>2. /\ whole \in Seq(Bytes)
      /\ Len(whole) = Len(s) + Len(bs) + Len(rest)
      /\ \A i \in 1..(Len(s) + Len(bs)) : whole[i] = (s \o bs)[i]
  BY <1>1, ConcatProperties, LenProperties
<1>3. /\ SubSeq(bs, 1, k) \in Seq(Bytes)
      /\ Len(SubSeq(bs, 1, k)) = k
      /\ \A i \in 1..k : SubSeq(bs, 1, k)[i] = bs[i]
  OBVIOUS
<1>4. /\ part \in Seq(Bytes)
      /\ Len(part) = Len(s) + k
      /\ \A i \in 1..(Len(s) + k) :
           part[i] = IF i <= Len(s) THEN s[i] ELSE bs[i - Len(s)]
  <2> DEFINE t == SubSeq(bs, 1, k)
  <2>1. Len(s) \in Nat /\ k \in Nat
    BY LenProperties
  <2>2. t \in Seq(Bytes) /\ Len(t) = k
    BY <1>3
  <2> HIDE DEF t
  <2>3. /\ s \o t \in Seq(Bytes)
        /\ Len(s \o t) = Len(s) + k
        /\ \A i \in 1..(Len(s) + k) :
             (s \o t)[i] = IF i <= Len(s) THEN s[i] ELSE t[i - Len(s)]
    BY <2>2, ConcatProperties
  <2>4. \A i \in 1..(Len(s) + k) : ~(i <= Len(s)) => t[i - Len(s)] = bs[i - Len(s)]
    BY <1>3, <2>1 DEF t
  <2> QED
    BY <2>3, <2>4 DEF t
<1> HIDE DEF whole, part
<1>5. Len(s) \in Nat /\ Len(bs) \in Nat /\ Len(rest) \in Nat /\ k \in Nat /\ k <= Len(bs)
  BY LenProperties
<1>6. /\ SubSeq(whole, 1, Len(s) + k) \in Seq(Bytes)
      /\ Len(SubSeq(whole, 1, Len(s) + k)) = Len(s) + k
      /\ \A i \in 1..(Len(s) + k) : SubSeq(whole, 1, Len(s) + k)[i] = whole[i]
  BY <1>2, <1>5
<1>7. ASSUME NEW i \in 1..(Len(s) + k)
      PROVE  part[i] = SubSeq(whole, 1, Len(s) + k)[i]
  <2>1. i \in 1..(Len(s) + Len(bs))
    BY <1>5
  <2>2. whole[i] = IF i <= Len(s) THEN s[i] ELSE bs[i - Len(s)]
    BY <1>1, <1>2, <2>1
  <2> QED
    BY <1>4, <1>6, <2>2
<1>8. part = SubSeq(whole, 1, Len(s) + k)
  BY <1>4, <1>6, <1>7, SeqEqual
<1> QED
  BY <1>2, <1>5, <1>8 DEF whole, part

\* A process that does not step shows Publication the same phase and file.
LEMMA OthersSeen ==
  ASSUME NEW p \in Procs, NEW q \in Alone, q # p, Inv, StepOK(p)
  PROVE  PhaseOf(q)' = PhaseOf(q) /\ FileAt(Out[q])' = FileAt(Out[q])
<1>1. q \in Procs /\ OutputAlone(q)
  BY DEF Alone
<1>2. Out[q] \in Paths /\ Out[q] \notin {Out[p], TempName(p)}
  BY <1>1, PathsOf DEF OutputAlone
<1>3. dir[Out[q]] # NoInode => dir[Out[q]] \in Inodes /\ dir[Out[q]].home = Out[q]
  BY <1>2 DEF Inv, TypeOK, HomeInv
<1>4. /\ pc'[q] = pc[q] /\ code'[q] = code[q]
      /\ dir'[Out[q]] = dir[Out[q]]
      /\ dir[Out[q]] # NoInode => content'[dir[Out[q]]] = content[dir[Out[q]]]
  BY <1>1, <1>2, <1>3, SMTT(60) DEF StepOK, Frame
<1> QED
  BY <1>4 DEF PhaseOf, Succeeded, FileAt

\* One step of a process that has its paths to itself, as Publication sees it.
Seen(p) ==
  \/ PhaseOf(p)' = PhaseOf(p) /\ FileAt(Out[p])' = FileAt(Out[p])
  \/ /\ PhaseOf(p) = "working" /\ PhaseOf(p)' = "publishing"
     /\ FileAt(Out[p])' = <<>>
  \/ /\ PhaseOf(p) = "publishing" /\ PhaseOf(p)' \in {"publishing", "failed"}
     /\ \E n \in 0..Len(Archive(p)), m \in 0..Len(Archive(p)) :
          /\ n <= m
          /\ FileAt(Out[p]) = SubSeq(Archive(p), 1, n)
          /\ FileAt(Out[p])' = SubSeq(Archive(p), 1, m)
  \/ /\ PhaseOf(p) = "publishing" /\ PhaseOf(p)' = "succeeded"
     /\ FileAt(Out[p]) = Archive(p) /\ FileAt(Out[p])' = FileAt(Out[p])
  \/ /\ PhaseOf(p) \in {"working", "publishing"} /\ PhaseOf(p)' = "failed"
     /\ FileAt(Out[p])' = FileAt(Out[p])

\* A write to the archive extends the prefix that is there.
LEMMA ArchiveWriteSeen ==
  ASSUME NEW p \in Alone, Inv,
         NEW label \in {"ar_magic", "ar_header", "ar_data", "ar_pad"},
         NEW next \in {"ar_header", "ar_data", "ar_pad", "ar_finalize"},
         NEW bs \in Seq(Bytes), NEW done,
         ArchiveWrite(p, label, bs, next, done),
         NEW s \in Seq(Bytes), NEW rest \in Seq(Bytes),
         Written(p, s), Archive(p) = (s \o bs) \o rest
  PROVE  Seen(p)
<1> DEFINE i == arfd[p]
<1>1. /\ p \in Procs /\ pc[p] = label /\ i = dir[Out[p]] /\ i \in Inodes /\ i # NoInode
      /\ content[i] = s /\ off[p] = Len(s)
  BY ZenonT(60) DEF Alone, Inv, TypeOK, ProcInv, FdInv, ArchiveInv, ArchiveWrite, ArchiveLabels, Written
<1> HIDE DEF i
<1>2. PICK k \in 0..Len(bs) :
        /\ content' = [content EXCEPT ![i] = WriteAt(@, off[p], SubSeq(bs, 1, k))]
        /\ \/ Goto(p, next) /\ UNCHANGED code
           \/ Fail(p, "ERR_WRITE_FAILED")
  BY DEF ArchiveWrite, i
<1>3. content'[i] = s \o SubSeq(bs, 1, k)
  <2>1. SubSeq(bs, 1, k) \in Seq(Bytes)
    BY PrefixType
  <2>2. WriteAt(s, Len(s), SubSeq(bs, 1, k)) = s \o SubSeq(bs, 1, k)
    BY <2>1, WriteAtEnd
  <2> QED
    BY <1>1, <1>2, <2>2 DEF Inv, TypeOK
<1>4. /\ FileAt(Out[p]) = s
      /\ FileAt(Out[p])' = s \o SubSeq(bs, 1, k)
  BY <1>1, <1>3 DEF FileAt, ArchiveWrite
<1>5. /\ Len(s) \in 0..Len(Archive(p)) /\ Len(s) + k \in 0..Len(Archive(p))
      /\ Len(s) <= Len(s) + k
      /\ s = SubSeq(Archive(p), 1, Len(s))
      /\ s \o SubSeq(bs, 1, k) = SubSeq(Archive(p), 1, Len(s) + k)
  <2>1. 0 \in 0..Len(bs) /\ Len(s) \in Nat /\ k \in Nat /\ Len(s) + 0 = Len(s)
    BY LenProperties
  <2>2. s \o SubSeq(bs, 1, 0) = s
    BY ConcatEmptySeq
  <2>3. ASSUME NEW j \in 0..Len(bs)
        PROVE  /\ Len(s) + j \in 0..Len((s \o bs) \o rest)
               /\ s \o SubSeq(bs, 1, j) = SubSeq((s \o bs) \o rest, 1, Len(s) + j)
    BY <2>3, PrefixExtended
  <2>4. /\ Len(s) + 0 \in 0..Len(Archive(p)) /\ Len(s) + k \in 0..Len(Archive(p))
        /\ s \o SubSeq(bs, 1, 0) = SubSeq(Archive(p), 1, Len(s) + 0)
        /\ s \o SubSeq(bs, 1, k) = SubSeq(Archive(p), 1, Len(s) + k)
    BY <2>1, <2>3
  <2> QED
    BY <2>1, <2>2, <2>4, SMTT(60)
<1>6. PhaseOf(p) = "publishing" /\ PhaseOf(p)' \in {"publishing", "failed"}
  BY <1>1, <1>2 DEF Inv, TypeOK, PhaseOf, Succeeded, Goto, Fail, ArchiveLabels, Final
<1> QED
  BY <1>4, <1>5, <1>6 DEF Seen

\* Before the archive is opened a process works, or fails, with its output
\* as it was.
LEMMA WorkSeen ==
  ASSUME NEW p \in Alone, Inv, Step(p) \/ Kill(p),
         pc[p] \notin {"ar_open", "cleanup"} \union ArchiveLabels
  PROVE  Seen(p)
<1>1. p \in Procs /\ TempAlone(p)
  BY DEF Alone
<1>2. FileAt(Out[p])' = FileAt(Out[p])
  BY <1>1, OutputKept DEF FileAt
<1>3. PhaseOf(p) = "working"
  BY <1>1, SMTT(60) DEF Step, Kill, OutOfMemory, Parse, ExtractSections, ExtractSymbols, ExtractRelocations,
     Extract, CreateWriter, OpenObject, WriteObject, ReopenObject, StatObject, ReadObject,
     OpenArchive, WriteMagic, WriteHeader, WriteData, WritePadding, ArchiveWrite, Finalize, Cleanup,
     PhaseOf, Succeeded, ArchiveLabels, Final, Allocating, Running, ParseLabels, ObjectLabels, ReadLabels
<1>4. PhaseOf(p)' \in {"working", "failed"}
  BY <1>1 DEF Inv, TypeOK, Step, Kill, OutOfMemory, Vanish, Parse, ExtractSections, ExtractSymbols,
     ExtractRelocations, Extract, CreateWriter, OpenObject, WriteObject, ReopenObject, StatObject,
     ReadObject, OpenArchive, WriteMagic, WriteHeader, WriteData, WritePadding, ArchiveWrite,
     Finalize, Cleanup, Goto, Fail, PhaseOf, Succeeded, ArchiveLabels, Final, Running,
     ParseLabels, ObjectLabels, ReadLabels
<1> QED
  BY <1>2, <1>3, <1>4 DEF Seen

\* Opening the archive empties the output, or fails and leaves it.
LEMMA OpenArchiveSeen ==
  ASSUME NEW p \in Alone, Inv, OpenArchive(p)
  PROVE  Seen(p)
<1> DEFINE i == OpenedInode(Out[p], p, "ar")
<1>1. p \in Procs /\ Out[p] \in Paths /\ PhaseOf(p) = "working"
  BY PathsOf DEF Alone, OpenArchive, PhaseOf, Succeeded, ArchiveLabels, Final
<1>2. i \in Inodes /\ i # NoInode
  BY <1>1, FreshInode DEF OpenedInode, Inv, TypeOK
<1> HIDE DEF i
<1>3. CASE CreateTruncated(Out[p], i) /\ Goto(p, "ar_magic")
  <2>1. dir'[Out[p]] = i /\ content'[i] = <<>> /\ pc'[p] = "ar_magic"
    BY <1>1, <1>2, <1>3 DEF Inv, TypeOK, CreateTruncated, Goto
  <2>2. FileAt(Out[p])' = <<>>
    BY <1>2, <2>1 DEF FileAt
  <2>3. PhaseOf(p)' = "publishing"
    BY <2>1 DEF PhaseOf, Succeeded, ArchiveLabels, Final
  <2> QED
    BY <1>1, <2>2, <2>3 DEF Seen
<1>4. CASE Fail(p, "ERR_WRITE_FAILED") /\ UNCHANGED fileVars
  <2>1. PhaseOf(p)' = "failed"
    BY <1>1, <1>4 DEF Inv, TypeOK, Fail, Goto, PhaseOf, Succeeded, Final
  <2> QED
    BY <1>1, <1>4, <2>1 DEF Seen, FileAt, fileVars
<1> QED
  BY <1>3, <1>4 DEF OpenArchive, i

\* Each of the four writes of the archive.
LEMMA WritesSeen ==
  ASSUME NEW p \in Alone, Inv,
         WriteMagic(p) \/ WriteHeader(p) \/ WriteData(p) \/ WritePadding(p)
  PROVE  Seen(p)
<1> DEFINE head == Header(p, ObjLen[Input[p]])
           obj == Object(Input[p])
           pad == PadOf(ObjLen[Input[p]])
<1>1. p \in Procs /\ TempAlone(p) /\ OutputAlone(p) /\ ArchiveInv(p)
  BY DEF Alone, Inv, ProcInv
<1>2. /\ <<Magic>> \in Seq(Bytes) /\ <<head>> \in Seq(Bytes) /\ <<Magic, head>> \in Seq(Bytes)
      /\ obj \in Seq(Bytes) /\ pad \in Seq(Bytes) /\ <<>> \in Seq(Bytes)
      /\ <<Magic, head>> \o obj \in Seq(Bytes) /\ obj \o pad \in Seq(Bytes)
      /\ <<>> \o <<Magic>> = <<Magic>>
      /\ <<Magic>> \o <<head>> = <<Magic, head>>
      /\ Archive(p) = (<<Magic, head>> \o obj) \o pad
  BY <1>1, ArchiveParts, ObjectType, EmptySeq, ConcatProperties
<1>3. Archive(p) = <<Magic, head>> \o (obj \o pad)
  BY <1>2, ConcatAssociative, SMTT(60)
<1>4. /\ Archive(p) = (<<>> \o <<Magic>>) \o (<<head>> \o (obj \o pad))
      /\ <<head>> \o (obj \o pad) \in Seq(Bytes)
      /\ Archive(p) = (<<Magic>> \o <<head>>) \o (obj \o pad)
      /\ Archive(p) = ((<<Magic, head>> \o obj) \o pad) \o <<>>
  <2>1. <<head>> \o (obj \o pad) \in Seq(Bytes)
    BY <1>2, ConcatProperties, SMTT(60)
  <2>2. <<Magic, head>> \o (obj \o pad) = <<Magic>> \o (<<head>> \o (obj \o pad))
    BY <1>2, ConcatAssociative, SMTT(60)
  <2>3. (<<Magic, head>> \o obj) \o pad \in Seq(Bytes)
    BY <1>2, ConcatProperties
  <2> QED
    BY <1>2, <1>3, <2>1, <2>2, <2>3, ConcatEmptySeq
<1>5. pc[p] \in ArchiveLabels =>
        size[p] = ObjLen[Input[p]] /\ data[p] = obj
  BY <1>1 DEF Inv, ProcInv, ObjectInv
<1> HIDE DEF head, obj, pad
<1>6. CASE WriteMagic(p)
  <2>1. ArchiveWrite(p, "ar_magic", <<Magic>>, "ar_header", {}) /\ pc[p] = "ar_magic"
    BY <1>6 DEF WriteMagic, ArchiveWrite
  <2>2. Written(p, <<>>)
    BY <1>1, <2>1, SMTT(60) DEF ArchiveInv
  <2> QED
    BY <1>2, <1>4, <2>1, <2>2, ArchiveWriteSeen
<1>7. CASE WriteHeader(p)
  <2>1. pc[p] = "ar_header"
    BY <1>7 DEF WriteHeader, ArchiveWrite
  <2>2. Header(p, size[p]) = head
    BY <1>5, <2>1 DEF ArchiveLabels, head
  <2>3. PICK bs \in Seq(Bytes) : bs = <<head>>
    BY <1>2
  <2>4. ArchiveWrite(p, "ar_header", bs, "ar_data", {})
    BY <1>7, <2>2, <2>3 DEF WriteHeader
  <2>5. Written(p, <<Magic>>)
    BY <1>1, <2>1 DEF ArchiveInv
  <2> QED
    BY <1>2, <1>4, <2>3, <2>4, <2>5, ArchiveWriteSeen
<1>8. CASE WriteData(p)
  <2>1. pc[p] = "ar_data"
    BY <1>8 DEF WriteData, ArchiveWrite
  <2>2. PICK bs \in Seq(Bytes) : bs = obj
    BY <1>2
  <2>3. \/ ArchiveWrite(p, "ar_data", bs, "ar_pad", {})
        \/ ArchiveWrite(p, "ar_data", bs, "ar_finalize", {"data"})
    BY <1>5, <1>8, <2>1, <2>2 DEF WriteData, ArchiveLabels
  <2>4. Written(p, <<Magic, head>>)
    BY <1>1, <2>1 DEF ArchiveInv, head
  <2> QED
    BY <1>2, <2>2, <2>3, <2>4, ArchiveWriteSeen
<1>9. CASE WritePadding(p)
  <2>1. pc[p] = "ar_pad"
    BY <1>9 DEF WritePadding, ArchiveWrite
  <2>2. PICK bs \in Seq(Bytes) : bs = pad
    BY <1>2
  <2>3. ArchiveWrite(p, "ar_pad", bs, "ar_finalize", {"data"})
    BY <1>5, <1>9, <2>1, <2>2 DEF WritePadding, ArchiveLabels, pad
  <2>4. Written(p, <<Magic, head>> \o obj)
    BY <1>1, <2>1 DEF ArchiveInv, head, obj
  <2> QED
    BY <1>2, <1>4, <2>2, <2>3, <2>4, ArchiveWriteSeen
<1> QED
  BY <1>6, <1>7, <1>8, <1>9

\* Finalizing ends nothing yet: result.code says OK, the archive is as it was.
LEMMA FinalizeSeen ==
  ASSUME NEW p \in Alone, Inv, Finalize(p)
  PROVE  Seen(p)
<1>1. p \in Procs
  BY DEF Alone
<1>2. FileAt(Out[p])' = FileAt(Out[p])
  BY DEF Finalize, FileAt, fileVars
<1>3. PhaseOf(p) = "publishing" /\ PhaseOf(p)' = "publishing"
  BY <1>1 DEF Inv, TypeOK, Finalize, Goto, PhaseOf, Succeeded, ArchiveLabels, Final
<1> QED
  BY <1>2, <1>3 DEF Seen

\* `cleanup` leaves the output alone, and a run that reports success from it
\* has left the whole archive there.
LEMMA CleanupSeen ==
  ASSUME NEW p \in Alone, Inv, Cleanup(p)
  PROVE  Seen(p)
<1>1. p \in Procs /\ TempAlone(p) /\ ArchiveInv(p) /\ pc[p] = "cleanup"
  BY DEF Alone, Inv, ProcInv, Cleanup
<1>2. FileAt(Out[p])' = FileAt(Out[p])
  BY <1>1, OutputKept DEF Step, ArchiveLabels, FileAt
<1>3. pc'[p] = "returned" /\ code'[p] = code[p]
  BY <1>1 DEF Inv, TypeOK, Cleanup, Goto
<1>4. CASE code[p] = "ERR_OK"
  <2>1. FileAt(Out[p]) = Archive(p)
    BY <1>1, <1>4 DEF ArchiveInv, Stores, FileAt
  <2>2. PhaseOf(p) = "publishing" /\ PhaseOf(p)' = "succeeded"
    BY <1>1, <1>3, <1>4 DEF PhaseOf, Succeeded, ArchiveLabels, Final
  <2> QED
    BY <1>2, <2>1, <2>2 DEF Seen
<1>5. CASE code[p] # "ERR_OK"
  <2>1. PhaseOf(p) = "failed" /\ PhaseOf(p)' = "failed"
    BY <1>1, <1>3, <1>5 DEF PhaseOf, Succeeded, Final
  <2> QED
    BY <1>2, <2>1 DEF Seen
<1> QED
  BY <1>4, <1>5

\* A process that is killed, or runs out of memory, leaves every file as it is.
LEMMA VanishSeen ==
  ASSUME NEW p \in Alone, Inv, OutOfMemory(p) \/ Kill(p)
  PROVE  Seen(p)
<1>1. p \in Procs /\ pc[p] \in Running /\ pc'[p] \in {"exited", "killed"}
  BY DEF Alone, Inv, TypeOK, OutOfMemory, Kill, Vanish, Goto, Allocating, Running,
         ParseLabels, ObjectLabels, ReadLabels
<1>2. FileAt(Out[p])' = FileAt(Out[p])
  BY DEF OutOfMemory, Kill, FileAt, fileVars
<1>3. PhaseOf(p) \in {"working", "publishing", "failed"}
  BY <1>1 DEF PhaseOf, Succeeded, Running, ParseLabels, ObjectLabels, ReadLabels, ArchiveLabels
<1>4. PhaseOf(p)' = "failed"
  BY <1>1 DEF PhaseOf, Succeeded, Final
<1> QED
  BY <1>2, <1>3, <1>4 DEF Seen

\* Every step of a process that has its paths to itself is one Publication
\* allows.
LEMMA StepSeen ==
  ASSUME NEW p \in Alone, Inv, Step(p) \/ Kill(p)
  PROVE  Seen(p)
<1>1. CASE pc[p] \notin {"ar_open", "cleanup"} \union ArchiveLabels
  BY <1>1, WorkSeen
<1>2. CASE OpenArchive(p)
  BY <1>2, OpenArchiveSeen
<1>3. CASE WriteMagic(p) \/ WriteHeader(p) \/ WriteData(p) \/ WritePadding(p)
  BY <1>3, WritesSeen
<1>4. CASE Finalize(p)
  BY <1>4, FinalizeSeen
<1>5. CASE Cleanup(p)
  BY <1>5, CleanupSeen
<1>6. CASE OutOfMemory(p) \/ Kill(p)
  BY <1>6, VanishSeen
<1> QED
  BY <1>1, <1>2, <1>3, <1>4, <1>5, <1>6
     DEF Step, Parse, ExtractSections, ExtractSymbols, ExtractRelocations, Extract, CreateWriter,
         OpenObject, WriteObject, ReopenObject, StatObject, ReadObject, ArchiveLabels

\* Before any step every run works.
LEMMA InitSeen == Init => Promise!Init
<1> SUFFICES ASSUME Init
             PROVE  Promise!Init
  OBVIOUS
<1>1. ASSUME NEW p \in Alone
      PROVE  PhaseOf(p) = "working"
  <2>1. pc[p] = "elf_parse"
    BY DEF Init, Alone
  <2> QED
    BY <2>1 DEF PhaseOf, Succeeded, ArchiveLabels, Final
<1> QED
  BY <1>1 DEF Promise!Init

\* The phases and files of a step, as Publication's variables.
LEMMA NextSeen == Inv /\ [Next]_vars => [Promise!Next]_<<[p \in Alone |-> PhaseOf(p)],
                                                         [p \in Alone |-> FileAt(Out[p])]>>
<1> DEFINE ph == [p \in Alone |-> PhaseOf(p)]
           fs == [p \in Alone |-> FileAt(Out[p])]
<1> SUFFICES ASSUME Inv, [Next]_vars
             PROVE  Promise!Next \/ (ph' = ph /\ fs' = fs)
  OBVIOUS
<1>1. CASE UNCHANGED vars
  BY <1>1 DEF vars, PhaseOf, Succeeded, FileAt
<1>2. ASSUME NEW p \in Procs, Step(p) \/ Kill(p)
      PROVE  Promise!Next \/ (ph' = ph /\ fs' = fs)
  <2>1. \A q \in Alone : q # p =>
          PhaseOf(q)' = PhaseOf(q) /\ FileAt(Out[q])' = FileAt(Out[q])
    BY <1>2, EveryStepOK, OthersSeen
  <2>2. CASE p \notin Alone
    BY <2>1, <2>2
  <2>3. CASE p \in Alone
    <3>1. Seen(p)
      BY <1>2, <2>3, StepSeen
    <3>2. /\ ph' = [ph EXCEPT ![p] = PhaseOf(p)']
          /\ fs' = [fs EXCEPT ![p] = FileAt(Out[p])']
      BY <2>1, <2>3
    <3>3. /\ ph[p] = PhaseOf(p) /\ ph'[p] = PhaseOf(p)'
          /\ fs[p] = FileAt(Out[p]) /\ fs'[p] = FileAt(Out[p])'
          /\ [q \in Alone |-> Archive(q)][p] = Archive(p)
      BY <2>3
    <3>4. CASE PhaseOf(p)' = PhaseOf(p) /\ FileAt(Out[p])' = FileAt(Out[p])
      BY <3>2, <3>4
    <3>5. CASE /\ PhaseOf(p) = "working" /\ PhaseOf(p)' = "publishing"
               /\ FileAt(Out[p])' = <<>>
      <4>1. Promise!Start(p)
        BY <3>2, <3>3, <3>5 DEF Promise!Start
      <4> QED
        BY <2>3, <4>1 DEF Promise!Next
    <3>6. CASE /\ PhaseOf(p) = "publishing" /\ PhaseOf(p)' \in {"publishing", "failed"}
               /\ \E n \in 0..Len(Archive(p)), m \in 0..Len(Archive(p)) :
                    /\ n <= m
                    /\ FileAt(Out[p]) = SubSeq(Archive(p), 1, n)
                    /\ FileAt(Out[p])' = SubSeq(Archive(p), 1, m)
      <4>1. Promise!Extends(p, fs[p], fs'[p])
        BY <3>3, <3>6 DEF Promise!Extends
      <4>2. ph' \in {ph, [ph EXCEPT ![p] = "failed"]}
        BY <3>2, <3>3, <3>6, ZenonT(60)
      <4>3. Promise!Extend(p)
        BY <3>2, <3>3, <3>6, <4>1, <4>2 DEF Promise!Extend
      <4> QED
        BY <2>3, <4>3 DEF Promise!Next
    <3>7. CASE /\ PhaseOf(p) = "publishing" /\ PhaseOf(p)' = "succeeded"
               /\ FileAt(Out[p]) = Archive(p) /\ FileAt(Out[p])' = FileAt(Out[p])
      <4>1. Promise!Succeed(p)
        BY <3>2, <3>3, <3>7 DEF Promise!Succeed
      <4> QED
        BY <2>3, <4>1 DEF Promise!Next
    <3>8. CASE /\ PhaseOf(p) \in {"working", "publishing"} /\ PhaseOf(p)' = "failed"
               /\ FileAt(Out[p])' = FileAt(Out[p])
      <4>1. Promise!Fail(p)
        BY <3>2, <3>3, <3>8 DEF Promise!Fail
      <4> QED
        BY <2>3, <4>1 DEF Promise!Next
    <3> QED
      BY <3>1, <3>4, <3>5, <3>6, <3>7, <3>8 DEF Seen
  <2> QED
    BY <2>2, <2>3
<1> QED
  BY <1>1, <1>2 DEF Next, Finished

\* Conversion implements Publication: what any run may do to its output is to
\* empty it once, extend it towards the archive, and report success of the
\* whole archive only (so2a.c:145-167, ar_writer.c:12-184).
THEOREM Implements == Spec => PublishesInOrder
<1>1. Inv /\ [Next]_vars => [Promise!Next]_<<[p \in Alone |-> PhaseOf(p)],
                                             [p \in Alone |-> FileAt(Out[p])]>>
  BY NextSeen
<1> QED
  BY <1>1, InitSeen, InvariantHolds, PTL DEF Spec, PublishesInOrder, Promise!Spec

=============================================================================
