-------------------------- MODULE ConversionProofs --------------------------
(***************************************************************************)
(* Proofs about Conversion, for any number of processes, any paths, objects*)
(* of any size and temp[] of any length.                                   *)
(***************************************************************************)
EXTENDS ConversionInvariant, SequenceTheorems, TLAPS

-----------------------------------------------------------------------------
(***************************************************************************)
(* Paths, files and writes.                                                *)
(***************************************************************************)

\* The two paths of a process are paths of the file system.
LEMMA PathsOf ==
  ASSUME NEW p \in Procs
  PROVE  Out[p] \in Paths /\ TempName(p) \in Paths
BY DEF Paths

\* A file open(2) creates.
LEMMA FreshInode ==
  ASSUME NEW x \in Paths, NEW p \in Procs, NEW r \in {"obj", "ar"}
  PROVE  /\ Fresh(x, p, r) \in Inodes
         /\ Fresh(x, p, r) # NoInode
         /\ Fresh(x, p, r).home = x
BY InodeAssumption DEF Fresh, Inodes

\* The bytes the program writes itself are bytes.
LEMMA ByteTypes ==
  /\ Magic \in Bytes
  /\ Padding \in Bytes
  /\ Hole \in Bytes
  /\ \A p \in Procs, n \in Nat : Header(p, n) \in Bytes
BY DEF Magic, Padding, Hole, Header, Byte, Bytes

\* The object built from p's input is a non-empty file of the size it has.
LEMMA ObjectType ==
  ASSUME NEW p \in Procs
  PROVE  /\ ObjLen[Input[p]] \in Nat \ {0}
         /\ Object(Input[p]) \in Seq(Bytes)
         /\ Len(Object(Input[p])) = ObjLen[Input[p]]
<1>1. ObjLen[Input[p]] \in Nat \ {0}
  BY ConversionAssumption DEF ConversionAssumption
<1>2. \A k \in 1..ObjLen[Input[p]] : Byte("obj", Input[p], k) \in Bytes
  BY DEF Byte, Bytes
<1>3. Object(Input[p]) \in [1..ObjLen[Input[p]] -> Bytes]
  BY <1>2 DEF Object
<1> QED
  BY <1>1, <1>3

\* A file after a write.
LEMMA WriteAtType ==
  ASSUME NEW s \in Seq(Bytes), NEW at \in Nat, NEW bs \in Seq(Bytes)
  PROVE  WriteAt(s, at, bs) \in Seq(Bytes)
<1> DEFINE end == IF bs = <<>> THEN 0 ELSE at + Len(bs)
           length == IF Len(s) > end THEN Len(s) ELSE end
<1>1. length \in Nat /\ end \in Nat
  OBVIOUS
<1>2. ASSUME NEW k \in 1..length, at < k, k <= end
      PROVE  k - at \in 1..Len(bs)
  BY <1>2
<1>3. \A k \in 1..length :
        (IF at < k /\ k <= end THEN bs[k - at] ELSE IF k <= Len(s) THEN s[k] ELSE Hole) \in Bytes
  BY <1>1, <1>2, ByteTypes
<1>4. WriteAt(s, at, bs) \in [1..length -> Bytes]
  BY <1>3 DEF WriteAt
<1> QED
  BY <1>1, <1>4, SMTT(60)

\* A write at the end of a file appends.
LEMMA WriteAtEnd ==
  ASSUME NEW s \in Seq(Bytes), NEW bs \in Seq(Bytes)
  PROVE  WriteAt(s, Len(s), bs) = s \o bs
<1> DEFINE end == IF bs = <<>> THEN 0 ELSE Len(s) + Len(bs)
           length == IF Len(s) > end THEN Len(s) ELSE end
           byte(k) == IF Len(s) < k /\ k <= end THEN bs[k - Len(s)]
                      ELSE IF k <= Len(s) THEN s[k] ELSE Hole
<1>1. length = Len(s) + Len(bs)
  OBVIOUS
<1>2. WriteAt(s, Len(s), bs) = [k \in 1..length |-> byte(k)]
  BY DEF WriteAt
<1>3. ASSUME NEW k \in 1..(Len(s) + Len(bs))
      PROVE  byte(k) = (s \o bs)[k]
  OBVIOUS
<1>4. WriteAt(s, Len(s), bs) \in Seq(Bytes) /\ s \o bs \in Seq(Bytes)
  BY WriteAtType, ConcatProperties, LenProperties
<1> HIDE DEF byte, length, end
<1>5. /\ Len(WriteAt(s, Len(s), bs)) = Len(s) + Len(bs)
      /\ \A k \in 1..(Len(s) + Len(bs)) : WriteAt(s, Len(s), bs)[k] = (s \o bs)[k]
  BY <1>1, <1>2, <1>3
<1> QED
  BY <1>4, <1>5, SeqEqual, SMTT(60)

\* The part of a buffer that one write transfers.
LEMMA PrefixType ==
  ASSUME NEW bs \in Seq(Bytes), NEW n \in 0..Len(bs)
  PROVE  /\ SubSeq(bs, 1, n) \in Seq(Bytes)
         /\ Len(SubSeq(bs, 1, n)) = n
         /\ n = Len(bs) => SubSeq(bs, 1, n) = bs
OBVIOUS

-----------------------------------------------------------------------------
(***************************************************************************)
(* What a step of p leaves alone: the variables of other processes, the    *)
(* directory entries and the files of other paths.                         *)
(***************************************************************************)
Frame(p) ==
  /\ \A q \in Procs \ {p} :
       /\ pc'[q] = pc[q] /\ code'[q] = code[q]
       /\ tempObj'[q] = tempObj[q] /\ held'[q] = held[q]
       /\ objfd'[q] = objfd[q] /\ arfd'[q] = arfd[q] /\ off'[q] = off[q]
       /\ size'[q] = size[q] /\ data'[q] = data[q]
  /\ \A x \in Paths \ {Out[p], TempName(p)} : dir'[x] = dir[x]
  /\ \A i \in Inodes : i.home \notin {Out[p], TempName(p)} => content'[i] = content[i]

\* What every step of p guarantees.
StepOK(p) ==
  /\ TypeOK'
  /\ HomeInv'
  /\ Frame(p)
  /\ ProcInv(p)'

\* The objects a process holds, after it takes one or releases some.
LEMMA AcquireType ==
  ASSUME NEW p \in Procs, NEW r \in Resources, TypeOK, Acquire(p, r)
  PROVE  held' \in [Procs -> SUBSET Resources]
<1>1. held[p] \union {r} \in SUBSET Resources
  BY DEF TypeOK
<1> QED
  BY <1>1 DEF Acquire, TypeOK

\* The object of a file that is read back and the archive writer are resources.
LEMMA ResourceNames ==
  \A r \in {"elf", "sections", "symtab", "relocs", "writer", "data", "ar_writer"} : r \in Resources
BY DEF Resources, Converted

\* What is left after a release is a set of resources.
LEMMA ReleaseType ==
  ASSUME NEW p \in Procs, NEW rs, TypeOK, Release(p, rs)
  PROVE  held' \in [Procs -> SUBSET Resources]
<1>1. held[p] \ rs \in SUBSET Resources
  BY DEF TypeOK
<1> QED
  BY <1>1 DEF Release, TypeOK

\* elf_parse: p holds the library or fails with nothing held.
LEMMA ParseOK ==
  ASSUME NEW p \in Procs, Inv, Parse(p)
  PROVE  StepOK(p)
<1>1. TypeOK'
  <2>1. /\ pc' \in [Procs -> Running \union Final]
        /\ code' \in [Procs -> Codes]
    BY ZenonT(60) DEF Inv, TypeOK, Parse, Fail, Goto, Running, ParseLabels, Codes
  <2>2. held' \in [Procs -> SUBSET Resources]
    BY AcquireType, ResourceNames DEF Inv, TypeOK, Parse
  <2> QED
    BY <2>1, <2>2 DEF Inv, TypeOK, Parse, fileVars
<1>2. HomeInv' /\ Frame(p)
  BY DEF Inv, TypeOK, HomeInv, Frame, Parse, Fail, Goto, Acquire, fileVars
<1>3. FdInv(p)' /\ HeldInv(p)'
  BY DEF Inv, TypeOK, ProcInv, FdInv, HeldInv, Parse, Fail, Goto, Acquire, Converted,
         ArchiveLabels, Final, fileVars
<1>4. ObjectInv(p)' /\ ArchiveInv(p)'
  BY DEF Inv, TypeOK, ObjectInv, ArchiveInv, Parse, Fail, Goto, ArchiveLabels, ObjectDone,
         ReadLabels, fileVars
<1> QED
  BY <1>1, <1>2, <1>3, <1>4 DEF StepOK, ProcInv

\* The three extract_* functions only add to what p holds.
LEMMA ExtractOK ==
  ASSUME NEW p \in Procs, Inv,
         NEW label \in ParseLabels, NEW result \in Converted,
         NEW next \in ParseLabels \union {"elf_writer_create"},
         Extract(p, label, result, next)
  PROVE  StepOK(p)
<1>1. TypeOK'
  <2>1. pc' \in [Procs -> Running \union Final]
    BY DEF Inv, TypeOK, Extract, Goto, Running, ParseLabels, ObjectLabels
  <2>2. result \in Resources
    BY DEF Resources
  <2>3. held' \in [Procs -> SUBSET Resources]
    BY <2>2, AcquireType DEF Inv, Extract
  <2> QED
    BY <2>1, <2>3 DEF Inv, TypeOK, Extract, fileVars
<1>2. HomeInv' /\ Frame(p)
  BY DEF Inv, TypeOK, HomeInv, Frame, Extract, Goto, Acquire, fileVars
<1>3. FdInv(p)' /\ HeldInv(p)'
  BY DEF Inv, TypeOK, ProcInv, FdInv, HeldInv, Extract, Goto, Acquire, Converted,
         ParseLabels, ArchiveLabels, Final, fileVars
<1>4. ObjectInv(p)' /\ ArchiveInv(p)'
  BY DEF Inv, TypeOK, ObjectInv, ArchiveInv, Extract, Goto, ParseLabels, ArchiveLabels,
         ObjectDone, ReadLabels, fileVars
<1> QED
  BY <1>1, <1>2, <1>3, <1>4 DEF StepOK, ProcInv

\* elf_writer_create: from here on p has a temporary name.
LEMMA CreateWriterOK ==
  ASSUME NEW p \in Procs, Inv, CreateWriter(p)
  PROVE  StepOK(p)
<1>1. TypeOK'
  <2>1. pc' \in [Procs -> Running \union Final] /\ tempObj' \in [Procs -> BOOLEAN]
    BY DEF Inv, TypeOK, CreateWriter, Goto, Running, ObjectLabels
  <2>2. held' \in [Procs -> SUBSET Resources]
    BY AcquireType, ResourceNames DEF Inv, CreateWriter
  <2> QED
    BY <2>1, <2>2 DEF Inv, TypeOK, CreateWriter, fileVars
<1>2. HomeInv' /\ Frame(p)
  BY DEF Inv, TypeOK, HomeInv, Frame, CreateWriter, Goto, Acquire, fileVars
<1>3. FdInv(p)' /\ HeldInv(p)'
  BY DEF Inv, TypeOK, ProcInv, FdInv, HeldInv, CreateWriter, Goto, Acquire, Converted,
         ArchiveLabels, Final, fileVars
<1>4. ObjectInv(p)' /\ ArchiveInv(p)'
  BY DEF Inv, TypeOK, ObjectInv, ArchiveInv, CreateWriter, Goto, ArchiveLabels,
         ObjectDone, ReadLabels, fileVars
<1> QED
  BY <1>1, <1>2, <1>3, <1>4 DEF StepOK, ProcInv

\* Opening the object empties the file at the temporary path, of p alone.
LEMMA OpenObjectOK ==
  ASSUME NEW p \in Procs, Inv, OpenObject(p)
  PROVE  StepOK(p)
<1> DEFINE x == TempName(p)
           i == OpenedInode(x, p, "obj")
<1>1. i \in Inodes /\ i # NoInode /\ i.home = x
  BY PathsOf, FreshInode DEF OpenedInode, Inv, TypeOK, HomeInv
<1> HIDE DEF i
<1>2. CASE /\ CreateTruncated(x, i)
           /\ objfd' = [objfd EXCEPT ![p] = i]
           /\ Goto(p, "obj_write")
           /\ UNCHANGED <<code, tempObj, held, arfd, off, size, data>>
  <2>1. TypeOK'
    <3>1. pc' \in [Procs -> Running \union Final] /\ objfd' \in [Procs -> Inodes \union {NoInode}]
      BY <1>1, <1>2 DEF Inv, TypeOK, Goto, Running, ObjectLabels
    <3>2. dir' \in [Paths -> Inodes \union {NoInode}] /\ content' \in [Inodes -> Seq(Bytes)]
      BY <1>1, <1>2, PathsOf DEF Inv, TypeOK, CreateTruncated
    <3> QED
      BY <1>2, <3>1, <3>2 DEF Inv, TypeOK
  <2>2. HomeInv' /\ Frame(p)
    BY <1>1, <1>2, PathsOf DEF Inv, TypeOK, HomeInv, Frame, CreateTruncated, Goto
  <2>3. FdInv(p)' /\ HeldInv(p)'
    BY <1>1, <1>2, ZenonT(60) DEF Inv, TypeOK, ProcInv, FdInv, HeldInv, OpenObject, Goto, ObjectLabels,
         ArchiveLabels, Final
  <2>4. ObjectInv(p)' /\ ArchiveInv(p)'
    BY <1>1, <1>2, PathsOf DEF Inv, TypeOK, ObjectInv, ArchiveInv, CreateTruncated, Goto, ArchiveLabels,
         ObjectDone, ReadLabels
  <2> QED
    BY <2>1, <2>2, <2>3, <2>4 DEF StepOK, ProcInv
<1>3. CASE /\ Fail(p, "ERR_WRITE_FAILED")
           /\ UNCHANGED <<objfd, dir, content, tempObj, held, arfd, off, size, data>>
  <2>1. TypeOK'
    BY <1>3 DEF Inv, TypeOK, Fail, Goto, Running, Codes
  <2>2. HomeInv' /\ Frame(p)
    BY <1>3 DEF Inv, TypeOK, HomeInv, Frame, Fail, Goto
  <2>3. FdInv(p)' /\ HeldInv(p)'
    BY <1>3 DEF Inv, TypeOK, ProcInv, FdInv, HeldInv, OpenObject, Fail, Goto, ArchiveLabels, Final
  <2>4. ObjectInv(p)' /\ ArchiveInv(p)'
    BY <1>3 DEF Inv, TypeOK, ObjectInv, ArchiveInv, Fail, Goto, ArchiveLabels, ObjectDone, ReadLabels
  <2> QED
    BY <2>1, <2>2, <2>3, <2>4 DEF StepOK, ProcInv
<1> QED
  BY <1>2, <1>3 DEF OpenObject, i, fileVars

\* write(2) leaves the complete object, or p fails.
LEMMA WriteObjectOK ==
  ASSUME NEW p \in Procs, Inv, WriteObject(p)
  PROVE  StepOK(p)
<1> DEFINE obj == Object(Input[p])
           i == objfd[p]
<1>1. i \in Inodes /\ i # NoInode /\ i.home = TempName(p)
  BY DEF WriteObject, Inv, TypeOK, HomeInv, ProcInv, FdInv
<1>2. obj \in Seq(Bytes)
  BY ObjectType
<1> HIDE DEF i, obj
<1>3. PICK n \in 0..Len(obj) :
        /\ content' = [content EXCEPT ![i] = WriteAt(@, 0, SubSeq(obj, 1, n))]
        /\ IF n = Len(obj) THEN Goto(p, "obj_reopen") /\ UNCHANGED code
                           ELSE Fail(p, "ERR_WRITE_FAILED")
  BY DEF WriteObject, i, obj
<1>4. WriteAt(content[i], 0, SubSeq(obj, 1, n)) \in Seq(Bytes)
  BY <1>1, <1>2, PrefixType, WriteAtType DEF Inv, TypeOK
<1>5. TypeOK'
  <2>1. /\ pc' \in [Procs -> Running \union Final]
        /\ code' \in [Procs -> Codes]
        /\ objfd' \in [Procs -> Inodes \union {NoInode}]
    BY <1>3, ZenonT(60) DEF Inv, TypeOK, WriteObject, Goto, Fail, Running, ReadLabels, Codes
  <2>2. content' \in [Inodes -> Seq(Bytes)]
    BY <1>1, <1>3, <1>4 DEF Inv, TypeOK
  <2> QED
    BY <2>1, <2>2 DEF Inv, TypeOK, WriteObject
<1>6. HomeInv' /\ Frame(p)
  BY <1>1, <1>3 DEF Inv, TypeOK, HomeInv, Frame, WriteObject, Goto, Fail
<1>7. FdInv(p)' /\ HeldInv(p)'
  <2>1. /\ pc[p] = "obj_write" /\ pc'[p] \in {"obj_reopen", "cleanup"}
        /\ objfd'[p] = NoInode /\ arfd'[p] = arfd[p] /\ held'[p] = held[p]
    BY <1>3 DEF Inv, TypeOK, WriteObject, Goto, Fail
  <2> QED
    BY <2>1 DEF Inv, ProcInv, FdInv, HeldInv, ArchiveLabels, Final
<1>8. ASSUME TempAlone(p), n = Len(obj)
      PROVE  content'[i] = obj /\ i = dir[TempName(p)]
  <2>1. content[i] = <<>> /\ i = dir[TempName(p)]
    BY <1>8 DEF Inv, ProcInv, ObjectInv, WriteObject, i
  <2>2. WriteAt(<<>>, 0, SubSeq(obj, 1, n)) = obj
    <3>1. <<>> \in Seq(Bytes) /\ Len(<<>>) = 0 /\ <<>> \o obj = obj
      BY <1>2, EmptySeq, ConcatEmptySeq
    <3>2. SubSeq(obj, 1, n) = obj
      BY <1>2, <1>8, PrefixType
    <3>3. WriteAt(<<>>, Len(<<>>), obj) = <<>> \o obj
      BY <1>2, <3>1, WriteAtEnd
    <3> QED
      BY <3>1, <3>2, <3>3
  <2> QED
    BY <1>1, <1>3, <2>1, <2>2 DEF Inv, TypeOK
<1>9. (TempAlone(p) => ObjectInv(p)') /\ ArchiveInv(p)'
  BY <1>1, <1>3, <1>8 DEF Inv, TypeOK, ObjectInv, Stores, ArchiveInv, WriteObject, Goto, Fail,
     ArchiveLabels, ObjectDone, ReadLabels, obj
<1> QED
  BY <1>5, <1>6, <1>7, <1>9 DEF StepOK, ProcInv, TempAlone

\* The file that is opened again is the one p has written.
LEMMA ReopenObjectOK ==
  ASSUME NEW p \in Procs, Inv, ReopenObject(p)
  PROVE  StepOK(p)
<1>1. TypeOK'
  BY PathsOf DEF Inv, TypeOK, ReopenObject, Fail, Goto, Running, ReadLabels, Codes, fileVars
<1>2. HomeInv' /\ Frame(p)
  BY PathsOf, ZenonT(60) DEF Inv, TypeOK, HomeInv, Frame, ReopenObject, Fail, Goto, fileVars
<1>3. FdInv(p)' /\ HeldInv(p)'
  BY ZenonT(60) DEF Inv, TypeOK, ProcInv, FdInv, HeldInv, ReopenObject, Fail, Goto, ArchiveLabels, Final
<1>4. (TempAlone(p) => ObjectInv(p)') /\ ArchiveInv(p)'
  BY ZenonT(60) DEF Inv, TypeOK, ProcInv, ObjectInv, ArchiveInv, Stores, ReopenObject, Fail, Goto,
         ArchiveLabels, ObjectDone, ReadLabels, fileVars
<1> QED
  BY <1>1, <1>2, <1>3, <1>4 DEF StepOK, ProcInv, TempAlone

\* fstat finds the size of the object.
LEMMA StatObjectOK ==
  ASSUME NEW p \in Procs, Inv, StatObject(p)
  PROVE  StepOK(p)
<1>1. objfd[p] \in Inodes /\ Len(content[objfd[p]]) \in Nat
  BY LenProperties DEF StatObject, Inv, TypeOK, ProcInv, FdInv
<1>2. TypeOK'
  <2>1. pc' \in [Procs -> Running \union Final]
    BY DEF Inv, TypeOK, StatObject, Fail, Goto, Running, ReadLabels
  <2>3. code' \in [Procs -> Codes]
    BY DEF Inv, TypeOK, StatObject, Fail, Codes
  <2>4. objfd' \in [Procs -> Inodes \union {NoInode}] /\ size' \in [Procs -> Nat]
    BY <1>1 DEF Inv, TypeOK, StatObject
  <2>2. held' \in [Procs -> SUBSET Resources]
    BY AcquireType, ResourceNames DEF Inv, TypeOK, StatObject
  <2> QED
    BY <2>1, <2>2, <2>3, <2>4 DEF Inv, TypeOK, StatObject, fileVars
<1>3. HomeInv' /\ Frame(p)
  BY ZenonT(60) DEF Inv, TypeOK, HomeInv, Frame, StatObject, Acquire, Fail, Goto, fileVars
<1>4. FdInv(p)' /\ HeldInv(p)'
  <2>1. FdInv(p)'
    BY ZenonT(60) DEF Inv, TypeOK, ProcInv, FdInv, StatObject, Fail, Goto, ArchiveLabels
  <2>2. /\ pc[p] = "obj_stat" /\ HeldInv(p)
        /\ \/ held'[p] = held[p] \union {"data"} /\ pc'[p] = "obj_read"
           \/ held'[p] = held[p] /\ pc'[p] = "cleanup"
    BY DEF Inv, TypeOK, ProcInv, StatObject, Acquire, Fail, Goto
  <2>3. HeldInv(p)'
    BY <2>2 DEF HeldInv, ArchiveLabels, Final
  <2> QED
    BY <2>1, <2>3
<1>5. ASSUME TempAlone(p)
      PROVE  Stores(TempName(p), Object(Input[p])) /\ Len(content[objfd[p]]) = ObjLen[Input[p]]
  BY <1>5, ObjectType DEF Inv, ProcInv, ObjectInv, Stores, StatObject, ObjectDone, ReadLabels
<1>6. (TempAlone(p) => ObjectInv(p)') /\ ArchiveInv(p)'
  BY <1>5, ZenonT(60) DEF Inv, TypeOK, ProcInv, ObjectInv, ArchiveInv, Stores, StatObject, Fail, Goto,
         ArchiveLabels, ObjectDone, ReadLabels, fileVars
<1> QED
  BY <1>2, <1>3, <1>4, <1>6 DEF StepOK, ProcInv, TempAlone

\* What is read back is the object.
LEMMA ReadObjectOK ==
  ASSUME NEW p \in Procs, Inv, ReadObject(p)
  PROVE  StepOK(p)
<1> DEFINE file == content[objfd[p]]
<1>1. objfd[p] \in Inodes /\ file \in Seq(Bytes) /\ size[p] \in Nat
  BY DEF ReadObject, Inv, TypeOK, ProcInv, FdInv
<1>2. ASSUME size[p] <= Len(file)
      PROVE  SubSeq(file, 1, size[p]) \in Seq(Bytes)
  BY <1>1, <1>2, PrefixType, LenProperties
<1>3. TypeOK'
  <2>1. /\ pc' \in [Procs -> Running \union Final]
        /\ code' \in [Procs -> Codes]
        /\ objfd' \in [Procs -> Inodes \union {NoInode}]
    BY DEF Inv, TypeOK, ReadObject, Fail, Goto, Running, ReadLabels, Codes
  <2>2. held' \in [Procs -> SUBSET Resources]
    BY ReleaseType DEF Inv, TypeOK, ReadObject
  <2>3. data' \in [Procs -> Seq(Bytes)]
    BY <1>2 DEF Inv, TypeOK, ReadObject
  <2> QED
    BY <2>1, <2>2, <2>3 DEF Inv, TypeOK, ReadObject, fileVars
<1>4. HomeInv' /\ Frame(p)
  BY DEF Inv, TypeOK, HomeInv, Frame, ReadObject, Release, Fail, Goto, fileVars
<1>5. FdInv(p)' /\ HeldInv(p)'
  BY DEF Inv, TypeOK, ProcInv, FdInv, HeldInv, ReadObject, Release, Fail, Goto, Converted,
         ArchiveLabels, Final
<1>6. ASSUME TempAlone(p)
      PROVE  SubSeq(file, 1, size[p]) = Object(Input[p])
  BY <1>6, ObjectType, PrefixType DEF ReadObject, Inv, ProcInv, ObjectInv, Stores, ObjectDone, ReadLabels
<1>7. (TempAlone(p) => ObjectInv(p)') /\ ArchiveInv(p)'
  BY <1>6, ZenonT(60) DEF Inv, TypeOK, ProcInv, ObjectInv, ArchiveInv, Stores, ReadObject, Fail, Goto,
         ArchiveLabels, ObjectDone, ReadLabels, fileVars
<1> QED
  BY <1>3, <1>4, <1>5, <1>7 DEF StepOK, ProcInv, TempAlone

\* Opening the archive empties the file at the output path, of p alone.
LEMMA OpenArchiveOK ==
  ASSUME NEW p \in Procs, Inv, OpenArchive(p)
  PROVE  StepOK(p)
<1> DEFINE x == Out[p]
           i == OpenedInode(x, p, "ar")
<1>1. i \in Inodes /\ i # NoInode /\ i.home = x
  BY PathsOf, FreshInode DEF OpenedInode, Inv, TypeOK, HomeInv
<1> HIDE DEF i
<1>2. CASE /\ CreateTruncated(x, i)
           /\ arfd' = [arfd EXCEPT ![p] = i]
           /\ off' = [off EXCEPT ![p] = 0]
           /\ Acquire(p, "ar_writer")
           /\ Goto(p, "ar_magic")
           /\ UNCHANGED <<code, tempObj, objfd, size, data>>
  <2>1. TypeOK'
    <3>1. /\ pc' \in [Procs -> Running \union Final]
          /\ arfd' \in [Procs -> Inodes \union {NoInode}]
          /\ off' \in [Procs -> Nat]
      BY <1>1, <1>2 DEF Inv, TypeOK, Goto, Running, ArchiveLabels
    <3>2. dir' \in [Paths -> Inodes \union {NoInode}] /\ content' \in [Inodes -> Seq(Bytes)]
      BY <1>1, <1>2, PathsOf DEF Inv, TypeOK, CreateTruncated
    <3>3. held' \in [Procs -> SUBSET Resources]
      BY <1>2, AcquireType, ResourceNames DEF Inv
    <3> QED
      BY <1>2, <3>1, <3>2, <3>3 DEF Inv, TypeOK
  <2>2. HomeInv' /\ Frame(p)
    BY <1>1, <1>2, PathsOf DEF Inv, TypeOK, HomeInv, Frame, CreateTruncated, Acquire, Goto
  <2>3. FdInv(p)' /\ HeldInv(p)'
    BY <1>1, <1>2, ZenonT(60) DEF Inv, TypeOK, ProcInv, FdInv, HeldInv, OpenArchive, Acquire, Goto,
       ArchiveLabels, Final
  <2>4. ASSUME TempAlone(p)
        PROVE  ObjectInv(p)'
    <3>1. /\ Stores(TempName(p), Object(Input[p]))
          /\ size[p] = ObjLen[Input[p]] /\ data[p] = Object(Input[p])
      BY <2>4 DEF Inv, ProcInv, ObjectInv, OpenArchive, ObjectDone
    <3>2. Stores(TempName(p), Object(Input[p]))'
      BY <1>1, <1>2, <2>4, <3>1, PathsOf
         DEF Inv, TypeOK, HomeInv, TempAlone, Stores, CreateTruncated
    <3> QED
      BY <1>2, <3>1, <3>2 DEF Inv, TypeOK, ObjectInv, Goto
  <2>5. ArchiveInv(p)'
    <3>1. arfd'[p] = dir'[Out[p]] /\ content'[arfd'[p]] = <<>> /\ off'[p] = 0 /\ pc'[p] = "ar_magic"
      BY <1>1, <1>2, PathsOf DEF Inv, TypeOK, CreateTruncated, Goto
    <3> QED
      BY <3>1, EmptySeq DEF ArchiveInv, Written
  <2> QED
    BY <2>1, <2>2, <2>3, <2>4, <2>5 DEF StepOK, ProcInv, TempAlone
<1>3. CASE /\ Fail(p, "ERR_WRITE_FAILED")
           /\ Release(p, {"data"})
           /\ UNCHANGED <<arfd, off, dir, content, tempObj, objfd, size, data>>
  <2>1. TypeOK'
    <3>1. pc' \in [Procs -> Running \union Final] /\ code' \in [Procs -> Codes]
      BY <1>3 DEF Inv, TypeOK, Fail, Goto, Running, Codes
    <3>2. held' \in [Procs -> SUBSET Resources]
      BY <1>3, ReleaseType DEF Inv
    <3> QED
      BY <1>3, <3>1, <3>2 DEF Inv, TypeOK
  <2>2. HomeInv' /\ Frame(p)
    BY <1>3 DEF Inv, TypeOK, HomeInv, Frame, Release, Fail, Goto
  <2>3. FdInv(p)' /\ HeldInv(p)'
    BY <1>3 DEF Inv, TypeOK, ProcInv, FdInv, HeldInv, OpenArchive, Release, Fail, Goto, ArchiveLabels, Final
  <2>4. ObjectInv(p)' /\ ArchiveInv(p)'
    BY <1>3 DEF Inv, TypeOK, ObjectInv, ArchiveInv, Fail, Goto, ArchiveLabels, ObjectDone, ReadLabels
  <2> QED
    BY <2>1, <2>2, <2>3, <2>4 DEF StepOK, ProcInv
<1> QED
  BY <1>2, <1>3 DEF OpenArchive, i, fileVars

\* After the step the archive holds the present value of s.
WrittenNext(p, s) == content'[arfd'[p]] = s /\ off'[p] = Len(s)

\* One write to the archive has appended bs, or has failed.
Wrote(p, bs, next, done) ==
  \/ /\ pc'[p] = next
     /\ held'[p] = held[p] \ done
     /\ arfd[p] = dir[Out[p]] => arfd'[p] = dir'[Out[p]]
     /\ \A s \in Seq(Bytes) : Written(p, s) => WrittenNext(p, s \o bs)
  \/ /\ pc'[p] = "cleanup"
     /\ code'[p] # "ERR_OK"
     /\ held'[p] = held[p] \ ArchiveObjects

\* What every write to the archive guarantees, whatever it writes.
WriteOK(p) ==
  /\ TypeOK' /\ HomeInv' /\ Frame(p) /\ FdInv(p)'
  /\ TempAlone(p) => ObjectInv(p)'

\* One of the four writes of the archive, given what it leaves at `next`.
LEMMA ArchiveWriteOK ==
  ASSUME NEW p \in Procs, Inv,
         NEW label \in {"ar_magic", "ar_header", "ar_data", "ar_pad"},
         NEW next \in {"ar_header", "ar_data", "ar_pad", "ar_finalize"},
         NEW bs \in Seq(Bytes), NEW done,
         ArchiveWrite(p, label, bs, next, done)
  PROVE  WriteOK(p) /\ Wrote(p, bs, next, done)
<1> DEFINE i == arfd[p]
<1>1. i \in Inodes /\ i # NoInode /\ i.home = Out[p]
  BY DEF ArchiveWrite, Inv, TypeOK, HomeInv, ProcInv, FdInv, ArchiveLabels
<1> HIDE DEF i
<1>2. PICK n \in 0..Len(bs) :
        /\ content' = [content EXCEPT ![i] = WriteAt(@, off[p], SubSeq(bs, 1, n))]
        /\ off' = [off EXCEPT ![p] = @ + n]
        /\ \/ /\ n = Len(bs)
              /\ Release(p, done)
              /\ Goto(p, next)
              /\ UNCHANGED <<code, arfd>>
           \/ /\ Release(p, ArchiveObjects)
              /\ arfd' = [arfd EXCEPT ![p] = NoInode]
              /\ Fail(p, "ERR_WRITE_FAILED")
  BY DEF ArchiveWrite, i
<1>3. n \in Nat /\ off[p] \in Nat
  BY <1>2, LenProperties DEF Inv, TypeOK
<1>4. WriteAt(content[i], off[p], SubSeq(bs, 1, n)) \in Seq(Bytes)
  BY <1>1, <1>3, PrefixType, WriteAtType DEF Inv, TypeOK
<1>5. TypeOK'
  <2>1. /\ pc' \in [Procs -> Running \union Final]
        /\ code' \in [Procs -> Codes]
        /\ arfd' \in [Procs -> Inodes \union {NoInode}]
    BY <1>2 DEF Inv, TypeOK, Goto, Fail, Running, ArchiveLabels, Codes
  <2>4. off' \in [Procs -> Nat]
    BY <1>2, <1>3 DEF Inv, TypeOK
  <2>2. held' \in [Procs -> SUBSET Resources]
    BY <1>2, ReleaseType DEF Inv
  <2>3. content' \in [Inodes -> Seq(Bytes)]
    BY <1>1, <1>2, <1>4 DEF Inv, TypeOK
  <2> QED
    BY <2>1, <2>2, <2>3, <2>4 DEF Inv, TypeOK, ArchiveWrite
<1>6. HomeInv' /\ Frame(p)
  BY <1>1, <1>2, ZenonT(60) DEF Inv, TypeOK, HomeInv, Frame, ArchiveWrite, Release, Goto, Fail
<1>7. FdInv(p)'
  <2>1. /\ pc[p] = label /\ objfd' = objfd /\ arfd[p] # NoInode /\ FdInv(p)
        /\ \/ pc'[p] = next /\ arfd'[p] = arfd[p]
           \/ pc'[p] = "cleanup" /\ arfd'[p] = NoInode
    BY <1>1, <1>2 DEF Inv, TypeOK, ProcInv, ArchiveWrite, Goto, Fail, i
  <2> QED
    BY <2>1 DEF FdInv, ArchiveLabels
<1>8. ASSUME TempAlone(p)
      PROVE  ObjectInv(p)'
  <2>1. /\ Stores(TempName(p), Object(Input[p]))
        /\ size[p] = ObjLen[Input[p]] /\ data[p] = Object(Input[p])
    BY <1>8 DEF Inv, ProcInv, ObjectInv, ArchiveWrite, ObjectDone, ArchiveLabels
  <2>2. Stores(TempName(p), Object(Input[p]))'
    BY <1>1, <1>2, <1>8, <2>1, PathsOf DEF Inv, TypeOK, HomeInv, TempAlone, Stores, ArchiveWrite
  <2>3. pc'[p] \in ArchiveLabels \union {"cleanup"} /\ size' = size /\ data' = data
    BY <1>2 DEF Inv, TypeOK, ArchiveWrite, Goto, Fail, ArchiveLabels
  <2> QED
    BY <2>1, <2>2, <2>3 DEF ObjectInv, ArchiveLabels
<1>9. CASE n = Len(bs) /\ Release(p, done) /\ Goto(p, next) /\ UNCHANGED <<code, arfd>>
  <2>1. ASSUME NEW s \in Seq(Bytes), Written(p, s)
        PROVE  WrittenNext(p, s \o bs)
    <3>1. content[i] = s /\ off[p] = Len(s)
      BY <2>1 DEF Written, i
    <3>2. SubSeq(bs, 1, n) = bs
      BY <1>9, PrefixType
    <3>3. content'[i] = s \o bs
      BY <1>1, <1>2, <3>1, <3>2, WriteAtEnd DEF Inv, TypeOK
    <3>4. off'[p] = Len(s \o bs)
      BY <1>2, <1>9, <3>1, ConcatProperties DEF Inv, TypeOK
    <3> QED
      BY <1>9, <3>3, <3>4 DEF WrittenNext, i
  <2>2. pc'[p] = next /\ held'[p] = held[p] \ done /\ arfd' = arfd /\ dir' = dir
    BY <1>9 DEF Inv, TypeOK, Release, Goto, ArchiveWrite
  <2> QED
    BY <1>5, <1>6, <1>7, <1>8, <2>1, <2>2 DEF WriteOK, Wrote
<1>10. CASE Release(p, ArchiveObjects) /\ Fail(p, "ERR_WRITE_FAILED")
  <2>1. pc'[p] = "cleanup" /\ code'[p] # "ERR_OK" /\ held'[p] = held[p] \ ArchiveObjects
    BY <1>10 DEF Inv, TypeOK, Release, Goto, Fail
  <2> QED
    BY <1>5, <1>6, <1>7, <1>8, <2>1 DEF WriteOK, Wrote
<1> QED
  BY <1>2, <1>9, <1>10

\* The parts of an archive.
LEMMA ArchiveParts ==
  ASSUME NEW p \in Procs
  PROVE  LET head == Header(p, ObjLen[Input[p]])
             obj == Object(Input[p])
             pad == PadOf(ObjLen[Input[p]])
         IN  /\ <<Magic>> \in Seq(Bytes) /\ <<head>> \in Seq(Bytes) /\ <<Magic, head>> \in Seq(Bytes)
             /\ pad \in Seq(Bytes)
             /\ <<Magic, head>> \o obj \in Seq(Bytes)
             /\ <<>> \o <<Magic>> = <<Magic>>
             /\ <<Magic>> \o <<head>> = <<Magic, head>>
             /\ Archive(p) = (<<Magic, head>> \o obj) \o pad
             /\ ObjLen[Input[p]] % 2 = 0 => Archive(p) = <<Magic, head>> \o obj
<1> DEFINE head == Header(p, ObjLen[Input[p]])
           obj == Object(Input[p])
           pad == PadOf(ObjLen[Input[p]])
<1>1. head \in Bytes /\ Magic \in Bytes /\ Padding \in Bytes /\ obj \in Seq(Bytes)
  BY ByteTypes, ObjectType
<1>2. pad \in Seq(Bytes) /\ (ObjLen[Input[p]] % 2 = 0 => pad = <<>>)
  BY <1>1, EmptySeq DEF PadOf
<1>3. Archive(p) = (<<Magic, head>> \o obj) \o pad
  BY DEF Archive
<1> HIDE DEF head, obj, pad
<1>4. /\ <<Magic>> \in Seq(Bytes) /\ <<head>> \in Seq(Bytes) /\ <<Magic, head>> \in Seq(Bytes)
      /\ <<>> \o <<Magic>> = <<Magic>>
      /\ <<Magic>> \o <<head>> = <<Magic, head>>
  <2>1. <<Magic>> \in Seq(Bytes) /\ <<head>> \in Seq(Bytes) /\ <<Magic, head>> \in Seq(Bytes)
    BY <1>1
  <2>2. <<>> \o <<Magic>> = <<Magic>>
    BY <2>1, ConcatEmptySeq
  <2>3. <<Magic>> \o <<head>> = <<Magic, head>>
    <3>1. /\ <<Magic>> \o <<head>> \in Seq(Bytes)
          /\ Len(<<Magic>> \o <<head>>) = Len(<<Magic, head>>)
          /\ \A k \in 1..2 : (<<Magic>> \o <<head>>)[k] = <<Magic, head>>[k]
      BY <2>1, ConcatProperties
    <3> QED
      BY <2>1, <3>1, SeqEqual
  <2> QED
    BY <2>1, <2>2, <2>3
<1>5. <<Magic, head>> \o obj \in Seq(Bytes)
  BY <1>1, <1>4, ConcatProperties
<1>6. ObjLen[Input[p]] % 2 = 0 => Archive(p) = <<Magic, head>> \o obj
  BY <1>2, <1>3, <1>5, ConcatEmptySeq
<1> QED
  BY <1>2, <1>3, <1>4, <1>5, <1>6 DEF head, obj, pad

\* The magic.
LEMMA WriteMagicOK ==
  ASSUME NEW p \in Procs, Inv, WriteMagic(p)
  PROVE  StepOK(p)
<1>1. ArchiveWrite(p, "ar_magic", <<Magic>>, "ar_header", {}) /\ <<Magic>> \in Seq(Bytes)
  BY ArchiveParts DEF WriteMagic
<1>2. pc[p] = "ar_magic" /\ WriteOK(p) /\ Wrote(p, <<Magic>>, "ar_header", {})
  BY <1>1, ArchiveWriteOK, ZenonT(60) DEF ArchiveWrite
<1>3. HeldInv(p)'
  BY <1>2 DEF Inv, ProcInv, HeldInv, Wrote, ArchiveObjects, ArchiveLabels, Final
<1>4. ASSUME TempAlone(p), OutputAlone(p)
      PROVE  ArchiveInv(p)'
  <2>1. arfd[p] = dir[Out[p]] /\ Written(p, <<>>) /\ <<>> \in Seq(Bytes)
    BY <1>2, <1>4, EmptySeq DEF Inv, ProcInv, ArchiveInv, ArchiveLabels
  <2>2. \/ pc'[p] = "ar_header" /\ arfd'[p] = dir'[Out[p]] /\ WrittenNext(p, <<>> \o <<Magic>>)
        \/ pc'[p] = "cleanup" /\ code'[p] # "ERR_OK"
    BY <1>2, <2>1 DEF Wrote
  <2> QED
    BY <2>2, ArchiveParts DEF ArchiveInv, ArchiveLabels, Written, WrittenNext
<1> QED
  BY <1>2, <1>3, <1>4 DEF StepOK, WriteOK, ProcInv, TempAlone, OutputAlone

\* The member header.
LEMMA WriteHeaderOK ==
  ASSUME NEW p \in Procs, Inv, WriteHeader(p)
  PROVE  StepOK(p)
<1> DEFINE head == Header(p, size[p])
<1>1. ArchiveWrite(p, "ar_header", <<head>>, "ar_data", {}) /\ <<head>> \in Seq(Bytes)
  BY ByteTypes DEF WriteHeader, Inv, TypeOK
<1> HIDE DEF head
<1>2. pc[p] = "ar_header" /\ WriteOK(p) /\ Wrote(p, <<head>>, "ar_data", {})
  BY <1>1, ArchiveWriteOK, ZenonT(60) DEF ArchiveWrite
<1>3. HeldInv(p)'
  BY <1>2 DEF Inv, ProcInv, HeldInv, Wrote, ArchiveObjects, ArchiveLabels, Final
<1>4. ASSUME TempAlone(p), OutputAlone(p)
      PROVE  ArchiveInv(p)'
  <2>1. arfd[p] = dir[Out[p]] /\ Written(p, <<Magic>>) /\ <<Magic>> \in Seq(Bytes)
    BY <1>2, <1>4, ArchiveParts DEF Inv, ProcInv, ArchiveInv, ArchiveLabels
  <2>2. head = Header(p, ObjLen[Input[p]])
    BY <1>2, <1>4 DEF Inv, ProcInv, ObjectInv, ArchiveLabels, head
  <2>3. \/ pc'[p] = "ar_data" /\ arfd'[p] = dir'[Out[p]] /\ WrittenNext(p, <<Magic>> \o <<head>>)
        \/ pc'[p] = "cleanup" /\ code'[p] # "ERR_OK"
    BY <1>2, <2>1 DEF Wrote
  <2>4. <<Magic>> \o <<head>> = <<Magic, Header(p, ObjLen[Input[p]])>>
    BY <2>2, ArchiveParts
  <2> QED
    BY <2>3, <2>4 DEF ArchiveInv, ArchiveLabels, Written, WrittenNext
<1> QED
  BY <1>2, <1>3, <1>4 DEF StepOK, WriteOK, ProcInv, TempAlone, OutputAlone

\* The object, padded next when its size is odd.
LEMMA WriteDataOK ==
  ASSUME NEW p \in Procs, Inv, WriteData(p)
  PROVE  StepOK(p)
<1> DEFINE opened == <<Magic, Header(p, ObjLen[Input[p]])>>
           next == IF size[p] % 2 # 0 THEN "ar_pad" ELSE "ar_finalize"
           done == IF size[p] % 2 # 0 THEN {} ELSE {"data"}
<1>1. ArchiveWrite(p, "ar_data", data[p], next, done) /\ data[p] \in Seq(Bytes)
  BY DEF WriteData, Inv, TypeOK
<1>2. pc[p] = "ar_data" /\ WriteOK(p) /\ Wrote(p, data[p], next, done)
  BY <1>1, ArchiveWriteOK DEF ArchiveWrite
<1>3. HeldInv(p)'
  BY <1>2 DEF Inv, ProcInv, HeldInv, Wrote, ArchiveObjects, ArchiveLabels, Final
<1>4. ASSUME TempAlone(p), OutputAlone(p)
      PROVE  ArchiveInv(p)'
  <2>1. /\ arfd[p] = dir[Out[p]] /\ Written(p, opened) /\ opened \in Seq(Bytes)
        /\ data[p] = Object(Input[p]) /\ size[p] = ObjLen[Input[p]]
    BY <1>2, <1>4, ArchiveParts DEF Inv, ProcInv, ObjectInv, ArchiveInv, ArchiveLabels
  <2> HIDE DEF next, done, opened
  <2>2. \/ /\ pc'[p] = next /\ arfd'[p] = dir'[Out[p]]
           /\ WrittenNext(p, opened \o Object(Input[p]))
        \/ pc'[p] = "cleanup" /\ code'[p] # "ERR_OK"
    BY <1>2, <2>1 DEF Wrote
  <2>3. CASE size[p] % 2 # 0
    BY <2>1, <2>2, <2>3 DEF ArchiveInv, ArchiveLabels, Written, WrittenNext, opened, next
  <2>4. CASE ~(size[p] % 2 # 0)
    <3>1. Archive(p) = opened \o Object(Input[p])
      BY <2>1, <2>4, ArchiveParts DEF opened
    <3> QED
      BY <2>2, <2>4, <3>1 DEF ArchiveInv, ArchiveLabels, Written, WrittenNext, next
  <2> QED
    BY <2>3, <2>4
<1> QED
  BY <1>2, <1>3, <1>4 DEF StepOK, WriteOK, ProcInv, TempAlone, OutputAlone

\* The padding completes the archive.
LEMMA WritePaddingOK ==
  ASSUME NEW p \in Procs, Inv, WritePadding(p)
  PROVE  StepOK(p)
<1> DEFINE pad == PadOf(size[p])
           member == <<Magic, Header(p, ObjLen[Input[p]])>> \o Object(Input[p])
<1>1. ArchiveWrite(p, "ar_pad", pad, "ar_finalize", {"data"}) /\ pad \in Seq(Bytes)
  BY ByteTypes, EmptySeq DEF WritePadding, PadOf
<1> HIDE DEF pad, member
<1>2. pc[p] = "ar_pad" /\ WriteOK(p) /\ Wrote(p, pad, "ar_finalize", {"data"})
  BY <1>1, ArchiveWriteOK DEF ArchiveWrite
<1>3. HeldInv(p)'
  BY <1>2 DEF Inv, ProcInv, HeldInv, Wrote, ArchiveObjects, ArchiveLabels, Final
<1>4. ASSUME TempAlone(p), OutputAlone(p)
      PROVE  ArchiveInv(p)'
  <2>1. /\ arfd[p] = dir[Out[p]] /\ Written(p, member) /\ member \in Seq(Bytes)
        /\ size[p] = ObjLen[Input[p]]
    BY <1>2, <1>4, ArchiveParts DEF Inv, ProcInv, ObjectInv, ArchiveInv, ArchiveLabels, member
  <2>2. member \o pad = Archive(p)
    BY <2>1, ArchiveParts DEF member, pad
  <2>3. \/ pc'[p] = "ar_finalize" /\ arfd'[p] = dir'[Out[p]] /\ WrittenNext(p, member \o pad)
        \/ pc'[p] = "cleanup" /\ code'[p] # "ERR_OK"
    BY <1>2, <2>1 DEF Wrote
  <2> QED
    BY <2>2, <2>3 DEF ArchiveInv, ArchiveLabels, Written, WrittenNext
<1> QED
  BY <1>2, <1>3, <1>4 DEF StepOK, WriteOK, ProcInv, TempAlone, OutputAlone

\* ar_writer_finalize keeps the archive and closes it.
LEMMA FinalizeOK ==
  ASSUME NEW p \in Procs, Inv, Finalize(p)
  PROVE  StepOK(p)
<1>1. TypeOK'
  <2>1. /\ pc' \in [Procs -> Running \union Final]
        /\ code' \in [Procs -> Codes]
        /\ arfd' \in [Procs -> Inodes \union {NoInode}]
    BY DEF Inv, TypeOK, Finalize, Goto, Running, Codes
  <2>2. held' \in [Procs -> SUBSET Resources]
    BY ReleaseType DEF Inv, Finalize
  <2> QED
    BY <2>1, <2>2 DEF Inv, TypeOK, Finalize, fileVars
<1>2. HomeInv' /\ Frame(p)
  BY DEF Inv, TypeOK, HomeInv, Frame, Finalize, Release, Goto, fileVars
<1>3. FdInv(p)' /\ HeldInv(p)'
  BY DEF Inv, TypeOK, ProcInv, FdInv, HeldInv, Finalize, Release, Goto, ArchiveLabels, Final
<1>4. ASSUME TempAlone(p)
      PROVE  ObjectInv(p)'
  BY <1>4 DEF Inv, TypeOK, ProcInv, ObjectInv, Stores, Finalize, Goto, ArchiveLabels,
     ObjectDone, ReadLabels, fileVars
<1>5. ASSUME TempAlone(p), OutputAlone(p)
      PROVE  ArchiveInv(p)'
  <2>1. Stores(Out[p], Archive(p))
    BY <1>5 DEF Inv, ProcInv, FdInv, ArchiveInv, Written, Stores, Finalize, ArchiveLabels
  <2> QED
    BY <2>1 DEF Inv, TypeOK, ArchiveInv, Stores, Finalize, Goto, ArchiveLabels, fileVars
<1> QED
  BY <1>1, <1>2, <1>3, <1>4, <1>5 DEF StepOK, ProcInv, TempAlone, OutputAlone

\* `cleanup` unlinks the temporary file of p and no other file.
LEMMA CleanupOK ==
  ASSUME NEW p \in Procs, Inv, Cleanup(p)
  PROVE  StepOK(p)
<1>1. /\ \A x \in Paths : x \notin Unlinked(p) => dir'[x] = dir[x]
      /\ \A x \in Paths : x \in Unlinked(p) => dir'[x] = NoInode
      /\ \A x \in Unlinked(p) : x = TempName(p)
      /\ TempName(p) \in Unlinked(p) <=> tempObj[p] /\ p \notin Keep
  BY DEF Cleanup, Unlinked
<1>2. TypeOK'
  <2>1. pc' \in [Procs -> Running \union Final]
    BY DEF Inv, TypeOK, Cleanup, Goto, Final
  <2>2. held' \in [Procs -> SUBSET Resources]
    BY ReleaseType DEF Inv, Cleanup
  <2>3. dir' \in [Paths -> Inodes \union {NoInode}]
    BY DEF Inv, TypeOK, Cleanup
  <2> QED
    BY <2>1, <2>2, <2>3 DEF Inv, TypeOK, Cleanup
<1>3. HomeInv'
  BY <1>1 DEF Inv, TypeOK, HomeInv, Cleanup
<1>4. Frame(p)
  BY <1>1 DEF Inv, TypeOK, Frame, Cleanup, Release, Goto
<1>5. FdInv(p)' /\ HeldInv(p)'
  BY ZenonT(60) DEF Inv, TypeOK, ProcInv, FdInv, HeldInv, Cleanup, Release, Goto, Converted, ArchiveLabels, Final
<1>6. ASSUME TempAlone(p)
      PROVE  ObjectInv(p)'
  <2>1. code[p] = "ERR_OK" => Stores(TempName(p), Object(Input[p]))
    BY <1>6 DEF Inv, ProcInv, ObjectInv, Cleanup
  <2> QED
    BY <1>1, <2>1, PathsOf DEF Inv, TypeOK, ObjectInv, Stores, Cleanup, Goto, ObjectDone,
       ReadLabels, ArchiveLabels
<1>7. ASSUME TempAlone(p), OutputAlone(p)
      PROVE  ArchiveInv(p)'
  <2>1. code[p] = "ERR_OK" => Stores(Out[p], Archive(p))
    BY <1>7 DEF Inv, ProcInv, ArchiveInv, Cleanup
  <2>2. dir'[Out[p]] = dir[Out[p]]
    BY <1>1, <1>7, PathsOf DEF TempAlone
  <2> QED
    BY <2>1, <2>2 DEF Inv, TypeOK, ArchiveInv, Stores, Cleanup, Goto, ArchiveLabels
<1> QED
  BY <1>2, <1>3, <1>4, <1>5, <1>6, <1>7 DEF StepOK, ProcInv, TempAlone, OutputAlone

\* exit() and a kill.
LEMMA VanishOK ==
  ASSUME NEW p \in Procs, Inv, NEW how \in {"exited", "killed"}, Vanish(p, how),
         code' \in [Procs -> Codes], \A q \in Procs \ {p} : code'[q] = code[q],
         UNCHANGED <<tempObj, off, size, data, dir, content>>
  PROVE  StepOK(p)
<1>1. TypeOK'
  <2>1. /\ pc' \in [Procs -> Running \union Final]
        /\ objfd' \in [Procs -> Inodes \union {NoInode}]
        /\ arfd' \in [Procs -> Inodes \union {NoInode}]
    BY DEF Inv, TypeOK, Vanish, Goto, Final
  <2>2. held' \in [Procs -> SUBSET Resources]
    BY DEF Inv, TypeOK, Vanish
  <2> QED
    BY <2>1, <2>2 DEF Inv, TypeOK
<1>2. HomeInv' /\ Frame(p)
  BY DEF Inv, TypeOK, HomeInv, Frame, Vanish, Goto
<1>3. FdInv(p)' /\ HeldInv(p)'
  BY DEF Inv, TypeOK, FdInv, HeldInv, Vanish, Goto, ArchiveLabels, Final
<1>4. ObjectInv(p)' /\ ArchiveInv(p)'
  BY DEF Inv, TypeOK, ObjectInv, ArchiveInv, Vanish, Goto, ArchiveLabels, ObjectDone, ReadLabels
<1> QED
  BY <1>1, <1>2, <1>3, <1>4 DEF StepOK, ProcInv

-----------------------------------------------------------------------------
(***************************************************************************)
(* Every step, and every process.                                          *)
(***************************************************************************)

\* Every step of p leaves p where its part of the invariant says.
LEMMA EveryStepOK ==
  ASSUME NEW p \in Procs, Inv, Step(p) \/ Kill(p)
  PROVE  StepOK(p)
<1>1. CASE Parse(p)
  BY <1>1, ParseOK
<1>2. CASE ExtractSections(p) \/ ExtractSymbols(p) \/ ExtractRelocations(p)
  BY <1>2, ExtractOK DEF ExtractSections, ExtractSymbols, ExtractRelocations, ParseLabels, Converted
<1>3. CASE CreateWriter(p)
  BY <1>3, CreateWriterOK
<1>4. CASE OpenObject(p)
  BY <1>4, OpenObjectOK
<1>5. CASE WriteObject(p)
  BY <1>5, WriteObjectOK
<1>6. CASE ReopenObject(p)
  BY <1>6, ReopenObjectOK
<1>7. CASE StatObject(p)
  BY <1>7, StatObjectOK
<1>8. CASE ReadObject(p)
  BY <1>8, ReadObjectOK
<1>9. CASE OpenArchive(p)
  BY <1>9, OpenArchiveOK
<1>10. CASE WriteMagic(p)
  BY <1>10, WriteMagicOK
<1>11. CASE WriteHeader(p)
  BY <1>11, WriteHeaderOK
<1>12. CASE WriteData(p)
  BY <1>12, WriteDataOK
<1>13. CASE WritePadding(p)
  BY <1>13, WritePaddingOK
<1>14. CASE Finalize(p)
  BY <1>14, FinalizeOK
<1>15. CASE Cleanup(p)
  BY <1>15, CleanupOK
<1>16. CASE OutOfMemory(p)
  BY <1>16, VanishOK DEF OutOfMemory, Inv, TypeOK, Codes, fileVars
<1>17. CASE Kill(p)
  BY <1>17, VanishOK DEF Kill, Inv, TypeOK, fileVars
<1> QED
  BY <1>1, <1>2, <1>3, <1>4, <1>5, <1>6, <1>7, <1>8, <1>9, <1>10, <1>11, <1>12, <1>13,
     <1>14, <1>15, <1>16, <1>17 DEF Step

\* A step of p keeps what the invariant says of the other processes.
LEMMA OthersOK ==
  ASSUME NEW p \in Procs, NEW q \in Procs \ {p}, Inv, StepOK(p)
  PROVE  ProcInv(q)'
<1>1. /\ pc'[q] = pc[q] /\ code'[q] = code[q]
      /\ tempObj'[q] = tempObj[q] /\ held'[q] = held[q]
      /\ objfd'[q] = objfd[q] /\ arfd'[q] = arfd[q] /\ off'[q] = off[q]
      /\ size'[q] = size[q] /\ data'[q] = data[q]
  BY DEF StepOK, Frame
<1>2. FdInv(q)' /\ HeldInv(q)'
  BY <1>1 DEF Inv, ProcInv, FdInv, HeldInv
<1>3. ASSUME NEW x \in Paths, x \notin {Out[p], TempName(p)}
      PROVE  /\ dir'[x] = dir[x]
             /\ dir[x] # NoInode => content'[dir[x]] = content[dir[x]]
  <2>1. dir[x] # NoInode => dir[x] \in Inodes /\ dir[x].home = x
    BY DEF Inv, TypeOK, HomeInv
  <2> QED
    BY <1>3, <2>1 DEF StepOK, Frame
<1>4. ASSUME TempAlone(q)
      PROVE  ObjectInv(q)'
  <2>1. /\ dir'[TempName(q)] = dir[TempName(q)]
        /\ dir[TempName(q)] # NoInode =>
             content'[dir[TempName(q)]] = content[dir[TempName(q)]]
    BY <1>3, <1>4, PathsOf DEF TempAlone
  <2>2. ObjectInv(q) /\ FdInv(q)
    BY <1>4 DEF Inv, ProcInv
  <2>3. pc[q] = "obj_write" => content'[objfd[q]] = <<>>
    BY <2>1, <2>2 DEF ObjectInv, FdInv
  <2> QED
    BY <1>1, <2>1, <2>2, <2>3 DEF ObjectInv, Stores
<1>5. ASSUME TempAlone(q), OutputAlone(q)
      PROVE  ArchiveInv(q)'
  <2>1. /\ dir'[Out[q]] = dir[Out[q]]
        /\ dir[Out[q]] # NoInode => content'[dir[Out[q]]] = content[dir[Out[q]]]
    BY <1>3, <1>5, PathsOf DEF OutputAlone
  <2>2. ArchiveInv(q) /\ FdInv(q)
    BY <1>5 DEF Inv, ProcInv
  <2>3. pc[q] \in ArchiveLabels => content'[arfd[q]] = content[arfd[q]]
    BY <2>1, <2>2 DEF ArchiveInv, FdInv
  <2> QED
    BY <1>1, <2>1, <2>2, <2>3 DEF ArchiveInv, Written, Stores, ArchiveLabels
<1> QED
  BY <1>2, <1>4, <1>5 DEF ProcInv, TempAlone, OutputAlone

\* The invariant holds of the initial states.
LEMMA InitInv == Init => Inv
<1> SUFFICES ASSUME Init
             PROVE  Inv
  OBVIOUS
<1>1. PICK stale \in SUBSET Paths :
        dir = [x \in Paths |-> IF x \in stale THEN Fresh(x, Nobody, "old") ELSE NoInode]
  BY DEF Init
<1>2. \A x \in Paths : /\ Fresh(x, Nobody, "old") \in Inodes
                       /\ Fresh(x, Nobody, "old").home = x
  BY DEF Fresh, Inodes
<1>3. TypeOK
  <2>1. dir \in [Paths -> Inodes \union {NoInode}]
    BY <1>1, <1>2
  <2>2. content \in [Inodes -> Seq(Bytes)]
    BY StaleAssumption, EmptySeq DEF Init, StaleAssumption
  <2>3. data \in [Procs -> Seq(Bytes)]
    BY EmptySeq DEF Init
  <2>4. held \in [Procs -> SUBSET Resources]
    BY DEF Init
  <2> QED
    BY <2>1, <2>2, <2>3, <2>4 DEF Init, TypeOK, Running, ParseLabels, Codes
<1>4. HomeInv
  BY <1>1, <1>2 DEF Init, HomeInv
<1>5. ASSUME NEW p \in Procs
      PROVE  ProcInv(p)
  BY DEF Init, ProcInv, FdInv, HeldInv, ObjectInv, ArchiveInv, ObjectDone, ReadLabels,
     ArchiveLabels, Final
<1> QED
  BY <1>3, <1>4, <1>5 DEF Inv

\* Every step keeps the invariant.
LEMMA NextInv == Inv /\ [Next]_vars => Inv'
<1> SUFFICES ASSUME Inv, [Next]_vars
             PROVE  Inv'
  OBVIOUS
<1>1. CASE \E p \in Procs : Step(p) \/ Kill(p)
  <2>1. PICK p \in Procs : Step(p) \/ Kill(p)
    BY <1>1
  <2>2. StepOK(p)
    BY <2>1, EveryStepOK
  <2>3. \A q \in Procs \ {p} : ProcInv(q)'
    BY <2>2, OthersOK
  <2> QED
    BY <2>2, <2>3 DEF StepOK, Inv
<1>2. CASE UNCHANGED vars
  <2>1. TypeOK' /\ HomeInv'
    BY <1>2 DEF vars, Inv, TypeOK, HomeInv
  <2>2. ASSUME NEW p \in Procs
        PROVE  ProcInv(p)'
    <3>1. FdInv(p)' /\ HeldInv(p)'
      BY <1>2 DEF vars, Inv, ProcInv, FdInv, HeldInv
    <3>2. TempAlone(p) => ObjectInv(p)'
      BY <1>2 DEF vars, Inv, ProcInv, ObjectInv, Stores
    <3>3. TempAlone(p) /\ OutputAlone(p) => ArchiveInv(p)'
      BY <1>2 DEF vars, Inv, ProcInv, ArchiveInv, Stores, Written
    <3> QED
      BY <3>1, <3>2, <3>3 DEF ProcInv, TempAlone, OutputAlone
  <2> QED
    BY <2>1, <2>2 DEF Inv
<1> QED
  BY <1>1, <1>2 DEF Next, Finished

-----------------------------------------------------------------------------
(***************************************************************************)
(* The theorems.                                                           *)
(***************************************************************************)

\* Inv is an invariant of every number of so2a processes.
THEOREM InvariantHolds == Spec => []Inv
BY InitInv, NextInv, PTL DEF Spec

\* The variables keep their types.
THEOREM TypeCorrect == Spec => []TypeOK
<1>1. Inv => TypeOK
  BY DEF Inv
<1> QED
  BY <1>1, InvariantHolds, PTL

\* A run that reports success has left the complete archive at its output
\* path, whatever other processes do and whatever was there before.
THEOREM ArchiveComplete == Spec => []SuccessMeansArchive
<1>1. Inv => SuccessMeansArchive
  BY DEF Inv, ProcInv, ArchiveInv, Stores, SuccessMeansArchive, Succeeded
<1> QED
  BY <1>1, InvariantHolds, PTL

\* Every return leaves the temporary file as the options ask.
THEOREM TempSettled == Spec => []TempFileSettled
<1>1. Inv => TempFileSettled
  BY DEF Inv, ProcInv, ObjectInv, Stores, TempFileSettled
<1> QED
  BY <1>1, InvariantHolds, PTL

\* No path to a return leaks an object or a descriptor.
THEOREM NothingHeld == Spec => []NothingHeldOnReturn
<1>1. Inv => NothingHeldOnReturn
  BY DEF Inv, ProcInv, FdInv, HeldInv, NothingHeldOnReturn, ArchiveLabels, Final
<1> QED
  BY <1>1, InvariantHolds, PTL

\* Temporary names that fit in temp[] are distinct: they end in the pid.
LEMMA NamesApartMeansAlone ==
  ASSUME NamesApart, NEW p \in Procs
  PROVE  TempAlone(p)
<1> DEFINE full(q) == Out[q] \o <<".tmp.", Pid[q], ".o">>
           Chars == STRING \union {".tmp.", ".o"}
<1>1. ASSUME NEW q \in Procs
      PROVE  /\ Len(Out[q]) \in Nat
             /\ Len(full(q)) = Len(Out[q]) + 3
             /\ full(q)[Len(Out[q]) + 2] = Pid[q]
  <2>1. Out[q] \in Seq(STRING) /\ Pid[q] \in Chars
    BY ConversionAssumption DEF ConversionAssumption
  <2>2. Out[q] \in Seq(Chars)
    BY <2>1, SeqMonotonic
  <2>3. ASSUME NEW S, NEW a \in S, NEW b \in S, NEW c \in S
        PROVE  <<a, b, c>> \in Seq(S) /\ Len(<<a, b, c>>) = 3
    OBVIOUS
  <2>4. <<".tmp.", Pid[q], ".o">> \in Seq(Chars) /\ Len(<<".tmp.", Pid[q], ".o">>) = 3
    BY <2>1, <2>3
  <2> HIDE DEF Chars
  <2>5. Len(Out[q]) \in Nat
    BY <2>2, LenProperties
  <2>6. /\ Len(full(q)) = Len(Out[q]) + 3
        /\ \A k \in 1..(Len(Out[q]) + 3) :
             full(q)[k] = IF k <= Len(Out[q]) THEN Out[q][k]
                          ELSE <<".tmp.", Pid[q], ".o">>[k - Len(Out[q])]
    BY <2>2, <2>4, ConcatProperties
  <2>7. full(q)[Len(Out[q]) + 2] = <<".tmp.", Pid[q], ".o">>[2]
    BY <2>5, <2>6
  <2> QED
    BY <2>5, <2>6, <2>7
<1> HIDE DEF full
<1>2. \A q \in Procs : TempName(q) = full(q)
  <2>1. \A q \in Procs : Len(full(q)) < PathCap
    BY <1>1 DEF NamesApart
  <2> QED
    BY <2>1 DEF TempName, full
<1>3. \A q \in Procs : TempName(q) # Out[p] /\ Out[q] # TempName(p)
  BY DEF NamesApart
<1>4. ASSUME NEW q \in Procs, TempName(q) = TempName(p)
      PROVE  q = p
  <2>1. full(q) = full(p)
    BY <1>2, <1>4
  <2>2. Len(Out[q]) = Len(Out[p])
    BY <1>1, <2>1
  <2>3. Pid[q] = Pid[p]
    BY <1>1, <2>1, <2>2
  <2> QED
    BY <2>3, ConversionAssumption DEF ConversionAssumption
<1> QED
  BY <1>3, <1>4 DEF TempAlone

\* With room for the pid in every temporary name, no process wraps another's
\* object, even when all of them write one output.
THEOREM OwnObject == Spec => []OwnObjectWrapped
<1>1. Inv => OwnObjectWrapped
  BY NamesApartMeansAlone DEF Inv, ProcInv, ObjectInv, OwnObjectWrapped
<1> QED
  BY <1>1, InvariantHolds, PTL

\* The steps of p that leave the file at its output as it is.
LEMMA OutputKept ==
  ASSUME NEW p \in Procs, Inv, TempAlone(p), Step(p) \/ Kill(p),
         pc[p] \notin {"ar_open"} \union ArchiveLabels
  PROVE  /\ dir'[Out[p]] = dir[Out[p]]
         /\ dir[Out[p]] # NoInode => content'[dir[Out[p]]] = content[dir[Out[p]]]
<1>1. CASE UNCHANGED fileVars
  BY <1>1 DEF fileVars
<1>2. CASE OpenObject(p) \/ WriteObject(p)
  <2> DEFINE x == TempName(p)
             i == IF pc[p] = "obj_write" THEN objfd[p] ELSE OpenedInode(x, p, "obj")
  <2>1. i \in Inodes /\ i.home = x /\ x # Out[p]
    BY <1>2, PathsOf, FreshInode
       DEF OpenObject, WriteObject, OpenedInode, Inv, TypeOK, HomeInv, ProcInv, FdInv, TempAlone
  <2>2. /\ dir'[Out[p]] = dir[Out[p]]
        /\ \A j \in Inodes : j # i => content'[j] = content[j]
    BY <1>2, <2>1, PathsOf
       DEF OpenObject, WriteObject, CreateTruncated, Inv, TypeOK, fileVars
  <2>3. dir[Out[p]] # NoInode => dir[Out[p]] \in Inodes /\ dir[Out[p]] # i
    BY <2>1, PathsOf DEF Inv, TypeOK, HomeInv
  <2> QED
    BY <2>2, <2>3
<1>3. CASE Cleanup(p)
  BY <1>3, PathsOf DEF Cleanup, Unlinked, TempAlone
<1> QED
  BY <1>1, <1>2, <1>3
     DEF Step, Kill, Parse, ExtractSections, ExtractSymbols, ExtractRelocations, Extract,
         CreateWriter, ReopenObject, StatObject, ReadObject, OpenArchive, WriteMagic,
         WriteHeader, WriteData, WritePadding, ArchiveWrite, Finalize, OutOfMemory, ArchiveLabels

\* The output is touched only once the complete object has been read back.
THEOREM OutputLate == Spec => OutputTouchedLate
<1> DEFINE Late(p) == OutputAlone(p) /\ TempAlone(p) /\ FileAt(Out[p])' # FileAt(Out[p])
                        => /\ pc[p] \in {"ar_open"} \union ArchiveLabels
                           /\ data[p] = Object(Input[p])
<1>1. ASSUME Inv, [Next]_vars, NEW p \in Procs
      PROVE  Late(p)
  <2> SUFFICES ASSUME OutputAlone(p), TempAlone(p), FileAt(Out[p])' # FileAt(Out[p])
               PROVE  /\ pc[p] \in {"ar_open"} \union ArchiveLabels
                      /\ data[p] = Object(Input[p])
    OBVIOUS
  <2>1. ~UNCHANGED vars
    BY DEF vars, FileAt
  <2>2. PICK q \in Procs : Step(q) \/ Kill(q)
    BY <1>1, <2>1 DEF Next, Finished
  <2>3. q = p
    <3>1. SUFFICES ASSUME q # p
                   PROVE  FALSE
      OBVIOUS
    <3>2. Out[p] \notin {Out[q], TempName(q)} /\ Out[p] \in Paths
      BY <3>1, PathsOf DEF OutputAlone
    <3>3. Frame(q)
      BY <1>1, <2>2, EveryStepOK DEF StepOK
    <3>4. dir[Out[p]] # NoInode => dir[Out[p]] \in Inodes /\ dir[Out[p]].home = Out[p]
      BY <1>1, <3>2 DEF Inv, TypeOK, HomeInv
    <3>5. /\ dir'[Out[p]] = dir[Out[p]]
          /\ dir[Out[p]] # NoInode => content'[dir[Out[p]]] = content[dir[Out[p]]]
      BY <3>2, <3>3, <3>4 DEF Frame
    <3> QED
      BY <3>5 DEF FileAt
  <2>4. pc[p] \in {"ar_open"} \union ArchiveLabels
    BY <1>1, <2>2, <2>3, OutputKept DEF FileAt
  <2> QED
    BY <1>1, <2>4 DEF Inv, ProcInv, ObjectInv
<1>2. Inv /\ [Next]_vars => [\A p \in Procs : Late(p)]_vars
  BY <1>1
<1> QED
  BY <1>2, InvariantHolds, PTL DEF Spec, OutputTouchedLate

-----------------------------------------------------------------------------
(***************************************************************************)
(* Processes that write one output.                                        *)
(***************************************************************************)

\* The bytes of two sequences in a row, by place.
LEMMA InARow ==
  ASSUME NEW s \in Seq(Bytes), NEW t \in Seq(Bytes)
  PROVE  /\ s \o t \in Seq(Bytes)
         /\ Len(s \o t) = Len(s) + Len(t)
         /\ \A k \in 1..Len(s) : (s \o t)[k] = s[k]
         /\ \A k \in 1..Len(t) : (s \o t)[Len(s) + k] = t[k]
<1>1. Len(s) \in Nat /\ Len(t) \in Nat
  BY LenProperties
<1>2. /\ s \o t \in Seq(Bytes)
      /\ Len(s \o t) = Len(s) + Len(t)
      /\ \A k \in 1..(Len(s) + Len(t)) :
           (s \o t)[k] = IF k <= Len(s) THEN s[k] ELSE t[k - Len(s)]
  BY ConcatProperties
<1> QED
  BY <1>1, <1>2

\* The bytes of p's archive, by place.
LEMMA ArchiveBytes ==
  ASSUME NEW p \in Procs
  PROVE  LET size0 == ObjLen[Input[p]] IN
         /\ Archive(p) \in Seq(Bytes)
         /\ Len(Archive(p)) = 2 + size0 + Len(PadOf(size0))
         /\ Archive(p)[1] = Magic /\ Archive(p)[2] = Header(p, size0)
         /\ \A k \in 1..size0 : Archive(p)[2 + k] = Object(Input[p])[k]
         /\ \A k \in 1..Len(PadOf(size0)) : Archive(p)[2 + size0 + k] = PadOf(size0)[k]
<1> DEFINE size0 == ObjLen[Input[p]]
           head == <<Magic, Header(p, size0)>>
           obj == Object(Input[p])
           pad == PadOf(size0)
<1>1. /\ head \in Seq(Bytes) /\ Len(head) = 2
      /\ head[1] = Magic /\ head[2] = Header(p, size0)
      /\ head \o obj \in Seq(Bytes) /\ pad \in Seq(Bytes)
      /\ Archive(p) = (head \o obj) \o pad
  BY ArchiveParts
<1>2. obj \in Seq(Bytes) /\ Len(obj) = size0 /\ size0 \in Nat \ {0}
  BY ObjectType
<1> HIDE DEF size0, head, obj, pad
<1>3. /\ Len(head \o obj) = 2 + size0
      /\ (head \o obj)[1] = head[1] /\ (head \o obj)[2] = head[2]
      /\ \A k \in 1..size0 : (head \o obj)[2 + k] = obj[k]
  <2>1. /\ Len(head \o obj) = Len(head) + Len(obj)
        /\ \A k \in 1..Len(head) : (head \o obj)[k] = head[k]
        /\ \A k \in 1..Len(obj) : (head \o obj)[Len(head) + k] = obj[k]
    BY <1>1, <1>2, InARow
  <2>2. Len(head) = 2 /\ Len(obj) = size0 /\ 1 \in 1..2 /\ 2 \in 1..2
    BY <1>1, <1>2
  <2> QED
    BY <2>1, <2>2
<1>4. /\ Archive(p) \in Seq(Bytes)
      /\ Len(Archive(p)) = 2 + size0 + Len(pad) /\ Len(pad) \in Nat
      /\ \A k \in 1..(2 + size0) : Archive(p)[k] = (head \o obj)[k]
      /\ \A k \in 1..Len(pad) : Archive(p)[2 + size0 + k] = pad[k]
  BY <1>1, <1>3, InARow, LenProperties, SMTT(60)
<1>5. 1 \in 1..(2 + size0) /\ 2 \in 1..(2 + size0) /\ \A k \in 1..size0 : 2 + k \in 1..(2 + size0)
  BY <1>2
<1>6. \A k \in 1..size0 : Archive(p)[2 + k] = obj[k]
  BY <1>3, <1>4, <1>5
<1>7. Archive(p)[1] = Magic /\ Archive(p)[2] = Header(p, size0)
  BY <1>1, <1>3, <1>4, <1>5
<1> QED
  BY <1>4, <1>6, <1>7 DEF size0, obj, pad

\* The archives of processes with one input differ in their headers only.
LEMMA SameArchives ==
  ASSUME NEW p \in Procs, NEW q \in Procs, Input[q] = Input[p]
  PROVE  /\ Len(Archive(q)) = Len(Archive(p))
         /\ \A k \in 1..Len(Archive(p)) : k # 2 => Archive(q)[k] = Archive(p)[k]
<1> DEFINE size0 == ObjLen[Input[p]]
           pads == Len(PadOf(size0))
<1>1. size0 \in Nat
  BY ObjectType
<1>2. /\ Len(Archive(p)) = 2 + size0 + pads /\ Len(Archive(q)) = 2 + size0 + pads
      /\ Archive(q)[1] = Archive(p)[1]
      /\ \A k \in 1..size0 : Archive(q)[2 + k] = Archive(p)[2 + k]
      /\ \A k \in 1..pads : Archive(q)[2 + size0 + k] = Archive(p)[2 + size0 + k]
  BY ArchiveBytes, SMTT(60)
<1>3. pads \in Nat
  BY <1>1, ArchiveParts
<1> HIDE DEF size0, pads
<1>4. ASSUME NEW k \in 1..(2 + size0 + pads), k # 2
      PROVE  Archive(q)[k] = Archive(p)[k]
  <2>1. CASE k = 1
    BY <1>2, <2>1
  <2>2. CASE k \in 3..(2 + size0)
    <3>1. k - 2 \in 1..size0 /\ 2 + (k - 2) = k
      BY <1>1, <2>2
    <3> QED
      BY <1>2, <3>1
  <2>3. CASE k > 2 + size0
    <3>1. k - 2 - size0 \in 1..pads /\ 2 + size0 + (k - 2 - size0) = k
      BY <1>1, <1>3, <2>3
    <3> QED
      BY <1>2, <3>1
  <2> QED
    BY <1>1, <1>3, <1>4, <2>1, <2>2, <2>3
<1> QED
  BY <1>2, <1>4

\* What a step of p does to the file at its output, given that paths are apart.
\* It leaves it as it is ...
Quiet(p) ==
  /\ dir'[Out[p]] = dir[Out[p]]
  /\ dir[Out[p]] # NoInode => content'[dir[Out[p]]] = content[dir[Out[p]]]
  /\ off'[p] = off[p] /\ Opened(p)' = Opened(p)

\* ... or empties it ...
Emptied(p) ==
  /\ dir'[Out[p]] # NoInode /\ dir[Out[p]] \in {NoInode, dir'[Out[p]]}
  /\ content'[dir'[Out[p]]] = <<>>
  /\ off'[p] = 0 /\ Opened(p)'

\* ... or writes the next bytes of its archive.
Extended(p) ==
  /\ dir'[Out[p]] = dir[Out[p]] /\ dir[Out[p]] # NoInode
  /\ Opened(p) /\ Opened(p)'
  /\ \E bs \in Seq(Bytes) \ {<<>>} :
       /\ content'[dir[Out[p]]] = WriteAt(content[dir[Out[p]]], off[p], bs)
       /\ off'[p] = off[p] + Len(bs) /\ off'[p] <= Len(Archive(p))
       /\ \A k \in 1..Len(bs) : bs[k] = Archive(p)[off[p] + k]

SharerOK(p) ==
  /\ SharerInv(p)'
  /\ Lost(p) => Lost(p)'
  /\ dir[Out[p]] # NoInode => dir'[Out[p]] = dir[Out[p]]
  /\ Lost(p)' \/ Quiet(p) \/ Emptied(p) \/ Extended(p)

\* The steps before the archive is opened, and after it is closed.
LEMMA QuietOK ==
  ASSUME NEW p \in Procs, Inv, TempAlone(p), SharerInv(p), Step(p) \/ Kill(p),
         pc[p] \notin {"ar_open"} \union ArchiveLabels
  PROVE  SharerOK(p)
<1>1. /\ dir'[Out[p]] = dir[Out[p]]
      /\ dir[Out[p]] # NoInode => content'[dir[Out[p]]] = content[dir[Out[p]]]
  BY OutputKept
<1>2. TypeOK' /\ HomeInv' /\ ProcInv(p)'
  BY EveryStepOK DEF StepOK
<1>3. /\ off'[p] = off[p]
      /\ pc'[p] \notin ArchiveLabels
      /\ \/ pc'[p] \in {"exited", "killed"}
         \/ pc'[p] = "cleanup" /\ code'[p] # "ERR_OK"
         \/ pc[p] = "cleanup" /\ pc'[p] = "returned" /\ code'[p] = code[p]
         \/ pc[p] \in Running \ {"cleanup"} /\ pc'[p] \in Running \ {"cleanup"} /\ code'[p] = code[p]
  <2>1. CASE Parse(p)
    BY <2>1 DEF Inv, TypeOK, Parse, Goto, Fail, Running, ParseLabels, ArchiveLabels
  <2>2. CASE ExtractSections(p) \/ ExtractSymbols(p) \/ ExtractRelocations(p)
    BY <2>2 DEF Inv, TypeOK, ExtractSections, ExtractSymbols, ExtractRelocations, Extract, Goto,
       Running, ParseLabels, ObjectLabels, ArchiveLabels
  <2>3. CASE CreateWriter(p) \/ OpenObject(p) \/ WriteObject(p)
    BY <2>3 DEF Inv, TypeOK, CreateWriter, OpenObject, WriteObject, Goto, Fail, Running,
       ObjectLabels, ReadLabels, ArchiveLabels
  <2>4. CASE ReopenObject(p) \/ StatObject(p) \/ ReadObject(p)
    BY <2>4 DEF Inv, TypeOK, ReopenObject, StatObject, ReadObject, Goto, Fail, Running,
       ReadLabels, ArchiveLabels
  <2>5. CASE Cleanup(p)
    BY <2>5 DEF Inv, TypeOK, Cleanup, Goto, ArchiveLabels
  <2>6. CASE OutOfMemory(p) \/ Kill(p)
    BY <2>6 DEF Inv, TypeOK, OutOfMemory, Kill, Vanish, Goto, ArchiveLabels
  <2> QED
    BY <2>1, <2>2, <2>3, <2>4, <2>5, <2>6
       DEF Step, OpenArchive, WriteMagic, WriteHeader, WriteData, WritePadding, ArchiveWrite,
           Finalize, ArchiveLabels
<1>4. Lost(p) => Lost(p)'
  BY <1>3 DEF SharerInv, Lost, Final, Running, ParseLabels, ObjectLabels, ReadLabels, ArchiveLabels
<1>5. Lost(p)' \/ Opened(p)' = Opened(p)
  BY <1>3 DEF Lost, Opened, Running, ParseLabels, ObjectLabels, ReadLabels, ArchiveLabels
<1>6. SharerInv(p)'
  <2>1. (Lost(p) => pc[p] \in Final \union {"cleanup"})'
    BY <1>3 DEF SharerInv, Lost, Final, Running, ParseLabels, ObjectLabels, ReadLabels, ArchiveLabels
  <2>2. OffInv(p)'
    BY <1>3 DEF SharerInv, OffInv, Opened, Running, ParseLabels, ObjectLabels, ReadLabels,
       ArchiveLabels
  <2>3. Opened(p)' => Opened(p)
    BY <1>3 DEF Opened, Running, ParseLabels, ObjectLabels, ReadLabels, ArchiveLabels
  <2> QED
    BY <1>1, <1>3, <2>1, <2>2, <2>3 DEF SharerInv
<1> QED
  BY <1>1, <1>3, <1>4, <1>5, <1>6 DEF SharerOK, Quiet

\* A step by which p can no longer report success, at its output's expense or not.
LEMMA LostOK ==
  ASSUME NEW p \in Procs,
         \/ pc'[p] \in {"exited", "killed"}
         \/ pc'[p] = "cleanup" /\ code'[p] # "ERR_OK",
         dir[Out[p]] # NoInode => dir'[Out[p]] = dir[Out[p]]
  PROVE  SharerOK(p)
BY DEF SharerOK, SharerInv, OffInv, Lost, Opened, Final, ArchiveLabels

LEMMA OpenSharedOK ==
  ASSUME NEW p \in Procs, Inv, SharerInv(p), OpenArchive(p)
  PROVE  SharerOK(p)
<1> DEFINE x == Out[p]
           i == OpenedInode(x, p, "ar")
<1>1. x \in Paths /\ i \in Inodes /\ i # NoInode /\ dir[x] \in {NoInode, i}
  BY PathsOf, FreshInode DEF OpenedInode, Inv, TypeOK
<1> HIDE DEF i
<1>2. CASE /\ CreateTruncated(x, i)
           /\ arfd' = [arfd EXCEPT ![p] = i]
           /\ off' = [off EXCEPT ![p] = 0]
           /\ Goto(p, "ar_magic")
           /\ UNCHANGED code
  <2>1. /\ dir'[x] = i /\ content'[i] = <<>> /\ arfd'[p] = i /\ off'[p] = 0
        /\ pc'[p] = "ar_magic" /\ code'[p] = code[p]
    BY <1>1, <1>2 DEF Inv, TypeOK, CreateTruncated, Goto
  <2>2. pc[p] = "ar_open" /\ ~Lost(p)
    BY DEF SharerInv, OpenArchive, Final
  <2>3. SharerInv(p)'
    BY <1>1, <2>1, <2>2 DEF SharerInv, OffInv, Lost, Opened, ArchiveLabels
  <2>4. Emptied(p)
    BY <1>1, <2>1 DEF Emptied, Opened, ArchiveLabels
  <2> QED
    BY <1>1, <2>1, <2>2, <2>3, <2>4 DEF SharerOK
<1>3. CASE Fail(p, "ERR_WRITE_FAILED") /\ UNCHANGED dir
  BY <1>3, LostOK DEF Inv, TypeOK, Fail, Goto
<1> QED
  BY <1>2, <1>3 DEF OpenArchive, i, fileVars

\* One of the four writes: bs are the bytes that come next.
LEMMA WriteSharedOK ==
  ASSUME NEW p \in Procs, Inv, SharerInv(p),
         NEW label \in {"ar_magic", "ar_header", "ar_data", "ar_pad"},
         NEW next \in {"ar_header", "ar_data", "ar_pad", "ar_finalize"},
         NEW bs \in Seq(Bytes), bs # <<>>, NEW done,
         ArchiveWrite(p, label, bs, next, done),
         \A k \in 1..Len(bs) : bs[k] = Archive(p)[off[p] + k],
         off[p] + Len(bs) <= Len(Archive(p)),
         next = "ar_header" => off[p] + Len(bs) = 1,
         next = "ar_data" => off[p] + Len(bs) = 2,
         next = "ar_pad" => off[p] + Len(bs) = 2 + ObjLen[Input[p]] /\ ObjLen[Input[p]] % 2 # 0,
         next = "ar_finalize" => off[p] + Len(bs) = Len(Archive(p))
  PROVE  SharerOK(p)
<1>1. /\ pc[p] = label /\ pc[p] \in ArchiveLabels /\ dir' = dir
      /\ arfd[p] = dir[Out[p]] /\ dir[Out[p]] # NoInode /\ dir[Out[p]] \in Inodes
      /\ ~Lost(p) /\ Opened(p)
  BY PathsOf DEF ArchiveWrite, ArchiveLabels, SharerInv, Opened, Final, Inv, TypeOK
<1>2. PICK n \in 0..Len(bs) :
        /\ content' = [content EXCEPT ![arfd[p]] = WriteAt(@, off[p], SubSeq(bs, 1, n))]
        /\ off' = [off EXCEPT ![p] = @ + n]
        /\ \/ /\ n = Len(bs)
              /\ Goto(p, next)
              /\ UNCHANGED <<code, arfd>>
           \/ Fail(p, "ERR_WRITE_FAILED")
  BY DEF ArchiveWrite
<1>3. CASE Fail(p, "ERR_WRITE_FAILED")
  BY <1>1, <1>3, LostOK DEF Inv, TypeOK, Fail, Goto
<1>4. CASE n = Len(bs) /\ Goto(p, next) /\ UNCHANGED <<code, arfd>>
  <2>1. SubSeq(bs, 1, n) = bs
    BY <1>4, PrefixType
  <2>2. /\ content'[dir[Out[p]]] = WriteAt(content[dir[Out[p]]], off[p], bs)
        /\ off'[p] = off[p] + Len(bs) /\ pc'[p] = next /\ code'[p] = code[p]
        /\ arfd'[p] = dir'[Out[p]]
    BY <1>1, <1>2, <1>4, <2>1 DEF Inv, TypeOK, Goto
  <2>3. Opened(p)' /\ ~Lost(p)'
    BY <1>1, <2>2 DEF Opened, Lost, ArchiveLabels
  <2>4. OffInv(p)'
    BY <2>2 DEF OffInv
  <2>5. SharerInv(p)'
    BY <1>1, <2>2, <2>3, <2>4 DEF SharerInv
  <2>6. Extended(p)
    BY <1>1, <2>2, <2>3 DEF Extended
  <2> QED
    BY <1>1, <2>3, <2>5, <2>6 DEF SharerOK
<1> QED
  BY <1>2, <1>3, <1>4

LEMMA WritesSharedOK ==
  ASSUME NEW p \in Procs, Inv, TempAlone(p), SharerInv(p),
         WriteMagic(p) \/ WriteHeader(p) \/ WriteData(p) \/ WritePadding(p)
  PROVE  SharerOK(p)
<1> DEFINE size0 == ObjLen[Input[p]]
           obj == Object(Input[p])
<1>1. OffInv(p)
  BY DEF SharerInv
<1>2. pc[p] \in ArchiveLabels /\ size[p] = size0 /\ data[p] = obj
  BY DEF WriteMagic, WriteHeader, WriteData, WritePadding, ArchiveWrite, ArchiveLabels, Inv,
     ProcInv, ObjectInv
<1>3. size0 \in Nat \ {0} /\ obj \in Seq(Bytes) /\ Len(obj) = size0
  BY ObjectType
<1>4. /\ PadOf(size0) \in Seq(Bytes) /\ Len(PadOf(size0)) \in Nat
      /\ size0 % 2 # 0 => Len(PadOf(size0)) = 1
      /\ size0 % 2 = 0 => Len(PadOf(size0)) = 0
  BY ByteTypes, EmptySeq DEF PadOf
<1>5. /\ Len(Archive(p)) = 2 + size0 + Len(PadOf(size0))
      /\ Archive(p)[1] = Magic /\ Archive(p)[2] = Header(p, size0)
      /\ \A k \in 1..size0 : Archive(p)[2 + k] = obj[k]
      /\ \A k \in 1..Len(PadOf(size0)) : Archive(p)[2 + size0 + k] = PadOf(size0)[k]
  BY ArchiveBytes
<1> HIDE DEF size0, obj
<1>6. CASE WriteMagic(p)
  <2> DEFINE bs == <<Magic>>
  <2>1. /\ bs \in Seq(Bytes) /\ bs # <<>> /\ Len(bs) = 1
        /\ \A k \in 1..Len(bs) : k = 1 /\ bs[k] = Magic
    BY ByteTypes
  <2>2. ArchiveWrite(p, "ar_magic", bs, "ar_header", {}) /\ off[p] = 0
    BY <1>1, <1>6 DEF WriteMagic, ArchiveWrite, OffInv
  <2>3. \A k \in 1..Len(bs) : bs[k] = Archive(p)[off[p] + k]
    BY <1>5, <2>1, <2>2
  <2>4. off[p] + Len(bs) = 1 /\ off[p] + Len(bs) <= Len(Archive(p))
    BY <1>3, <1>4, <1>5, <2>1, <2>2
  <2> HIDE DEF bs
  <2> QED
    BY <2>1, <2>2, <2>3, <2>4, WriteSharedOK, ZenonT(60)
<1>7. CASE WriteHeader(p)
  <2> DEFINE bs == <<Header(p, size0)>>
  <2>1. /\ bs \in Seq(Bytes) /\ bs # <<>> /\ Len(bs) = 1
        /\ \A k \in 1..Len(bs) : k = 1 /\ bs[k] = Header(p, size0)
    BY <1>3, ByteTypes
  <2>2. ArchiveWrite(p, "ar_header", bs, "ar_data", {}) /\ off[p] = 1
    BY <1>1, <1>2, <1>7 DEF WriteHeader, ArchiveWrite, OffInv
  <2>3. \A k \in 1..Len(bs) : bs[k] = Archive(p)[off[p] + k]
    BY <1>5, <2>1, <2>2
  <2>4. off[p] + Len(bs) = 2 /\ off[p] + Len(bs) <= Len(Archive(p))
    BY <1>3, <1>4, <1>5, <2>1, <2>2
  <2> HIDE DEF bs
  <2> QED
    BY <2>1, <2>2, <2>3, <2>4, WriteSharedOK, ZenonT(60)
<1>8. CASE WriteData(p)
  <2>1. obj # <<>>
    BY <1>3
  <2>2. pc[p] = "ar_data" /\ off[p] = 2
    BY <1>1, <1>8 DEF WriteData, ArchiveWrite, OffInv
  <2>3. \A k \in 1..Len(obj) : obj[k] = Archive(p)[off[p] + k]
    BY <1>3, <1>5, <2>2
  <2>4. off[p] + Len(obj) = 2 + size0 /\ 2 + size0 <= Len(Archive(p))
    BY <1>3, <1>4, <1>5, <2>2
  <2>5. CASE size0 % 2 # 0
    <3>1. ArchiveWrite(p, "ar_data", obj, "ar_pad", {})
      BY <1>2, <1>8, <2>5 DEF WriteData
    <3> QED
      BY <1>3, <2>1, <2>3, <2>4, <2>5, <3>1, WriteSharedOK DEF size0
  <2>6. CASE ~(size0 % 2 # 0)
    <3>1. ArchiveWrite(p, "ar_data", obj, "ar_finalize", {"data"})
      BY <1>2, <1>8, <2>6 DEF WriteData
    <3>2. off[p] + Len(obj) = Len(Archive(p))
      BY <1>3, <1>4, <1>5, <2>4, <2>6
    <3> QED
      BY <1>3, <2>1, <2>3, <2>4, <3>1, <3>2, WriteSharedOK
  <2> QED
    BY <2>5, <2>6
<1>9. CASE WritePadding(p)
  <2> DEFINE bs == PadOf(size0)
  <2>1. ArchiveWrite(p, "ar_pad", bs, "ar_finalize", {"data"})
    BY <1>2, <1>9 DEF WritePadding
  <2>2. off[p] = 2 + size0 /\ size0 % 2 # 0
    BY <1>1, <1>9 DEF WritePadding, ArchiveWrite, OffInv, size0
  <2>3. bs # <<>> /\ bs \in Seq(Bytes)
    BY <1>4, <2>2, ByteTypes DEF PadOf
  <2>4. /\ \A k \in 1..Len(bs) : bs[k] = Archive(p)[off[p] + k]
        /\ off[p] + Len(bs) = Len(Archive(p)) /\ Len(Archive(p)) \in Nat
    BY <1>3, <1>4, <1>5, <2>2
  <2> HIDE DEF bs
  <2> QED
    BY <2>1, <2>3, <2>4, WriteSharedOK
<1> QED
  BY <1>6, <1>7, <1>8, <1>9

LEMMA EverySharedOK ==
  ASSUME NEW p \in Procs, Inv, TempAlone(p), SharerInv(p), Step(p) \/ Kill(p)
  PROVE  SharerOK(p)
<1>1. CASE pc[p] \notin {"ar_open"} \union ArchiveLabels
  BY <1>1, QuietOK
<1>2. CASE OpenArchive(p)
  BY <1>2, OpenSharedOK
<1>3. CASE WriteMagic(p) \/ WriteHeader(p) \/ WriteData(p) \/ WritePadding(p)
  BY <1>3, WritesSharedOK
<1>4. CASE OutOfMemory(p) \/ Kill(p)
  BY <1>4, LostOK DEF Inv, TypeOK, OutOfMemory, Kill, Vanish, Goto, fileVars
<1>5. CASE Finalize(p)
  <2>1. /\ pc[p] = "ar_finalize" /\ pc'[p] = "cleanup" /\ code'[p] = "ERR_OK"
        /\ UNCHANGED <<off, dir, content>>
    BY <1>5 DEF Inv, TypeOK, Finalize, Goto, fileVars
  <2>2. Opened(p) /\ Opened(p)' /\ ~Lost(p)' /\ ~Lost(p)
    BY <2>1 DEF Opened, Lost, SharerInv, ArchiveLabels, Final
  <2>3. SharerInv(p)'
    BY <2>1, <2>2 DEF SharerInv, OffInv, ArchiveLabels
  <2>4. Quiet(p)
    BY <2>1, <2>2 DEF Quiet
  <2> QED
    BY <2>1, <2>2, <2>3, <2>4 DEF SharerOK
<1> QED
  BY <1>1, <1>2, <1>3, <1>4, <1>5
     DEF Step, Parse, ExtractSections, ExtractSymbols, ExtractRelocations, Extract, CreateWriter,
         OpenObject, WriteObject, ReopenObject, StatObject, ReadObject, Cleanup, ArchiveLabels

\* The file at p's output after a step of a sharer, itself or another.
LEMMA SharedFileOK ==
  ASSUME NEW p \in Procs, NEW a \in Sharers(p), Inv, Inv', SharedFileInv(p),
         \A q \in Sharers(p) : SharerInv(q),
         SharerOK(a), Frame(a)
  PROVE  SharedFileInv(p)'
<1> DEFINE x == Out[p]
           s == content[dir[x]]
           t == content'[dir'[x]]
           N == Len(Archive(p))
<1>1. a \in Procs /\ Out[a] = x /\ p \in Sharers(p)
  BY DEF Sharers
<1>2. \A q \in Sharers(p) \ {a} :
        /\ Opened(q)' = Opened(q) /\ Lost(q)' = Lost(q) /\ off'[q] = off[q]
        /\ q \in Procs /\ Out[q] = x
  BY DEF Frame, Opened, Lost, Sharers
<1>3. SUFFICES ASSUME SameInput(p), \E q \in Sharers(p) : Opened(q)',
                      \A q \in Sharers(p) : ~Lost(q)'
               PROVE  /\ Len(t) <= N
                      /\ \E r \in Sharers(p) : /\ Opened(r)' /\ off'[r] <= Len(t)
                                               /\ RightUpTo(p, t, off'[r])
  BY DEF SharedFileInv, SameInput, RightUpTo
<1>4. \A q \in Sharers(p) : ~Lost(q)
  BY <1>2, <1>3 DEF SharerOK
<1>5. N \in Nat /\ Archive(p) \in Seq(Bytes)
  BY ArchiveBytes, LenProperties
<1>6. \A q \in Procs : off[q] \in Nat /\ off'[q] \in Nat
  BY DEF Inv, TypeOK
<1> HIDE DEF N
<1>7. CASE Quiet(a)
  <2>1. \A q \in Sharers(p) : Opened(q)' = Opened(q) /\ off'[q] = off[q]
    BY <1>2, <1>7 DEF Quiet
  <2>2. \E q \in Sharers(p) : Opened(q)
    BY <1>3, <2>1
  <2>3. dir[x] # NoInode
    BY <2>2, <1>1, <1>2 DEF SharerInv
  <2>4. t = s
    BY <1>1, <1>7, <2>3 DEF Quiet
  <2> HIDE DEF s, t
  <2>5. /\ Len(s) <= N
        /\ \E r \in Sharers(p) : Opened(r) /\ off[r] <= Len(s) /\ RightUpTo(p, s, off[r])
    BY <1>3, <1>4, <2>2 DEF SharedFileInv, s, N
  <2>6. PICK r \in Sharers(p) : Opened(r) /\ off[r] <= Len(s) /\ RightUpTo(p, s, off[r])
    BY <2>5
  <2>7. Opened(r)' /\ off'[r] = off[r]
    BY <2>1, <2>6
  <2> QED
    BY <2>4, <2>5, <2>6, <2>7
<1>8. CASE Emptied(a)
  <2>1. t = <<>> /\ off'[a] = 0 /\ Opened(a)'
    BY <1>1, <1>8 DEF Emptied
  <2> HIDE DEF t
  <2>2. Len(t) = 0 /\ RightUpTo(p, t, 0)
    BY <2>1 DEF RightUpTo
  <2> QED
    BY <1>5, <2>1, <2>2
<1>9. CASE Extended(a)
  <2>1. /\ dir'[x] = dir[x] /\ dir[x] # NoInode /\ dir[x] \in Inodes
        /\ Opened(a) /\ Opened(a)'
    BY <1>1, <1>9, PathsOf DEF Extended, Inv, TypeOK
  <2>2. PICK bs \in Seq(Bytes) \ {<<>>} :
          /\ t = WriteAt(s, off[a], bs)
          /\ off'[a] = off[a] + Len(bs) /\ off'[a] <= Len(Archive(a))
          /\ \A k \in 1..Len(bs) : bs[k] = Archive(a)[off[a] + k]
    BY <1>1, <1>9, <2>1 DEF Extended
  <2>3. s \in Seq(Bytes)
    BY <2>1 DEF Inv, TypeOK
  <2>4. Len(Archive(a)) = N
    BY <1>1, <1>3, SameArchives DEF SameInput, N
  <2> HIDE DEF s, t
  <2>5. /\ Len(s) <= N
        /\ \E r \in Sharers(p) : Opened(r) /\ off[r] <= Len(s) /\ RightUpTo(p, s, off[r])
    BY <1>3, <1>4, <2>1 DEF SharedFileInv, s, N
  <2>6. PICK r \in Sharers(p) : Opened(r) /\ off[r] <= Len(s) /\ RightUpTo(p, s, off[r])
    BY <2>5
  <2> DEFINE o == off[a]
             n == Len(bs)
             end == o + n
             length == IF Len(s) > end THEN Len(s) ELSE end
  <2>7. n \in Nat \ {0} /\ Len(s) \in Nat /\ o \in Nat
    BY <1>1, <1>6, <2>2, <2>3
  <2>8. t = [k \in 1..length |-> IF o < k /\ k <= end THEN bs[k - o]
                                 ELSE IF k <= Len(s) THEN s[k] ELSE Hole]
    BY <2>2 DEF WriteAt
  <2>9. length \in Nat /\ Len(t) = length
    BY <2>7, <2>8
  <2>10. \A k \in 1..Len(s) : k <= o \/ k > end => t[k] = s[k]
    BY <2>7, <2>8
  <2>11. ASSUME NEW k \in 1..length, o < k, k <= end
         PROVE  t[k] = Archive(a)[k]
    <3>1. k - o \in 1..n /\ o + (k - o) = k
      BY <2>7, <2>9, <2>11
    <3>2. t[k] = bs[k - o]
      BY <2>8, <2>11
    <3> QED
      BY <2>2, <3>1, <3>2
  <2>12. Len(t) <= N
    BY <2>2, <2>4, <2>5, <2>7, <2>9
  <2>13. Len(s) <= length /\ end <= length
    BY <2>7
  <2> HIDE DEF length
  <2>14. ASSUME NEW m \in Nat, m <= Len(s), RightUpTo(p, s, m)
         PROVE  RightUpTo(p, t, m)
    <3>1. SUFFICES ASSUME NEW k \in 1..m
                   PROVE  \E q \in Sharers(p) : t[k] = Archive(q)[k]
      BY DEF RightUpTo
    <3>2. CASE o < k /\ k <= end
      BY <2>7, <2>9, <2>11, <2>13, <2>14, <3>1, <3>2
    <3>3. CASE ~(o < k /\ k <= end)
      <4>1. t[k] = s[k]
        BY <2>7, <2>10, <2>14, <3>1, <3>3
      <4> QED
        BY <4>1, <2>14, <3>1 DEF RightUpTo
    <3> QED
      BY <3>2, <3>3
  <2>15. CASE r = a
    <3>1. RightUpTo(p, t, o)
      BY <2>6, <2>7, <2>14, <2>15
    <3>2. ASSUME NEW k \in 1..end
          PROVE  \E q \in Sharers(p) : t[k] = Archive(q)[k]
      <4>1. CASE k <= o
        BY <3>1, <4>1, <2>7, <3>2 DEF RightUpTo
      <4>2. CASE ~(k <= o)
        BY <2>7, <2>9, <2>11, <2>13, <3>2, <4>2
      <4> QED
        BY <4>1, <4>2
    <3>3. RightUpTo(p, t, off'[a]) /\ off'[a] <= Len(t)
      BY <2>2, <2>9, <2>13, <3>2 DEF RightUpTo
    <3> QED
      BY <2>1, <2>12, <3>3
  <2>16. CASE r # a
    <3>1. Opened(r)' /\ off'[r] = off[r] /\ off[r] \in Nat
      BY <1>2, <1>6, <2>6, <2>16
    <3>2. off'[r] <= Len(t)
      BY <2>6, <2>7, <2>9, <2>13, <3>1
    <3>3. RightUpTo(p, t, off'[r])
      BY <2>6, <2>14, <3>1
    <3> QED
      BY <2>12, <3>1, <3>2, <3>3
  <2> QED
    BY <2>15, <2>16
<1> QED
  BY <1>3, <1>7, <1>8, <1>9 DEF SharerOK

LEMMA SharedInit == Init => SharedInv
<1> SUFFICES ASSUME Init PROVE SharedInv
  OBVIOUS
<1>1. \A p \in Procs : pc[p] = "elf_parse" /\ code[p] = "ERR_OK"
  BY DEF Init
<1>2. \A p \in Procs : ~Opened(p) /\ ~Lost(p)
  BY <1>1 DEF Opened, Lost, ArchiveLabels
<1>3. \A p \in Procs : SharerInv(p)
  BY <1>1, <1>2 DEF SharerInv, OffInv, ArchiveLabels
<1> QED
  BY <1>2, <1>3 DEF SharedInv, SharedFileInv, Sharers

LEMMA SharedNext == Inv /\ Inv' /\ SharedInv /\ [Next]_vars => SharedInv'
<1> SUFFICES ASSUME Inv, Inv', SharedInv, [Next]_vars PROVE SharedInv'
  OBVIOUS
<1>1. ASSUME NEW a \in Procs, Step(a) \/ Kill(a)
      PROVE  SharedInv'
  <2>1. SUFFICES ASSUME NamesApart
                 PROVE  \A p \in Procs : SharerInv(p)' /\ SharedFileInv(p)'
    BY DEF SharedInv, NamesApart
  <2>2. \A p \in Procs : TempAlone(p) /\ SharerInv(p) /\ SharedFileInv(p)
    BY <2>1, NamesApartMeansAlone DEF SharedInv
  <2>3. SharerOK(a) /\ StepOK(a) /\ Frame(a)
    BY <1>1, <2>2, EverySharedOK, EveryStepOK DEF StepOK
  <2>4. ASSUME NEW p \in Procs, p # a
        PROVE  /\ pc'[p] = pc[p] /\ code'[p] = code[p] /\ off'[p] = off[p] /\ arfd'[p] = arfd[p]
               /\ dir[Out[p]] # NoInode => dir'[Out[p]] = dir[Out[p]]
    <3>1. Out[p] # TempName(a)
      BY <2>1 DEF NamesApart
    <3>2. Out[p] = Out[a] => (dir[Out[p]] # NoInode => dir'[Out[p]] = dir[Out[p]])
      BY <2>3 DEF SharerOK
    <3>3. Out[p] # Out[a] => dir'[Out[p]] = dir[Out[p]]
      BY <2>3, <3>1, PathsOf DEF Frame
    <3> QED
      BY <2>3, <2>4, <3>2, <3>3 DEF Frame
  <2>5. ASSUME NEW p \in Procs
        PROVE  SharerInv(p)'
    <3>1. CASE p = a
      BY <2>3, <3>1 DEF SharerOK
    <3>2. CASE p # a
      <4>1. Opened(p)' = Opened(p) /\ Lost(p)' = Lost(p)
        BY <2>4, <3>2 DEF Opened, Lost
      <4>2. OffInv(p)'
        BY <2>2, <2>4, <3>2, <4>1 DEF SharerInv, OffInv
      <4>3. pc[p] \in ArchiveLabels => dir[Out[p]] # NoInode
        BY <2>2 DEF SharerInv, Opened
      <4> QED
        BY <2>2, <2>4, <3>2, <4>1, <4>2, <4>3 DEF SharerInv
    <3> QED
      BY <3>1, <3>2
  <2>6. ASSUME NEW p \in Procs
        PROVE  SharedFileInv(p)'
    <3>1. CASE a \in Sharers(p)
      BY <2>2, <2>3, <3>1, SharedFileOK DEF Sharers
    <3>2. CASE a \notin Sharers(p)
      <4>1. Out[p] \notin {Out[a], TempName(a)} /\ Out[p] \in Paths
        BY <2>1, <3>2, PathsOf DEF Sharers, NamesApart
      <4>2. \A q \in Sharers(p) : /\ Opened(q)' = Opened(q) /\ Lost(q)' = Lost(q)
                                  /\ off'[q] = off[q] /\ q \in Procs /\ Out[q] = Out[p]
        BY <2>4, <3>2 DEF Sharers, Opened, Lost
      <4>3. (\E q \in Sharers(p) : Opened(q)) => dir[Out[p]] # NoInode
        BY <2>2, <4>2 DEF SharerInv
      <4>4. dir[Out[p]] # NoInode => dir[Out[p]] \in Inodes /\ dir[Out[p]].home = Out[p]
        BY <4>1, SMTT(60) DEF Inv, TypeOK, HomeInv
      <4>5. /\ dir'[Out[p]] = dir[Out[p]]
            /\ dir[Out[p]] # NoInode => content'[dir[Out[p]]] = content[dir[Out[p]]]
        BY <2>3, <4>1, <4>4 DEF Frame
      <4>6. SharedFileInv(p)
        BY <2>2
      <4> QED
        BY <4>2, <4>3, <4>5, <4>6 DEF SharedFileInv, SameInput, RightUpTo
    <3> QED
      BY <3>1, <3>2
  <2> QED
    BY <2>5, <2>6
<1>2. CASE UNCHANGED vars
  BY <1>2 DEF SharedInv, SharerInv, SharedFileInv, OffInv, Lost, Opened, RightUpTo, SameInput, vars
<1> QED
  BY <1>1, <1>2 DEF Next, Finished

\* What the processes that write one output have written of it at every label.
THEOREM SharersInvariant == Spec => []SharedInv
<1>1. Inv /\ SharedInv /\ [Next]_vars /\ Inv' => SharedInv'
  BY SharedNext
<1> QED
  BY <1>1, SharedInit, InvariantHolds, PTL DEF Spec

\* Processes that convert one input to one output at the same time, and all
\* succeed, leave a complete archive (so2a.c, ar_writer.c).
THEOREM OutputShared == Spec => []SharersConverge
<1>1. ASSUME Inv, SharedInv
      PROVE  SharersConverge
  <2>1. SUFFICES ASSUME NamesApart, NEW p \in Procs,
                        \A q \in Sharers(p) : Succeeded(q) /\ Input[q] = Input[p]
                 PROVE  /\ dir[Out[p]] # NoInode
                        /\ \E q \in Sharers(p) : content[dir[Out[p]]] = Archive(q)
    BY DEF SharersConverge
  <2> DEFINE s == content[dir[Out[p]]]
  <2>2. SharedFileInv(p) /\ \A q \in Procs : SharerInv(q)
    BY <1>1, <2>1 DEF SharedInv
  <2>3. /\ p \in Sharers(p) /\ SameInput(p)
        /\ \A q \in Sharers(p) : Opened(q) /\ ~Lost(q) /\ q \in Procs
    BY <2>1 DEF Sharers, SameInput, Opened, Lost, Succeeded
  <2>4. dir[Out[p]] # NoInode /\ s \in Seq(Bytes)
    BY <1>1, <2>2, <2>3, PathsOf DEF SharerInv, Inv, TypeOK
  <2> HIDE DEF s
  <2>5. /\ Len(s) <= Len(Archive(p))
        /\ \E r \in Sharers(p) : Opened(r) /\ off[r] <= Len(s) /\ RightUpTo(p, s, off[r])
    BY <2>2, <2>3 DEF SharedFileInv, s
  <2>6. PICK r \in Sharers(p) : off[r] <= Len(s) /\ RightUpTo(p, s, off[r])
    BY <2>5
  <2>7. off[r] = Len(Archive(p))
    <3>1. pc[r] = "returned" /\ OffInv(r)
      BY <2>1, <2>2, <2>3 DEF Succeeded, SharerInv
    <3>2. off[r] = Len(Archive(r))
      BY <2>3, <3>1 DEF OffInv
    <3> QED
      BY <2>1, <2>3, <3>2, SameArchives
  <2>8. /\ Archive(p) \in Seq(Bytes) /\ Len(Archive(p)) \in Nat /\ 2 \in 1..Len(Archive(p))
        /\ Len(s) = Len(Archive(p))
    <3>1. Len(Archive(p)) = 2 + ObjLen[Input[p]] + Len(PadOf(ObjLen[Input[p]]))
      BY ArchiveBytes
    <3>2. ObjLen[Input[p]] \in Nat /\ Len(PadOf(ObjLen[Input[p]])) \in Nat
      BY ObjectType, ArchiveParts, LenProperties
    <3>3. Archive(p) \in Seq(Bytes) /\ Len(s) \in Nat
      BY <2>4, ArchiveBytes, LenProperties
    <3> QED
      BY <2>5, <2>6, <2>7, <3>1, <3>2, <3>3
  <2>9. PICK q \in Sharers(p) : s[2] = Archive(q)[2]
    BY <2>6, <2>7, <2>8 DEF RightUpTo
  <2>10. Archive(q) \in Seq(Bytes) /\ Len(Archive(q)) = Len(Archive(p))
    BY <2>1, <2>3, ArchiveBytes, SameArchives
  <2>11. ASSUME NEW k \in 1..Len(Archive(p))
         PROVE  s[k] = Archive(q)[k]
    <3>1. PICK o \in Sharers(p) : s[k] = Archive(o)[k]
      BY <2>6, <2>7 DEF RightUpTo
    <3>2. k # 2 => Archive(o)[k] = Archive(p)[k] /\ Archive(q)[k] = Archive(p)[k]
      BY <2>1, <2>3, SameArchives
    <3> QED
      BY <2>9, <3>1, <3>2
  <2>12. s = Archive(q)
    BY <2>4, <2>8, <2>10, <2>11, SeqEqual
  <2> QED
    BY <2>4, <2>12 DEF s
<1> QED
  BY <1>1, InvariantHolds, SharersInvariant, PTL

\* A run that has its output to itself keeps it so.
LEMMA RepairNext ==
  ASSUME NEW p \in Procs, NamesApart, Inv, SharedInv, RepairInv(p), [Next]_vars
  PROVE  RepairInv(p)'
<1>1. \A q \in Procs : TempAlone(q) /\ SharerInv(q)
  BY NamesApartMeansAlone DEF SharedInv
<1>2. CASE UNCHANGED vars
  BY <1>2 DEF RepairInv, Lost, Opened, vars
<1>3. ASSUME NEW a \in Procs, Step(a) \/ Kill(a)
      PROVE  RepairInv(p)'
  <2>1. SharerOK(a) /\ Frame(a)
    BY <1>1, <1>3, EverySharedOK, EveryStepOK DEF StepOK
  <2>2. pc[a] \notin Final
    BY <1>3 DEF Step, Kill, Parse, ExtractSections, ExtractSymbols, ExtractRelocations, Extract,
       CreateWriter, OpenObject, WriteObject, ReopenObject, StatObject, ReadObject, OpenArchive,
       WriteMagic, WriteHeader, WriteData, WritePadding, ArchiveWrite, Finalize, Cleanup,
       OutOfMemory, Allocating, Running, ParseLabels, ObjectLabels, ReadLabels, ArchiveLabels, Final
  <2>3. a = p \/ a \notin Sharers(p)
    BY <2>2 DEF RepairInv
  <2>4. \A q \in Sharers(p) \ {p} : pc'[q] \in Final
    BY <2>1, <2>3 DEF RepairInv, Frame, Sharers
  <2>5. CASE a # p
    <3>1. Out[p] \notin {Out[a], TempName(a)} /\ Out[p] \in Paths
      BY <2>3, <2>5, PathsOf DEF Sharers, NamesApart
    <3>2. /\ pc'[p] = pc[p] /\ code'[p] = code[p] /\ off'[p] = off[p]
          /\ Opened(p)' = Opened(p) /\ Lost(p)' = Lost(p)
      BY <2>1, <2>5 DEF Frame, Opened, Lost
    <3>3. dir[Out[p]] # NoInode => dir[Out[p]] \in Inodes /\ dir[Out[p]].home = Out[p]
      BY <3>1 DEF Inv, TypeOK, HomeInv
    <3>4. /\ dir'[Out[p]] = dir[Out[p]]
          /\ dir[Out[p]] # NoInode => content'[dir[Out[p]]] = content[dir[Out[p]]]
      BY <2>1, <3>1, <3>3 DEF Frame
    <3>5. Opened(p) => dir[Out[p]] # NoInode
      BY <1>1 DEF SharerInv
    <3> QED
      BY <2>4, <3>2, <3>4, <3>5 DEF RepairInv
  <2>6. CASE a = p
    <3>1. SUFFICES ASSUME ~Lost(p)'
                   PROVE  Opened(p)' /\ content'[dir'[Out[p]]] = SubSeq(Archive(p), 1, off'[p])
      BY <2>4 DEF RepairInv
    <3>2. ~Lost(p) /\ (Quiet(p) \/ Emptied(p) \/ Extended(p))
      BY <2>1, <2>6, <3>1 DEF SharerOK
    <3>3. Archive(p) \in Seq(Bytes) /\ off[p] \in Nat
      BY ArchiveBytes DEF Inv, TypeOK
    <3>4. CASE Emptied(p)
      <4>1. SubSeq(Archive(p), 1, 0) = <<>>
        BY <3>3
      <4> QED
        BY <3>4, <4>1 DEF Emptied
    <3>5. CASE ~Emptied(p)
      <4>1. Opened(p) /\ content[dir[Out[p]]] = SubSeq(Archive(p), 1, off[p])
        <5>1. SUFFICES ASSUME pc[p] = "ar_open"
                       PROVE  Opened(p)
          BY <3>2 DEF RepairInv, Opened, ArchiveLabels
        <5>2. OpenArchive(p) \/ OutOfMemory(p) \/ Kill(p)
          BY <1>3, <2>6, <5>1 DEF Step, Parse, ExtractSections, ExtractSymbols, ExtractRelocations,
             Extract, CreateWriter, OpenObject, WriteObject, ReopenObject, StatObject, ReadObject,
             WriteMagic, WriteHeader, WriteData, WritePadding, ArchiveWrite, Finalize, Cleanup
        <5>3. pc'[p] = "ar_magic"
          BY <3>1, <5>2 DEF OpenArchive, OutOfMemory, Kill, Vanish, Fail, Goto, Lost, Inv, TypeOK
        <5>4. Opened(p)'
          BY <5>3 DEF Opened, ArchiveLabels
        <5> QED
          BY <3>2, <3>5, <5>4 DEF Quiet, Extended
      <4>2. CASE Quiet(p)
        <5>1. dir[Out[p]] # NoInode
          BY <1>1, <4>1 DEF SharerInv
        <5> QED
          BY <4>1, <4>2, <5>1 DEF Quiet
      <4>3. CASE Extended(p)
        <5> DEFINE s == content[dir[Out[p]]]
                   t == content'[dir'[Out[p]]]
        <5>1. PICK bs \in Seq(Bytes) :
                /\ t = WriteAt(s, off[p], bs)
                /\ off'[p] = off[p] + Len(bs) /\ off'[p] <= Len(Archive(p))
                /\ \A k \in 1..Len(bs) : bs[k] = Archive(p)[off[p] + k]
          BY <4>3 DEF Extended
        <5> HIDE DEF t
        <5>2. Len(bs) \in Nat /\ Len(Archive(p)) \in Nat /\ off[p] \in 0..Len(Archive(p))
          BY <3>3, <5>1, LenProperties
        <5>3. /\ s = SubSeq(Archive(p), 1, off[p]) /\ s \in Seq(Bytes) /\ Len(s) = off[p]
          BY <3>3, <4>1, <5>2, PrefixType
        <5> HIDE DEF s
        <5>4. t = s \o bs
          BY <5>1, <5>3, WriteAtEnd
        <5>5. /\ t \in Seq(Bytes) /\ Len(t) = off'[p]
              /\ \A k \in 1..Len(s) : t[k] = s[k]
              /\ \A k \in 1..Len(bs) : t[Len(s) + k] = bs[k]
          <6>1. /\ t \in Seq(Bytes) /\ Len(t) = Len(s) + Len(bs)
                /\ \A k \in 1..Len(s) : t[k] = s[k]
                /\ \A k \in 1..Len(bs) : t[Len(s) + k] = bs[k]
            <7>1. s \in Seq(Bytes) /\ bs \in Seq(Bytes)
              BY <5>3
            <7>2. /\ s \o bs \in Seq(Bytes) /\ Len(s \o bs) = Len(s) + Len(bs)
                  /\ \A k \in 1..Len(s) : (s \o bs)[k] = s[k]
                  /\ \A k \in 1..Len(bs) : (s \o bs)[Len(s) + k] = bs[k]
              BY <7>1, InARow, Zenon
            <7> QED
              BY <5>4, <7>2, Zenon
          <6> QED
            BY <5>1, <5>3, <6>1
        <5>6. ASSUME NEW k \in 1..off'[p]
              PROVE  t[k] = Archive(p)[k]
          <6>1. CASE k <= off[p]
            <7>1. k \in 1..off[p] /\ s[k] = Archive(p)[k]
              BY <3>3, <5>1, <5>2, <5>3, <5>6, <6>1
            <7> QED
              BY <5>3, <5>5, <7>1
          <6>2. CASE k > off[p]
            <7>1. k - off[p] \in 1..Len(bs) /\ off[p] + (k - off[p]) = k
              BY <5>1, <5>2, <5>6, <6>2
            <7> QED
              BY <5>1, <5>3, <5>5, <7>1, SMTT(60)
          <6> QED
            BY <5>1, <5>2, <5>6, <6>1, <6>2
        <5>7. off'[p] \in 0..Len(Archive(p))
          BY <5>1, <5>2
        <5>8. /\ SubSeq(Archive(p), 1, off'[p]) \in Seq(Bytes)
              /\ Len(SubSeq(Archive(p), 1, off'[p])) = off'[p]
              /\ \A k \in 1..off'[p] : SubSeq(Archive(p), 1, off'[p])[k] = Archive(p)[k]
          BY <3>3, <5>7
        <5>9. t = SubSeq(Archive(p), 1, off'[p])
          BY <5>5, <5>6, <5>8, SeqEqual
        <5> QED
          BY <4>3, <5>9 DEF Extended, t
      <4> QED
        BY <3>2, <3>5, <4>2, <4>3
    <3> QED
      BY <3>4, <3>5
  <2> QED
    BY <2>5, <2>6
<1> QED
  BY <1>2, <1>3 DEF Next, Finished

\* The success of a run whose sharers have ended is a complete archive of its
\* own, whatever they left (ar_writer.c).
THEOREM Repaired == Spec => RerunRepairs
<1> DEFINE Start(p) == /\ NamesApart
                       /\ pc[p] = "ar_open"
                       /\ \A q \in Sharers(p) \ {p} : pc[q] \in Final
           Whole(p) == Succeeded(p) => /\ dir[Out[p]] # NoInode
                                       /\ content[dir[Out[p]]] = Archive(p)
           Alone(p) == NamesApart /\ RepairInv(p)
<1>1. ASSUME NEW p \in Procs
      PROVE  Spec => [](Start(p) => []Whole(p))
  <2>1. Start(p) => Alone(p)
    BY DEF RepairInv
  <2>2. Alone(p) /\ Inv /\ SharedInv /\ [Next]_vars => Alone(p)'
    BY RepairNext DEF NamesApart
  <2>3. Alone(p) /\ Inv /\ SharedInv => Whole(p)
    <3>1. SUFFICES ASSUME NamesApart, RepairInv(p), Inv, SharedInv, Succeeded(p)
                   PROVE  dir[Out[p]] # NoInode /\ content[dir[Out[p]]] = Archive(p)
      OBVIOUS
    <3>2. SharerInv(p) /\ Opened(p) /\ ~Lost(p) /\ pc[p] = "returned"
      BY <3>1 DEF SharedInv, Succeeded, Opened, Lost
    <3>3. /\ content[dir[Out[p]]] = SubSeq(Archive(p), 1, Len(Archive(p)))
          /\ dir[Out[p]] # NoInode
      BY <3>1, <3>2 DEF RepairInv, SharerInv, OffInv
    <3>4. Archive(p) \in Seq(Bytes)
      BY ArchiveBytes
    <3>5. SubSeq(Archive(p), 1, Len(Archive(p))) = Archive(p)
      BY <3>4, PrefixType, LenProperties
    <3> QED
      BY <3>3, <3>5
  <2> HIDE DEF Start, Whole, Alone
  <2> QED
    BY <2>1, <2>2, <2>3, InvariantHolds, SharersInvariant, PTL DEF Spec
<1> QED
  BY <1>1 DEF RerunRepairs

=============================================================================
