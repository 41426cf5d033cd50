----------------------------- MODULE Conversion -----------------------------
(***************************************************************************)
(* Processes running so2a against one shared file system.                  *)
(*                                                                         *)
(* Each process p is one run of `so2a [-k] input output`: it executes      *)
(* convert_so_to_archive (converter/so2a.c), which parses the input, copies*)
(* its sections, symbols and relocations, writes a temporary object file   *)
(* (elf_writer_write), reads it back and wraps it in an archive            *)
(* (create_archive), and leaves through the `cleanup` label.               *)
(*                                                                         *)
(* A step is one system call on a file other processes can see, or one     *)
(* call that only changes the process's own memory.  Every system call may *)
(* fail, a write or a read may be short, an allocation may fail (the x*    *)
(* allocators of common/utils.h then call exit) and a process may be       *)
(* killed at any time.                                                     *)
(*                                                                         *)
(* Files are sequences of `bytes`.  The archive's magic and its member     *)
(* header count as one byte each: both are written by one write(2) of a    *)
(* fixed, even size.  The object built from an input is a sequence that    *)
(* depends on the input alone.  A path is a sequence of characters.        *)
(***************************************************************************)
EXTENDS Naturals, Sequences

CONSTANTS
  Procs,      \* the so2a processes
  Out,        \* Out[p]: options->output_file of p
  Pid,        \* Pid[p]: getpid() of p, a single character of a path
  Input,      \* Input[p]: the library p converts
  ObjLen,     \* ObjLen[i]: size of the object file built from input i
  Keep,       \* the processes run with --keep-temp
  PathCap,    \* sizeof(temp) in generate_temp_filename, 256 in the code
  StaleFile,  \* content of a file that was there before any process ran
  NoInode,    \* no file, and no descriptor
  Nobody      \* the maker of a file that was there before, of a stale byte

ConversionAssumption ==
  /\ Out \in [Procs -> Seq(STRING)]
  /\ Pid \in [Procs -> STRING]
  /\ \A p, q \in Procs : Pid[p] = Pid[q] => p = q
  /\ \A p \in Procs : ObjLen[Input[p]] \in Nat \ {0}
  /\ PathCap \in Nat \ {0}
  /\ Nobody \notin Procs

ASSUME ConversionAssumption

-----------------------------------------------------------------------------
(***************************************************************************)
(* Paths.                                                                  *)
(***************************************************************************)

\* Faulty: a fixed suffix, so processes with one output share one file.
TempNameWithoutPid(p) == Out[p] \o <<".tmp", ".o">>

\* snprintf(temp, 256, "%s.tmp.%d.o", prefix, getpid()) keeps what fits
\* before the terminating NUL.
TempName(p) ==
  LET full == Out[p] \o <<".tmp.", Pid[p], ".o">>
  IN  IF Len(full) < PathCap THEN full ELSE SubSeq(full, 1, PathCap - 1)

Paths == {Out[p] : p \in Procs} \union {TempName(p) : p \in Procs}

\* A file system object: the path it was created at, who created it and as
\* what.  A process creates at most one file in each role, so every inode is
\* created once.
Inodes == [home : Paths, maker : Procs \union {Nobody}, role : {"old", "obj", "ar"}]
Fresh(x, p, r) == [home |-> x, maker |-> p, role |-> r]

ASSUME InodeAssumption == NoInode \notin Inodes

(***************************************************************************)
(* Bytes and files.                                                        *)
(***************************************************************************)
Bytes == [kind : {"hole", "magic", "pad", "header", "obj", "stale"},
          by : Procs \union {Input[p] : p \in Procs} \union {Nobody},
          n : Nat]
Byte(kind, by, n) == [kind |-> kind, by |-> by, n |-> n]

ASSUME StaleAssumption == StaleFile \in Seq(Bytes)

Hole == Byte("hole", Nobody, 0)     \* a gap left by a write past the end
Magic == Byte("magic", Nobody, 0)    \* AR_MAGIC
Padding == Byte("pad", Nobody, 0)     \* the '\n' after a member of odd size

\* The member header: ar_name and ar_date are p's own, ar_size is the size of
\* the member.
Header(p, size) == Byte("header", p, size)

\* What elf_writer_write leaves in writer->buffer for input i.
Object(i) == [k \in 1..ObjLen[i] |-> Byte("obj", i, k)]

\* The padding that follows a member of this size.
PadOf(size) == IF size % 2 # 0 THEN <<Padding>> ELSE <<>>

\* The archive create_archive is to leave: one member, the object of p.
Archive(p) == <<Magic, Header(p, ObjLen[Input[p]])>> \o Object(Input[p])
                \o PadOf(ObjLen[Input[p]])

\* write(2) of bs at offset `at` of a file that holds s.
WriteAt(s, at, bs) ==
  LET end == IF bs = <<>> THEN 0 ELSE at + Len(bs) IN
  [k \in 1..(IF Len(s) > end THEN Len(s) ELSE end) |->
     IF at < k /\ k <= end THEN bs[k - at]
     ELSE IF k <= Len(s) THEN s[k]
     ELSE Hole]

-----------------------------------------------------------------------------
VARIABLES
  pc,       \* pc[p]: where p is in convert_so_to_archive
  code,     \* code[p]: result.code
  tempObj,  \* tempObj[p]: temp_obj is not NULL
  held,     \* held[p]: the heap objects p owns
  objfd,    \* objfd[p]: the open object file (writer's, then reader's fd)
  arfd,     \* arfd[p]: ar_writer_t.fd
  off,      \* off[p]: file position of arfd[p]
  size,     \* size[p]: st_size of the object file in create_archive
  data,     \* data[p]: the object file read back by create_archive
  dir,      \* dir[x]: the file at path x
  content   \* content[i]: what file i holds

procVars == <<pc, code, tempObj, held, objfd, arfd, off, size, data>>
fileVars == <<dir, content>>
vars == <<pc, code, tempObj, held, objfd, arfd, off, size, data, dir, content>>

\* Labels of convert_so_to_archive and of the functions it calls, in order.
ParseLabels   == {"elf_parse", "extract_sections", "extract_symbols", "extract_relocations"}
ObjectLabels  == {"elf_writer_create", "obj_open", "obj_write"}
ReadLabels    == {"obj_reopen", "obj_stat", "obj_read"}
ArchiveLabels == {"ar_magic", "ar_header", "ar_data", "ar_pad", "ar_finalize"}
Running == ParseLabels \union ObjectLabels \union ReadLabels
             \union {"ar_open"} \union ArchiveLabels \union {"cleanup"}
Final == {"returned", "exited", "killed"}

Codes == {"ERR_OK", "ERR_FILE_NOT_FOUND", "ERR_INVALID_ELF", "ERR_UNSUPPORTED_ARCH",
          "ERR_MEMORY_ALLOC", "ERR_WRITE_FAILED", "ERR_READ_FAILED"}

\* The objects released at the `cleanup` label.
Converted == {"elf", "sections", "symtab", "relocs", "writer"}

\* Faulty: free(data) only after the archive is complete.
ArchiveObjectsButData == {"ar_writer"}

\* The objects of create_archive, released when a write fails.
ArchiveObjects == {"data", "ar_writer"}

Resources == Converted \union {"data", "ar_writer"}

TypeOK ==
  /\ pc \in [Procs -> Running \union Final]
  /\ code \in [Procs -> Codes]
  /\ tempObj \in [Procs -> BOOLEAN]
  /\ held \in [Procs -> SUBSET Resources]
  /\ objfd \in [Procs -> Inodes \union {NoInode}]
  /\ arfd \in [Procs -> Inodes \union {NoInode}]
  /\ off \in [Procs -> Nat]
  /\ size \in [Procs -> Nat]
  /\ data \in [Procs -> Seq(Bytes)]
  /\ dir \in [Paths -> Inodes \union {NoInode}]
  /\ content \in [Inodes -> Seq(Bytes)]

\* Any of the paths may already name a file: an archive from an earlier build,
\* or the temporary file of a killed run whose pid is in use again.
Init ==
  /\ pc = [p \in Procs |-> "elf_parse"]
  /\ code = [p \in Procs |-> "ERR_OK"]
  /\ tempObj = [p \in Procs |-> FALSE]
  /\ held = [p \in Procs |-> {}]
  /\ objfd = [p \in Procs |-> NoInode]
  /\ arfd = [p \in Procs |-> NoInode]
  /\ off = [p \in Procs |-> 0]
  /\ size = [p \in Procs |-> 0]
  /\ data = [p \in Procs |-> <<>>]
  /\ \E stale \in SUBSET Paths :
       dir = [x \in Paths |-> IF x \in stale THEN Fresh(x, Nobody, "old") ELSE NoInode]
  /\ content = [i \in Inodes |-> IF i.role = "old" THEN StaleFile ELSE <<>>]

-----------------------------------------------------------------------------
Goto(p, label) == pc' = [pc EXCEPT ![p] = label]

\* `result = ERR(c, ...); goto cleanup`
Fail(p, c) == Goto(p, "cleanup") /\ code' = [code EXCEPT ![p] = c]

Acquire(p, r) == held' = [held EXCEPT ![p] = @ \union {r}]
Release(p, rs) == held' = [held EXCEPT ![p] = @ \ rs]

\* The file at x, or a new one.
OpenedInode(x, p, role) == IF dir[x] = NoInode THEN Fresh(x, p, role) ELSE dir[x]

\* Faulty: no O_TRUNC.
CreateUntruncated(x, i) ==
  /\ dir' = [dir EXCEPT ![x] = i]
  /\ UNCHANGED content

\* open(x, O_WRONLY | O_CREAT | O_TRUNC).
CreateTruncated(x, i) ==
  /\ dir' = [dir EXCEPT ![x] = i]
  /\ content' = [content EXCEPT ![i] = <<>>]

-----------------------------------------------------------------------------
(***************************************************************************)
(* converter/so2a.c up to the object file.  The extract_* and convert_*    *)
(* functions return OK() on every path, so only elf_parse can send p to    *)
(* `cleanup` from here.                                                    *)
(***************************************************************************)

\* elf_parse: the mapped file and its elf_file_t, or an error that leaves no
\* resource behind.
Parse(p) ==
  /\ pc[p] = "elf_parse"
  /\ \/ /\ Acquire(p, "elf")
        /\ Goto(p, "extract_sections")
        /\ UNCHANGED code
     \/ /\ \E c \in {"ERR_FILE_NOT_FOUND", "ERR_READ_FAILED", "ERR_INVALID_ELF",
                     "ERR_UNSUPPORTED_ARCH"} : Fail(p, c)
        /\ UNCHANGED held
  /\ UNCHANGED <<tempObj, objfd, arfd, off, size, data, fileVars>>

Extract(p, label, result, next) ==
  /\ pc[p] = label
  /\ Acquire(p, result)
  /\ Goto(p, next)
  /\ UNCHANGED <<code, tempObj, objfd, arfd, off, size, data, fileVars>>

ExtractSections(p) == Extract(p, "extract_sections", "sections", "extract_symbols")
ExtractSymbols(p) == Extract(p, "extract_symbols", "symtab", "extract_relocations")
ExtractRelocations(p) == Extract(p, "extract_relocations", "relocs", "elf_writer_create")

\* temp_obj = generate_temp_filename(...), then elf_writer_create.
CreateWriter(p) ==
  /\ pc[p] = "elf_writer_create"
  /\ tempObj' = [tempObj EXCEPT ![p] = TRUE]
  /\ Acquire(p, "writer")
  /\ Goto(p, "obj_open")
  /\ UNCHANGED <<code, objfd, arfd, off, size, data, fileVars>>

(***************************************************************************)
(* writer/elf_writer.c: the tail of elf_writer_write, once the object is   *)
(* complete in writer->buffer.                                             *)
(***************************************************************************)
OpenObject(p) ==
  /\ pc[p] = "obj_open"
  /\ \/ LET i == OpenedInode(TempName(p), p, "obj") IN
        /\ CreateTruncated(TempName(p), i)
        /\ objfd' = [objfd EXCEPT ![p] = i]
        /\ Goto(p, "obj_write")
        /\ UNCHANGED code
     \/ /\ Fail(p, "ERR_WRITE_FAILED")
        /\ UNCHANGED <<objfd, fileVars>>
  /\ UNCHANGED <<tempObj, held, arfd, off, size, data>>

\* One write(2) of the whole buffer, then close(fd), then the length check.
WriteObject(p) ==
  LET obj == Object(Input[p]) IN
  /\ pc[p] = "obj_write"
  /\ \E n \in 0..Len(obj) :
       /\ content' = [content EXCEPT ![objfd[p]] = WriteAt(@, 0, SubSeq(obj, 1, n))]
       /\ IF n = Len(obj) THEN Goto(p, "obj_reopen") /\ UNCHANGED code
                          ELSE Fail(p, "ERR_WRITE_FAILED")
  /\ objfd' = [objfd EXCEPT ![p] = NoInode]
  /\ UNCHANGED <<tempObj, held, arfd, off, size, data, dir>>

(***************************************************************************)
(* writer/ar_writer.c: create_archive reads the object file back.          *)
(***************************************************************************)
ReopenObject(p) ==
  /\ pc[p] = "obj_reopen"
  /\ \/ /\ dir[TempName(p)] # NoInode
        /\ objfd' = [objfd EXCEPT ![p] = dir[TempName(p)]]
        /\ Goto(p, "obj_stat")
        /\ UNCHANGED code
     \/ /\ Fail(p, "ERR_FILE_NOT_FOUND")
        /\ UNCHANGED objfd
  /\ UNCHANGED <<tempObj, held, arfd, off, size, data, fileVars>>

\* fstat, and the buffer of st_size bytes.
StatObject(p) ==
  /\ pc[p] = "obj_stat"
  /\ \/ /\ size' = [size EXCEPT ![p] = Len(content[objfd[p]])]
        /\ Acquire(p, "data")
        /\ Goto(p, "obj_read")
        /\ UNCHANGED <<code, objfd>>
     \/ /\ Fail(p, "ERR_READ_FAILED")
        /\ objfd' = [objfd EXCEPT ![p] = NoInode]
        /\ UNCHANGED <<held, size>>
  /\ UNCHANGED <<tempObj, arfd, off, data, fileVars>>

\* Faulty: what read(2) returns is not looked at, so the end of the buffer may
\* keep what the allocator left there.
ReadObjectUnchecked(p) ==
  LET file == content[objfd[p]]
      unset == Byte("unset", Nobody, 0) IN
  /\ pc[p] = "obj_read"
  /\ \E n \in 0..size[p] :
       /\ n <= Len(file)
       /\ data' = [data EXCEPT ![p] = SubSeq(file, 1, n) \o [k \in 1..(size[p] - n) |-> unset]]
  /\ Goto(p, "ar_open")
  /\ objfd' = [objfd EXCEPT ![p] = NoInode]
  /\ UNCHANGED <<code, tempObj, held, arfd, off, size, fileVars>>

\* One read(2) of st_size bytes; the file may have changed since fstat.
ReadObject(p) ==
  LET file == content[objfd[p]] IN
  /\ pc[p] = "obj_read"
  /\ \/ /\ size[p] <= Len(file)
        /\ data' = [data EXCEPT ![p] = SubSeq(file, 1, size[p])]
        /\ Goto(p, "ar_open")
        /\ UNCHANGED <<code, held>>
     \/ /\ Fail(p, "ERR_READ_FAILED")
        /\ Release(p, {"data"})
        /\ UNCHANGED data
  /\ objfd' = [objfd EXCEPT ![p] = NoInode]
  /\ UNCHANGED <<tempObj, arfd, off, size, fileVars>>

(***************************************************************************)
(* writer/ar_writer.c: the archive.                                        *)
(***************************************************************************)

\* ar_writer_create up to open(2).
OpenArchive(p) ==
  /\ pc[p] = "ar_open"
  /\ \/ LET i == OpenedInode(Out[p], p, "ar") IN
        /\ CreateTruncated(Out[p], i)
        /\ arfd' = [arfd EXCEPT ![p] = i]
        /\ off' = [off EXCEPT ![p] = 0]
        /\ Acquire(p, "ar_writer")
        /\ Goto(p, "ar_magic")
        /\ UNCHANGED code
     \/ /\ Fail(p, "ERR_WRITE_FAILED")
        /\ Release(p, {"data"})
        /\ UNCHANGED <<arfd, off, fileVars>>
  /\ UNCHANGED <<tempObj, objfd, size, data>>

\* Faulty: a short write counts as a write.
ArchiveWriteShort(p, label, bs, next, done) ==
  /\ pc[p] = label
  /\ \E n \in 0..Len(bs) :
       /\ content' = [content EXCEPT ![arfd[p]] = WriteAt(@, off[p], SubSeq(bs, 1, n))]
       /\ off' = [off EXCEPT ![p] = @ + n]
  /\ Release(p, done)
  /\ Goto(p, next)
  /\ UNCHANGED <<code, tempObj, objfd, arfd, size, data, dir>>

\* One write(2) of bs to the archive.  All of it: go on to `next`, releasing
\* `done`.  Less, or -1: close the archive, release the writer and the data,
\* and fail.
ArchiveWrite(p, label, bs, next, done) ==
  /\ pc[p] = label
  /\ \E n \in 0..Len(bs) :
       /\ content' = [content EXCEPT ![arfd[p]] = WriteAt(@, off[p], SubSeq(bs, 1, n))]
       /\ off' = [off EXCEPT ![p] = @ + n]
       /\ \/ /\ n = Len(bs)
             /\ Release(p, done)
             /\ Goto(p, next)
             /\ UNCHANGED <<code, arfd>>
          \/ /\ n < Len(bs) \/ n = 0
             /\ Release(p, ArchiveObjects)
             /\ arfd' = [arfd EXCEPT ![p] = NoInode]
             /\ Fail(p, "ERR_WRITE_FAILED")
  /\ UNCHANGED <<tempObj, objfd, size, data, dir>>

\* The rest of ar_writer_create, then the three writes of ar_writer_add_file.
WriteMagic(p) == ArchiveWrite(p, "ar_magic", <<Magic>>, "ar_header", {})
WriteHeader(p) == ArchiveWrite(p, "ar_header", <<Header(p, size[p])>>, "ar_data", {})
WriteData(p) ==
  IF size[p] % 2 # 0
  THEN ArchiveWrite(p, "ar_data", data[p], "ar_pad", {})
  ELSE ArchiveWrite(p, "ar_data", data[p], "ar_finalize", {"data"})
WritePadding(p) == ArchiveWrite(p, "ar_pad", PadOf(size[p]), "ar_finalize", {"data"})

\* ar_writer_finalize does not look at what fsync returns; ar_writer_free
\* then closes the archive.
Finalize(p) ==
  /\ pc[p] = "ar_finalize"
  /\ arfd' = [arfd EXCEPT ![p] = NoInode]
  /\ Release(p, {"ar_writer"})
  /\ code' = [code EXCEPT ![p] = "ERR_OK"]
  /\ Goto(p, "cleanup")
  /\ UNCHANGED <<tempObj, objfd, off, size, data, fileVars>>

\* Faulty: the temporary object is unlinked after a success only.
UnlinkedOnSuccess(p) ==
  IF tempObj[p] /\ code[p] = "ERR_OK" /\ p \notin Keep THEN {TempName(p)} ELSE {}

\* Faulty: a failed run removes whatever is at the output path as well.
UnlinkedWithOutput(p) ==
  IF code[p] # "ERR_OK" THEN {TempName(p), Out[p]}
  ELSE IF tempObj[p] /\ p \notin Keep THEN {TempName(p)} ELSE {}

\* What `cleanup` unlinks: the temporary object unless it is to be kept.
Unlinked(p) == IF tempObj[p] /\ p \notin Keep THEN {TempName(p)} ELSE {}

\* The `cleanup` label; what was converted is released.
Cleanup(p) ==
  /\ pc[p] = "cleanup"
  /\ dir' = [x \in Paths |-> IF x \in Unlinked(p) THEN NoInode ELSE dir[x]]
  /\ Release(p, Converted)
  /\ Goto(p, "returned")
  /\ UNCHANGED <<code, tempObj, objfd, arfd, off, size, data, content>>

-----------------------------------------------------------------------------
(***************************************************************************)
(* Ends of a process that do not go through `cleanup`.                     *)
(***************************************************************************)

\* The operating system reclaims the memory and closes the descriptors.
Vanish(p, how) ==
  /\ Goto(p, how)
  /\ held' = [held EXCEPT ![p] = {}]
  /\ objfd' = [objfd EXCEPT ![p] = NoInode]
  /\ arfd' = [arfd EXCEPT ![p] = NoInode]

\* The labels at which an x* allocator is called.
Allocating == ParseLabels \union {"elf_writer_create", "obj_open", "obj_stat", "ar_open"}

\* exit(ERR_MEMORY_ALLOC) in xmalloc, xcalloc, xrealloc or xstrdup.
OutOfMemory(p) ==
  /\ pc[p] \in Allocating
  /\ Vanish(p, "exited")
  /\ code' = [code EXCEPT ![p] = "ERR_MEMORY_ALLOC"]
  /\ UNCHANGED <<tempObj, off, size, data, fileVars>>

Kill(p) ==
  /\ pc[p] \in Running
  /\ Vanish(p, "killed")
  /\ UNCHANGED <<code, tempObj, off, size, data, fileVars>>

Step(p) ==
  \/ Parse(p) \/ ExtractSections(p) \/ ExtractSymbols(p) \/ ExtractRelocations(p)
  \/ CreateWriter(p) \/ OpenObject(p) \/ WriteObject(p)
  \/ ReopenObject(p) \/ StatObject(p) \/ ReadObject(p)
  \/ OpenArchive(p) \/ WriteMagic(p) \/ WriteHeader(p) \/ WriteData(p)
  \/ WritePadding(p) \/ Finalize(p) \/ Cleanup(p) \/ OutOfMemory(p)

\* Every process has ended.
Finished == (\A p \in Procs : pc[p] \in Final) /\ UNCHANGED vars

Next == (\E p \in Procs : Step(p) \/ Kill(p)) \/ Finished

Spec == Init /\ [][Next]_vars

\* Every system call returns and every process that can run is scheduled.
FairSpec == Spec /\ \A p \in Procs : WF_vars(Step(p))

-----------------------------------------------------------------------------
(***************************************************************************)
(* Properties.                                                             *)
(***************************************************************************)

\* No other process has a file of its own at p's output path.
OutputAlone(p) ==
  \A q \in Procs \ {p} : Out[q] # Out[p] /\ TempName(q) # Out[p]

\* p's temporary file is nobody's output and no other's temporary file.
TempAlone(p) ==
  /\ TempName(p) # Out[p]
  /\ \A q \in Procs \ {p} : TempName(q) # TempName(p) /\ Out[q] # TempName(p)

\* Every temporary name fits in temp[], and no output is spelled like one.
NamesApart ==
  /\ \A p \in Procs : Len(Out[p]) + 3 < PathCap
  /\ \A p, q \in Procs : TempName(p) # Out[q]

Sharers(p) == {q \in Procs : Out[q] = Out[p]}

Succeeded(p) == pc[p] = "returned" /\ code[p] = "ERR_OK"

FileAt(x) == IF dir[x] = NoInode THEN NoInode ELSE content[dir[x]]

\* A run that reports success has left the complete archive of its input's
\* object at its output path, and it stays there, whatever was at the path
\* before and whatever other processes do elsewhere (so2a.c:155-167).
SuccessMeansArchive ==
  \A p \in Procs : OutputAlone(p) /\ TempAlone(p) /\ Succeeded(p)
                     => dir[Out[p]] # NoInode /\ content[dir[Out[p]]] = Archive(p)

\* convert_so_to_archive never returns with its temporary file left behind,
\* on any error path, and with --keep-temp a successful run leaves the
\* complete object there (so2a.c:171-173).
TempFileSettled ==
  \A p \in Procs : TempAlone(p) /\ tempObj[p] /\ pc[p] = "returned" =>
     /\ p \notin Keep => dir[TempName(p)] = NoInode
     /\ p \in Keep /\ code[p] = "ERR_OK" =>
          dir[TempName(p)] # NoInode /\ content[dir[TempName(p)]] = Object(Input[p])

\* Whatever convert_so_to_archive returns, every object it allocated is
\* released and every descriptor closed, in it and in create_archive.
NothingHeldOnReturn ==
  \A p \in Procs : pc[p] = "returned" =>
     held[p] = {} /\ objfd[p] = NoInode /\ arfd[p] = NoInode

\* What create_archive wraps is the object this process wrote, even when
\* several processes write the same output at once: the pid in the name keeps
\* their temporary files apart (so2a.c:16).
OwnObjectWrapped ==
  NamesApart => \A p \in Procs :
     pc[p] \in {"ar_open"} \union ArchiveLabels => data[p] = Object(Input[p])

\* The file at the output path does not change before the complete object has
\* been read back, so a run that fails earlier leaves an archive of an earlier
\* build as it was; nor does it change once p has ended.
OutputTouchedLate ==
  [][\A p \in Procs :
       OutputAlone(p) /\ TempAlone(p) /\ FileAt(Out[p])' # FileAt(Out[p])
         => /\ pc[p] \in {"ar_open"} \union ArchiveLabels
            /\ data[p] = Object(Input[p])]_vars

\* Processes that convert the same input to the same output at the same time
\* and all report success leave a complete archive, that of one of them.
SharersConverge ==
  NamesApart => \A p \in Procs :
    (\A q \in Sharers(p) : Succeeded(q) /\ Input[q] = Input[p])
      => /\ dir[Out[p]] # NoInode
         /\ \E q \in Sharers(p) : content[dir[Out[p]]] = Archive(q)

\* A run repairs what runs that failed, or were killed, half way through the
\* same archive have left: once they have ended, its success means a complete
\* archive of its own (O_TRUNC, ar_writer.c:17).
RerunRepairs ==
  \A p \in Procs :
    [](/\ NamesApart
       /\ pc[p] = "ar_open"
       /\ \A q \in Sharers(p) \ {p} : pc[q] \in Final
       => [](Succeeded(p) => /\ dir[Out[p]] # NoInode
                             /\ content[dir[Out[p]]] = Archive(p)))

\* A temporary file that was created is eventually removed, unless it is to be
\* kept or the process ends without reaching `cleanup`.
TempEventuallyRemoved ==
  \A p \in Procs :
    (TempAlone(p) /\ p \notin Keep /\ pc[p] = "obj_write")
      ~> (dir[TempName(p)] = NoInode \/ pc[p] \in {"exited", "killed"})

(***************************************************************************)
(* What comments and messages of the program say, and the code does not do.*)
(***************************************************************************)

\* "Created: %s" is printed, and 0 returned, only when the output exists
\* (so2a.c:164).
CreatedMeansExists ==
  \A p \in Procs : OutputAlone(p) /\ Succeeded(p) => dir[Out[p]] # NoInode

=============================================================================
