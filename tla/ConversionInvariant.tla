------------------------- MODULE ConversionInvariant -------------------------
(***************************************************************************)
(* The inductive invariant of Conversion: the safety properties of         *)
(* Conversion speak of a process that has returned, the invariant says what*)
(* makes them true at every label before.                                  *)
(***************************************************************************)
EXTENDS Conversion

(***************************************************************************)
(* A file is reached only through the path it was created at: by the       *)
(* directory, and by the descriptors of the processes that own the path.   *)
(* This is what keeps a process from another's files.                      *)
(***************************************************************************)
HomeInv ==
  /\ \A x \in Paths : dir[x] # NoInode => dir[x].home = x
  /\ \A p \in Procs : objfd[p] # NoInode => objfd[p].home = TempName(p)
  /\ \A p \in Procs : arfd[p] # NoInode => arfd[p].home = Out[p]

\* Which descriptors p has open at its label.
FdInv(p) ==
  /\ objfd[p] # NoInode <=> pc[p] \in {"obj_write", "obj_stat", "obj_read"}
  /\ arfd[p] # NoInode <=> pc[p] \in ArchiveLabels

\* What p may hold at its label.
HeldInv(p) ==
  /\ held[p] \subseteq Converted \union {"data", "ar_writer"}
  /\ "data" \in held[p] =>
       pc[p] \in {"obj_read", "ar_open"} \union (ArchiveLabels \ {"ar_finalize"})
  /\ "ar_writer" \in held[p] => pc[p] \in ArchiveLabels
  /\ pc[p] \in Final => held[p] = {}

Stores(x, s) == dir[x] # NoInode /\ content[dir[x]] = s

\* The labels between WriteObject and `cleanup`.
ObjectDone == ReadLabels \union {"ar_open"} \union ArchiveLabels

\* The temporary file of a process that has it to itself: empty when opened,
\* the complete object from WriteObject until `cleanup`.
ObjectInv(p) ==
  /\ pc[p] \in {"obj_write", "obj_stat", "obj_read"} => objfd[p] = dir[TempName(p)]
  /\ pc[p] = "obj_write" => content[objfd[p]] = <<>>
  /\ pc[p] \in ObjectDone => Stores(TempName(p), Object(Input[p]))
  /\ pc[p] = "cleanup" /\ code[p] = "ERR_OK" => Stores(TempName(p), Object(Input[p]))
  /\ pc[p] \in {"obj_read", "ar_open"} \union ArchiveLabels => size[p] = ObjLen[Input[p]]
  /\ pc[p] \in {"ar_open"} \union ArchiveLabels => data[p] = Object(Input[p])
  /\ pc[p] = "returned" /\ tempObj[p] /\ p \notin Keep => dir[TempName(p)] = NoInode
  /\ pc[p] = "returned" /\ code[p] = "ERR_OK" /\ p \in Keep
       => Stores(TempName(p), Object(Input[p]))

\* The archive p has open holds s, and p writes on at its end.
Written(p, s) == content[arfd[p]] = s /\ off[p] = Len(s)

\* The archive of a process that has its output path to itself.
ArchiveInv(p) ==
  LET size0 == ObjLen[Input[p]]
      opened == <<Magic, Header(p, size0)>> IN
  /\ pc[p] \in ArchiveLabels => arfd[p] = dir[Out[p]]
  /\ pc[p] = "ar_magic" => Written(p, <<>>)
  /\ pc[p] = "ar_header" => Written(p, <<Magic>>)
  /\ pc[p] = "ar_data" => Written(p, opened)
  /\ pc[p] = "ar_pad" => Written(p, opened \o Object(Input[p])) /\ size0 % 2 # 0
  /\ pc[p] = "ar_finalize" => Written(p, Archive(p))
  /\ pc[p] \in {"cleanup", "returned"} /\ code[p] = "ERR_OK" => Stores(Out[p], Archive(p))

\* FdInv, HeldInv and HomeInv hold of every process; the rest needs the paths
\* to be apart.
ProcInv(p) ==
  /\ FdInv(p)
  /\ HeldInv(p)
  /\ TempAlone(p) => ObjectInv(p)
  /\ TempAlone(p) /\ OutputAlone(p) => ArchiveInv(p)

\* Every process that has its paths to itself is where the properties need it,
\* and no process can reach a file of another (so2a.c, elf_writer.c and
\* ar_writer.c as composed in Conversion).
Inv ==
  /\ TypeOK
  /\ HomeInv
  /\ \A p \in Procs : ProcInv(p)

(***************************************************************************)
(* Processes that write one output at the same time, from one input.  They *)
(* all have the same file open and write bytes of the same archive where   *)
(* they belong; of the process that emptied the file last no byte is lost. *)
(***************************************************************************)

\* p has opened its archive, and has not failed since.
Opened(p) ==
  \/ pc[p] \in ArchiveLabels
  \/ pc[p] \in {"cleanup", "returned"} /\ code[p] = "ERR_OK"

\* p cannot report success any more.
Lost(p) == pc[p] \in {"exited", "killed"} \/ code[p] # "ERR_OK"

\* How much of its archive p has written at its label.
OffInv(p) ==
  LET size0 == ObjLen[Input[p]] IN
  /\ pc[p] = "ar_magic" => off[p] = 0
  /\ pc[p] = "ar_header" => off[p] = 1
  /\ pc[p] = "ar_data" => off[p] = 2
  /\ pc[p] = "ar_pad" => off[p] = 2 + size0 /\ size0 % 2 # 0
  /\ Opened(p) /\ pc[p] \notin {"ar_magic", "ar_header", "ar_data", "ar_pad"} =>
       off[p] = Len(Archive(p))

SharerInv(p) ==
  /\ Lost(p) => pc[p] \in Final \union {"cleanup"}
  /\ OffInv(p)
  /\ Opened(p) => dir[Out[p]] # NoInode
  /\ pc[p] \in ArchiveLabels => arfd[p] = dir[Out[p]]

SameInput(p) == \A q \in Sharers(p) : Input[q] = Input[p]

\* The bytes of s up to place n are those of sharers' archives.
RightUpTo(p, s, n) == \A k \in 1..n : \E q \in Sharers(p) : s[k] = Archive(q)[k]

SharedFileInv(p) ==
  SameInput(p) /\ (\E q \in Sharers(p) : Opened(q)) /\ (\A q \in Sharers(p) : ~Lost(q)) =>
    LET s == content[dir[Out[p]]] IN
    /\ Len(s) <= Len(Archive(p))
    /\ \E r \in Sharers(p) : Opened(r) /\ off[r] <= Len(s) /\ RightUpTo(p, s, off[r])

SharedInv == NamesApart => \A p \in Procs : SharerInv(p) /\ SharedFileInv(p)

\* A run whose sharers have ended has the file at its output to itself from
\* the moment it empties it.
RepairInv(p) ==
  /\ \A q \in Sharers(p) \ {p} : pc[q] \in Final
  /\ \/ pc[p] = "ar_open"
     \/ Lost(p)
     \/ Opened(p) /\ content[dir[Out[p]]] = SubSeq(Archive(p), 1, off[p])
=============================================================================
