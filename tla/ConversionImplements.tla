------------------------ MODULE ConversionImplements ------------------------
(***************************************************************************)
(* Conversion implements Publication for every process that has its paths  *)
(* to itself.                                                              *)
(***************************************************************************)
EXTENDS ConversionInvariant

Alone == {p \in Procs : TempAlone(p) /\ OutputAlone(p)}

\* A run fails, for Publication, when result.code is set or it ends without
\* a result; it starts to publish when it opens the archive.
PhaseOf(p) ==
  IF Succeeded(p) THEN "succeeded"
  ELSE IF pc[p] \in Final \/ (pc[p] = "cleanup" /\ code[p] # "ERR_OK") THEN "failed"
  ELSE IF pc[p] \in ArchiveLabels \union {"cleanup"} THEN "publishing"
  ELSE "working"

Promise == INSTANCE Publication WITH
  Runs  <- Alone,
  Goal  <- [p \in Alone |-> Archive(p)],
  phase <- [p \in Alone |-> PhaseOf(p)],
  out   <- [p \in Alone |-> FileAt(Out[p])]

\* The output path of every process holds what was there before, or a prefix
\* of its archive, and success is reported of the whole archive only: every
\* step of so2a.c, elf_writer.c and ar_writer.c is one of Publication or none.
PublishesInOrder == Promise!Spec
=============================================================================
