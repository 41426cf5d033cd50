------------------------------ MODULE MCProgram ------------------------------
(***************************************************************************)
(* Two processes and three files: a library, a library or an archive, and  *)
(* nothing or an archive.  The third is called `-k`: it is the option      *)
(* before `--`, and the file after it.                                     *)
(***************************************************************************)
EXTENDS Program, TLC

Short(l) == [kind |-> "short", letters |-> l]
Long(name) == [kind |-> "long", name |-> name]
Op(path) == [kind |-> "operand", path |-> path]
DashK == [kind |-> "short", letters |-> <<"k">>, path |-> "c"]
DashDash == [kind |-> "end"]

MCPaths == {"a", "b", "c"}

MCLibraries == {"foo", "bar", "old"}

\* Ways to replace a library, to read what another run writes, to write what it
\* writes, and to do nothing.
MCCommandLines ==
  {<<Op("a"), Op("a")>>, <<Op("a"), Op("b")>>, <<Op("b"), Op("a")>>,
   <<DashK, Op("b"), Op("c")>>, <<Op("c"), Short(<<"v", "k">>), Op("b")>>,
   <<Op("a"), Long("verbose"), DashDash, DashK>>, <<Op("a"), Op("b"), Long("keep_temp"), Op("c")>>,
   <<Op("a")>>, <<Op("a"), Op("b"), Short(<<"v", "h", "x">>)>>,
   <<Long("wrong"), Op("a"), Op("b"), Long("version")>>}

OldArchive == Archive(ObjectOf(LibraryOf("old")))

MCFileSystems ==
  [a : {LibraryOf("foo")}, b : {LibraryOf("bar"), OldArchive}, c : {Null, OldArchive}]
=============================================================================
