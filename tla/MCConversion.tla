---------------------------- MODULE MCConversion ----------------------------
(***************************************************************************)
(* Small instances of Conversion.  Two processes; paths of one or a few    *)
(* characters and room for five characters in temp[], so that a path of    *)
(* one character leaves room for the suffix (three characters) and one of  *)
(* five does not.                                                          *)
(***************************************************************************)
EXTENDS ConversionImplements, TLC

CONSTANTS p1, p2, libfoo, libbar

MCPid == (p1 :> "7" @@ p2 :> "8")
MCPathCap == 6

\* Objects of an odd and of an even size: only the first is padded.
MCObjLen == (libfoo :> 3 @@ libbar :> 2)

\* An earlier archive longer than any the run can write.
MCStaleFile == [k \in 1..7 |-> [kind |-> "stale", by |-> Nobody, n |-> k]]

\* Different outputs, one input each.
SeparateOut == (p1 :> <<"x">> @@ p2 :> <<"y">>)
TwoInputs == (p1 :> libfoo @@ p2 :> libbar)

\* One output.
SharedOut == (p1 :> <<"x">> @@ p2 :> <<"x">>)
OneInput == (p1 :> libfoo @@ p2 :> libfoo)

\* One process, with an output path exactly as long as temp[] can hold.
LongOut == (p1 :> <<"a", "b", "c", "d", "e">>)
MCPid1 == (p1 :> "7")
Input1 == (p1 :> libfoo)
=============================================================================
