------------------------------ MODULE MCHeaders ------------------------------
(***************************************************************************)
(* Small sizes: a pool of a few blocks, sizes up to PTRDIFF_MAX of a       *)
(* size_t of six bits, views asked for offsets and sizes up to SIZE_MAX,   *)
(* tables that grow up to three times.                                     *)
(***************************************************************************)
EXTENDS Headers, TLC

MCCharacters == {"a", "b"}

MCStrings == {<<>>, <<"a">>, <<"b", "a">>, <<"b", "a", "b", "b", "a">>}

\* Tables of up to five bytes, terminated or not.
MCForeignTables == UNION {[1..n -> MCCharacters \union {NUL}] : n \in 1..5}
=============================================================================
