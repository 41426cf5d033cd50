------------------------------- MODULE Headers -------------------------------
(***************************************************************************)
(* The three headers side by side.  They share no state, so the order of   *)
(* steps of different ones adds nothing, and a behaviour exercises one.    *)
(***************************************************************************)
EXTENDS Memory, StringTable, Endian

VARIABLE subject  \* the header that is used

memoryVars == <<poolVars, viewVars, managerVars>>
vars == <<memoryVars, tableVars, endianVars, subject>>

Init ==
  /\ subject \in {"pool", "view", "manager", "table", "foreign", "endian"}
  /\ MemoryInit /\ TableInit
  /\ EndianInit /\ (subject # "endian" => data = [n \in 1..DataLength |-> 0])

Next ==
  /\ UNCHANGED subject
  /\ \/ subject = "pool" /\ PoolNext /\ UNCHANGED <<viewVars, managerVars, tableVars, endianVars>>
     \/ subject = "view" /\ ViewNext /\ UNCHANGED <<poolVars, managerVars, tableVars, endianVars>>
     \/ subject = "manager" /\ ManagerNext /\ UNCHANGED <<poolVars, viewVars, tableVars, endianVars>>
     \/ subject = "table" /\ TableNext /\ UNCHANGED <<memoryVars, endianVars>>
     \/ subject = "foreign" /\ ViewForeign /\ UNCHANGED <<memoryVars, endianVars>>
     \/ subject = "endian" /\ EndianNext /\ UNCHANGED <<memoryVars, tableVars>>

Spec == Init /\ [][Next]_vars

\* The types of what the headers keep; among them that the bytes of a string
\* table in use are within its capacity (string_table.h:128-137).
TypeOK == MemoryTypeOK /\ TableTypeOK
=============================================================================
