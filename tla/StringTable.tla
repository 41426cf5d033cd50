----------------------------- MODULE StringTable -----------------------------
(***************************************************************************)
(* The string tables of common/string_table.h: string_table_t, which a     *)
(* client fills, and the views of it through which the client reads the    *)
(* strings and the names of symbols back.                                  *)
(*                                                                         *)
(* A string is a sequence of characters, the NUL left out.  The bytes of a *)
(* table are characters, NUL, or Unset where realloc has added them.       *)
(***************************************************************************)
EXTENDS Integers, Sequences, FiniteSetsExt

CONSTANTS
  Characters,      \* the bytes a string may hold
  NUL, Unset,      \* the byte 0, and a byte that nothing has written
  Strings,         \* what the client adds and looks for
  FirstTableSize,  \* the capacity at first, 4096
  OffsetLimit,     \* 2^32: offsets are uint32_t, a search returns an int
  MaxTableSize,    \* bound: the client adds no string that would make the table larger
  MaxAdded,        \* bound: strings that the client adds
  ForeignTables    \* tables of other files, which the client reads

TableBytes == Characters \union {NUL, Unset}

TableAssumption ==
  /\ NUL \notin Characters /\ Unset \notin Characters \union {NUL} \union Seq(TableBytes)
  /\ Strings \subseteq Seq(Characters) /\ ForeignTables \subseteq Seq(TableBytes)
  /\ \A t \in ForeignTables : Len(t) \in 1..(OffsetLimit \div 2)
  /\ FirstTableSize \in Nat \ {0} /\ OffsetLimit \in Nat
  /\ MaxTableSize \in 1..(OffsetLimit \div 2)

ASSUME TableAssumption

VARIABLES
  bytes,   \* strtab->data, as long as strtab->capacity
  size,    \* strtab->size
  block,   \* how often realloc has moved the data
  added,   \* what string_table_add was given and returned: the client's symbols
  viewed   \* a string_table_view_t: the block it points to, what it held, its size

tableVars == <<bytes, size, block, added, viewed>>

NotFound == 0 - 1
Foreign == 0 - 1   \* the block of a table that is not the client's own

-----------------------------------------------------------------------------
(***************************************************************************)
(* Reading.  A table is given as its bytes and its size; offsets count     *)
(* from 0.                                                                 *)
(***************************************************************************)
ByteOf(data, offset) == data[offset + 1]

\* The offset of the first NUL from `offset` on, `limit` when there is none.
NulFrom(data, limit, offset) ==
  Min({n \in offset..(limit - 1) : ByteOf(data, n) = NUL} \union {limit})

\* string_table_get_raw: the string at an offset, or NULL, here Unset, when the
\* table does not end it.
GetRaw(data, limit, offset) ==
  IF offset >= limit \/ NulFrom(data, limit, offset) = limit THEN Unset
  ELSE SubSeq(data, offset + 1, NulFrom(data, limit, offset))

\* Faulty: the end of the string is not looked for.
GetUnchecked(data, limit, offset) ==
  IF offset >= limit THEN Unset
  ELSE IF offset = 0 THEN <<>>
  ELSE SubSeq(data, offset + 1, NulFrom(data, limit, offset))

\* string_table_get: at offset 0 it is "" whatever the table holds there.
Get(data, limit, offset) ==
  IF offset >= limit THEN Unset
  ELSE IF offset = 0 THEN <<>>
  ELSE GetRaw(data, limit, offset)

\* The offsets that the loop of string_table_find_by_name comes to; it ends at
\* the first string that is not terminated.
StepsFrom(data, limit, start) ==
  LET at[n \in 0..limit] ==
        IF n = 0 THEN start
        ELSE LET str == Get(data, limit, at[n - 1]) IN
             IF str = Unset THEN limit ELSE at[n - 1] + Len(str) + 1
  IN  {at[n] : n \in 0..limit} \ {limit}

\* (int)offset.
AsInt(offset) ==
  LET low == offset % OffsetLimit IN IF low < OffsetLimit \div 2 THEN low ELSE low - OffsetLimit

\* string_table_find_by_name.
FindByName(data, limit, name, start) ==
  IF start >= limit THEN NotFound
  ELSE LET found == {n \in StepsFrom(data, limit, start) : Get(data, limit, n) = name}
       IN  IF found = {} THEN NotFound ELSE AsInt(Min(found))

-----------------------------------------------------------------------------
(***************************************************************************)
(* Writing.                                                                *)
(***************************************************************************)
Grown(data, capacity) == [n \in 1..capacity |-> IF n <= Len(data) THEN data[n] ELSE Unset]

\* The capacities that the loop of string_table_add comes to, for at most as
\* many doublings as there are bytes.
Capacities(needed) ==
  LET doubled[n \in 0..needed] == IF n = 0 THEN Len(bytes) ELSE 2 * doubled[n - 1]
  IN  {doubled[n] : n \in 0..needed}

\* Faulty: the capacity is doubled once.
CapacityOnce(needed) == IF needed <= Len(bytes) THEN Len(bytes) ELSE 2 * Len(bytes)

CapacityFor(needed) == Min({capacity \in Capacities(needed) : needed <= capacity})

\* Faulty: the NUL is not counted, so that the next string overwrites it.
AddedSizeShort(str) == size + Len(str)

AddedSize(str) == size + Len(str) + 1

\* Faulty: the table is given up when it cannot grow.
AddFailsEmpty(str) ==
  /\ str # <<>> /\ AddedSize(str) > Len(bytes)
  /\ bytes' = Grown(<<NUL>>, Len(bytes)) /\ size' = 1
  /\ added' = Append(added, [str |-> str, at |-> 0, ok |-> FALSE])
  /\ UNCHANGED <<block, viewed>>

\* One of the reallocs finds no memory: those before it have been done, 0 is
\* returned.
AddFails(str) ==
  /\ str # <<>> /\ AddedSize(str) > Len(bytes)
  /\ \E capacity \in Capacities(AddedSize(str)) :
       /\ capacity < AddedSize(str)
       /\ bytes' = Grown(bytes, capacity)
       /\ block' = IF capacity = Len(bytes) THEN block ELSE block + 1
  /\ added' = Append(added, [str |-> str, at |-> 0, ok |-> FALSE])
  /\ UNCHANGED <<size, viewed>>

\* The string and its NUL are copied behind the last one.
AddCopies(str) ==
  LET room == Grown(bytes, CapacityFor(AddedSize(str))) IN
  /\ str # <<>>
  /\ bytes' = [n \in DOMAIN room |->
                 IF n \in (size + 1)..(size + Len(str)) THEN str[n - size]
                 ELSE IF n = size + Len(str) + 1 THEN NUL ELSE room[n]]
  /\ block' = IF Len(room) = Len(bytes) THEN block ELSE block + 1
  /\ size' = AddedSize(str)
  /\ added' = Append(added, [str |-> str, at |-> size % OffsetLimit, ok |-> TRUE])
  /\ UNCHANGED viewed

\* Nothing is added for the empty string.
AddEmpty(str) ==
  /\ str = <<>>
  /\ added' = Append(added, [str |-> str, at |-> 0, ok |-> TRUE])
  /\ UNCHANGED <<bytes, size, block, viewed>>

\* string_table_add.
Add(str) ==
  /\ AddedSize(str) <= MaxTableSize /\ Len(added) < MaxAdded
  /\ AddFails(str) \/ AddCopies(str) \/ AddEmpty(str)

\* string_table_view_create of the table as it is now, or of another file's.
ViewTable ==
  /\ viewed' = [block |-> block, bytes |-> bytes, size |-> size]
  /\ UNCHANGED <<bytes, size, block, added>>
ViewForeign ==
  /\ \E t \in ForeignTables : viewed' = [block |-> Foreign, bytes |-> t, size |-> Len(t)]
  /\ UNCHANGED <<bytes, size, block, added>>

TableInit ==
  /\ bytes = [n \in 1..FirstTableSize |-> NUL] /\ size = 1 /\ block = 0
  /\ added = <<>> /\ viewed = [block |-> Foreign, bytes |-> <<NUL>>, size |-> 1]

TableNext == (\E str \in Strings : Add(str)) \/ ViewTable

-----------------------------------------------------------------------------
(***************************************************************************)
(* Properties.                                                             *)
(***************************************************************************)
\* The types of the variables.
TableTypeOK ==
  /\ size \in 1..Len(bytes) /\ block \in Nat
  /\ \A n \in DOMAIN added : added[n].str \in Strings /\ added[n].at \in 0..(OffsetLimit - 1)
  /\ viewed.block \in Nat \union {Foreign} /\ viewed.size \in 1..Len(viewed.bytes)

\* symbol_table_get_name of the n-th symbol, whose st_name is what
\* string_table_add returned for its name.
SymbolName(n) == Get(bytes, size, added[n].at)

\* The offset that was returned for a name leads to it for good, and a search
\* finds it, however often the table has grown or failed to grow since; a name
\* that could not be added reads as the empty name (string_table.h:113-139).
NamesStay ==
  \A n \in DOMAIN added :
    /\ SymbolName(n) = IF added[n].ok THEN added[n].str ELSE <<>>
    /\ added[n].ok => LET found == FindByName(bytes, size, added[n].str, 0) IN
                      found \in 0..added[n].at /\ Get(bytes, size, found) = added[n].str

\* A view made before more was added reads the same strings as long as the table
\* was not moved (string_table.h:123, 131).
ViewStays ==
  viewed.block = block => SubSeq(bytes, 1, viewed.size) = SubSeq(viewed.bytes, 1, viewed.size)

\* In a table that starts with the empty string, also one whose last string is
\* not terminated, the two ways to read an offset agree and never pass the end;
\* and a search that starts where a string starts finds the first string of the
\* name from there on, if there is one (string_table.h:29-84, 153-180).
ViewReads ==
  LET t == viewed.bytes
      limit == viewed.size
      Starts(n) == n = 0 \/ ByteOf(t, n - 1) = NUL IN
  ByteOf(t, 0) = NUL =>
    /\ \A n \in 0..limit :
         /\ Get(t, limit, n) = GetRaw(t, limit, n)
         /\ Get(t, limit, n) # Unset => ByteOf(t, n + Len(Get(t, limit, n))) = NUL
    /\ \A name \in Strings, start \in {n \in 0..(limit - 1) : Starts(n)} :
         LET there == {n \in start..(limit - 1) : Starts(n) /\ GetRaw(t, limit, n) = name}
         IN  FindByName(t, limit, name, start) = IF there = {} THEN NotFound ELSE Min(there)
=============================================================================
