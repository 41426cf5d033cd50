-------------------------------- MODULE Endian --------------------------------
(***************************************************************************)
(* The byte orders of common/endian.h: a client that reads the fields of a *)
(* file one after the other through a dynamic_endian_t, or through the     *)
(* converter of the machine's own order.                                   *)
(*                                                                         *)
(* A value is the number it stands for.  The caller sees to it that the    *)
(* field lies inside the data: the parse functions do not look.            *)
(***************************************************************************)
EXTENDS Integers, Sequences, SequencesExt

CONSTANTS
  ByteLimit,     \* 2^8
  DataLength,    \* the length of the file
  NativeLittle   \* whether the machine stores the low byte first

EndianAssumption ==
  ByteLimit \in Nat \ {0, 1} /\ ByteLimit % 2 = 0 /\ DataLength \in Nat /\ NativeLittle \in BOOLEAN

ASSUME EndianAssumption

VARIABLES
  data,      \* the bytes of the file
  position,  \* *offset
  dynamic,   \* dynamic_endian_t: the order, "unset" before it is initialised
  native,    \* the functions of endian_native_runtime, "unset" before
             \* init_native_endian
  last       \* the last field that was parsed

endianVars == <<data, position, dynamic, native, last>>

Widths == {2, 4, 8}

\* ByteLimit to the k: what a shift by k bytes multiplies with.
Power ==
  LET power[k \in 0..8] == IF k = 0 THEN 1 ELSE ByteLimit * power[k - 1]
  IN  power

\* parse_u16_be, parse_u32_be, parse_u64_be: the first byte counts most.
ParseBig(bs) ==
  LET value[n \in 0..Len(bs)] == IF n = 0 THEN 0 ELSE value[n - 1] * ByteLimit + bs[n]
  IN  value[Len(bs)]

\* Faulty: the bytes in the order of the other machine.
ParseLittleSwapped(bs) == ParseBig(bs)

\* parse_u16_le, parse_u32_le, parse_u64_le.
ParseLittle(bs) == ParseBig(Reverse(bs))

Field(width) == SubSeq(data, position + 1, position + width)
Value(order, width) == IF order = "little" THEN ParseLittle(Field(width)) ELSE ParseBig(Field(width))

\* The int32_t or int64_t that has the bits of u.
Signed(u, width) ==
  LET range == Power[width] IN IF u >= range \div 2 THEN u - range ELSE u

-----------------------------------------------------------------------------
\* get_endian_converter and init_dynamic_endian: an unknown EI_DATA is refused
\* and leaves the converter as it was.
InitDynamic(eiData) ==
  /\ dynamic' = CASE eiData = 1 -> "little" [] eiData = 2 -> "big" [] OTHER -> dynamic
  /\ UNCHANGED <<data, position, native, last>>

\* init_native_endian.
InitNative ==
  /\ native' = IF NativeLittle THEN "little" ELSE "big"
  /\ UNCHANGED <<data, position, dynamic, last>>

\* A converter's parse function.
Parse(order, width) ==
  /\ position + width <= DataLength
  /\ last' = [at |-> position, width |-> width, order |-> order, value |-> Value(order, width),
              signed |-> Signed(Value(order, width), width)]
  /\ position' = position + width
  /\ UNCHANGED <<data, dynamic, native>>

Nothing == [at |-> 0, width |-> 0, order |-> "unset", value |-> 0, signed |-> 0]

\* dynamic_parse_u16, _u32 and _u64: 0, and nothing moves, before the order is
\* known.
ParseDynamic(width) ==
  IF dynamic = "unset" THEN last' = [Nothing EXCEPT !.at = position] /\ UNCHANGED <<data, position, dynamic, native>>
  ELSE Parse(dynamic, width)

\* The client uses endian_native_runtime once it is initialised.
ParseNative(width) == native # "unset" /\ Parse(native, width)

EndianInit ==
  /\ data \in [1..DataLength -> 0..(ByteLimit - 1)]
  /\ position = 0 /\ dynamic = "unset" /\ native = "unset" /\ last = Nothing

EndianNext ==
  \/ \E eiData \in 0..3 : InitDynamic(eiData)
  \/ InitNative
  \/ \E width \in Widths : ParseDynamic(width) \/ ParseNative(width)

-----------------------------------------------------------------------------
\* The bytes of v in the order of a file: what a writer of that order stores.
Digit(v, k) == (v \div Power[k]) % ByteLimit
Stored(v, order, width) ==
  [n \in 1..width |-> IF order = "little" THEN Digit(v, n - 1) ELSE Digit(v, width - n)]

\* Each field is the number that a writer of its order has stored there, signed
\* or not, and fields follow on each other without a gap; before the order is
\* known nothing is consumed (endian.h:37-121, 213-247).
FieldsAsStored ==
  /\ position = last.at + last.width
  /\ last.order # "unset" =>
       /\ Stored(last.value, last.order, last.width) = SubSeq(data, last.at + 1, last.at + last.width)
       /\ last.signed % Power[last.width] = last.value
       /\ 2 * last.signed < Power[last.width] /\ last.value < Power[last.width]
=============================================================================
