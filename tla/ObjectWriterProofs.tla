-------------------------- MODULE ObjectWriterProofs --------------------------
(***************************************************************************)
(* The object that elf_writer_write builds, proved for every library, for  *)
(* every size of the ELF structures and of the buffer, and for every length*)
(* of the names.                                                           *)
(*                                                                         *)
(* The invariant says what lies in the buffer below writer->buffer_offset. *)
(***************************************************************************)
EXTENDS ObjectWriter, TranslationProofs, Induction

Kinds == {"unset", "padding", "ehdr", "shdrs", "data", "symbols", "strtab", "shstrtab"}
ByteRecord == [kind : Kinds, of : Nat, n : Nat]

\* Where the sections begin.
HdrEnd == EhdrSize + (Len(sections) + 3) * ShdrSize

\* The labels at which there is a buffer.
Writing == {"write_sections", "write_strtab", "write_shstrtab", "write_back", "built"}
AllLabels ==
  NoRelocations \union Writing \union {"translated", "write_header"}

\* The types of what the writer keeps; the section headers fit into a uint16_t.
ShapeInv ==
  /\ pc \in AllLabels
  /\ offset \in Nat /\ buffer \in Seq(ByteRecord)
  /\ DOMAIN shdrs \in {{}} \union {0..(n - 1) : n \in 1..(IndexLimit - 1)}

\* The ELF header is at the start, the skipped space behind it, and what lies
\* between the skipped space and the offset has been written.
BufferInv ==
  pc \in Writing =>
    /\ HdrEnd <= offset /\ EhdrSize <= Len(buffer)
    /\ HdrEnd < offset => offset <= Len(buffer)
    /\ pc # "write_sections" => HdrEnd < offset
    /\ pc = "write_sections" => 1 <= i /\ i <= Len(sections)
    /\ DOMAIN shdrs = 0..(Len(sections) + 2)
    /\ \A n \in 1..EhdrSize : buffer[n] = Byte("ehdr", 0, n)
    /\ \A n \in (HdrEnd + 1)..offset : buffer[n] # Unset
    /\ pc = "built" =>
         \A n \in 1..((Len(sections) + 3) * ShdrSize) : buffer[EhdrSize + n] = Byte("shdrs", 0, n)

\* The bytes of section k of the object are in their place, in a buffer buf
\* that is filled up to `end`, behind the section headers' space.
PlacedIn(buf, hdrs, start, end, k, kind, of, length) ==
  /\ hdrs[k].offset \in Nat /\ hdrs[k].align \in Nat \ {0}
  /\ start <= hdrs[k].offset /\ hdrs[k].offset + length <= end
  /\ hdrs[k].offset % hdrs[k].align = 0
  /\ \A n \in 1..length : buf[hdrs[k].offset + n] = Byte(kind, of, n)

\* Section j of the library's, and a table that the writer adds.
SectionIn(buf, hdrs, start, end, names, secs, j) ==
  LET sec == secs[j + 1] IN
  /\ hdrs[j].name = NameOffset(names, sec.name) /\ hdrs[j].size = sec.size
  /\ PlacedIn(buf, hdrs, start, end, j, "data", sec.from, IF sec.data THEN sec.size ELSE 0)

TableIn(buf, hdrs, start, end, names, j, name, kind, length) ==
  hdrs[j].name = NameOffset(names, name) /\ PlacedIn(buf, hdrs, start, end, j, kind, 0, length)

PlacedInv ==
  pc \in Writing =>
    /\ \A j \in 1..(Len(sections) - 1) : (pc = "write_sections" => j < i) =>
         SectionIn(buffer, shdrs, HdrEnd, offset, shstrtab, sections, j)
    /\ pc # "write_sections" =>
         TableIn(buffer, shdrs, HdrEnd, offset, shstrtab, Len(sections), ".symtab",
                 "symbols", Len(symtab) * SymSize)
    /\ pc \notin {"write_sections", "write_strtab"} =>
         TableIn(buffer, shdrs, HdrEnd, offset, shstrtab, Len(sections) + 1, ".strtab",
                 "strtab", TableSize(strtab))
    /\ pc \in {"write_back", "built"} =>
         TableIn(buffer, shdrs, HdrEnd, offset, shstrtab, Len(sections) + 2, ".shstrtab",
                 "shstrtab", TableSize(shstrtab))

\* What the string tables were built of.
NamesInv ==
  pc \in Writing \union {"write_header"} =>
    /\ shstrtab = NamesOf(sections) \o OwnNames
    /\ strtab = NamesOf(symtab)

FreedInv ==
  pc = "freed" =>
    /\ strings = Cardinality(Defined("SYMTAB")) + Cardinality(Defined("DYNSYM"))
    /\ sections = <<>>

WriterInv == TranslationInv /\ ShapeInv /\ BufferInv /\ PlacedInv /\ NamesInv /\ FreedInv
-----------------------------------------------------------------------------
(***************************************************************************)
(* Numbers.                                                                *)
(***************************************************************************)
LEMMA Sizes ==
  /\ EhdrSize \in Nat \ {0} /\ ShdrSize \in Nat \ {0} /\ SymSize \in Nat \ {0}
  /\ SymAlign \in Nat \ {0} /\ FirstCapacity \in Nat \ {0} /\ IndexLimit \in Nat /\ 4 < IndexLimit
BY WriterAssumption, TranslationAssumption
   DEF WriterAssumption, TranslationAssumption, IsPowerOfTwo

LEMMA Division ==
  \A a \in Nat, b \in Nat \ {0} :
    a \div b \in Nat /\ a % b \in 0..(b - 1) /\ a = b * (a \div b) + (a % b)
OBVIOUS

LEMMA ProductOfNats == \A x, y \in Nat : x * y \in Nat
OBVIOUS

\* write_padding comes to the next multiple of the alignment.
LEMMA PadAligns ==
  ASSUME offset \in Nat, NEW align \in Nat \ {0}
  PROVE  /\ Pad(align) \in Seq(ByteRecord) /\ Len(Pad(align)) \in Nat
         /\ (offset + Len(Pad(align))) % align = 0
         /\ \A n \in 1..Len(Pad(align)) : Pad(align)[n] = Zero
<1> DEFINE q == offset \div align
           r == offset % align
           p == (align - r) % align
<1>1. q \in Nat /\ r \in 0..(align - 1) /\ offset = align * q + r
  BY Division
<1> HIDE DEF q, r
<1>2. p = IF r = 0 THEN 0 ELSE align - r
  BY <1>1
<1>3. p \in Nat
  BY <1>1, <1>2
<1>4. Pad(align) = [k \in 1..p |-> Zero]
  BY DEF Pad, r
<1> HIDE DEF p
<1>5. Zero \in ByteRecord
  BY DEF Zero, Byte, ByteRecord, Kinds
<1>6. /\ Pad(align) \in Seq(ByteRecord) /\ Len(Pad(align)) = p
      /\ \A n \in 1..p : Pad(align)[n] = Zero
  BY <1>3, <1>4, <1>5
<1>7. (offset + p) % align = 0
  <2>1. \E m \in Nat : offset + p = align * m
    <3>1. CASE r = 0
      BY <1>1, <1>2, <3>1
    <3>2. CASE r # 0
      <4>1. offset + p = align * q + align
        BY <1>1, <1>2, <3>2
      <4>2. align * q + align = align * (q + 1)
        BY <1>1
      <4>3. q + 1 \in Nat /\ offset + p = align * (q + 1)
        BY <1>1, <4>1, <4>2
      <4> QED
        BY <4>3
    <3> QED
      BY <3>1, <3>2
  <2>2. PICK m \in Nat : offset + p = align * m
    BY <2>1
  <2>3. (align * m) % align = 0
    OBVIOUS
  <2> QED
    BY <2>2, <2>3
<1> QED
  BY <1>3, <1>6, <1>7

\* A larger section header has a larger index, and there are not 2^16 of them.
LEMMA SectionsFit ==
  ASSUME TranslationInv, pc \notin {"start", "extract_sections", "freed"}
  PROVE  /\ Len(sections) \in Nat \ {0} /\ Len(sections) + 3 < IndexLimit
         /\ Shnum = Len(sections) + 3 /\ HdrEnd = EhdrSize + Shnum * ShdrSize
         /\ HdrEnd \in Nat /\ EhdrSize < HdrEnd
         /\ \A n \in 1..Len(sections) : sections[n].from \in Sections(lib) \union {0}
<1>1. /\ lib \in Libraries /\ sections \in Seq(SectionRecord)
      /\ Len(sections) >= 1 /\ sections[1] = NullSection
      /\ \A n \in 2..Len(sections) : sections[n].from \in Sections(lib) \ {0}
      /\ \A m, n \in 2..Len(sections) : m < n => sections[m].from < sections[n].from
  BY DEF TranslationInv, Basics, SectionsInv, SeenSections
<1> DEFINE L == Len(sections)
<1>2. L \in Nat \ {0}
  BY <1>1
<1>3. \A n \in 2..L : sections[n].from \in Nat \ {0}
  BY <1>1, LibraryFacts
<1>4. \A n \in 2..L : n - 1 <= sections[n].from
  <2> DEFINE S == {n \in 2..L : n - 1 <= sections[n].from}
  <2>1. CASE L < 2
    BY <1>2, <2>1
  <2>2. CASE L >= 2
    <3>1. 2 \in S
      BY <1>2, <1>3, <2>2
    <3>2. ASSUME NEW n \in 2..(L - 1), n \in S
          PROVE  n + 1 \in S
      <4>1. n \in 2..L /\ n + 1 \in 2..L /\ n < n + 1
        BY <1>2
      <4>2. sections[n].from < sections[n + 1].from
        BY <1>1, <4>1
      <4>3. n - 1 <= sections[n].from
        BY <3>2
      <4>4. \A x, y \in Nat : n - 1 <= x /\ x < y => (n + 1) - 1 <= y
        BY <4>1
      <4> QED
        BY <1>3, <4>1, <4>2, <4>3, <4>4
    <3>3. 2 \in Int /\ L \in Int
      BY <1>2
    <3>4. \A n \in 2..L : n \in S
      <4> HIDE DEF S, L
      <4> QED BY <3>1, <3>2, <3>3, IntervalInduction, Zenon
    <3> QED
      BY <3>4
  <2> QED
    BY <2>1, <2>2
<1>5. L + 3 < IndexLimit
  <2>1. CASE L = 1
    BY <2>1, Sizes
  <2>2. CASE L # 1
    <3>1. L \in 2..L
      <4> HIDE DEF L
      <4> QED BY <1>2, <2>2
    <3>2. L - 1 <= sections[L].from /\ sections[L].from \in Sections(lib) /\ sections[L].from \in Nat
      BY <1>1, <1>3, <1>4, <3>1
    <3>3. sections[L].from + 4 < IndexLimit
      BY <1>1, <3>2, WriterAssumption DEF WriterAssumption
    <3>4. \A x \in Nat : L - 1 <= x /\ x + 4 < IndexLimit => L + 3 < IndexLimit
      BY <1>2, Sizes
    <3> HIDE DEF L
    <3> QED
      BY <3>2, <3>3, <3>4
  <2> QED
    BY <2>1, <2>2
<1>6. Shnum = L + 3
  <2>1. \A x, y \in Nat : x < y => x % y = x
    OBVIOUS
  <2>2. L + 3 \in Nat
    BY <1>2
  <2> QED
    BY <1>5, <2>1, <2>2, Sizes DEF Shnum
<1>7. HdrEnd \in Nat /\ EhdrSize < HdrEnd
  <2>1. \A x, y \in Nat \ {0} : x * y \in Nat \ {0}
    OBVIOUS
  <2>2. (L + 3) * ShdrSize \in Nat \ {0}
    BY <1>2, <2>1, Sizes
  <2> QED
    BY <2>2, Sizes DEF HdrEnd
<1>8. \A n \in 1..L : sections[n].from \in Sections(lib) \union {0}
  <2>1. \A n \in 1..L : n = 1 \/ n \in 2..L
    BY <1>2
  <2>2. sections[1].from = 0
    BY <1>1 DEF NullSection
  <2> QED
    BY <1>1, <2>1, <2>2
<1> QED
  BY <1>2, <1>5, <1>6, <1>7, <1>8 DEF HdrEnd

-----------------------------------------------------------------------------
(***************************************************************************)
(* write_buffer.                                                           *)
(***************************************************************************)

\* Doubling comes to a capacity that is large enough.
LEMMA CapacityEnough ==
  ASSUME NEW required \in Nat, Len(buffer) \in Nat
  PROVE  /\ NewCapacity(required) \in Nat
         /\ required <= NewCapacity(required) /\ Len(buffer) <= NewCapacity(required)
<1> DEFINE L == Len(buffer)
           first == IF L = 0 THEN FirstCapacity ELSE L
           T == {x \in Nat : 1 <= x /\ L <= x}
           G == [x \in T |-> [n \in Int |-> 2 * x]]
           Rhs(f) == [n \in 0..required |-> IF n = 0 THEN first ELSE 2 * f[n - 1]]
           doubled == CHOOSE f : f = Rhs(f)
           Enough(n) == required <= doubled[n] /\ \A m \in 0..(n - 1) : doubled[m] < required
<1>1. first \in T /\ 0 \in Int /\ required \in Int /\ required \in 0..required /\ 0 \in 0..required
  BY Sizes
<1>2. \A x \in T : 2 * x \in T
  OBVIOUS
<1>3. G \in [T -> [Int -> T]]
  BY <1>2
<1>4. PICK f \in [0..required -> T] : Recursive(f, 0, required, first, G)
  <2> HIDE DEF G, T, first
  <2> QED BY <1>1, <1>3, RecursionExists, Zenon
<1>5. f = Rhs(f)
  <2>1. SUFFICES ASSUME NEW n \in 0..required
                 PROVE  f[n] = IF n = 0 THEN first ELSE 2 * f[n - 1]
    BY <1>4
  <2>2. n # 0 => n - 1 \in 0..required /\ f[n - 1] \in T /\ n \in Int
    OBVIOUS
  <2>3. \A x \in T, k \in Int : G[x][k] = 2 * x
    OBVIOUS
  <2> HIDE DEF G, T, first
  <2> QED
    BY <1>4, <2>2, <2>3 DEF Recursive
<1>6. doubled = Rhs(doubled)
  BY <1>5
<1>7. NewCapacity(required) = IF required <= L THEN L
                              ELSE doubled[CHOOSE n \in 0..required : Enough(n)]
  BY DEF NewCapacity
<1> HIDE DEF doubled, G
<1>8. doubled[0] = first /\ \A n \in 0..(required - 1) : doubled[n + 1] = 2 * doubled[n]
  <2>1. \A n \in 0..required : doubled[n] = IF n = 0 THEN first ELSE 2 * doubled[n - 1]
    BY <1>6
  <2>2. \A n \in 0..(required - 1) : n + 1 \in 0..required /\ n + 1 # 0 /\ (n + 1) - 1 = n
    OBVIOUS
  <2> QED
    BY <1>1, <2>1, <2>2
<1>9. \A n \in 0..required : doubled[n] \in T /\ n <= doubled[n]
  <2> DEFINE S == {n \in 0..required : doubled[n] \in T /\ n <= doubled[n]}
  <2>1. 0 \in S
    BY <1>1, <1>8
  <2>2. ASSUME NEW n \in 0..(required - 1), n \in S
        PROVE  n + 1 \in S
    <3>1. n + 1 \in 0..required /\ doubled[n] \in T /\ n <= doubled[n]
      BY <2>2
    <3>2. doubled[n + 1] = 2 * doubled[n]
      BY <1>8
    <3>3. \A x \in T : n <= x => 2 * x \in T /\ n + 1 <= 2 * x
      OBVIOUS
    <3> HIDE DEF T
    <3> QED
      BY <3>1, <3>2, <3>3
  <2>3. \A n \in 0..required : n \in S
    <3> HIDE DEF S
    <3> QED BY <1>1, <2>1, <2>2, IntervalInduction, Zenon
  <2> QED
    BY <2>3
<1>10. \E n \in 0..required : Enough(n)
  <2> DEFINE S == {n \in 0..required : required <= doubled[n]}
  <2>1. required \in S /\ S \in SUBSET Nat
    BY <1>1, <1>9
  <2>2. PICK n \in S : \A m \in S : n <= m
    <3> HIDE DEF S
    <3> QED BY <2>1, LeastElement
  <2>3. \A m \in 0..(n - 1) : doubled[m] < required
    <3>1. SUFFICES ASSUME NEW m \in 0..(n - 1)
                   PROVE  doubled[m] < required
      OBVIOUS
    <3>2. m \in 0..required /\ ~(n <= m)
      BY <2>2
    <3>3. doubled[m] \in Nat
      BY <1>9, <3>2
    <3>4. ~(required <= doubled[m])
      BY <2>2, <3>2
    <3> QED
      BY <3>3, <3>4
  <2> QED
    BY <2>2, <2>3
<1>11. CASE required <= L
  BY <1>7, <1>11
<1>12. CASE ~(required <= L)
  <2> DEFINE n == CHOOSE n \in 0..required : Enough(n)
  <2>1. n \in 0..required /\ Enough(n)
    BY <1>10
  <2> HIDE DEF n
  <2>2. NewCapacity(required) = doubled[n]
    BY <1>7, <1>12 DEF n
  <2> QED
    BY <1>9, <2>1, <2>2
<1> QED
  BY <1>11, <1>12

\* The bytes are written at the offset, what was below stays, and the buffer
\* reaches to the new offset.
LEMMA Written ==
  ASSUME buffer \in Seq(ByteRecord), offset \in Nat, NEW bs \in Seq(ByteRecord), WriteBuffer(bs)
  PROVE  /\ buffer' \in Seq(ByteRecord) /\ offset' = offset + Len(bs)
         /\ Len(buffer) <= Len(buffer')
         /\ offset < offset' => offset' <= Len(buffer')
         /\ \A n \in 1..Len(buffer) : n <= offset => buffer'[n] = buffer[n]
         /\ \A n \in 1..Len(bs) : buffer'[offset + n] = bs[n]
<1> DEFINE L == Len(buffer)
           B == Len(bs)
           C == NewCapacity(offset + B)
           X == ByteRecord
<1>1. L \in Nat /\ B \in Nat /\ buffer \in Seq(X) /\ bs \in Seq(X)
  OBVIOUS
<1>2. CASE bs = <<>>
  <2>1. B = 0 /\ buffer' = buffer /\ offset' = offset
    BY <1>2 DEF WriteBuffer
  <2> QED
    BY <1>1, <2>1
<1>3. CASE bs # <<>>
  <2>1. C \in Nat /\ offset + B <= C /\ L <= C
    BY <1>1, CapacityEnough, SMTT(60)
  <2>2. buffer' = [k \in 1..C |-> IF offset < k /\ k <= offset + B THEN bs[k - offset]
                                 ELSE IF k <= L THEN buffer[k] ELSE Unset]
    BY <1>3 DEF WriteBuffer
  <2>3. offset' = offset + B
    BY DEF WriteBuffer
  <2>4. Unset \in X
    BY DEF Unset, Byte, ByteRecord, Kinds
  <2> HIDE DEF X, C, L, B
  <2>5. ASSUME NEW k \in 1..C
        PROVE  buffer'[k] \in X
    <3>1. CASE offset < k /\ k <= offset + B
      <4>1. k - offset \in 1..B
        BY <1>1, <3>1
      <4>2. bs[k - offset] \in X
        BY <1>1, <4>1 DEF B
      <4> QED BY <2>2, <3>1, <4>2
    <3>2. CASE ~(offset < k /\ k <= offset + B) /\ k <= L
      <4>1. k \in 1..L
        BY <1>1, <3>2
      <4>2. buffer[k] \in X
        BY <1>1, <4>1 DEF L
      <4> QED BY <2>2, <3>2, <4>2
    <3>3. CASE ~(offset < k /\ k <= offset + B) /\ ~(k <= L)
      BY <2>2, <2>4, <3>3
    <3> QED
      BY <3>1, <3>2, <3>3
  <2>6. buffer' \in [1..C -> X]
    <3>1. buffer' = [k \in 1..C |-> buffer'[k]]
      BY <2>2
    <3> QED BY <2>5, <3>1
  <2>7. buffer' \in Seq(X) /\ Len(buffer') = C
    BY <2>1, <2>2, <2>6
  <2>8. \A n \in 1..L : n <= offset => buffer'[n] = buffer[n]
    BY <1>1, <2>1, <2>2
  <2>9. \A n \in 1..B : buffer'[offset + n] = bs[n]
    <3>1. \A n \in 1..B : offset + n \in 1..C /\ offset < offset + n /\ offset + n <= offset + B
                          /\ (offset + n) - offset = n
      BY <1>1, <2>1
    <3> QED
      BY <2>2, <3>1
  <2> QED
    BY <2>1, <2>3, <2>7, <2>8, <2>9 DEF L, B, X
<1> QED
  BY <1>2, <1>3
-----------------------------------------------------------------------------
(***************************************************************************)
(* The string tables.                                                      *)
(***************************************************************************)
Known == DOMAIN NameLen \ {Null, ""}

\* Each string starts behind the NUL of the one before it.
LEMMA OffsetsFollow ==
  ASSUME NEW table \in Seq(Known)
  PROVE  /\ \A n \in 1..(Len(table) + 1) : StringOffset(table, n) \in Nat \ {0}
         /\ StringOffset(table, 1) = 1
         /\ \A n \in 1..Len(table) :
              StringOffset(table, n + 1) = StringOffset(table, n) + NameLen[table[n]] + 1
<1> DEFINE L == Len(table)
           T == Nat \ {0}
           G == [x \in T |-> [n \in Int |-> IF n - 1 \in 1..L THEN x + NameLen[table[n - 1]] + 1 ELSE x]]
           Rhs(f) == [k \in 1..(L + 1) |-> IF k = 1 THEN 1 ELSE f[k - 1] + NameLen[table[k - 1]] + 1]
           start == CHOOSE f : f = Rhs(f)
<1>1. L \in Nat /\ L + 1 \in Int /\ 1 \in Int /\ 1 \in T /\ 1 \in 1..(L + 1)
  OBVIOUS
<1>2. \A n \in 1..L : NameLen[table[n]] \in Nat
  <2> DEFINE K == Known
  <2>1. table \in Seq(K) /\ \A name \in K : NameLen[name] \in Nat
    BY WriterAssumption DEF WriterAssumption, Known
  <2> HIDE DEF K
  <2> QED BY <2>1
<1>3. G \in [T -> [Int -> T]]
  <2>1. \A x \in T, n \in Int : n - 1 \in 1..L => x + NameLen[table[n - 1]] + 1 \in T
    BY <1>2
  <2> HIDE DEF L
  <2> QED BY <2>1
<1>4. PICK f \in [1..(L + 1) -> T] : Recursive(f, 1, L + 1, 1, G)
  <2> HIDE DEF G, T, L
  <2> QED BY <1>1, <1>3, RecursionExists, Zenon
<1>5. f = Rhs(f)
  <2>1. SUFFICES ASSUME NEW n \in 1..(L + 1)
                 PROVE  f[n] = IF n = 1 THEN 1 ELSE f[n - 1] + NameLen[table[n - 1]] + 1
    BY <1>4
  <2>2. n \in Int /\ (n # 1 => n - 1 \in 1..(L + 1) /\ n - 1 \in 1..L)
    <3> HIDE DEF L
    <3> QED BY <1>1
  <2>4. n # 1 => f[n - 1] \in T
    <3> HIDE DEF T, L
    <3> QED BY <1>4, <2>2
  <2>3. \A x \in T, k \in Int : k - 1 \in 1..L => G[x][k] = x + NameLen[table[k - 1]] + 1
    OBVIOUS
  <2> HIDE DEF G, T, L
  <2> QED
    BY <1>4, <2>2, <2>3, <2>4 DEF Recursive
<1>6. start = Rhs(start)
  BY <1>5
<1>7. StringOffsets(table) = start
  BY DEF StringOffsets
<1> HIDE DEF start, G
<1>8. /\ start[1] = 1
      /\ \A n \in 1..L : start[n + 1] = start[n] + NameLen[table[n]] + 1
  <2>1. \A n \in 1..(L + 1) : start[n] = IF n = 1 THEN 1 ELSE start[n - 1] + NameLen[table[n - 1]] + 1
    BY <1>6
  <2>2. \A n \in 1..L : n + 1 \in 1..(L + 1) /\ n + 1 # 1 /\ (n + 1) - 1 = n
    BY <1>1
  <2> QED
    BY <1>1, <2>1, <2>2
<1>9. \A n \in 1..(L + 1) : start[n] \in T
  <2> DEFINE S == {n \in 1..(L + 1) : start[n] \in T}
  <2>1. 1 \in S
    BY <1>1, <1>8
  <2>2. ASSUME NEW n \in 1..((L + 1) - 1), n \in S
        PROVE  n + 1 \in S
    <3>1. n \in 1..L /\ n + 1 \in 1..(L + 1) /\ start[n] \in T
      BY <1>1, <2>2
    <3>2. start[n + 1] = start[n] + NameLen[table[n]] + 1 /\ NameLen[table[n]] \in Nat
      BY <1>2, <1>8, <3>1
    <3>3. \A x \in T, y \in Nat : x + y + 1 \in T
      OBVIOUS
    <3> HIDE DEF T
    <3> QED
      BY <3>1, <3>2, <3>3
  <2>3. \A n \in 1..(L + 1) : n \in S
    <3> HIDE DEF S, L
    <3> QED BY <1>1, <2>1, <2>2, IntervalInduction, Zenon
  <2> QED
    BY <2>3
<1> QED
  BY <1>7, <1>8, <1>9 DEF StringOffset

LEMMA OffsetsIncrease ==
  ASSUME NEW table \in Seq(Known), NEW m \in 1..(Len(table) + 1), NEW n \in 1..(Len(table) + 1),
         m < n
  PROVE  StringOffset(table, m) < StringOffset(table, n)
<1> DEFINE L == Len(table)
           S == {k \in (m + 1)..(L + 1) : StringOffset(table, m) < StringOffset(table, k)}
<1>1. L \in Nat /\ m + 1 \in Int /\ L + 1 \in Int /\ m \in 1..L /\ m + 1 \in (m + 1)..(L + 1)
      /\ n \in (m + 1)..(L + 1)
  OBVIOUS
<1>2. \A k \in 1..L : StringOffset(table, k) < StringOffset(table, k + 1)
  <2>1. SUFFICES ASSUME NEW k \in 1..L
                 PROVE  StringOffset(table, k) < StringOffset(table, k + 1)
    OBVIOUS
  <2>2. k \in 1..(L + 1) /\ StringOffset(table, k + 1) = StringOffset(table, k) + NameLen[table[k]] + 1
    BY <1>1, OffsetsFollow
  <2>3. NameLen[table[k]] \in Nat
    <3> DEFINE K == Known
    <3>1. table \in Seq(K) /\ \A name \in K : NameLen[name] \in Nat
      BY WriterAssumption DEF WriterAssumption, Known
    <3> HIDE DEF K
    <3> QED BY <3>1
  <2>4. StringOffset(table, k) \in Nat
    BY <2>2, OffsetsFollow
  <2> QED
    BY <2>2, <2>3, <2>4, SMTT(60)
<1>3. m + 1 \in S
  BY <1>1, <1>2
<1>4. ASSUME NEW k \in (m + 1)..((L + 1) - 1), k \in S
      PROVE  k + 1 \in S
  <2>1. k \in 1..L /\ k \in 1..(L + 1) /\ k + 1 \in 1..(L + 1) /\ k + 1 \in (m + 1)..(L + 1)
    BY <1>1
  <2>2. /\ StringOffset(table, m) < StringOffset(table, k)
        /\ StringOffset(table, k) < StringOffset(table, k + 1)
    BY <1>2, <1>4, <2>1
  <2>3. /\ StringOffset(table, m) \in Nat /\ StringOffset(table, k) \in Nat
        /\ StringOffset(table, k + 1) \in Nat
    BY <2>1, OffsetsFollow
  <2> QED
    BY <2>1, <2>2, <2>3
<1>5. \A k \in (m + 1)..(L + 1) : k \in S
  <2> HIDE DEF S, L
  <2> QED BY <1>1, <1>3, <1>4, IntervalInduction, Zenon
<1> QED
  BY <1>1, <1>5

LEMMA TableSizeTyped ==
  ASSUME NEW table \in Seq(Known)
  PROVE  TableSize(table) \in Nat
<1>1. Len(table) + 1 \in 1..(Len(table) + 1)
  OBVIOUS
<1> QED
  BY <1>1, OffsetsFollow DEF TableSize

\* A name that is in the table is found, also when it is there twice.
LEMMA NameLookup ==
  ASSUME NEW table \in Seq(Known), NEW name \in Known,
         \E n \in 1..Len(table) : table[n] = name
  PROVE  StringAt(table, NameOffset(table, name)) = name
<1> DEFINE L == Len(table)
           IsFirst(n) == table[n] = name /\ \A m \in 1..(n - 1) : table[m] # name
           f == CHOOSE n \in 1..L : IsFirst(n)
           S == {n \in 1..L : table[n] = name}
<1>1. L \in Nat
  OBVIOUS
<1>2. \E n \in 1..L : IsFirst(n)
  <2>1. S \in SUBSET Nat /\ S # {}
    OBVIOUS
  <2>2. PICK n \in S : \A m \in S : n <= m
    <3> HIDE DEF S
    <3> QED BY <2>1, LeastElement
  <2>3. \A m \in 1..(n - 1) : m \in 1..L /\ ~(n <= m)
    BY <1>1, <2>2
  <2> QED
    BY <2>2, <2>3
<1>3. f \in 1..L /\ table[f] = name
  BY <1>2
<1>4. NameOffset(table, name) = StringOffset(table, f)
  BY DEF NameOffset, Known
<1> HIDE DEF f
<1> DEFINE g == CHOOSE n \in 1..L : StringOffset(table, n) = StringOffset(table, f)
<1>5. g \in 1..L /\ StringOffset(table, g) = StringOffset(table, f)
  BY <1>3
<1>6. StringOffset(table, f) # 0
  <2>1. f \in 1..(L + 1)
    BY <1>1, <1>3
  <2> QED BY <2>1, OffsetsFollow
<1>7. StringAt(table, NameOffset(table, name)) = table[g]
  BY <1>4, <1>6 DEF StringAt
<1> HIDE DEF g
<1>8. g = f
  <2>1. f \in 1..(L + 1) /\ g \in 1..(L + 1) /\ (f # g => f < g \/ g < f)
    BY <1>1, <1>3, <1>5
  <2>2. StringOffset(table, f) \in Nat /\ ~(StringOffset(table, f) < StringOffset(table, f))
    <3>1. StringOffset(table, f) \in Nat
      BY <2>1, OffsetsFollow
    <3> QED BY <3>1
  <2>3. f < g => StringOffset(table, f) < StringOffset(table, g)
    <3> HIDE DEF L
    <3> QED BY <2>1, OffsetsIncrease DEF L
  <2>4. g < f => StringOffset(table, g) < StringOffset(table, f)
    <3> HIDE DEF L
    <3> QED BY <2>1, OffsetsIncrease DEF L
  <2> QED
    BY <1>5, <2>1, <2>2, <2>3, <2>4
<1> QED
  BY <1>3, <1>7, <1>8

LEMMA NoNameLookup == \A table : StringAt(table, NameOffset(table, "")) = ""
BY DEF StringAt, NameOffset

\* The table holds the name of each entry that has one.
LEMMA NamesAdded ==
  ASSUME NEW R, NEW s \in Seq(R), \A n \in 1..Len(s) : Named(s[n]) => s[n].name \in Known
  PROVE  /\ NamesOf(s) \in Seq(Known)
         /\ \A n \in 1..Len(s) : Named(s[n]) =>
              \E j \in 1..Len(NamesOf(s)) : NamesOf(s)[j] = s[n].name
<1> DEFINE L == Len(s)
           K == Known
           T == Seq(K)
           G == [x \in T |-> [n \in Int |->
                   IF n \in 1..L /\ Named(s[n]) THEN Append(x, s[n].name) ELSE x]]
           Rhs(f) == [n \in 0..L |-> IF n = 0 THEN <<>>
                                     ELSE IF Named(s[n]) THEN Append(f[n - 1], s[n].name)
                                     ELSE f[n - 1]]
           added == CHOOSE f : f = Rhs(f)
<1>1. L \in Nat /\ L \in Int /\ 0 \in Int /\ 0 \in 0..L /\ L \in 0..L
  OBVIOUS
<1>2. <<>> \in T
  OBVIOUS
<1>3. \A n \in 1..L : Named(s[n]) => s[n].name \in K
  OBVIOUS
<1> HIDE DEF K
<1>4. G \in [T -> [Int -> T]]
  <2>1. \A x \in T, n \in Int : n \in 1..L /\ Named(s[n]) => Append(x, s[n].name) \in T
    BY <1>3
  <2> HIDE DEF T, L
  <2> QED BY <2>1
<1>5. PICK f \in [0..L -> T] : Recursive(f, 0, L, <<>>, G)
  <2> HIDE DEF G, T, L
  <2> QED BY <1>1, <1>2, <1>4, RecursionExists, Zenon
<1>6. f = Rhs(f)
  <2>1. SUFFICES ASSUME NEW n \in 0..L
                 PROVE  f[n] = IF n = 0 THEN <<>>
                               ELSE IF Named(s[n]) THEN Append(f[n - 1], s[n].name)
                               ELSE f[n - 1]
    BY <1>5
  <2>2. n \in Int /\ (n # 0 => n \in 1..L /\ n - 1 \in 0..L)
    BY <1>1
  <2>3. n # 0 => f[n - 1] \in T
    <3> HIDE DEF T, L
    <3> QED BY <1>5, <2>2, SMTT(60)
  <2>4. \A x \in T, k \in Int :
          G[x][k] = IF k \in 1..L /\ Named(s[k]) THEN Append(x, s[k].name) ELSE x
    OBVIOUS
  <2> HIDE DEF G, T, L
  <2> QED
    BY <1>5, <2>2, <2>3, <2>4 DEF Recursive
<1>7. added = Rhs(added)
  BY <1>6
<1>8. NamesOf(s) = added[L]
  BY DEF NamesOf
<1> HIDE DEF added, G
<1>9. /\ added[0] = <<>>
      /\ \A n \in 0..(L - 1) :
           added[n + 1] = IF Named(s[n + 1]) THEN Append(added[n], s[n + 1].name) ELSE added[n]
  <2>1. \A n \in 0..L : added[n] = IF n = 0 THEN <<>>
                                   ELSE IF Named(s[n]) THEN Append(added[n - 1], s[n].name)
                                   ELSE added[n - 1]
    BY <1>7
  <2>2. \A n \in 0..(L - 1) : n + 1 \in 0..L /\ n + 1 # 0 /\ (n + 1) - 1 = n
    BY <1>1
  <2> QED
    BY <1>1, <2>1, <2>2
<1> DEFINE Has(t, name) == \E j \in 1..Len(t) : t[j] = name
           Good(n) == /\ added[n] \in T
                      /\ \A k \in 1..n : Named(s[k]) => Has(added[n], s[k].name)
           S == {n \in 0..L : Good(n)}
<1>10. 0 \in S
  <2>1. added[0] \in T /\ 1..0 = {}
    BY <1>2, <1>9
  <2> HIDE DEF T
  <2> QED BY <1>1, <2>1
<1>11. ASSUME NEW n \in 0..(L - 1), n \in S
       PROVE  n + 1 \in S
  <2>1. n + 1 \in 0..L /\ n + 1 \in 1..L /\ \A k \in 1..(n + 1) : k \in 1..n \/ k = n + 1
    BY <1>1
  <2>2. added[n] \in T /\ \A k \in 1..n : Named(s[k]) => Has(added[n], s[k].name)
    BY <1>11
  <2>3. CASE ~Named(s[n + 1])
    <3>1. added[n + 1] = added[n]
      BY <1>9, <2>3
    <3> HIDE DEF T
    <3> QED
      BY <2>1, <2>2, <2>3, <3>1
  <2>4. CASE Named(s[n + 1])
    <3> DEFINE x == added[n]
               e == s[n + 1].name
    <3>1. added[n + 1] = Append(x, e) /\ x \in T /\ e \in K
      BY <1>3, <1>9, <2>1, <2>2, <2>4
    <3> HIDE DEF x, e
    <3>2. /\ Append(x, e) \in T /\ Len(Append(x, e)) = Len(x) + 1 /\ Len(x) \in Nat
          /\ Append(x, e)[Len(x) + 1] = e
          /\ \A j \in 1..Len(x) : Append(x, e)[j] = x[j]
      BY <3>1
    <3>3. Has(Append(x, e), e)
      BY <3>2
    <3>4. \A name : Has(x, name) => Has(Append(x, e), name)
      BY <3>2
    <3>5. \A k \in 1..n : Named(s[k]) => Has(x, s[k].name)
      BY <2>2 DEF x
    <3> HIDE DEF T, Has
    <3>6. \A k \in 1..(n + 1) : Named(s[k]) => Has(added[n + 1], s[k].name)
      BY <2>1, <3>1, <3>3, <3>4, <3>5 DEF e
    <3> QED
      BY <2>1, <3>1, <3>2, <3>6
  <2> QED
    BY <2>3, <2>4
<1>12. \A n \in 0..L : n \in S
  <2> HIDE DEF S, L
  <2> QED BY <1>1, <1>10, <1>11, IntervalInduction, Zenon
<1> QED
  BY <1>1, <1>8, <1>12 DEF K

-----------------------------------------------------------------------------
(***************************************************************************)
(* A section with its padding and its header.                              *)
(***************************************************************************)
Uniform(bs, kind, of) == \A n \in 1..Len(bs) : bs[n] = Byte(kind, of, n)

\* Section j is as it was.
Undisturbed(j, buf, hdrs, end) ==
  /\ hdrs[j] = shdrs[j]
  /\ \A kind, of, len : len \in Nat /\ PlacedIn(buffer, shdrs, HdrEnd, offset, j, kind, of, len)
       => PlacedIn(buf, hdrs, HdrEnd, end, j, kind, of, len)

\* Section k, of so many bytes, is in its place; the rest is undisturbed.
PutDown(k, name, length, size, kind, of, buf, hdrs, end) ==
  /\ buf \in Seq(ByteRecord) /\ end \in Nat
  /\ offset + size <= end /\ EhdrSize <= Len(buf)
  /\ HdrEnd < end => end <= Len(buf)
  /\ DOMAIN hdrs = DOMAIN shdrs
  /\ \A n \in 1..EhdrSize : buf[n] = Byte("ehdr", 0, n)
  /\ \A n \in (HdrEnd + 1)..end : buf[n] # Unset
  /\ hdrs[k].name = name /\ hdrs[k].size = length
  /\ PlacedIn(buf, hdrs, HdrEnd, end, k, kind, of, size)
  /\ \A j \in DOMAIN shdrs \ {k} : Undisturbed(j, buf, hdrs, end)

LEMMA Placement ==
  ASSUME TranslationInv, ShapeInv, BufferInv, pc \in Writing,
         NEW k \in DOMAIN shdrs, NEW nm, NEW type, NEW length, NEW link, NEW info,
         NEW align \in Nat \ {0},
         NEW bs \in Seq(ByteRecord), NEW kind \in Kinds \ {"unset"}, NEW of,
         Uniform(bs, kind, of),
         Place(k, [name |-> nm, type |-> type, offset |-> 0, size |-> length, link |-> link,
                   info |-> info, align |-> align], bs)
  PROVE  PutDown(k, nm, length, Len(bs), kind, of, buffer', shdrs', offset')
<1> DEFINE P == Pad(align)
           p == Len(P)
           B == Len(bs)
           D == P \o bs
           at == offset + p
           shdr == [name |-> nm, type |-> type, offset |-> 0, size |-> length, link |-> link,
                    info |-> info, align |-> align]
           X == ByteRecord
<1>1. /\ HdrEnd <= offset /\ EhdrSize <= Len(buffer)
      /\ HdrEnd < offset => offset <= Len(buffer)
      /\ \A n \in 1..EhdrSize : buffer[n] = Byte("ehdr", 0, n)
      /\ \A n \in (HdrEnd + 1)..offset : buffer[n] # Unset
      /\ DOMAIN shdrs = 0..(Len(sections) + 2)
  BY DEF BufferInv
<1>2. /\ offset \in Nat /\ buffer \in Seq(X) /\ Len(buffer) \in Nat
      /\ EhdrSize \in Nat /\ HdrEnd \in Nat /\ EhdrSize < HdrEnd
  <2>1. pc \notin {"start", "extract_sections", "freed"}
    BY DEF Writing
  <2> QED
    BY <2>1, SectionsFit, Sizes DEF ShapeInv
<1>3. /\ P \in Seq(X) /\ p \in Nat /\ at % align = 0 /\ at \in Nat
      /\ \A n \in 1..p : P[n] = Zero
  BY <1>2, PadAligns
<1>4. /\ WriteBuffer(D)
      /\ shdrs' = [shdrs EXCEPT ![k] = [shdr EXCEPT !.offset = at]]
  BY DEF Place
<1>5. B \in Nat /\ bs \in Seq(X)
  OBVIOUS
<1> HIDE DEF P, X
<1>6. /\ D \in Seq(X) /\ Len(D) = p + B
      /\ \A n \in 1..p : D[n] = P[n]
      /\ \A n \in 1..B : D[p + n] = bs[n]
  BY <1>3, <1>5
<1> HIDE DEF D, p, B
<1>7. /\ buffer' \in Seq(X) /\ offset' = offset + (p + B)
      /\ Len(buffer) <= Len(buffer')
      /\ offset < offset' => offset' <= Len(buffer')
      /\ \A n \in 1..Len(buffer) : n <= offset => buffer'[n] = buffer[n]
      /\ \A n \in 1..(p + B) : buffer'[offset + n] = D[n]
  <2>1. D \in Seq(ByteRecord) /\ buffer \in Seq(ByteRecord)
    BY <1>2, <1>6 DEF X
  <2> QED
    BY <1>2, <1>4, <1>6, <2>1, Written DEF X
<1>8. Len(buffer') \in Nat /\ offset' \in Nat /\ at + B = offset' /\ offset <= at /\ offset + B <= offset'
  BY <1>2, <1>3, <1>5, <1>7
<1>9. HdrEnd < offset' => offset' <= Len(buffer')
  BY <1>1, <1>2, <1>7, <1>8
<1>10. /\ EhdrSize <= Len(buffer')
       /\ \A n \in 1..EhdrSize : buffer'[n] = Byte("ehdr", 0, n)
  <2>1. \A n \in 1..EhdrSize : n \in 1..Len(buffer) /\ n <= offset
    BY <1>1, <1>2
  <2> QED
    BY <1>1, <1>2, <1>7, <1>8, <2>1, SMTT(60)
<1>11. \A n \in 1..B : buffer'[at + n] = Byte(kind, of, n)
  <2>1. \A n \in 1..B : p + n \in 1..(p + B) /\ offset + (p + n) = at + n
    BY <1>2, <1>3, <1>5
  <2> QED
    BY <1>6, <1>7, <2>1, ZenonT(60) DEF B, Uniform
<1>12. \A n \in 1..p : buffer'[offset + n] = Zero
  <2>1. \A n \in 1..p : n \in 1..(p + B)
    BY <1>3, <1>5
  <2> QED
    BY <1>3, <1>6, <1>7, <2>1, SMTT(60)
<1>13. \A n \in (HdrEnd + 1)..offset' : buffer'[n] # Unset
  <2>1. SUFFICES ASSUME NEW n \in (HdrEnd + 1)..offset'
                 PROVE  buffer'[n] # Unset
    OBVIOUS
  <2>2. Zero # Unset /\ \A m : Byte(kind, of, m) # Unset
    BY DEF Zero, Unset, Byte
  <2>3. CASE n <= offset
    <3>1. n \in (HdrEnd + 1)..offset /\ n \in 1..Len(buffer)
      BY <1>1, <1>2, <1>8, <2>3
    <3> QED
      BY <1>1, <1>7, <2>3, <3>1
  <2>4. CASE offset < n /\ n <= at
    <3>1. n - offset \in 1..p /\ offset + (n - offset) = n
      BY <1>2, <1>3, <1>8, <2>4
    <3> QED
      BY <1>12, <2>2, <3>1
  <2>5. CASE at < n
    <3>1. n - at \in 1..B /\ at + (n - at) = n
      BY <1>2, <1>3, <1>5, <1>8, <2>5
    <3> QED
      BY <1>11, <2>2, <3>1
  <2>6. n \in Int
    BY <1>2, <1>8
  <2> QED
    BY <1>2, <1>3, <2>3, <2>4, <2>5, <2>6
<1>14. /\ DOMAIN shdrs' = DOMAIN shdrs
       /\ shdrs'[k] = [shdr EXCEPT !.offset = at]
       /\ \A j \in DOMAIN shdrs \ {k} : shdrs'[j] = shdrs[j]
  <2> HIDE DEF shdr
  <2> QED BY <1>4
<1>15. /\ shdrs'[k].name = nm /\ shdrs'[k].size = length /\ shdrs'[k].offset = at
       /\ shdrs'[k].align = align
  <2> HIDE DEF at
  <2> QED BY <1>14
<1>16. PlacedIn(buffer', shdrs', HdrEnd, offset', k, kind, of, B)
  <2>1. HdrEnd <= at /\ at + B <= offset'
    BY <1>1, <1>2, <1>3, <1>8
  <2> HIDE DEF at
  <2> QED
    BY <1>3, <1>11, <1>15, <2>1 DEF PlacedIn
<1>17. ASSUME NEW j \in DOMAIN shdrs \ {k}, NEW kd, NEW o, NEW len \in Nat,
              PlacedIn(buffer, shdrs, HdrEnd, offset, j, kd, o, len)
       PROVE  PlacedIn(buffer', shdrs', HdrEnd, offset', j, kd, o, len)
  <2> DEFINE from == shdrs[j].offset
  <2>1. /\ from \in Nat /\ shdrs[j].align \in Nat \ {0} /\ HdrEnd <= from /\ from + len <= offset
        /\ from % shdrs[j].align = 0 /\ \A n \in 1..len : buffer[from + n] = Byte(kd, o, n)
    BY <1>17 DEF PlacedIn
  <2>2. shdrs'[j] = shdrs[j]
    BY <1>14
  <2> HIDE DEF from
  <2>3. \A n \in 1..len : from + n \in 1..Len(buffer) /\ from + n <= offset
    BY <1>1, <1>2, <2>1
  <2>4. \A n \in 1..len : buffer'[from + n] = Byte(kd, o, n)
    BY <1>7, <2>1, <2>3
  <2>5. from + len <= offset'
    BY <1>2, <1>3, <1>5, <1>8, <2>1
  <2> QED
    BY <2>1, <2>2, <2>4, <2>5 DEF PlacedIn, from
<1>18. \A j \in DOMAIN shdrs \ {k} : Undisturbed(j, buffer', shdrs', offset')
  BY <1>14, <1>17 DEF Undisturbed
<1> HIDE DEF shdr, at
<1> QED
  BY <1>7, <1>8, <1>9, <1>10, <1>13, <1>14, <1>15, <1>16, <1>18 DEF X, B, PutDown
-----------------------------------------------------------------------------
(***************************************************************************)
(* The tables the writer reads.                                            *)
(***************************************************************************)

\* The writer leaves the tables alone.
LEMMA TablesKept ==
  ASSUME TranslationInv, pc \notin NoRelocations, pc' \notin NoRelocations, i' \in Nat,
         lib' = lib, sections' = sections, symtab' = symtab, relocs' = relocs,
         allocated' = allocated, strings' = strings
  PROVE  TranslationInv'
<1>1. /\ pc \notin NoSymbols /\ pc' \notin NoSymbols
      /\ pc \notin {"start", "extract_sections", "freed"}
      /\ pc' \notin {"start", "extract_sections", "freed"}
  BY DEF NoRelocations, NoSymbols, NoSections
<1>2. SectionsInv'
  BY <1>1, SectionsStay DEF TranslationInv
<1>3. SymbolsInv'
  BY <1>1, SymbolsLeft DEF TranslationInv
<1>4. RelocsInv'
  BY RelocsLeft DEF TranslationInv
<1>5. StringsInv'
  BY <1>1 DEF TranslationInv, StringsInv
<1> QED
  BY <1>2, <1>3, <1>4, <1>5 DEF TranslationInv, Basics

LEMMA SectionNames ==
  ASSUME TranslationInv, pc \notin {"start", "extract_sections", "freed"}
  PROVE  /\ sections \in Seq(SectionRecord)
         /\ \A n \in 1..Len(sections) : Named(sections[n]) => sections[n].name \in Known
         /\ \A n \in 2..Len(sections) : sections[n].name # Null
<1>1. /\ lib \in Libraries /\ sections \in Seq(SectionRecord) /\ sections[1] = NullSection
      /\ \A n \in 2..Len(sections) :
           /\ sections[n].from \in Sections(lib) /\ Kept(sections[n].from)
           /\ sections[n] = Section(sections[n].from)
  BY DEF TranslationInv, Basics, SectionsInv, SeenSections
<1>2. ASSUME NEW n \in 2..Len(sections)
      PROVE  sections[n].name \in DOMAIN NameLen \union {""} /\ sections[n].name # Null
  <2> DEFINE k == sections[n].from
  <2>1. k \in Sections(lib) /\ Kept(k) /\ sections[n] = Section(k)
    BY <1>1
  <2> HIDE DEF k
  <2>2. sections[n].name = SectionName(lib, k) /\ SectionName(lib, k) # Null
    BY <2>1 DEF Section, Kept, ShouldInclude
  <2>3. Header(lib, k).name \in DOMAIN NameLen \union {Null, ""}
    BY <1>1, <2>1, WriterAssumption DEF WriterAssumption
  <2> QED
    BY <2>2, <2>3 DEF SectionName
<1>3. \A n \in 1..Len(sections) : n = 1 \/ n \in 2..Len(sections)
  BY <1>1
<1>4. ~Named(sections[1])
  BY <1>1 DEF Named, NullSection
<1>5. ASSUME NEW n \in 1..Len(sections), Named(sections[n])
      PROVE  sections[n].name \in Known
  <2>1. n \in 2..Len(sections)
    BY <1>3, <1>4, <1>5
  <2> QED
    BY <1>2, <1>5, <2>1 DEF Known, Named
<1> QED
  BY <1>1, <1>2, <1>5

LEMMA SymbolsNamed ==
  ASSUME TranslationInv, pc \notin NoSymtab
  PROVE  /\ symtab \in Seq(Entry) /\ Len(symtab) \in Nat \ {0}
         /\ \A n \in 2..Len(symtab) : Named(symtab[n])
         /\ \A n \in 1..Len(symtab) : Named(symtab[n]) => symtab[n].name \in Known
<1>1. /\ symtab \in Seq(Entry) /\ symtab[1] = NullSymbol /\ lib \in Libraries
      /\ \A n \in 2..Len(symtab) :
           \E t \in {"SYMTAB", "DYNSYM"} : \E j \in Found(t) : Same(symtab[n], Symbols(t)[j])
      /\ Len(symtab) = 1 + Cardinality(Found("SYMTAB")) + Cardinality(Found("DYNSYM"))
  BY DEF TranslationInv, SymbolsInv, Basics
<1>2. Len(symtab) \in Nat \ {0}
  <2>1. Cardinality(Found("SYMTAB")) \in Nat /\ Cardinality(Found("DYNSYM")) \in Nat
    BY <1>1, SymbolsTyped
  <2> QED BY <1>1, <2>1
<1>3. ASSUME NEW n \in 2..Len(symtab)
      PROVE  symtab[n].name \in Known
  <2>1. PICK t \in {"SYMTAB", "DYNSYM"} : \E j \in Found(t) : Same(symtab[n], Symbols(t)[j])
    BY <1>1
  <2>2. PICK j \in Found(t) : Same(symtab[n], Symbols(t)[j])
    BY <2>1
  <2> DEFINE e == symtab[n]
             sym == Symbols(t)[j]
  <2>3. e \in Entry
    <3> DEFINE X == Entry
    <3>1. symtab \in Seq(X) /\ n \in 1..Len(symtab)
      BY <1>1, <1>2
    <3> HIDE DEF X
    <3> QED BY <3>1 DEF X
  <2>4. j \in Defined(t) /\ j \in 2..Len(Symbols(t)) /\ sym.name # ""
    BY DEF Found, Defined
  <2>5. sym.name \in DOMAIN NameLen \union {""}
    <3>1. OfType(lib, t) # {}
      <4>1. SUFFICES ASSUME OfType(lib, t) = {}
                     PROVE  FALSE
        OBVIOUS
      <4>2. Symbols(t) = <<>>
        BY <4>1 DEF Symbols
      <4>3. Len(Symbols(t)) = 0
        BY <4>2
      <4>4. 2 <= j /\ j <= Len(Symbols(t)) /\ j \in Nat
        BY <1>1, <2>4, DefinedWithin
      <4> QED
        BY <4>3, <4>4
    <3> DEFINE k == CHOOSE k \in OfType(lib, t) : TRUE
    <3>2. k \in Sections(lib) /\ Header(lib, k).type = t /\ Symbols(t) = Header(lib, k).entries
      BY <3>1 DEF OfType, Symbols
    <3> HIDE DEF k
    <3>3. Symbols(t) \in Seq(Symbol)
      BY <1>1, SymbolsTyped
    <3>4. j \in DOMAIN Symbols(t)
      <4> DEFINE X == Symbol
      <4>1. Symbols(t) \in Seq(X) /\ j \in Nat /\ 2 <= j /\ j <= Len(Symbols(t))
        BY <1>1, <2>4, <3>3, DefinedWithin
      <4> HIDE DEF X
      <4>2. DOMAIN Symbols(t) = 1..Len(Symbols(t))
        BY <4>1
      <4> QED
        BY <4>1, <4>2
    <3> QED
      BY <1>1, <3>2, <3>4, WriterAssumption DEF WriterAssumption
  <2>6. sym.name # Null
    <3>1. \A name \in DOMAIN NameLen : name # Null
      BY WriterAssumption DEF WriterAssumption
    <3> QED
      BY <2>4, <2>5, <3>1
  <2> HIDE DEF e, sym
  <2>7. [e EXCEPT !.vis = sym.vis] = sym
    BY <2>2 DEF e, sym, Same
  <2>8. [e EXCEPT !.vis = sym.vis].name = e.name
    BY <2>3 DEF Entry
  <2>9. e.name = sym.name
    BY <2>7, <2>8
  <2> QED
    BY <2>4, <2>5, <2>6, <2>9 DEF e, Known
<1>4. \A n \in 1..Len(symtab) : n = 1 \/ n \in 2..Len(symtab)
  BY <1>2
<1>5. ~Named(symtab[1])
  BY <1>1 DEF Named, NullSymbol
<1>6. \A n \in 1..Len(symtab) : Named(symtab[n]) => symtab[n].name \in Known
  BY <1>3, <1>4, <1>5
<1> QED
  BY <1>1, <1>2, <1>3, <1>6 DEF Named, Known

LEMMA Concatenation ==
  ASSUME NEW K, NEW s \in Seq(K), NEW t \in Seq(K)
  PROVE  /\ s \o t \in Seq(K) /\ Len(s \o t) = Len(s) + Len(t) /\ Len(s) \in Nat
         /\ \A j \in 1..Len(s) : (s \o t)[j] = s[j]
         /\ \A j \in 1..Len(t) : (s \o t)[Len(s) + j] = t[j]
OBVIOUS

LEMMA OwnNamesKnown == OwnNames \in Seq(Known) /\ Len(OwnNames) = 3
<1>1. {".symtab", ".strtab", ".shstrtab"} \subseteq Known
  BY WriterAssumption DEF WriterAssumption, Known
<1> QED
  BY <1>1 DEF OwnNames

\* The string tables hold the names of the sections and of the symbols.
LEMMA TableNames ==
  ASSUME TranslationInv, NamesInv, pc \in Writing
  PROVE  /\ shstrtab \in Seq(Known) /\ strtab \in Seq(Known)
         /\ \A n \in 1..Len(sections) : Named(sections[n]) =>
              \E j \in 1..Len(shstrtab) : shstrtab[j] = sections[n].name
         /\ \A n \in 1..3 : \E j \in 1..Len(shstrtab) : shstrtab[j] = OwnNames[n]
         /\ \A n \in 1..Len(symtab) : Named(symtab[n]) =>
              \E j \in 1..Len(strtab) : strtab[j] = symtab[n].name
<1>1. pc \notin {"start", "extract_sections", "freed"} /\ pc \notin NoSymtab
  BY DEF Writing, NoSymtab
<1>2. shstrtab = NamesOf(sections) \o OwnNames /\ strtab = NamesOf(symtab)
  BY DEF NamesInv
<1> DEFINE N == NamesOf(sections)
           K == Known
<1>3. /\ N \in Seq(K)
      /\ \A n \in 1..Len(sections) : Named(sections[n]) =>
           \E j \in 1..Len(N) : N[j] = sections[n].name
  BY <1>1, SectionNames, NamesAdded
<1>4. OwnNames \in Seq(K) /\ Len(OwnNames) = 3
  BY OwnNamesKnown
<1> HIDE DEF N, K
<1>5. /\ shstrtab \in Seq(K) /\ Len(shstrtab) = Len(N) + 3 /\ Len(N) \in Nat
      /\ \A j \in 1..Len(N) : shstrtab[j] = N[j]
      /\ \A j \in 1..3 : shstrtab[Len(N) + j] = OwnNames[j]
  <2>1. shstrtab = N \o OwnNames
    BY <1>2 DEF N
  <2>2. N \in Seq(K) /\ OwnNames \in Seq(K)
    BY <1>3, <1>4
  <2>3. /\ N \o OwnNames \in Seq(K) /\ Len(N \o OwnNames) = Len(N) + Len(OwnNames) /\ Len(N) \in Nat
        /\ \A j \in 1..Len(N) : (N \o OwnNames)[j] = N[j]
        /\ \A j \in 1..Len(OwnNames) : (N \o OwnNames)[Len(N) + j] = OwnNames[j]
    <3> HIDE DEF N
    <3> QED
      BY ONLY <2>2, Concatenation
  <2>4. Len(OwnNames) = 3
    BY <1>4
  <2> QED
    BY ONLY <2>1, <2>3, <2>4
<1>6. \A j \in 1..3 : Len(N) + j \in 1..Len(shstrtab)
  BY <1>5
<1>7. \A j \in 1..Len(N) : j \in 1..Len(shstrtab)
  BY <1>5
<1>8. /\ strtab \in Seq(Known)
      /\ \A n \in 1..Len(symtab) : Named(symtab[n]) =>
           \E j \in 1..Len(strtab) : strtab[j] = symtab[n].name
  BY <1>1, <1>2, SymbolsNamed, NamesAdded
<1>9. \A n \in 1..Len(sections) : Named(sections[n]) =>
        \E j \in 1..Len(shstrtab) : shstrtab[j] = sections[n].name
  BY <1>3, <1>5, <1>7
<1> QED
  BY <1>5, <1>6, <1>8, <1>9 DEF K
-----------------------------------------------------------------------------
(***************************************************************************)
(* The steps of elf_writer_write.                                          *)
(***************************************************************************)

\* What was in its place stays there when section k is written.
LEMMA PlacesKept ==
  ASSUME sections \in Seq(SectionRecord), NEW k \in DOMAIN shdrs,
         DOMAIN shdrs = 0..(Len(sections) + 2),
         \A j \in DOMAIN shdrs \ {k} : Undisturbed(j, buffer', shdrs', offset')
  PROVE  /\ \A j \in 1..(Len(sections) - 1) :
              j # k /\ SectionIn(buffer, shdrs, HdrEnd, offset, shstrtab, sections, j)
                => SectionIn(buffer', shdrs', HdrEnd, offset', shstrtab, sections, j)
         /\ \A j \in DOMAIN shdrs \ {k} : \A name, kind : \A len \in Nat :
              TableIn(buffer, shdrs, HdrEnd, offset, shstrtab, j, name, kind, len)
                => TableIn(buffer', shdrs', HdrEnd, offset', shstrtab, j, name, kind, len)
<1>1. ASSUME NEW j \in 1..(Len(sections) - 1), j # k,
             SectionIn(buffer, shdrs, HdrEnd, offset, shstrtab, sections, j)
      PROVE  SectionIn(buffer', shdrs', HdrEnd, offset', shstrtab, sections, j)
  <2> DEFINE sec == sections[j + 1]
             len == IF sec.data THEN sec.size ELSE 0
  <2>1. j \in DOMAIN shdrs \ {k} /\ j + 1 \in 1..Len(sections)
    BY <1>1
  <2>2. sec.size \in Nat
    <3>1. sec \in SectionRecord
      <4> DEFINE X == SectionRecord
      <4>1. sections \in Seq(X)
        OBVIOUS
      <4> HIDE DEF X
      <4> QED BY <2>1, <4>1 DEF X
    <3> HIDE DEF sec
    <3> QED BY <3>1 DEF SectionRecord
  <2>3. len \in Nat
    BY <2>2
  <2>4. /\ shdrs[j].name = NameOffset(shstrtab, sec.name) /\ shdrs[j].size = sec.size
        /\ PlacedIn(buffer, shdrs, HdrEnd, offset, j, "data", sec.from, len)
    BY <1>1 DEF SectionIn
  <2> HIDE DEF len
  <2>5. PlacedIn(buffer', shdrs', HdrEnd, offset', j, "data", sec.from, len) /\ shdrs'[j] = shdrs[j]
    BY <2>1, <2>3, <2>4 DEF Undisturbed
  <2> QED
    BY <2>4, <2>5 DEF SectionIn, len
<1>2. ASSUME NEW j \in DOMAIN shdrs \ {k}, NEW name, NEW kind, NEW len \in Nat,
             TableIn(buffer, shdrs, HdrEnd, offset, shstrtab, j, name, kind, len)
      PROVE  TableIn(buffer', shdrs', HdrEnd, offset', shstrtab, j, name, kind, len)
  BY <1>2 DEF TableIn, Undisturbed
<1> QED
  BY <1>1, <1>2

\* n bytes of a kind.
LEMMA BytesTyped ==
  ASSUME NEW kind \in Kinds, NEW of \in Nat, NEW n \in Nat
  PROVE  /\ Bytes(kind, of, n) \in Seq(ByteRecord) /\ Len(Bytes(kind, of, n)) = n
         /\ \A k \in 1..n : Bytes(kind, of, n)[k] = Byte(kind, of, k)
<1>1. Bytes(kind, of, n) = [k \in 1..n |-> Byte(kind, of, k)]
  BY DEF Bytes
<1>2. \A k \in 1..n : Byte(kind, of, k) \in ByteRecord
  BY DEF Byte, ByteRecord
<1> QED
  BY <1>1, <1>2

\* The part of the invariant that every write must restore.
LEMMA WriteKeeps ==
  ASSUME WriterInv, pc \in Writing, pc' \in Writing \ {"built"}, i' \in Nat,
         lib' = lib, sections' = sections, symtab' = symtab, relocs' = relocs,
         allocated' = allocated, strings' = strings, shstrtab' = shstrtab, strtab' = strtab,
         buffer' \in Seq(ByteRecord), offset' \in Nat, offset <= offset',
         EhdrSize <= Len(buffer'), HdrEnd < offset' => offset' <= Len(buffer'),
         DOMAIN shdrs' = DOMAIN shdrs,
         \A n \in 1..EhdrSize : buffer'[n] = Byte("ehdr", 0, n),
         \A n \in (HdrEnd + 1)..offset' : buffer'[n] # Unset,
         pc' # "write_sections" => HdrEnd < offset',
         pc' = "write_sections" => 1 <= i' /\ i' <= Len(sections),
         PlacedInv'
  PROVE  WriterInv'
<1>1. /\ pc \notin NoRelocations /\ pc' \notin NoRelocations /\ pc' # "built" /\ pc' # "freed"
      /\ pc' \in AllLabels /\ pc \notin {"start", "extract_sections", "freed"}
  BY DEF Writing, NoRelocations, NoSymbols, NoSections, AllLabels
<1>2. TranslationInv /\ ShapeInv /\ BufferInv /\ NamesInv
  BY DEF WriterInv
<1>3. TranslationInv'
  BY <1>1, <1>2, TablesKept
<1>4. ShapeInv'
  BY <1>1, <1>2 DEF ShapeInv
<1>5. HdrEnd' = HdrEnd
  BY DEF HdrEnd
<1>6. BufferInv'
  <2>1. HdrEnd <= offset /\ DOMAIN shdrs = 0..(Len(sections) + 2)
    BY <1>2 DEF BufferInv
  <2>2. HdrEnd <= offset'
    <3>1. offset \in Nat /\ HdrEnd \in Nat
      BY <1>1, <1>2, SectionsFit DEF ShapeInv
    <3> QED BY <2>1, <3>1
  <2> QED
    BY <1>1, <1>5, <2>1, <2>2 DEF BufferInv
<1>7. NamesInv'
  BY <1>2 DEF NamesInv
<1>8. FreedInv'
  BY <1>1 DEF FreedInv
<1> QED
  BY <1>3, <1>4, <1>6, <1>7, <1>8 DEF WriterInv

LEMMA WriteSectionStep == WriterInv /\ WriteSection => WriterInv'
<1> SUFFICES ASSUME WriterInv, WriteSection
             PROVE  WriterInv'
  OBVIOUS
<1> DEFINE sec == sections[i + 1]
           nm == NameOffset(shstrtab, sec.name)
           al == IF sec.align > 0 THEN sec.align ELSE 1
           bs == IF sec.data THEN Bytes("data", sec.from, sec.size) ELSE <<>>
           len == IF sec.data THEN sec.size ELSE 0
<1>1. /\ pc = "write_sections" /\ pc' = pc /\ i' = i + 1 /\ i < Len(sections)
      /\ Place(i, [name |-> nm, type |-> sec.type, offset |-> 0, size |-> sec.size,
                   link |-> sec.link, info |-> sec.info, align |-> al], bs)
  BY DEF WriteSection
<1>2. /\ lib' = lib /\ sections' = sections /\ symtab' = symtab /\ relocs' = relocs
      /\ allocated' = allocated /\ strings' = strings /\ shstrtab' = shstrtab /\ strtab' = strtab
  BY <1>1 DEF Place
<1>3. TranslationInv /\ ShapeInv /\ BufferInv /\ PlacedInv /\ pc \in Writing
      /\ pc \notin {"start", "extract_sections", "freed"}
  BY <1>1 DEF WriterInv, Writing
<1>4. /\ 1 <= i /\ DOMAIN shdrs = 0..(Len(sections) + 2) /\ i \in Nat
      /\ Len(sections) \in Nat /\ sections \in Seq(SectionRecord)
  BY <1>1, <1>3, SectionsFit, SectionNames DEF BufferInv, TranslationInv, Basics
<1>5. i \in DOMAIN shdrs /\ i + 1 \in 1..Len(sections) /\ i \in 1..(Len(sections) - 1)
  BY <1>1, <1>4
<1>6. sec \in SectionRecord
  <2> DEFINE X == SectionRecord
  <2>1. sections \in Seq(X)
    BY <1>4
  <2> HIDE DEF X
  <2> QED BY <1>5, <2>1 DEF X
<1>7. sec.from \in Nat /\ sec.size \in Nat /\ al \in Nat \ {0} /\ len \in Nat
  <2> HIDE DEF sec
  <2> QED BY <1>6 DEF SectionRecord
<1>8. bs \in Seq(ByteRecord) /\ Len(bs) = len /\ Uniform(bs, "data", sec.from)
  <2>1. CASE sec.data
    <3> DEFINE fr == sec.from
               sz == sec.size
    <3>1. "data" \in Kinds
      BY DEF Kinds
    <3>2. fr \in Nat /\ sz \in Nat /\ bs = Bytes("data", fr, sz) /\ len = sz
      BY <1>7, <2>1
    <3> HIDE DEF bs, len, fr, sz
    <3>3. /\ Bytes("data", fr, sz) \in Seq(ByteRecord) /\ Len(Bytes("data", fr, sz)) = sz
          /\ \A n \in 1..sz : Bytes("data", fr, sz)[n] = Byte("data", fr, n)
      BY <3>1, <3>2, BytesTyped
    <3> QED BY <3>2, <3>3 DEF fr, Uniform
  <2>2. CASE ~sec.data
    <3>1. bs = <<>> /\ len = 0
      BY <2>2
    <3> HIDE DEF bs, len
    <3> QED BY <3>1 DEF Uniform
  <2> QED
    BY <2>1, <2>2
<1> HIDE DEF bs, al, nm, len
<1>9. PutDown(i, nm, sec.size, Len(bs), "data", sec.from, buffer', shdrs', offset')
  <2>1. "data" \in Kinds \ {"unset"}
    BY DEF Kinds
  <2> DEFINE tp == sec.type
             sz == sec.size
             lk == sec.link
             inf == sec.info
             fr == sec.from
  <2>2. Place(i, [name |-> nm, type |-> tp, offset |-> 0, size |-> sz,
                  link |-> lk, info |-> inf, align |-> al], bs)
    BY <1>1
  <2>3. /\ TranslationInv /\ ShapeInv /\ BufferInv /\ pc \in Writing
        /\ i \in DOMAIN shdrs /\ al \in Nat \ {0} /\ bs \in Seq(ByteRecord)
        /\ Uniform(bs, "data", fr)
    BY <1>3, <1>5, <1>7, <1>8
  <2> HIDE DEF tp, sz, lk, inf, fr
  <2>4. PutDown(i, nm, sz, Len(bs), "data", fr, buffer', shdrs', offset')
    BY <2>1, <2>2, <2>3, Placement
  <2> QED
    BY <2>4 DEF sz, fr
<1>10. \A j \in 1..(Len(sections) - 1) :
         j # i /\ SectionIn(buffer, shdrs, HdrEnd, offset, shstrtab, sections, j)
           => SectionIn(buffer', shdrs', HdrEnd, offset', shstrtab, sections, j)
  <2>1. \A j \in DOMAIN shdrs \ {i} : Undisturbed(j, buffer', shdrs', offset')
    BY <1>9 DEF PutDown
  <2> QED
    BY <1>4, <1>5, <2>1, PlacesKept
<1>11. SectionIn(buffer', shdrs', HdrEnd, offset', shstrtab, sections, i)
  BY <1>8, <1>9 DEF SectionIn, PutDown, nm, len
<1>12. HdrEnd' = HdrEnd
  BY <1>2 DEF HdrEnd
<1>13. PlacedInv'
  <2>1. \A j \in 1..(Len(sections) - 1) : j < i + 1 => j < i \/ j = i
    BY <1>4
  <2>2. \A j \in 1..(Len(sections) - 1) : j < i + 1 =>
          SectionIn(buffer', shdrs', HdrEnd, offset', shstrtab, sections, j)
    <3>1. \A j \in 1..(Len(sections) - 1) : j < i =>
            j # i /\ SectionIn(buffer, shdrs, HdrEnd, offset, shstrtab, sections, j)
      BY <1>1, <1>3, <1>4 DEF PlacedInv
    <3> QED
      BY <1>10, <1>11, <2>1, <3>1
  <2> QED
    BY <1>1, <1>2, <1>12, <2>2 DEF PlacedInv
<1>14. i' \in Nat /\ 1 <= i' /\ i' <= Len(sections) /\ offset <= offset'
  <2>1. offset \in Nat /\ Len(bs) \in Nat
    BY <1>3, <1>7, <1>8 DEF ShapeInv
  <2>2. offset' \in Nat /\ offset + Len(bs) <= offset'
    BY <1>9 DEF PutDown
  <2> QED
    BY <1>1, <1>4, <2>1, <2>2
<1>15. pc' \in Writing \ {"built"} /\ pc' = "write_sections"
  BY <1>1 DEF Writing
<1> QED
  BY <1>2, <1>3, <1>9, <1>13, <1>14, <1>15, WriteKeeps DEF PutDown

\* A table that the writer adds.
LEMMA TableStep ==
  ASSUME WriterInv, pc \in Writing, NEW k \in DOMAIN shdrs, NEW name, NEW type, NEW length \in Nat,
         NEW link, NEW info, NEW align \in Nat \ {0}, NEW kind \in Kinds \ {"unset"},
         Place(k, OwnShdr(name, type, length, link, info, align), Bytes(kind, 0, length))
  PROVE  /\ PutDown(k, NameOffset(shstrtab, name), length, length, kind, 0, buffer', shdrs', offset')
         /\ offset <= offset' /\ (length # 0 => HdrEnd < offset') /\ (HdrEnd < offset => HdrEnd < offset')
         /\ lib' = lib /\ sections' = sections /\ symtab' = symtab /\ relocs' = relocs
         /\ allocated' = allocated /\ strings' = strings /\ shstrtab' = shstrtab /\ strtab' = strtab
         /\ TableIn(buffer', shdrs', HdrEnd, offset', shstrtab, k, name, kind, length)
         /\ \A j \in 1..(Len(sections) - 1) :
              j # k /\ SectionIn(buffer, shdrs, HdrEnd, offset, shstrtab, sections, j)
                => SectionIn(buffer', shdrs', HdrEnd, offset', shstrtab, sections, j)
         /\ \A j \in DOMAIN shdrs \ {k} : \A nm, kd : \A len \in Nat :
              TableIn(buffer, shdrs, HdrEnd, offset, shstrtab, j, nm, kd, len)
                => TableIn(buffer', shdrs', HdrEnd, offset', shstrtab, j, nm, kd, len)
<1> DEFINE bs == Bytes(kind, 0, length)
           at == NameOffset(shstrtab, name)
<1>1. /\ TranslationInv /\ ShapeInv /\ BufferInv
      /\ pc \notin {"start", "extract_sections", "freed"}
  BY DEF WriterInv, Writing
<1>2. bs \in Seq(ByteRecord) /\ Len(bs) = length /\ Uniform(bs, kind, 0)
  BY BytesTyped DEF Uniform
<1>3. Place(k, [name |-> at, type |-> type, offset |-> 0, size |-> length, link |-> link,
                info |-> info, align |-> align], bs)
  BY DEF OwnShdr
<1> HIDE DEF bs, at
<1>4. PutDown(k, at, length, Len(bs), kind, 0, buffer', shdrs', offset')
  BY <1>1, <1>2, <1>3, Placement
<1>5. PutDown(k, at, length, length, kind, 0, buffer', shdrs', offset')
  BY <1>2, <1>4
<1>6. /\ lib' = lib /\ sections' = sections /\ symtab' = symtab /\ relocs' = relocs
      /\ allocated' = allocated /\ strings' = strings /\ shstrtab' = shstrtab /\ strtab' = strtab
  BY <1>3 DEF Place
<1>7. TableIn(buffer', shdrs', HdrEnd, offset', shstrtab, k, name, kind, length)
  BY <1>5 DEF TableIn, PutDown, at
<1>8. /\ \A j \in 1..(Len(sections) - 1) :
              j # k /\ SectionIn(buffer, shdrs, HdrEnd, offset, shstrtab, sections, j)
                => SectionIn(buffer', shdrs', HdrEnd, offset', shstrtab, sections, j)
      /\ \A j \in DOMAIN shdrs \ {k} : \A nm, kd : \A len \in Nat :
              TableIn(buffer, shdrs, HdrEnd, offset, shstrtab, j, nm, kd, len)
                => TableIn(buffer', shdrs', HdrEnd, offset', shstrtab, j, nm, kd, len)
  <2>1. sections \in Seq(SectionRecord) /\ DOMAIN shdrs = 0..(Len(sections) + 2)
    BY <1>1, SectionNames DEF BufferInv
  <2>2. \A j \in DOMAIN shdrs \ {k} : Undisturbed(j, buffer', shdrs', offset')
    BY <1>5 DEF PutDown
  <2> QED
    BY <2>1, <2>2, PlacesKept
<1>9. offset <= offset' /\ (length # 0 => HdrEnd < offset') /\ (HdrEnd < offset => HdrEnd < offset')
  <2>1. offset \in Nat /\ HdrEnd \in Nat /\ HdrEnd <= offset
    BY <1>1, SectionsFit DEF ShapeInv, BufferInv
  <2>2. offset' \in Nat /\ offset + length <= offset'
    BY <1>5 DEF PutDown
  <2> QED
    BY <2>1, <2>2
<1> QED
  BY <1>5, <1>6, <1>7, <1>8, <1>9 DEF at

\* The indexes of the tables behind the library's sections.
LEMMA OwnIndexes ==
  ASSUME WriterInv, pc \in Writing
  PROVE  /\ Len(sections) \in DOMAIN shdrs /\ Len(sections) + 1 \in DOMAIN shdrs
         /\ Len(sections) + 2 \in DOMAIN shdrs
         /\ \A j \in 1..(Len(sections) - 1) : \A d \in 0..2 : j # Len(sections) + d
         /\ Len(sections) \in Nat \ {0}
<1>1. Len(sections) \in Nat \ {0} /\ DOMAIN shdrs = 0..(Len(sections) + 2)
  <2>1. pc \notin {"start", "extract_sections", "freed"}
    BY DEF Writing
  <2> QED
    BY <2>1, SectionsFit DEF WriterInv, BufferInv
<1> QED
  BY <1>1

LEMMA WriteSymtabStep == WriterInv /\ WriteSymtab => WriterInv'
<1> SUFFICES ASSUME WriterInv, WriteSymtab
             PROVE  WriterInv'
  OBVIOUS
<1> DEFINE length == Len(symtab) * SymSize
           k == Len(sections)
<1>1. /\ pc = "write_sections" /\ pc' = "write_strtab" /\ i >= k /\ i' = i
      /\ Place(k, OwnShdr(".symtab", "SYMTAB", length, k + 1, 1, SymAlign), Bytes("symbols", 0, length))
  BY DEF WriteSymtab
<1>2. /\ pc \in Writing /\ pc' \in Writing \ {"built"} /\ pc \notin NoSymtab /\ "symbols" \in Kinds \ {"unset"}
      /\ TranslationInv /\ BufferInv /\ PlacedInv
  BY <1>1 DEF Writing, Kinds, NoSymtab, WriterInv
<1>3. length \in Nat \ {0}
  <2>1. \A x, y \in Nat \ {0} : x * y \in Nat \ {0}
    BY SMTT(60)
  <2> QED
    BY <1>2, <2>1, SymbolsNamed, Sizes
<1>4. k \in DOMAIN shdrs /\ (\A j \in 1..(k - 1) : j # k) /\ SymAlign \in Nat \ {0} /\ k \in Nat
  <2>1. \A j \in 1..(k - 1) : \A d \in 0..2 : j # k + d
    BY <1>2, OwnIndexes
  <2>2. 0 \in 0..2 /\ k \in Nat /\ k + 0 = k
    BY <1>2, OwnIndexes
  <2> QED
    BY <1>2, <2>1, <2>2, OwnIndexes, Sizes
<1> HIDE DEF length
<1>5. /\ PutDown(k, NameOffset(shstrtab, ".symtab"), length, length, "symbols", 0, buffer', shdrs', offset')
      /\ offset <= offset' /\ HdrEnd < offset'
      /\ lib' = lib /\ sections' = sections /\ symtab' = symtab /\ relocs' = relocs
      /\ allocated' = allocated /\ strings' = strings /\ shstrtab' = shstrtab /\ strtab' = strtab
      /\ TableIn(buffer', shdrs', HdrEnd, offset', shstrtab, k, ".symtab", "symbols", length)
      /\ \A j \in 1..(Len(sections) - 1) :
           j # k /\ SectionIn(buffer, shdrs, HdrEnd, offset, shstrtab, sections, j)
             => SectionIn(buffer', shdrs', HdrEnd, offset', shstrtab, sections, j)
  <2> DEFINE lk == k + 1
  <2>1. Place(k, OwnShdr(".symtab", "SYMTAB", length, lk, 1, SymAlign), Bytes("symbols", 0, length))
    BY <1>1
  <2>2. length # 0 /\ length \in Nat
    BY <1>3
  <2> HIDE DEF k, lk
  <2> QED
    BY <1>2, <1>4, <2>1, <2>2, TableStep
<1>6. HdrEnd' = HdrEnd /\ length = Len(symtab') * SymSize
  BY <1>5 DEF HdrEnd, length
<1>7. PlacedInv'
  <2>1. \A j \in 1..(k - 1) : SectionIn(buffer, shdrs, HdrEnd, offset, shstrtab, sections, j)
    <3>1. i \in Nat /\ \A j \in 1..(k - 1) : j < i
      BY <1>1, <1>2, <1>4 DEF TranslationInv, Basics
    <3> QED
      BY <1>1, <1>2, <3>1 DEF PlacedInv
  <2>2. \A j \in 1..(k - 1) : SectionIn(buffer', shdrs', HdrEnd, offset', shstrtab, sections, j)
    BY <1>4, <1>5, <2>1
  <2> QED
    BY <1>1, <1>5, <1>6, <2>2 DEF PlacedInv
<1>8. i' \in Nat
  BY <1>1, <1>2 DEF TranslationInv, Basics
<1>9. pc' # "write_sections"
  BY <1>1
<1> QED
  BY <1>2, <1>5, <1>7, <1>8, <1>9, WriteKeeps DEF PutDown

LEMMA WriteStrtabStep == WriterInv /\ WriteStrtab => WriterInv'
<1> SUFFICES ASSUME WriterInv, WriteStrtab
             PROVE  WriterInv'
  OBVIOUS
<1> DEFINE length == TableSize(strtab)
           k == Len(sections) + 1
<1>1. /\ pc = "write_strtab" /\ pc' = "write_shstrtab" /\ i' = i
      /\ Place(k, OwnShdr(".strtab", "STRTAB", length, 0, 0, 1), Bytes("strtab", 0, length))
  BY DEF WriteStrtab
<1>2. /\ pc \in Writing /\ pc' \in Writing \ {"built"} /\ "strtab" \in Kinds \ {"unset"}
      /\ TranslationInv /\ BufferInv /\ PlacedInv /\ NamesInv /\ pc \notin NoSymtab
  BY <1>1 DEF Writing, Kinds, WriterInv, NoSymtab
<1>3. length \in Nat /\ HdrEnd < offset
  BY <1>1, <1>2, TableNames, TableSizeTyped DEF BufferInv
<1>4. /\ k \in DOMAIN shdrs /\ Len(sections) \in DOMAIN shdrs \ {k}
      /\ (\A j \in 1..(Len(sections) - 1) : j # k) /\ 1 \in Nat \ {0}
  BY <1>2, OwnIndexes
<1> HIDE DEF length, k
<1>5. /\ PutDown(k, NameOffset(shstrtab, ".strtab"), length, length, "strtab", 0, buffer', shdrs', offset')
      /\ offset <= offset' /\ HdrEnd < offset'
      /\ lib' = lib /\ sections' = sections /\ symtab' = symtab /\ relocs' = relocs
      /\ allocated' = allocated /\ strings' = strings /\ shstrtab' = shstrtab /\ strtab' = strtab
      /\ TableIn(buffer', shdrs', HdrEnd, offset', shstrtab, k, ".strtab", "strtab", length)
      /\ \A j \in 1..(Len(sections) - 1) :
           j # k /\ SectionIn(buffer, shdrs, HdrEnd, offset, shstrtab, sections, j)
             => SectionIn(buffer', shdrs', HdrEnd, offset', shstrtab, sections, j)
      /\ \A j \in DOMAIN shdrs \ {k} : \A nm, kd : \A len \in Nat :
           TableIn(buffer, shdrs, HdrEnd, offset, shstrtab, j, nm, kd, len)
             => TableIn(buffer', shdrs', HdrEnd, offset', shstrtab, j, nm, kd, len)
  BY <1>1, <1>2, <1>3, <1>4, TableStep
<1>6. HdrEnd' = HdrEnd /\ length = TableSize(strtab')
  BY <1>5 DEF HdrEnd, length
<1>7. PlacedInv'
  <2>1. \A j \in 1..(Len(sections) - 1) : SectionIn(buffer', shdrs', HdrEnd, offset', shstrtab, sections, j)
    BY <1>1, <1>2, <1>4, <1>5 DEF PlacedInv
  <2> DEFINE syms == Len(symtab) * SymSize
  <2>2. syms \in Nat /\ TableIn(buffer, shdrs, HdrEnd, offset, shstrtab, Len(sections), ".symtab", "symbols", syms)
    BY <1>1, <1>2, SymbolsNamed, Sizes, ProductOfNats DEF PlacedInv
  <2>3. syms = Len(symtab') * SymSize
    BY <1>5
  <2> HIDE DEF syms
  <2>4. TableIn(buffer', shdrs', HdrEnd, offset', shstrtab, Len(sections), ".symtab", "symbols", syms)
    BY <1>4, <1>5, <2>2
  <2> QED
    BY <1>1, <1>5, <1>6, <2>1, <2>3, <2>4 DEF PlacedInv, k
<1>8. i' \in Nat
  BY <1>1, <1>2 DEF TranslationInv, Basics
<1>9. pc' # "write_sections"
  BY <1>1
<1> QED
  BY <1>2, <1>5, <1>7, <1>8, <1>9, WriteKeeps DEF PutDown

LEMMA WriteShstrtabStep == WriterInv /\ WriteShstrtab => WriterInv'
<1> SUFFICES ASSUME WriterInv, WriteShstrtab
             PROVE  WriterInv'
  OBVIOUS
<1> DEFINE length == TableSize(shstrtab)
           k == Len(sections) + 2
<1>1. /\ pc = "write_shstrtab" /\ pc' = "write_back" /\ i' = i
      /\ Place(k, OwnShdr(".shstrtab", "STRTAB", length, 0, 0, 1), Bytes("shstrtab", 0, length))
  BY DEF WriteShstrtab
<1>2. /\ pc \in Writing /\ pc' \in Writing \ {"built"} /\ "shstrtab" \in Kinds \ {"unset"}
      /\ TranslationInv /\ BufferInv /\ PlacedInv /\ NamesInv /\ pc \notin NoSymtab
  BY <1>1 DEF Writing, Kinds, WriterInv, NoSymtab
<1>3. length \in Nat /\ HdrEnd < offset /\ TableSize(strtab) \in Nat
  BY <1>1, <1>2, TableNames, TableSizeTyped DEF BufferInv
<1>4. /\ k \in DOMAIN shdrs
      /\ Len(sections) \in DOMAIN shdrs \ {k} /\ Len(sections) + 1 \in DOMAIN shdrs \ {k}
      /\ (\A j \in 1..(Len(sections) - 1) : j # k) /\ 1 \in Nat \ {0}
  BY <1>2, OwnIndexes
<1> HIDE DEF length, k
<1>5. /\ PutDown(k, NameOffset(shstrtab, ".shstrtab"), length, length, "shstrtab", 0, buffer', shdrs', offset')
      /\ offset <= offset' /\ HdrEnd < offset'
      /\ lib' = lib /\ sections' = sections /\ symtab' = symtab /\ relocs' = relocs
      /\ allocated' = allocated /\ strings' = strings /\ shstrtab' = shstrtab /\ strtab' = strtab
      /\ TableIn(buffer', shdrs', HdrEnd, offset', shstrtab, k, ".shstrtab", "shstrtab", length)
      /\ \A j \in 1..(Len(sections) - 1) :
           j # k /\ SectionIn(buffer, shdrs, HdrEnd, offset, shstrtab, sections, j)
             => SectionIn(buffer', shdrs', HdrEnd, offset', shstrtab, sections, j)
      /\ \A j \in DOMAIN shdrs \ {k} : \A nm, kd : \A len \in Nat :
           TableIn(buffer, shdrs, HdrEnd, offset, shstrtab, j, nm, kd, len)
             => TableIn(buffer', shdrs', HdrEnd, offset', shstrtab, j, nm, kd, len)
  BY <1>1, <1>2, <1>3, <1>4, TableStep
<1>6. HdrEnd' = HdrEnd /\ length = TableSize(shstrtab')
  BY <1>5 DEF HdrEnd, length
<1>7. PlacedInv'
  <2>1. \A j \in 1..(Len(sections) - 1) : SectionIn(buffer', shdrs', HdrEnd, offset', shstrtab, sections, j)
    BY <1>1, <1>2, <1>4, <1>5 DEF PlacedInv
  <2> DEFINE syms == Len(symtab) * SymSize
             strs == TableSize(strtab)
  <2>2. syms \in Nat /\ TableIn(buffer, shdrs, HdrEnd, offset, shstrtab, Len(sections), ".symtab", "symbols", syms)
    BY <1>1, <1>2, SymbolsNamed, Sizes, ProductOfNats DEF PlacedInv
  <2>3. strs \in Nat /\ TableIn(buffer, shdrs, HdrEnd, offset, shstrtab, Len(sections) + 1, ".strtab", "strtab", strs)
    BY <1>1, <1>2, <1>3 DEF PlacedInv
  <2>4. syms = Len(symtab') * SymSize /\ strs = TableSize(strtab')
    BY <1>5
  <2> HIDE DEF syms, strs
  <2>5. /\ TableIn(buffer', shdrs', HdrEnd, offset', shstrtab, Len(sections), ".symtab", "symbols", syms)
        /\ TableIn(buffer', shdrs', HdrEnd, offset', shstrtab, Len(sections) + 1, ".strtab", "strtab", strs)
    BY <1>4, <1>5, <2>2, <2>3
  <2> QED
    BY <1>1, <1>5, <1>6, <2>1, <2>4, <2>5 DEF PlacedInv, k
<1>8. i' \in Nat
  BY <1>1, <1>2 DEF TranslationInv, Basics
<1>9. pc' # "write_sections"
  BY <1>1
<1> QED
  BY <1>2, <1>5, <1>7, <1>8, <1>9, WriteKeeps DEF PutDown

\* Before the first byte is written.
LEMMA NothingWritten ==
  ASSUME pc' \in AllLabels \ (Writing \union {"write_header", "freed"}),
         TranslationInv', ShapeInv'
  PROVE  WriterInv'
BY DEF WriterInv, BufferInv, PlacedInv, NamesInv, FreedInv

LEMMA WriterStart == Init => WriterInv
<1> SUFFICES ASSUME Init
             PROVE  WriterInv
  OBVIOUS
<1>1. /\ TranslationInit /\ buffer = <<>> /\ offset = 0 /\ shdrs = <<>>
  BY DEF Init
<1>2. pc = "start" /\ TranslationInv
  BY <1>1, TranslationStart DEF TranslationInit
<1>3. buffer \in Seq(ByteRecord) /\ DOMAIN shdrs = {}
  BY <1>1
<1>4. ShapeInv
  BY <1>1, <1>2, <1>3 DEF ShapeInv, AllLabels, NoRelocations, NoSymbols, NoSections
<1>5. BufferInv /\ PlacedInv /\ NamesInv /\ FreedInv
  BY <1>2 DEF BufferInv, PlacedInv, NamesInv, FreedInv, Writing
<1> QED
  BY <1>2, <1>4, <1>5 DEF WriterInv

\* Where the loops of the translation lead.
LEMMA TranslationLabels ==
  ASSUME TranslationNext
  PROVE  pc' \in {"extract_sections", "extract_symtab", "extract_dynsym", "convert_symbols",
                  "extract_relocations", "convert_relocations", "translated"}
BY DEF TranslationNext, StartSections, ExtractSection, StartSymbols, ExtractStatic, ExtractDynamic,
       ExtractSymbol, StartDynamic, StartConversion, ConvertSymbol, StartRelocations,
       ExtractRelocation, StartRelocConversion, ConvertTable, EndTranslation

LEMMA WriterTranslates == WriterInv /\ TranslationNext /\ UNCHANGED wvars => WriterInv'
<1> SUFFICES ASSUME WriterInv, TranslationNext, UNCHANGED wvars
             PROVE  WriterInv'
  OBVIOUS
<1>1. buffer' = buffer /\ offset' = offset /\ shdrs' = shdrs
  BY DEF wvars
<1>2. TranslationInv'
  BY TranslationStep DEF WriterInv
<1>3. pc' \in AllLabels \ (Writing \union {"write_header", "freed"})
  BY TranslationLabels DEF AllLabels, Writing, NoRelocations, NoSymbols, NoSections
<1>4. ShapeInv'
  BY <1>1, <1>3 DEF WriterInv, ShapeInv
<1> QED
  BY <1>2, <1>3, <1>4, NothingWritten

LEMMA BuildStringTablesStep == WriterInv /\ BuildStringTables => WriterInv'
<1> SUFFICES ASSUME WriterInv, BuildStringTables
             PROVE  WriterInv'
  OBVIOUS
<1>1. /\ pc = "translated" /\ pc' = "write_header" /\ i' = i
      /\ lib' = lib /\ sections' = sections /\ symtab' = symtab /\ relocs' = relocs
      /\ allocated' = allocated /\ strings' = strings
      /\ buffer' = buffer /\ offset' = offset /\ shdrs' = shdrs
      /\ shstrtab' = NamesOf(sections) \o OwnNames /\ strtab' = NamesOf(symtab)
  BY DEF BuildStringTables, OwnNames
<1>2. /\ pc \notin NoRelocations /\ pc' \notin NoRelocations /\ i \in Nat
      /\ pc' \notin Writing /\ pc' \in AllLabels
  BY <1>1 DEF NoRelocations, NoSymbols, NoSections, Writing, AllLabels, WriterInv, TranslationInv, Basics
<1>3. TranslationInv'
  BY <1>1, <1>2, TablesKept DEF WriterInv
<1>4. ShapeInv'
  BY <1>1, <1>2 DEF WriterInv, ShapeInv
<1>5. NamesInv'
  BY <1>1 DEF NamesInv
<1> QED
  BY <1>1, <1>2, <1>3, <1>4, <1>5 DEF WriterInv, BufferInv, PlacedInv, FreedInv

LEMMA WriteHeaderStep == WriterInv /\ WriteHeader => WriterInv'
<1> SUFFICES ASSUME WriterInv, WriteHeader
             PROVE  WriterInv'
  OBVIOUS
<1> DEFINE C == NewCapacity(EhdrSize)
           L == Len(sections)
           S == Shnum
<1>1. /\ pc = "write_header" /\ pc' = "write_sections" /\ i' = 1
      /\ lib' = lib /\ sections' = sections /\ symtab' = symtab /\ relocs' = relocs
      /\ allocated' = allocated /\ strings' = strings /\ shstrtab' = shstrtab /\ strtab' = strtab
      /\ buffer' = [k \in 1..C |-> IF k <= EhdrSize THEN Byte("ehdr", 0, k) ELSE Unset]
      /\ offset' = EhdrSize + S * ShdrSize
      /\ shdrs' = [k \in 0..(S - 1) |-> NullShdr]
  BY DEF WriteHeader
<1>2. /\ pc \notin NoRelocations /\ pc' \notin NoRelocations
      /\ pc' \in Writing /\ pc' \in AllLabels /\ pc \notin {"start", "extract_sections", "freed"}
  BY <1>1 DEF NoRelocations, NoSymbols, NoSections, Writing, AllLabels
<1>3. TranslationInv'
  BY <1>1, <1>2, TablesKept DEF WriterInv
<1>4. /\ L \in Nat \ {0} /\ S = L + 3 /\ S < IndexLimit /\ EhdrSize < HdrEnd
      /\ HdrEnd = EhdrSize + S * ShdrSize /\ HdrEnd \in Nat
  BY <1>2, SectionsFit DEF WriterInv
<1>5. Len(buffer) \in Nat
  <2> DEFINE X == ByteRecord
  <2>1. buffer \in Seq(X)
    BY DEF WriterInv, ShapeInv
  <2> HIDE DEF X
  <2> QED BY <2>1
<1>6. C \in Nat /\ EhdrSize <= C /\ EhdrSize \in Nat
  BY <1>5, CapacityEnough, Sizes
<1> HIDE DEF C, S
<1>7. offset' = HdrEnd /\ HdrEnd' = HdrEnd /\ DOMAIN shdrs' = 0..(L + 2)
  BY <1>1, <1>4 DEF HdrEnd
<1>8. /\ buffer' \in Seq(ByteRecord) /\ Len(buffer') = C
      /\ \A n \in 1..EhdrSize : buffer'[n] = Byte("ehdr", 0, n)
  <2> DEFINE X == ByteRecord
  <2>1. \A k \in 1..C : (IF k <= EhdrSize THEN Byte("ehdr", 0, k) ELSE Unset) \in X
    BY DEF Byte, Unset, ByteRecord, Kinds
  <2> HIDE DEF X
  <2>2. buffer' \in Seq(X) /\ Len(buffer') = C
    BY <1>1, <1>6, <2>1
  <2>3. \A n \in 1..EhdrSize : n \in 1..C /\ n <= EhdrSize
    BY <1>6
  <2> QED
    BY <1>1, <2>2, <2>3 DEF X
<1>9. ShapeInv'
  <2>1. L + 3 \in 1..(IndexLimit - 1) /\ 0..(L + 2) = 0..((L + 3) - 1)
    BY <1>4, Sizes
  <2>2. DOMAIN shdrs' \in {0..(n - 1) : n \in 1..(IndexLimit - 1)}
    BY <1>7, <2>1
  <2> QED
    BY <1>2, <1>4, <1>7, <1>8, <2>2 DEF ShapeInv
<1>10. BufferInv'
  <2>1. ~(HdrEnd < offset') /\ HdrEnd <= offset' /\ EhdrSize <= Len(buffer')
    BY <1>4, <1>6, <1>7, <1>8
  <2>2. 1 <= i' /\ i' <= L
    BY <1>1, <1>4
  <2>3. \A n \in (HdrEnd + 1)..offset' : FALSE
    BY <1>4, <1>7
  <2> QED
    BY <1>1, <1>7, <1>8, <2>1, <2>2, <2>3 DEF BufferInv
<1>11. PlacedInv'
  BY <1>1, <1>4 DEF PlacedInv
<1>12. NamesInv'
  BY <1>1 DEF WriterInv, NamesInv
<1> QED
  BY <1>1, <1>3, <1>9, <1>10, <1>11, <1>12 DEF WriterInv, FreedInv

LEMMA WriteBackStep == WriterInv /\ WriteBack => WriterInv'
<1> SUFFICES ASSUME WriterInv, WriteBack
             PROVE  WriterInv'
  OBVIOUS
<1> DEFINE L == Len(buffer)
           S == Shnum * ShdrSize
           X == ByteRecord
           b(k) == IF EhdrSize < k /\ k <= HdrEnd THEN Byte("shdrs", 0, k - EhdrSize) ELSE buffer[k]
<1>1. /\ pc = "write_back" /\ pc' = "built" /\ i' = i
      /\ lib' = lib /\ sections' = sections /\ symtab' = symtab /\ relocs' = relocs
      /\ allocated' = allocated /\ strings' = strings /\ shstrtab' = shstrtab /\ strtab' = strtab
      /\ offset' = offset /\ shdrs' = shdrs
      /\ buffer' = [k \in 1..L |-> IF EhdrSize < k /\ k <= EhdrSize + S
                                   THEN Byte("shdrs", 0, k - EhdrSize) ELSE buffer[k]]
  BY DEF WriteBack
<1>2. /\ pc \notin NoRelocations /\ pc' \notin NoRelocations
      /\ pc \in Writing /\ pc' \in Writing /\ pc' \in AllLabels
      /\ pc \notin {"start", "extract_sections", "freed"} /\ pc \notin NoSymtab
  BY <1>1 DEF NoRelocations, NoSymbols, NoSections, Writing, AllLabels, NoSymtab
<1>3. TranslationInv /\ ShapeInv /\ BufferInv /\ PlacedInv /\ NamesInv /\ i \in Nat
  BY DEF WriterInv, TranslationInv, Basics
<1>4. TranslationInv'
  BY <1>1, <1>2, <1>3, TablesKept
<1>5. /\ HdrEnd = EhdrSize + S /\ HdrEnd \in Nat /\ EhdrSize < HdrEnd /\ EhdrSize \in Nat
      /\ S = (Len(sections) + 3) * ShdrSize /\ HdrEnd' = HdrEnd
  BY <1>1, <1>2, <1>3, SectionsFit, Sizes DEF HdrEnd
<1>6. /\ HdrEnd < offset /\ offset <= L /\ offset \in Nat /\ buffer \in Seq(X)
      /\ DOMAIN shdrs = 0..(Len(sections) + 2)
      /\ \A n \in 1..EhdrSize : buffer[n] = Byte("ehdr", 0, n)
      /\ \A n \in (HdrEnd + 1)..offset : buffer[n] # Unset
  BY <1>1, <1>2, <1>3 DEF BufferInv, ShapeInv
<1> HIDE DEF S, X
<1>7. L \in Nat /\ \A k \in 1..L : buffer[k] \in X
  BY <1>6
<1>8. buffer' = [k \in 1..L |-> b(k)]
  BY <1>1, <1>5
<1>9. \A k \in 1..L : b(k) \in X
  <2> SUFFICES ASSUME NEW k \in 1..L, EhdrSize < k
               PROVE  Byte("shdrs", 0, k - EhdrSize) \in X
    BY <1>7
  <2>1. k - EhdrSize \in Nat
    BY <1>5, <1>7
  <2> QED
    BY <2>1 DEF X, Byte, ByteRecord, Kinds
<1>10. /\ \A k \in 1..EhdrSize : k \in 1..L /\ b(k) = buffer[k]
       /\ \A k \in (HdrEnd + 1)..offset : k \in 1..L /\ b(k) = buffer[k]
       /\ \A n \in 1..S : EhdrSize + n \in 1..L /\ b(EhdrSize + n) = Byte("shdrs", 0, n)
  <2>1. \A k \in 1..EhdrSize : k \in 1..L /\ ~(EhdrSize < k)
    BY <1>5, <1>6, <1>7
  <2>2. \A k \in (HdrEnd + 1)..offset : k \in 1..L /\ ~(k <= HdrEnd)
    BY <1>5, <1>6, <1>7, SMTT(60)
  <2>3. S \in Int
    <3>1. Len(sections) + 3 \in Nat
      BY <1>2, <1>3, SectionsFit
    <3> QED
      BY <1>5, <3>1, Sizes, ProductOfNats
  <2>4. \A n \in 1..S : /\ EhdrSize + n \in 1..L /\ EhdrSize < EhdrSize + n /\ EhdrSize + n <= HdrEnd
                        /\ (EhdrSize + n) - EhdrSize = n
    BY <1>5, <1>6, <1>7, <2>3
  <2> QED
    BY <2>1, <2>2, <2>4
<1> HIDE DEF b, L
<1>11. buffer' \in Seq(X) /\ Len(buffer') = L
  BY <1>7, <1>8, <1>9
<1>12. /\ \A k \in 1..EhdrSize : buffer'[k] = buffer[k]
       /\ \A k \in (HdrEnd + 1)..offset : buffer'[k] = buffer[k]
       /\ \A n \in 1..S : buffer'[EhdrSize + n] = Byte("shdrs", 0, n)
  BY <1>8, <1>10
<1>13. ShapeInv'
  BY <1>1, <1>2, <1>3, <1>11 DEF ShapeInv, X
<1>14. BufferInv'
  <2>1. EhdrSize <= Len(buffer') /\ offset' <= Len(buffer') /\ HdrEnd <= offset /\ HdrEnd < offset'
    BY <1>1, <1>5, <1>6, <1>7, <1>11
  <2>2. \A n \in (HdrEnd + 1)..offset : buffer'[n] # Unset
    BY <1>6, <1>12
  <2>3. \A n \in 1..EhdrSize : buffer'[n] = Byte("ehdr", 0, n)
    BY <1>6, <1>12
  <2>4. pc' # "write_sections"
    BY <1>1
  <2> QED
    BY <1>1, <1>5, <1>6, <1>12, <2>1, <2>2, <2>3, <2>4 DEF BufferInv
\* What lies behind the section headers is not touched.
<1>15. ASSUME NEW j, NEW kind, NEW of, NEW len \in Nat,
              PlacedIn(buffer, shdrs, HdrEnd, offset, j, kind, of, len)
       PROVE  PlacedIn(buffer', shdrs', HdrEnd, offset', j, kind, of, len)
  <2> DEFINE from == shdrs[j].offset
  <2>1. /\ from \in Nat /\ HdrEnd <= from /\ from + len <= offset
        /\ \A n \in 1..len : buffer[from + n] = Byte(kind, of, n)
    BY <1>15 DEF PlacedIn
  <2> HIDE DEF from
  <2>2. \A n \in 1..len : from + n \in (HdrEnd + 1)..offset
    BY <1>5, <1>6, <2>1
  <2>3. \A n \in 1..len : buffer'[from + n] = Byte(kind, of, n)
    BY <1>12, <2>1, <2>2
  <2> QED
    BY <1>1, <1>15, <2>3 DEF PlacedIn, from
<1>16. ASSUME NEW j \in 1..(Len(sections) - 1)
       PROVE  SectionIn(buffer', shdrs', HdrEnd, offset', shstrtab, sections, j)
  <2> DEFINE sec == sections[j + 1]
             len == IF sec.data THEN sec.size ELSE 0
  <2>1. SectionIn(buffer, shdrs, HdrEnd, offset, shstrtab, sections, j)
    BY <1>1, <1>2, <1>3 DEF PlacedInv
  <2>2. len \in Nat
    <3> DEFINE Y == SectionRecord
    <3>1. sections \in Seq(Y) /\ Len(sections) \in Nat
      BY <1>2, <1>3, SectionNames, SectionsFit
    <3> HIDE DEF Y
    <3>2. sec \in Y
      BY <3>1
    <3>3. sec \in SectionRecord
      BY <3>2 DEF Y
    <3> HIDE DEF sec
    <3> QED
      BY <3>3 DEF SectionRecord
  <2>3. PlacedIn(buffer, shdrs, HdrEnd, offset, j, "data", sec.from, len)
    BY <2>1 DEF SectionIn
  <2> HIDE DEF len
  <2>4. PlacedIn(buffer', shdrs', HdrEnd, offset', j, "data", sec.from, len)
    BY <1>15, <2>2, <2>3
  <2> QED
    BY <1>1, <2>1, <2>4 DEF SectionIn, len
<1>17. ASSUME NEW j, NEW name, NEW kind, NEW len \in Nat,
              TableIn(buffer, shdrs, HdrEnd, offset, shstrtab, j, name, kind, len)
       PROVE  TableIn(buffer', shdrs', HdrEnd, offset', shstrtab, j, name, kind, len)
  BY <1>1, <1>15, <1>17 DEF TableIn
<1>18. PlacedInv'
  <2> DEFINE syms == Len(symtab) * SymSize
             strs == TableSize(strtab)
             shstrs == TableSize(shstrtab)
             own == Len(sections)
  <2>1. syms \in Nat /\ strs \in Nat /\ shstrs \in Nat
    BY <1>2, <1>3, SymbolsNamed, Sizes, ProductOfNats, TableNames, TableSizeTyped
  <2>2. /\ TableIn(buffer, shdrs, HdrEnd, offset, shstrtab, own, ".symtab", "symbols", syms)
        /\ TableIn(buffer, shdrs, HdrEnd, offset, shstrtab, own + 1, ".strtab", "strtab", strs)
        /\ TableIn(buffer, shdrs, HdrEnd, offset, shstrtab, own + 2, ".shstrtab", "shstrtab", shstrs)
    BY <1>1, <1>2, <1>3 DEF PlacedInv
  <2>3. /\ syms = Len(symtab') * SymSize /\ strs = TableSize(strtab') /\ shstrs = TableSize(shstrtab')
        /\ own = Len(sections')
    BY <1>1
  <2> HIDE DEF syms, strs, shstrs
  <2>4. /\ TableIn(buffer', shdrs', HdrEnd, offset', shstrtab, own, ".symtab", "symbols", syms)
        /\ TableIn(buffer', shdrs', HdrEnd, offset', shstrtab, own + 1, ".strtab", "strtab", strs)
        /\ TableIn(buffer', shdrs', HdrEnd, offset', shstrtab, own + 2, ".shstrtab", "shstrtab", shstrs)
    BY <1>17, <2>1, <2>2
  <2> QED
    BY <1>1, <1>5, <1>16, <2>3, <2>4 DEF PlacedInv
<1>19. NamesInv'
  BY <1>1, <1>2, <1>3 DEF NamesInv
<1> QED
  BY <1>1, <1>4, <1>13, <1>14, <1>18, <1>19 DEF WriterInv, FreedInv

\* The copies that remain are those symbol_table_add did not keep.
LEMMA FreeTablesStep == WriterInv /\ FreeTables => WriterInv'
<1> SUFFICES ASSUME WriterInv, FreeTables
             PROVE  WriterInv'
  OBVIOUS
<1> DEFINE statics == Cardinality(Defined("SYMTAB"))
           dynamics == Cardinality(Defined("DYNSYM"))
<1>1. /\ pc = "built" /\ pc' = "freed" /\ lib' = lib /\ i' = i /\ allocated' = allocated
      /\ sections' = <<>> /\ symtab' = <<>> /\ relocs' = <<>> /\ buffer' = <<>>
      /\ offset' = offset /\ shdrs' = shdrs
      /\ strings' = strings - (Copies(relocs) + Copies(symtab) + Copies(sections))
  BY DEF FreeTables, Names, Copies, WithName
<1>2. /\ Basics /\ SectionsInv /\ SymbolsInv /\ RelocsInv /\ StringsInv /\ ShapeInv
      /\ pc # "freed" /\ pc \notin NoSymtab /\ pc \notin NoSymbols
  BY <1>1 DEF WriterInv, TranslationInv, NoSymtab, NoSymbols, NoSections
<1>3. strings = Copies(sections) + 2 * Copies(symtab) + Copies(relocs)
  BY <1>2 DEF StringsInv
<1>4. Copies(sections) \in Nat /\ Copies(symtab) \in Nat /\ Copies(relocs) \in Nat
  BY <1>2, CopiesTyped
<1>5. strings' = Copies(symtab)
  BY <1>1, <1>3, <1>4
<1>6. Copies(symtab) = Len(symtab) - 1
  BY <1>2, SymbolNames
<1>7. Len(symtab) = 1 + statics + dynamics
  BY <1>2, SymbolsResult DEF SymbolsTranslated
<1>8. statics \in Nat /\ dynamics \in Nat
  BY <1>2, SymbolsTyped, FS_CardinalityType DEF Basics
<1>9. strings' = statics + dynamics
  BY <1>5, <1>6, <1>7, <1>8
<1>10. \A t : Defined(t)' = Defined(t)
  BY <1>1 DEF Defined, Symbols
<1>11. FreedInv'
  BY <1>1, <1>9, <1>10 DEF FreedInv
<1>12. TranslationInv'
  <2>1. Basics' /\ SectionsInv' /\ SymbolsInv'
    BY <1>1, <1>2 DEF Basics, SectionsInv, SymbolsInv, NoSymtab
  <2>2. RelocsInv' /\ StringsInv'
    BY <1>1, <1>2 DEF RelocsInv, StringsInv, NoSymbols, NoSections
  <2> QED
    BY <2>1, <2>2 DEF TranslationInv
<1>13. ShapeInv'
  <2>1. buffer' \in Seq(ByteRecord)
    BY <1>1
  <2> QED
    BY <1>1, <1>2, <2>1 DEF ShapeInv, AllLabels, NoRelocations, NoSymbols, NoSections
<1>14. pc' \notin Writing \union {"write_header"}
  BY <1>1 DEF Writing
<1> QED
  BY <1>11, <1>12, <1>13, <1>14 DEF WriterInv, BufferInv, PlacedInv, NamesInv

LEMMA WriterStutter == WriterInv /\ UNCHANGED vars => WriterInv'
<1> SUFFICES ASSUME WriterInv, UNCHANGED vars
             PROVE  WriterInv'
  OBVIOUS
<1>1. /\ lib' = lib /\ pc' = pc /\ i' = i /\ sections' = sections /\ symtab' = symtab
      /\ relocs' = relocs /\ allocated' = allocated /\ strings' = strings
      /\ shstrtab' = shstrtab /\ strtab' = strtab /\ buffer' = buffer /\ offset' = offset
      /\ shdrs' = shdrs
  BY DEF vars
<1>2. TranslationInv'
  BY <1>1, TranslationStutter DEF WriterInv, tvars
<1>3. HdrEnd' = HdrEnd /\ \A t : Defined(t)' = Defined(t)
  BY <1>1 DEF HdrEnd, Defined, Symbols
<1>4. ShapeInv'
  BY <1>1 DEF WriterInv, ShapeInv
<1>5. BufferInv'
  BY <1>1, <1>3 DEF WriterInv, BufferInv
<1>6. PlacedInv'
  BY <1>1, <1>3 DEF WriterInv, PlacedInv
<1>7. NamesInv' /\ FreedInv'
  BY <1>1, <1>3 DEF WriterInv, NamesInv, FreedInv
<1> QED
  BY <1>2, <1>4, <1>5, <1>6, <1>7 DEF WriterInv

-----------------------------------------------------------------------------
(***************************************************************************)
(* What the invariant means for the object.                                *)
(***************************************************************************)
LEMMA TypesHold == WriterInv => TypeOK
<1> SUFFICES ASSUME WriterInv
             PROVE  TypeOK
  OBVIOUS
<1>1. /\ Basics /\ SectionsInv /\ SymbolsInv /\ RelocsInv /\ StringsInv /\ ShapeInv /\ FreedInv
      /\ TranslationInv
  BY DEF WriterInv, TranslationInv
<1>2. i \in Nat /\ allocated \in Nat /\ offset \in Nat
  BY <1>1 DEF Basics, RelocsInv, ShapeInv
<1>3. strings \in Nat
  <2>1. CASE pc = "freed"
    <3>1. Cardinality(Defined("SYMTAB")) \in Nat /\ Cardinality(Defined("DYNSYM")) \in Nat
      BY <1>1, SymbolsTyped, FS_CardinalityType DEF Basics
    <3> QED
      BY <1>1, <2>1, <3>1 DEF FreedInv
  <2>2. CASE pc # "freed"
    <3>1. strings = Copies(sections) + 2 * Copies(symtab) + Copies(relocs)
      BY <1>1, <2>2 DEF StringsInv
    <3>2. Copies(sections) \in Nat /\ Copies(symtab) \in Nat /\ Copies(relocs) \in Nat
      BY <1>1, <2>2, CopiesTyped
    <3> QED
      BY <3>1, <3>2
  <2> QED
    BY <2>1, <2>2
<1>4. \A n \in 1..Len(sections) : sections[n].from \in Sections(lib) \union {0}
  <2>1. CASE pc \in {"start", "freed"}
    <3>1. Len(sections) = 0
      BY <1>1, <2>1 DEF StringsInv, FreedInv
    <3> QED
      BY <3>1
  <2>2. CASE pc \notin {"start", "freed"}
    <3>1. /\ sections \in Seq(SectionRecord) /\ sections[1] = NullSection
          /\ \A n \in 2..Len(sections) : sections[n].from \in SeenSections \ {0}
      BY <1>1, <2>2 DEF SectionsInv
    <3>2. \A n \in 1..Len(sections) : n = 1 \/ n \in 2..Len(sections)
      BY <3>1
    <3> QED
      BY <3>1, <3>2 DEF SeenSections, NullSection
  <2> QED
    BY <2>1, <2>2
<1>5. \A n \in 1..Len(buffer) :
       /\ buffer[n].kind \in Kinds /\ buffer[n].of \in Nat /\ buffer[n].n \in Nat
  <2> SUFFICES ASSUME NEW n \in 1..Len(buffer)
               PROVE  /\ buffer[n].kind \in Kinds /\ buffer[n].of \in Nat /\ buffer[n].n \in Nat
    OBVIOUS
  <2> DEFINE X == ByteRecord
             b == buffer[n]
  <2>1. buffer \in Seq(X)
    BY <1>1 DEF ShapeInv
  <2> HIDE DEF X
  <2>2. b \in X
    BY <2>1
  <2> HIDE DEF b
  <2>3. b.kind \in Kinds /\ b.of \in Nat /\ b.n \in Nat
    BY <2>2 DEF X, ByteRecord
  <2> QED
    BY <2>3 DEF b
<1> QED
  BY <1>1, <1>2, <1>3, <1>4, <1>5 DEF TypeOK, ShapeInv, Kinds

LEMMA HeadersFit == WriterInv => HeadersInBuffer
<1> SUFFICES ASSUME WriterInv, pc = "write_back"
             PROVE  EhdrSize + Shnum * ShdrSize <= Len(buffer)
  BY DEF HeadersInBuffer
<1>1. TranslationInv /\ ShapeInv /\ BufferInv /\ pc \in Writing
      /\ pc \notin {"start", "extract_sections", "freed"}
  BY DEF WriterInv, Writing
<1>2. HdrEnd = EhdrSize + Shnum * ShdrSize /\ HdrEnd \in Nat
  BY <1>1, SectionsFit
<1>3. HdrEnd < offset /\ offset <= Len(buffer) /\ offset \in Nat
  BY <1>1 DEF BufferInv, ShapeInv
<1>4. Len(buffer) \in Nat
  <2> DEFINE X == ByteRecord
  <2>1. buffer \in Seq(X)
    BY <1>1 DEF ShapeInv
  <2> HIDE DEF X
  <2> QED BY <2>1
<1> QED
  BY <1>2, <1>3, <1>4

LEMMA AllWritten == WriterInv => NothingUnset
<1> SUFFICES ASSUME WriterInv, pc = "built"
             PROVE  offset <= Len(buffer) /\ \A n \in 1..offset : buffer[n] # Unset
  BY DEF NothingUnset
<1> DEFINE S == (Len(sections) + 3) * ShdrSize
<1>1. TranslationInv /\ ShapeInv /\ BufferInv /\ pc \in Writing
      /\ pc \notin {"start", "extract_sections", "freed"}
  BY DEF WriterInv, Writing
<1>2. HdrEnd = EhdrSize + S /\ HdrEnd \in Nat /\ EhdrSize \in Nat /\ S \in Nat
  <2>1. Len(sections) + 3 \in Nat /\ HdrEnd \in Nat
    BY <1>1, SectionsFit
  <2> QED
    BY <2>1, Sizes, ProductOfNats DEF HdrEnd
<1>3. /\ HdrEnd < offset /\ offset <= Len(buffer) /\ offset \in Nat
      /\ \A n \in 1..EhdrSize : buffer[n] = Byte("ehdr", 0, n)
      /\ \A n \in (HdrEnd + 1)..offset : buffer[n] # Unset
      /\ \A n \in 1..S : buffer[EhdrSize + n] = Byte("shdrs", 0, n)
  BY <1>1 DEF BufferInv, ShapeInv
<1> HIDE DEF S
<1>4. ASSUME NEW n \in 1..offset
      PROVE  buffer[n] # Unset
  <2>1. CASE n \in 1..EhdrSize
    <3>1. buffer[n] = Byte("ehdr", 0, n)
      BY <1>3, <2>1
    <3> QED
      BY <3>1 DEF Byte, Unset
  <2>2. CASE n \in (HdrEnd + 1)..offset
    BY <1>3, <2>2
  <2>3. CASE n \notin 1..EhdrSize /\ n \notin (HdrEnd + 1)..offset
    <3>1. n - EhdrSize \in 1..S /\ EhdrSize + (n - EhdrSize) = n
      BY <1>2, <1>3, <2>3
    <3>2. buffer[n] = Byte("shdrs", 0, n - EhdrSize)
      BY <1>3, <3>1
    <3> QED
      BY <3>2 DEF Byte, Unset
  <2> QED
    BY <2>1, <2>2, <2>3
<1> QED
  BY <1>3, <1>4

LEMMA AllIntact == WriterInv => SectionsIntact
<1> SUFFICES ASSUME WriterInv, pc = "built"
             PROVE  SectionsIntact
  BY DEF SectionsIntact
<1> DEFINE own == Len(sections)
           syms == Len(symtab) * SymSize
           strs == TableSize(strtab)
           shstrs == TableSize(shstrtab)
<1>1. TranslationInv /\ BufferInv /\ PlacedInv /\ pc \in Writing
      /\ pc \notin {"start", "extract_sections", "freed"}
  BY DEF WriterInv, Writing
<1>2. own \in Nat \ {0} /\ HdrEnd = EhdrSize + (own + 3) * ShdrSize
  BY <1>1, SectionsFit DEF HdrEnd
<1>3. /\ DOMAIN shdrs = 0..(own + 2)
      /\ \A n \in 1..EhdrSize : buffer[n] = Byte("ehdr", 0, n)
      /\ \A n \in 1..((own + 3) * ShdrSize) : buffer[EhdrSize + n] = Byte("shdrs", 0, n)
  BY <1>1 DEF BufferInv
<1>4. \A k \in 1..(own - 1) :
        /\ shdrs[k].offset % shdrs[k].align = 0
        /\ shdrs[k].size = sections[k + 1].size
        /\ sections[k + 1].data =>
             \A n \in 1..sections[k + 1].size : ByteAt(k, n) = Byte("data", sections[k + 1].from, n)
  BY <1>1 DEF PlacedInv, SectionIn, PlacedIn, ByteAt
<1>5. /\ shdrs[own].offset % shdrs[own].align = 0
      /\ \A n \in 1..syms : ByteAt(own, n) = Byte("symbols", 0, n)
  BY <1>1 DEF PlacedInv, TableIn, PlacedIn, ByteAt
<1>6. /\ shdrs[own + 1].offset % shdrs[own + 1].align = 0
      /\ \A n \in 1..strs : ByteAt(own + 1, n) = Byte("strtab", 0, n)
  BY <1>1 DEF PlacedInv, TableIn, PlacedIn, ByteAt
<1>7. /\ shdrs[own + 2].offset % shdrs[own + 2].align = 0
      /\ \A n \in 1..shstrs : ByteAt(own + 2, n) = Byte("shstrtab", 0, n)
  BY <1>1 DEF PlacedInv, TableIn, PlacedIn, ByteAt
<1>8. \A k \in 1..(own + 2) : k \in 1..(own - 1) \/ k \in {own, own + 1, own + 2}
  BY <1>2
<1>9. \A k \in 1..(own + 2) : shdrs[k].offset % shdrs[k].align = 0
  <2> HIDE DEF own
  <2> QED BY <1>4, <1>5, <1>6, <1>7, <1>8
<1> QED
  BY <1>3, <1>4, <1>5, <1>6, <1>7, <1>9 DEF SectionsIntact

LEMMA AllNamesFound == WriterInv => NamesFound
<1> SUFFICES ASSUME WriterInv, pc = "built"
             PROVE  NamesFound
  BY DEF NamesFound
<1> DEFINE own == Len(sections)
<1>1. TranslationInv /\ BufferInv /\ PlacedInv /\ NamesInv /\ pc \in Writing
      /\ pc \notin {"start", "extract_sections", "freed"} /\ pc \notin NoSymtab
  BY DEF WriterInv, Writing, NoSymtab
<1>2. own \in Nat \ {0}
  BY <1>1, SectionsFit
<1>3. /\ shstrtab \in Seq(Known) /\ strtab \in Seq(Known)
      /\ \A n \in 1..own : Named(sections[n]) =>
           \E j \in 1..Len(shstrtab) : shstrtab[j] = sections[n].name
      /\ \A n \in 1..3 : \E j \in 1..Len(shstrtab) : shstrtab[j] = OwnNames[n]
      /\ \A n \in 1..Len(symtab) : Named(symtab[n]) =>
           \E j \in 1..Len(strtab) : strtab[j] = symtab[n].name
  BY <1>1, TableNames
<1>4. ASSUME NEW k \in 1..(own - 1)
      PROVE  StringAt(shstrtab, shdrs[k].name) = sections[k + 1].name
  <2> DEFINE nm == sections[k + 1].name
  <2>1. k + 1 \in 2..own /\ k + 1 \in 1..own
    BY <1>2
  <2>2. shdrs[k].name = NameOffset(shstrtab, nm)
    BY <1>1 DEF PlacedInv, SectionIn
  <2>3. nm # Null /\ (Named(sections[k + 1]) => nm \in Known)
    BY <1>1, <2>1, SectionNames
  <2>4. Named(sections[k + 1]) => \E j \in 1..Len(shstrtab) : shstrtab[j] = nm
    BY <1>3, <2>1
  <2>5. CASE nm = ""
    BY <2>2, <2>5, NoNameLookup
  <2>6. CASE nm # ""
    <3>1. Named(sections[k + 1])
      BY <2>3, <2>6 DEF Named
    <3> HIDE DEF nm
    <3> QED
      BY <1>3, <2>2, <2>3, <2>4, <3>1, NameLookup, SMTT(60) DEF nm
  <2> QED
    BY <2>5, <2>6
<1>5. ASSUME NEW k \in 1..3
      PROVE  StringAt(shstrtab, shdrs[own + k - 1].name) = OwnNames[k]
  <2>1. shdrs[own + k - 1].name = NameOffset(shstrtab, OwnNames[k])
    <3>1. /\ shdrs[own].name = NameOffset(shstrtab, ".symtab")
          /\ shdrs[own + 1].name = NameOffset(shstrtab, ".strtab")
          /\ shdrs[own + 2].name = NameOffset(shstrtab, ".shstrtab")
      BY <1>1 DEF PlacedInv, TableIn
    <3>2. \/ k = 1 /\ own + k - 1 = own
          \/ k = 2 /\ own + k - 1 = own + 1
          \/ k = 3 /\ own + k - 1 = own + 2
      BY <1>2
    <3>3. OwnNames[1] = ".symtab" /\ OwnNames[2] = ".strtab" /\ OwnNames[3] = ".shstrtab"
      BY DEF OwnNames
    <3> HIDE DEF own
    <3> QED
      BY <3>1, <3>2, <3>3
  <2>2. OwnNames[k] \in Known
    <3> DEFINE X == Known
    <3>1. OwnNames \in Seq(X) /\ Len(OwnNames) = 3
      BY OwnNamesKnown
    <3> HIDE DEF X
    <3>2. OwnNames[k] \in X
      BY <3>1
    <3> QED
      BY <3>2 DEF X
  <2>3. \E j \in 1..Len(shstrtab) : shstrtab[j] = OwnNames[k]
    BY <1>3
  <2> DEFINE nm == OwnNames[k]
  <2> HIDE DEF nm
  <2>4. StringAt(shstrtab, NameOffset(shstrtab, nm)) = nm
    BY <1>3, <2>2, <2>3, NameLookup DEF nm
  <2> QED
    BY <2>1, <2>4 DEF nm
<1>6. ASSUME NEW n \in 2..Len(symtab)
      PROVE  StringAt(strtab, NameOffset(strtab, symtab[n].name)) = symtab[n].name
  <2>1. n \in 1..Len(symtab) /\ Named(symtab[n]) /\ symtab[n].name \in Known
    BY <1>1, SymbolsNamed
  <2> QED
    BY <1>3, <2>1, NameLookup
<1> QED
  BY <1>4, <1>5, <1>6 DEF NamesFound

-----------------------------------------------------------------------------
(***************************************************************************)
(* The theorems.                                                           *)
(***************************************************************************)

\* What is below writer->buffer_offset stays what it is through every write,
\* and the tables that are written stay what the translation has made.
THEOREM WriterInvariant == Spec => []WriterInv
<1>1. WriterInv /\ [Next]_vars => WriterInv'
  <2> SUFFICES ASSUME WriterInv, [Next]_vars
               PROVE  WriterInv'
    OBVIOUS
  <2>1. CASE TranslationNext /\ UNCHANGED wvars
    BY <2>1, WriterTranslates
  <2>2. CASE BuildStringTables
    BY <2>2, BuildStringTablesStep
  <2>3. CASE WriteHeader
    BY <2>3, WriteHeaderStep
  <2>4. CASE WriteSection
    BY <2>4, WriteSectionStep
  <2>5. CASE WriteSymtab
    BY <2>5, WriteSymtabStep
  <2>6. CASE WriteStrtab
    BY <2>6, WriteStrtabStep
  <2>7. CASE WriteShstrtab
    BY <2>7, WriteShstrtabStep
  <2>8. CASE WriteBack
    BY <2>8, WriteBackStep
  <2>9. CASE FreeTables
    BY <2>9, FreeTablesStep
  <2>10. CASE UNCHANGED vars
    BY <2>10, WriterStutter
  <2> QED
    BY <2>1, <2>2, <2>3, <2>4, <2>5, <2>6, <2>7, <2>8, <2>9, <2>10 DEF Next
<1> QED
  BY <1>1, WriterStart, PTL DEF Spec

\* The values keep their types.
THEOREM TypeCorrect == Spec => []TypeOK
BY WriterInvariant, TypesHold, PTL

\* Of every library: the section table has exactly the sections whose type the
\* filter lists and whose name is not one of the dynamic linker's, each once, in
\* the library's order and with the fields of its header.
THEOREM SectionsOnce == Spec => []SectionsKept
<1>1. WriterInv => SectionsKept
  BY SectionsResult DEF WriterInv, TranslationInv
<1> QED
  BY <1>1, WriterInvariant, PTL

\* Of every library: the defined symbols, static before dynamic, become the
\* symbol table, changed only in their visibility, and none stays hidden.
THEOREM SymbolsOnce == Spec => []SymbolsTranslated
<1>1. WriterInv => SymbolsTranslated
  BY SymbolsResult DEF WriterInv, TranslationInv
<1> QED
  BY <1>1, WriterInvariant, PTL

\* Of every library: the second pass over the section headers finds as many
\* relocation sections as the first has made room for, and never more.
THEOREM RoomForTables == Spec => []TablesFit
<1>1. WriterInv => TablesFit
  BY RelocsResult DEF WriterInv, TranslationInv
<1> QED
  BY <1>1, WriterInvariant, PTL

\* Of every library: the n-th relocation table is made of the n-th relocation
\* section, with its name, its target and its entries in order; GLOB_DAT,
\* JUMP_SLOT and RELATIVE become static types, and every other type, those of
\* TLS, TLSDESC and IRELATIVE among them, stays what it is in the library.
THEOREM RelocationsStatic == Spec => []RelocationsTranslated
<1>1. WriterInv => RelocationsTranslated
  BY RelocsResult DEF WriterInv, TranslationInv
<1> QED
  BY <1>1, WriterInvariant, PTL

\* Whatever the sizes of the structures and of the buffer: the space that was
\* skipped for the section headers is in the buffer when they are copied there.
THEOREM HeadersCopiedInside == Spec => []HeadersInBuffer
BY WriterInvariant, HeadersFit, PTL

\* Every byte of the object file has been written by the writer.
THEOREM ObjectWritten == Spec => []NothingUnset
BY WriterInvariant, AllWritten, PTL

\* Of every library whose alignments are zero or powers of two, which the mask
\* of align_up takes for granted: every section header of the object leads to
\* all the bytes of its section, however often the buffer was moved.
THEOREM ObjectIntact == Spec => []SectionsIntact
BY WriterInvariant, AllIntact, PTL

\* Every name offset of the object leads to the name it stands for, whatever
\* the names are and however often one occurs.
THEOREM NamesLookedUp == Spec => []NamesFound
BY WriterInvariant, AllNamesFound, PTL

\* At the end the copies of names that remain are one of each symbol taken.
THEOREM NamesFreed == Spec => []NamesReleased
<1>1. WriterInv => NamesReleased
  BY DEF WriterInv, FreedInv, NamesReleased
<1> QED
  BY <1>1, WriterInvariant, PTL
=============================================================================
