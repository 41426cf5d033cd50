---------------------------- MODULE HeadersProofs ----------------------------
(***************************************************************************)
(* What the pool, the views, the resource manager, the string table and the*)
(* byte orders of the library headers promise, proved for every size and   *)
(* every number of calls.                                                  *)
(***************************************************************************)
EXTENDS Headers, Induction, FiniteSetTheorems

-----------------------------------------------------------------------------
(***************************************************************************)
(* The pool.  Blocks start and end at multiples of Align, so that rounding *)
(* a size up keeps them apart.                                             *)
(***************************************************************************)
AlignedUp == \E q \in Nat : pool.used = Align * q

PoolInv ==
  /\ pool \in [buffer : {NoBuffer, "given", "own"}, capacity : 0..MaxSize, used : 0..(SizeLimit - 1),
               owns : BOOLEAN]
  /\ blocks \subseteq [start : 0..(SizeLimit - 1), size : 1..MaxSize]
  /\ pools \in Nat
  /\ PoolSound
  /\ AlignedUp
  /\ pool.owns <=> pool.buffer = "own"
  /\ pool.buffer = NoBuffer => pool = NoPool /\ blocks = {}

\* Division with a remainder.
LEMMA DivMod ==
  \A a \in Nat, b \in Nat \ {0} :
    a \div b \in Nat /\ a % b \in 0..(b - 1) /\ a = b * (a \div b) + (a % b)
OBVIOUS

\* size_t is even many times Align.
LEMMA Limits ==
  \E m \in Nat \ {0} : /\ SizeLimit = 2 * Align * m
                       /\ MaxSize = Align * m - 1
                       /\ MaxSize \in Nat
<1> DEFINE m == SizeLimit \div (2 * Align)
<1>1. Align \in Nat \ {0} /\ SizeLimit \in Nat \ {0} /\ SizeLimit % (2 * Align) = 0
  BY MemoryAssumption DEF MemoryAssumption
<1>2. 2 * Align \in Nat \ {0}
  BY <1>1
<1>4. m \in Nat /\ SizeLimit = (2 * Align) * m
  <2>1. m \in Nat /\ SizeLimit = (2 * Align) * m + (SizeLimit % (2 * Align))
    BY <1>1, <1>2, DivMod
  <2>2. \A x, y \in Int : x = y + 0 => x = y
    OBVIOUS
  <2>3. (2 * Align) * m \in Int
    BY <2>1, <1>1
  <2> HIDE DEF m
  <2> QED
    BY <2>1, <2>2, <2>3, <1>1
<1>5. (2 * Align) * m = 2 * (Align * m) /\ Align * m \in Nat /\ (m = 0 => Align * m = 0)
  BY <1>1, <1>4
<1>6. SizeLimit \div 2 = Align * m
  BY <1>1, <1>4, <1>5
<1>7. m # 0 /\ Align * m \in Nat \ {0}
  BY <1>1, <1>4, <1>5
<1> QED
  BY <1>4, <1>5, <1>6, <1>7 DEF MaxSize

\* The size of a block is rounded up, by less than Align, to a multiple of it;
\* neither this nor the sum with what is used wraps.
LEMMA AlignedSize ==
  ASSUME NEW asked \in 1..MaxSize, NEW used \in 0..MaxSize, NEW q \in Nat, used = Align * q
  PROVE  /\ Aligned(asked) \in Nat /\ asked <= Aligned(asked)
         /\ Plus(used, Aligned(asked)) = used + Aligned(asked)
         /\ used + Aligned(asked) \in 0..(SizeLimit - 1)
         /\ \E p \in Nat : used + Aligned(asked) = Align * p
<1>1. PICK m \in Nat \ {0} : /\ SizeLimit = 2 * Align * m
                             /\ MaxSize = Align * m - 1
                             /\ MaxSize \in Nat
  BY Limits
<1>2. Align \in Nat \ {0} /\ SizeLimit \in Nat \ {0}
  BY MemoryAssumption DEF MemoryAssumption
<1> DEFINE M == Align * m
           s == asked + (Align - 1)
           d == s \div Align
           r == s % Align
<1>3. M \in Nat /\ SizeLimit = 2 * M /\ MaxSize = M - 1 /\ Align <= M
  BY <1>1, <1>2
<1>4. s \in Nat /\ s < SizeLimit
  <2>1. asked \in Nat /\ asked <= M - 1
    BY <1>3
  <2> HIDE DEF M
  <2> QED
    BY <2>1, <1>2, <1>3
<1>5. Plus(asked, Align - 1) = s
  BY <1>4, <1>2 DEF Plus
<1>6. d \in Nat /\ r \in 0..(Align - 1) /\ s = Align * d + r
  <2> HIDE DEF s
  <2> QED BY <1>2, <1>4, DivMod
<1>7. Aligned(asked) = s - r
  BY <1>5 DEF Aligned
<1>8. d <= m
  <2>1. SUFFICES ASSUME d >= m + 1
                 PROVE  FALSE
    BY <1>1, <1>6
  <2>2. Align * d >= Align * (m + 1) /\ Align * (m + 1) = M + Align
    <3>1. \A x, y, z \in Nat : x <= y => z * x <= z * y
      OBVIOUS
    <3>2. d \in Nat /\ m + 1 \in Nat /\ Align \in Nat
      BY <1>1, <1>2, <1>6
    <3> HIDE DEF d
    <3> QED
      BY <2>1, <3>1, <3>2, <1>1
  <2>3. s <= M - 1 + Align - 1
    BY <1>3, <1>2
  <2> HIDE DEF M, s, d, r
  <2>4. Align * d \in Int
    BY <1>2, <1>6
  <2> QED
    BY <2>2, <2>3, <2>4, <1>2, <1>3, <1>4, <1>6
<1>9. Align * d \in Nat /\ Align * d <= M
  BY <1>8, <1>1, <1>2, <1>6
<1>10. Aligned(asked) = Align * d
  <2> HIDE DEF M, s, d, r
  <2> QED
    BY <1>6, <1>7, <1>9
<1>11. Aligned(asked) \in Nat /\ asked <= Aligned(asked)
  <2>1. s - r = Align * d /\ asked = s - (Align - 1)
    <3> HIDE DEF d, r
    <3> QED BY <1>6, <1>9, <1>4, <1>2
  <2> HIDE DEF M, s, d, r
  <2> QED
    BY <2>1, <1>2, <1>4, <1>6, <1>9, <1>10
<1>12. used + Aligned(asked) \in 0..(SizeLimit - 1)
  <2> HIDE DEF M, s, d, r
  <2> QED
    BY <1>3, <1>9, <1>10
<1>13. Plus(used, Aligned(asked)) = used + Aligned(asked)
  BY <1>12, <1>2 DEF Plus
<1>14. q + d \in Nat /\ used + Aligned(asked) = Align * (q + d)
  <2> HIDE DEF d
  <2> QED
    BY <1>2, <1>6, <1>10
<1> HIDE DEF M, s, d, r
<1> QED
  BY <1>11, <1>12, <1>13, <1>14

LEMMA PoolTypes ==
  PoolInv => /\ pool.used \in 0..MaxSize /\ pool.capacity \in 0..MaxSize
             /\ pool.used <= pool.capacity
             /\ SizeLimit \in Nat \ {0} /\ Align \in Nat \ {0} /\ MaxSize \in Nat
<1>1. SizeLimit \in Nat \ {0} /\ Align \in Nat \ {0} /\ MaxSize \in Nat
  BY Limits, MemoryAssumption DEF MemoryAssumption
<1> QED
  BY <1>1 DEF PoolInv, PoolSound

LEMMA PoolInitOK == MemoryInit => PoolInv
<1> SUFFICES ASSUME MemoryInit
             PROVE  PoolInv
  OBVIOUS
<1>1. SizeLimit \in Nat \ {0} /\ Align \in Nat \ {0} /\ MaxSize \in Nat
  BY Limits, MemoryAssumption DEF MemoryAssumption
<1>2. AlignedUp
  BY <1>1 DEF MemoryInit, NoPool, AlignedUp
<1>3. NoBuffer # "own"
  BY MemoryAssumption DEF MemoryAssumption
<1> QED
  BY <1>1, <1>2, <1>3 DEF MemoryInit, NoPool, PoolInv, PoolSound

\* A block is put behind those handed out before.
LEMMA AllocOK ==
  ASSUME PoolInv, NEW asked \in Sizes, PoolAlloc(asked)
  PROVE  PoolInv'
<1>1. asked \in 1..MaxSize
  BY MemoryAssumption DEF MemoryAssumption, PoolAlloc, MaxSize
<1>2. /\ pool.used \in 0..MaxSize /\ pool.capacity \in 0..MaxSize
      /\ SizeLimit \in Nat \ {0} /\ Align \in Nat \ {0} /\ MaxSize \in Nat
  BY PoolTypes
<1>3. PICK q \in Nat : pool.used = Align * q
  BY DEF PoolInv, AlignedUp
<1> DEFINE room == Aligned(asked)
           b == [start |-> pool.used, size |-> asked]
<1>4. /\ room \in Nat /\ asked <= room
      /\ Plus(pool.used, room) = pool.used + room
      /\ pool.used + room \in 0..(SizeLimit - 1)
      /\ \E p \in Nat : pool.used + room = Align * p
  BY <1>1, <1>2, <1>3, AlignedSize
<1> HIDE DEF room
<1>5. CASE ~Fits(asked)
  BY <1>5 DEF PoolAlloc, PoolInv, PoolSound, AlignedUp
<1>6. CASE Fits(asked)
  <2>1. pool.used + room <= pool.capacity
    BY <1>4, <1>6 DEF Fits, room
  <2>2. /\ blocks' = blocks \union {b} /\ pools' = pools
        /\ pool' = [pool EXCEPT !.used = pool.used + room]
    BY <1>4, <1>6 DEF PoolAlloc, room
  <2>3. /\ pool'.used = pool.used + room /\ pool'.buffer = pool.buffer
        /\ pool'.capacity = pool.capacity /\ pool'.owns = pool.owns
        /\ pool' \in [buffer : {NoBuffer, "given", "own"}, capacity : 0..MaxSize,
                      used : 0..(SizeLimit - 1), owns : BOOLEAN]
    BY <2>2, <1>4 DEF PoolInv
  <2>4. AlignedUp'
    BY <2>3, <1>4 DEF AlignedUp
  <2>5. b \in [start : 0..(SizeLimit - 1), size : 1..MaxSize]
    <3>1. pool.used \in 0..(SizeLimit - 1)
      BY DEF PoolInv
    <3> QED
      BY <3>1, <1>1
  <2>6. blocks' \subseteq [start : 0..(SizeLimit - 1), size : 1..MaxSize]
    BY <2>2, <2>5 DEF PoolInv
  <2>7. /\ b.start % Align = 0 /\ End(b) <= pool'.used /\ b.start = pool.used
    <3>1. b.start = pool.used /\ b.size = asked
      OBVIOUS
    <3>2. (Align * q) % Align = 0
      BY <1>2
    <3>3. pool.used \in Nat /\ asked \in Nat
      BY <1>1, <1>2
    <3> QED
      BY <3>1, <3>2, <3>3, <1>3, <1>4, <2>3 DEF End
  <2>8. \A c \in blocks : /\ c.start % Align = 0 /\ End(c) <= pool.used /\ End(c) \in Nat
    BY DEF PoolInv, PoolSound, End
  <2>9. \A c \in blocks : End(c) <= pool'.used
    <3>1. pool.used \in Nat
      BY <1>2
    <3> QED
      BY <2>8, <2>3, <1>4, <3>1
  <2>10. \A c, d \in blocks : c = d \/ End(c) <= d.start \/ End(d) <= c.start
    BY DEF PoolInv, PoolSound
  <2>11. PoolSound'
    <3>1. \A c \in blocks' : c.start % Align = 0 /\ End(c) <= pool'.used
      BY <2>2, <2>7, <2>8, <2>9
    <3>2. \A c, d \in blocks' : c = d \/ End(c) <= d.start \/ End(d) <= c.start
      BY <2>2, <2>7, <2>8, <2>10
    <3>3. pool'.used <= pool'.capacity /\ (pools' = IF pool'.buffer = "own" THEN 1 ELSE 0)
      BY <2>1, <2>2, <2>3 DEF PoolInv, PoolSound
    <3> HIDE DEF b
    <3> QED
      BY <3>1, <3>2, <3>3 DEF PoolSound, End
  <2>12. pools' \in Nat /\ (pool'.owns <=> pool'.buffer = "own") /\ pool'.buffer # NoBuffer
    BY <2>2, <2>3 DEF PoolInv, PoolAlloc
  <2> HIDE DEF b
  <2> QED
    BY <2>3, <2>4, <2>6, <2>11, <2>12 DEF PoolInv
<1> QED
  BY <1>5, <1>6

LEMMA PoolNextOK == PoolInv /\ PoolNext => PoolInv'
<1> SUFFICES ASSUME PoolInv, PoolNext
             PROVE  PoolInv'
  OBVIOUS
<1>1. SizeLimit \in Nat \ {0} /\ Align \in Nat \ {0} /\ MaxSize \in Nat
  BY PoolTypes
<1>2. NoBuffer # "own" /\ NoBuffer # "given"
  BY MemoryAssumption DEF MemoryAssumption
<1>3. 0 = Align * 0 /\ 0 \in 0..(SizeLimit - 1)
  BY <1>1
<1>4. ASSUME NEW asked \in PoolSizes, PoolInit(asked) \/ PoolCreate(asked)
      PROVE  PoolInv'
  <2>1. asked \in 1..MaxSize
    BY MemoryAssumption DEF MemoryAssumption, MaxSize
  <2>2. CASE UNCHANGED poolVars
    BY <2>2 DEF poolVars, PoolInv, PoolSound, AlignedUp
  <2>3. CASE ~UNCHANGED poolVars
    <3>1. /\ pool = NoPool /\ blocks' = blocks /\ pool'.used = 0 /\ pool'.capacity = asked
          /\ pool' \in [buffer : {NoBuffer, "given", "own"}, capacity : 0..MaxSize,
                        used : 0..(SizeLimit - 1), owns : BOOLEAN]
          /\ pool'.buffer # NoBuffer /\ (pool'.owns <=> pool'.buffer = "own")
          /\ pools' = IF pool'.buffer = "own" THEN pools + 1 ELSE pools
      <4>1. CASE PoolInit(asked)
        BY <1>2, <1>3, <2>1, <4>1 DEF PoolInit
      <4>2. CASE PoolCreate(asked)
        <5>1. /\ pool = NoPool /\ blocks' = blocks /\ pools' = pools + 1
              /\ pool' = [buffer |-> "own", capacity |-> asked, used |-> 0, owns |-> TRUE]
          BY <2>3, <4>2 DEF PoolCreate
        <5> QED
          BY <1>2, <1>3, <2>1, <5>1
      <4> QED
        BY <1>4, <4>1, <4>2
    <3>2. blocks = {} /\ pools = 0
      BY <3>1, <1>2 DEF PoolInv, PoolSound, NoPool
    <3>3. AlignedUp'
      BY <3>1, <1>3 DEF AlignedUp
    <3> QED
      BY <3>1, <3>2, <3>3, <2>1 DEF PoolInv, PoolSound
  <2> QED
    BY <2>2, <2>3
<1>5. CASE PoolReset
  <2>1. AlignedUp'
    BY <1>3, <1>5 DEF PoolReset, AlignedUp, PoolInv
  <2>2. pool.buffer = NoBuffer => pool' = NoPool
    <3>1. pool = NoPool /\ pool.used = 0 => [pool EXCEPT !.used = 0] = NoPool
      BY DEF NoPool
    <3> QED
      BY <1>5, <3>1 DEF PoolInv, PoolReset, NoPool
  <2> QED
    BY <1>3, <1>5, <2>1, <2>2 DEF PoolReset, PoolInv, PoolSound
<1>6. CASE PoolFree
  <2>1. AlignedUp'
    BY <1>3, <1>6 DEF PoolFree, AlignedUp, NoPool
  <2>2. pools' = 0
    BY <1>2, <1>6 DEF PoolFree, PoolInv, PoolSound
  <2> QED
    BY <1>1, <1>2, <1>3, <1>6, <2>1, <2>2 DEF PoolFree, PoolInv, PoolSound, NoPool
<1> QED
  BY <1>4, <1>5, <1>6, AllocOK DEF PoolNext

-----------------------------------------------------------------------------
(***************************************************************************)
(* The views.                                                              *)
(***************************************************************************)
Record == [start : SizeT, size : SizeT, offset : SizeT]
Slice == [of : ViewNames, start : SizeT, size : SizeT]

ViewInv ==
  /\ views \in [ViewNames -> Record] /\ slice \in Slice /\ wrapped \in BOOLEAN
  /\ ViewsInside

\* A sum of two numbers of a size_t is one too, and the true sum when that is
\* not too large.
LEMMA PlusSound ==
  \A a, b \in SizeT : Plus(a, b) \in SizeT /\ (a + b < SizeLimit => Plus(a, b) = a + b)
<1>1. SizeLimit \in Nat \ {0}
  BY MemoryAssumption DEF MemoryAssumption
<1> SUFFICES ASSUME NEW a \in SizeT, NEW b \in SizeT
             PROVE  /\ (a + b) % SizeLimit \in SizeT
                    /\ a + b < SizeLimit => (a + b) % SizeLimit = a + b
  BY DEF Plus
<1>2. a + b \in Nat
  BY <1>1 DEF SizeT
<1>3. \A n \in Nat : n % SizeLimit \in 0..(SizeLimit - 1) /\ (n < SizeLimit => n % SizeLimit = n)
  BY <1>1
<1> QED
  BY <1>2, <1>3 DEF SizeT

LEMMA SizeTs ==
  /\ SizeT \subseteq Nat /\ 0 \in SizeT /\ SizeLimit \in Nat
  /\ DataSize \in Nat /\ DataSize \in SizeT /\ DataSize < SizeLimit
  /\ \A n \in Nat : n <= DataSize => n \in SizeT
<1>1. SizeLimit \in Nat \ {0} /\ DataSize \in Nat /\ DataSize <= MaxSize /\ MaxSize < SizeLimit
  BY Limits, MemoryAssumption DEF MemoryAssumption, MaxSize
<1> QED
  BY <1>1, Limits DEF SizeT

LEMMA ViewInitOK == MemoryInit => ViewInv
<1> SUFFICES ASSUME MemoryInit
             PROVE  ViewInv
  OBVIOUS
<1>1. /\ views = [v \in ViewNames |-> [start |-> 0, size |-> DataSize, offset |-> 0]]
      /\ slice = NoSlice /\ wrapped = FALSE
  BY DEF MemoryInit, View
<1>2. views \in [ViewNames -> Record]
  BY <1>1, SizeTs DEF Record
<1>3. slice \in Slice
  BY <1>1, SizeTs DEF NoSlice, ViewNames, Slice
<1>4. ViewsInside
  <2>1. \A v \in ViewNames : /\ views[v].offset <= views[v].size
                             /\ views[v].start + views[v].size <= DataSize
    BY <1>1, SizeTs
  <2> QED
    BY <1>1, <2>1 DEF ViewsInside, End
<1> QED
  BY <1>1, <1>2, <1>3, <1>4 DEF ViewInv

LEMMA ReadOK ==
  ASSUME ViewInv, NEW v \in ViewNames, NEW size_ \in Asked, ~wrapped, Read(v, size_)
  PROVE  ViewInv'
<1> DEFINE new == Plus(views[v].offset, size_)
           place == Plus(views[v].start, views[v].offset)
<1>1. /\ views \in [ViewNames -> Record] /\ size_ \in SizeT
      /\ views[v].start \in SizeT /\ views[v].size \in SizeT /\ views[v].offset \in SizeT
  BY MemoryAssumption DEF MemoryAssumption, ViewInv, Record
<1>2. /\ \A x \in ViewNames : views[x].offset <= views[x].size
      /\ \A x \in ViewNames : views[x].start + views[x].size <= DataSize
  BY DEF ViewInv, ViewsInside, End
<1>3. new \in SizeT /\ place \in SizeT
  BY <1>1, PlusSound
<1>4. /\ new <= views[v].size
      /\ views' = [views EXCEPT ![v].offset = new]
      /\ slice' = [of |-> v, start |-> place, size |-> size_]
      /\ wrapped' = (views[v].offset + size_ >= SizeLimit)
  BY DEF Read, Grant
<1>5. place = views[v].start + views[v].offset
  <2> DEFINE a == views[v].start
             b == views[v].offset
             c == views[v].size
  <2>1. a \in SizeT /\ b \in SizeT /\ c \in SizeT /\ b <= c /\ a + c <= DataSize
    BY <1>1, <1>2
  <2> HIDE DEF a, b, c
  <2>2. a \in Nat /\ b \in Nat /\ c \in Nat
    BY <2>1, SizeTs
  <2>3. a + b < SizeLimit
    BY <2>1, <2>2, SizeTs
  <2>4. Plus(a, b) = a + b
    BY <2>1, <2>3, PlusSound
  <2> QED
    BY <2>4 DEF a, b
<1> HIDE DEF place
<1>6. ~wrapped' => new = views[v].offset + size_
  <2>1. views[v].offset \in Nat /\ size_ \in Nat
    BY <1>1, SizeTs
  <2>2. ~wrapped' => views[v].offset + size_ < SizeLimit
    <3>1. ~wrapped' => ~(views[v].offset + size_ >= SizeLimit)
      BY <1>4, Zenon
    <3> QED
      BY <2>1, <3>1, SizeTs
  <2> QED
    BY <1>1, <2>2, PlusSound
<1> HIDE DEF new
<1>7. \A x \in ViewNames : /\ views'[x].start = views[x].start /\ views'[x].size = views[x].size
                           /\ views'[x].offset = IF x = v THEN new ELSE views[x].offset
  BY <1>1, <1>4 DEF Record
<1>8. views' \in [ViewNames -> Record] /\ slice' \in Slice /\ wrapped' \in BOOLEAN
  BY <1>1, <1>3, <1>4 DEF Record, Slice
<1>9. ViewsInside'
  <2>1. \A x \in ViewNames : /\ views'[x].offset <= views'[x].size
                             /\ views'[x].start + views'[x].size <= DataSize
    BY <1>2, <1>4, <1>7
  <2>2. slice'.of = v /\ slice'.start = place /\ slice'.size = size_
    BY <1>4
  <2>3. ASSUME ~wrapped'
        PROVE  /\ views'[v].start <= place
               /\ place + size_ <= views'[v].start + views'[v].size
    BY <1>1, <1>4, <1>5, <1>6, <1>7, <2>3, SizeTs
  <2> QED
    BY <2>1, <2>2, <2>3 DEF ViewsInside, End
<1> QED
  BY <1>8, <1>9 DEF ViewInv

LEMMA SeekOK ==
  ASSUME ViewInv, NEW v \in ViewNames, NEW offset \in Asked, Seek(v, offset)
  PROVE  ViewInv'
<1>1. /\ views \in [ViewNames -> Record] /\ offset \in SizeT /\ offset <= views[v].size
      /\ views' = [views EXCEPT ![v].offset = offset] /\ slice' = slice /\ wrapped' = wrapped
  BY MemoryAssumption DEF MemoryAssumption, ViewInv, Seek
<1>2. \A x \in ViewNames : /\ views'[x].start = views[x].start /\ views'[x].size = views[x].size
                           /\ views'[x].offset = IF x = v THEN offset ELSE views[x].offset
  BY <1>1 DEF Record
<1>3. views' \in [ViewNames -> Record] /\ slice' \in Slice /\ wrapped' \in BOOLEAN
  BY <1>1 DEF Record, ViewInv
<1>4. ViewsInside'
  <2>1. slice.of \in ViewNames
    BY DEF ViewInv, Slice
  <2> QED
    BY <1>1, <1>2, <2>1 DEF ViewInv, ViewsInside, End
<1> QED
  BY <1>3, <1>4 DEF ViewInv

LEMMA SubviewOK ==
  ASSUME ViewInv, NEW v \in ViewNames, NEW w \in ViewNames, NEW offset \in Asked,
         NEW size_ \in Asked, ~wrapped, Subview(v, w, offset, size_)
  PROVE  ViewInv'
<1> DEFINE sub == [start |-> Plus(views[v].start, offset), size |-> size_, offset |-> 0]
<1>1. /\ views \in [ViewNames -> Record] /\ offset \in SizeT /\ size_ \in SizeT
      /\ views[v].start \in SizeT /\ views[v].size \in SizeT
  BY MemoryAssumption DEF MemoryAssumption, ViewInv, Record
<1>2. /\ \A x \in ViewNames : views[x].offset <= views[x].size
      /\ \A x \in ViewNames : views[x].start + views[x].size <= DataSize
      /\ slice # NoSlice => /\ views[slice.of].start <= slice.start
                            /\ slice.start + slice.size <= views[slice.of].start + views[slice.of].size
  BY DEF ViewInv, ViewsInside, End
<1>3. /\ v # w /\ Plus(offset, size_) <= views[v].size
      /\ views' = [views EXCEPT ![w] = sub]
      /\ slice' = IF slice.of = w THEN NoSlice ELSE slice
      /\ wrapped' = (offset + size_ >= SizeLimit)
  BY DEF Subview, MakeSubview, View, Grant
<1>4. sub \in Record /\ sub.offset <= sub.size
  <2>1. Plus(views[v].start, offset) \in SizeT
    BY <1>1, PlusSound
  <2> QED
    BY <1>1, <2>1, SizeTs DEF Record
<1>5. ~wrapped' => sub.start + sub.size <= DataSize
  <2> SUFFICES ASSUME ~wrapped' PROVE Plus(views[v].start, offset) + size_ <= DataSize
    OBVIOUS
  <2> DEFINE a == views[v].start
             c == views[v].size
  <2>1. a \in Nat /\ c \in Nat /\ offset \in Nat /\ size_ \in Nat /\ a \in SizeT
    BY <1>1, SizeTs
  <2>2. a + c <= DataSize
    BY <1>2
  <2>3. offset + size_ < SizeLimit
    <3>1. ~(offset + size_ >= SizeLimit)
      BY <1>3, Zenon
    <3> QED
      BY <2>1, <3>1, SizeTs
  <2>4. offset + size_ <= c
    BY <1>1, <1>3, <2>3, PlusSound
  <2> HIDE DEF a, c
  <2>5. a + offset < SizeLimit
    BY <2>1, <2>2, <2>4, SizeTs
  <2>6. Plus(a, offset) = a + offset
    BY <1>1, <2>1, <2>5, PlusSound
  <2>7. Plus(a, offset) + size_ <= DataSize
    BY <2>1, <2>2, <2>4, <2>6, SizeTs
  <2> QED
    BY <2>7 DEF a
<1> HIDE DEF sub
<1>6. \A x \in ViewNames : views'[x] = IF x = w THEN sub ELSE views[x]
  BY <1>1, <1>3
<1>7. views' \in [ViewNames -> Record] /\ slice' \in Slice /\ wrapped' \in BOOLEAN
  <2>1. NoSlice \in Slice
    BY SizeTs DEF NoSlice, ViewNames, Slice
  <2> QED
    BY <1>1, <1>3, <1>4, <2>1 DEF ViewInv
<1>8. ViewsInside'
  <2>1. \A x \in ViewNames : views'[x].offset <= views'[x].size
    BY <1>2, <1>4, <1>6
  <2>2. ~wrapped' => \A x \in ViewNames : views'[x].start + views'[x].size <= DataSize
    BY <1>2, <1>5, <1>6
  <2>3. slice' # NoSlice => slice' = slice /\ slice.of # w /\ slice.of \in ViewNames
    BY <1>3 DEF ViewInv, Slice
  <2> QED
    BY <1>2, <1>6, <2>1, <2>2, <2>3 DEF ViewsInside, End
<1> QED
  BY <1>7, <1>8 DEF ViewInv

LEMMA ViewNextOK == ViewInv /\ ViewNext => ViewInv'
BY ReadOK, SeekOK, SubviewOK DEF ViewNext

-----------------------------------------------------------------------------
(***************************************************************************)
(* The resource manager.                                                   *)
(***************************************************************************)
ManagerInv ==
  /\ entries \in [1..MaxResources -> Resources \union {NoBuffer}]
  /\ count \in 0..MaxResources
  /\ holder \in [Resources -> {"client", "manager", "nobody"}]
  /\ \A n \in 1..count : entries[n] \in Resources
  /\ \A m, n \in 1..count : entries[m] = entries[n] => m = n
  /\ \A r \in Resources : Listed(r) <=> holder[r] = "manager"

LEMMA ManagerHoldsOnce == ManagerInv => HeldOnce
<1> SUFFICES ASSUME ManagerInv, NEW r \in Resources
             PROVE  Cardinality({n \in 1..count : entries[n] = r}) = IF holder[r] = "manager" THEN 1 ELSE 0
  BY DEF HeldOnce
<1>1. CASE holder[r] = "manager"
  <2>1. PICK n \in 1..count : entries[n] = r
    BY <1>1 DEF ManagerInv, Listed
  <2>2. {m \in 1..count : entries[m] = r} = {n}
    BY <2>1 DEF ManagerInv
  <2> QED
    BY <1>1, <2>2, FS_Singleton
<1>2. CASE holder[r] # "manager"
  <2>1. {m \in 1..count : entries[m] = r} = {}
    BY <1>2 DEF ManagerInv, Listed
  <2> QED
    BY <1>2, <2>1, FS_EmptySet
<1> QED
  BY <1>1, <1>2

LEMMA ManagerInitOK == MemoryInit => ManagerInv
<1> SUFFICES ASSUME MemoryInit
             PROVE  ManagerInv
  OBVIOUS
<1>1. MaxResources \in Nat
  BY MemoryAssumption DEF MemoryAssumption
<1> QED
  BY <1>1 DEF MemoryInit, ManagerInv, Listed

LEMMA RegisterOK ==
  ASSUME ManagerInv, NEW r \in Resources, Register(r)
  PROVE  ManagerInv'
<1>1. MaxResources \in Nat /\ count \in 0..MaxResources
  BY MemoryAssumption DEF MemoryAssumption, ManagerInv
<1>2. /\ holder[r] = "client" /\ count < MaxResources /\ count' = count + 1
      /\ entries' = [entries EXCEPT ![count + 1] = r]
      /\ holder' = [holder EXCEPT ![r] = "manager"]
  BY DEF Register
<1>3. count + 1 \in 1..MaxResources /\ 1..count' = (1..count) \union {count + 1} /\ count + 1 \notin 1..count
  BY <1>1, <1>2
<1>4. /\ \A n \in 1..MaxResources : entries'[n] = IF n = count + 1 THEN r ELSE entries[n]
      /\ \A q \in Resources : holder'[q] = IF q = r THEN "manager" ELSE holder[q]
  BY <1>2, <1>3 DEF ManagerInv
<1>5. \A n \in 1..count : n \in 1..MaxResources /\ entries'[n] = entries[n] /\ entries[n] # r
  BY <1>1, <1>2, <1>3, <1>4 DEF ManagerInv, Listed
<1>6. entries'[count + 1] = r
  BY <1>3, <1>4
<1>7. /\ entries' \in [1..MaxResources -> Resources \union {NoBuffer}]
      /\ count' \in 0..MaxResources
      /\ holder' \in [Resources -> {"client", "manager", "nobody"}]
  BY <1>1, <1>2, <1>3 DEF ManagerInv
<1>8. \A n \in 1..count' : entries'[n] \in Resources
  BY <1>3, <1>5, <1>6 DEF ManagerInv
<1>9. \A m, n \in 1..count' : entries'[m] = entries'[n] => m = n
  BY <1>3, <1>5, <1>6 DEF ManagerInv
<1>10. \A q \in Resources : Listed(q)' <=> holder'[q] = "manager"
  <2>1. TAKE q \in Resources
  <2>2. CASE q = r
    BY <1>3, <1>4, <1>6, <2>2 DEF Listed
  <2>3. CASE q # r
    <3>1. Listed(q)' <=> Listed(q)
      BY <1>3, <1>5, <1>6, <2>3 DEF Listed
    <3> QED
      BY <3>1, <1>4, <2>3 DEF ManagerInv
  <2> QED
    BY <2>2, <2>3
<1> QED
  BY <1>7, <1>8, <1>9, <1>10 DEF ManagerInv

LEMMA UnregisterOK ==
  ASSUME ManagerInv, NEW n \in Nat, Unregister(n)
  PROVE  ManagerInv'
<1>1. MaxResources \in Nat /\ count \in 0..MaxResources
  BY MemoryAssumption DEF MemoryAssumption, ManagerInv
<1>2. /\ n \in 1..count /\ count' = count - 1
      /\ entries' = [k \in DOMAIN entries |-> IF n <= k /\ k < count THEN entries[k + 1] ELSE entries[k]]
      /\ holder' = [holder EXCEPT ![entries[n]] = "client"]
  BY DEF Unregister
<1>3. entries[n] \in Resources
  BY <1>2 DEF ManagerInv
<1> DEFINE Old(k) == IF n <= k THEN k + 1 ELSE k
<1>4. \A k \in 1..count' : Old(k) \in 1..count /\ Old(k) # n /\ k \in 1..MaxResources /\ k < count
  BY <1>1, <1>2
<1>5. \A k \in 1..count' : entries'[k] = entries[Old(k)]
  BY <1>1, <1>2, <1>4 DEF ManagerInv
<1>6. \A j, k \in 1..count' : Old(j) = Old(k) => j = k
  BY <1>1, <1>2
<1>7. \A j \in 1..count : j # n => \E k \in 1..count' : Old(k) = j
  <2>1. TAKE j \in 1..count
  <2>2. CASE j < n
    <3>1. j \in 1..count' /\ Old(j) = j
      BY <1>1, <1>2, <2>2
    <3> QED
      BY <3>1
  <2>3. CASE j > n
    <3>1. j - 1 \in 1..count' /\ Old(j - 1) = j
      BY <1>1, <1>2, <2>3
    <3> QED
      BY <3>1
  <2> QED
    BY <1>2, <2>2, <2>3
<1> HIDE DEF Old
<1>8. \A q \in Resources : holder'[q] = IF q = entries[n] THEN "client" ELSE holder[q]
  BY <1>2, <1>3 DEF ManagerInv
<1>9. /\ entries' \in [1..MaxResources -> Resources \union {NoBuffer}]
      /\ count' \in 0..MaxResources
      /\ holder' \in [Resources -> {"client", "manager", "nobody"}]
  <2>1. \A k \in 1..MaxResources : k < count => k + 1 \in 1..MaxResources
    BY <1>1
  <2>2. entries' \in [1..MaxResources -> Resources \union {NoBuffer}]
    BY <1>2, <2>1 DEF ManagerInv
  <2>3. count' \in 0..MaxResources
    BY <1>1, <1>2
  <2>4. holder' \in [Resources -> {"client", "manager", "nobody"}]
    BY <1>2 DEF ManagerInv
  <2> QED
    BY <2>2, <2>3, <2>4
<1>10. \A k \in 1..count' : entries'[k] \in Resources
  BY <1>4, <1>5 DEF ManagerInv
<1>11. \A j, k \in 1..count' : entries'[j] = entries'[k] => j = k
  BY <1>4, <1>5, <1>6 DEF ManagerInv
<1>12. \A q \in Resources : Listed(q)' <=> holder'[q] = "manager"
  <2>1. TAKE q \in Resources
  <2>2. CASE q = entries[n]
    <3>1. ~Listed(q)'
      BY <1>2, <1>4, <1>5, <2>2, SMTT(60) DEF ManagerInv, Listed
    <3> QED
      BY <3>1, <1>8, <2>2
  <2>3. CASE q # entries[n]
    <3>1. Listed(q)' <=> Listed(q)
      BY <1>4, <1>5, <1>7, <2>3 DEF Listed
    <3> QED
      BY <3>1, <1>8, <2>3 DEF ManagerInv
  <2> QED
    BY <2>2, <2>3
<1> QED
  BY <1>9, <1>10, <1>11, <1>12 DEF ManagerInv

LEMMA ReleaseOK == ManagerInv /\ ReleaseAll => ManagerInv'
<1> SUFFICES ASSUME ManagerInv, ReleaseAll
             PROVE  ManagerInv'
  OBVIOUS
<1>1. MaxResources \in Nat
  BY MemoryAssumption DEF MemoryAssumption
<1>2. \A r \in Resources : holder'[r] # "manager"
  BY DEF ReleaseAll, ManagerInv
<1>3. count' = 0 /\ 1..count' = {}
  BY DEF ReleaseAll
<1>4. /\ entries' \in [1..MaxResources -> Resources \union {NoBuffer}]
      /\ holder' \in [Resources -> {"client", "manager", "nobody"}]
  BY DEF ReleaseAll, ManagerInv
<1> QED
  BY <1>1, <1>2, <1>3, <1>4 DEF ManagerInv, Listed

LEMMA ManagerNextOK == ManagerInv /\ ManagerNext => ManagerInv'
<1> SUFFICES ASSUME ManagerInv, ManagerNext
             PROVE  ManagerInv'
  OBVIOUS
<1>1. \A n \in 1..MaxResources : n \in Nat
  BY MemoryAssumption DEF MemoryAssumption
<1> QED
  BY <1>1, RegisterOK, UnregisterOK, ReleaseOK DEF ManagerNext

\* Only what the table lists is released.
LEMMA ReleasesOwn ==
  ManagerInv /\ (ManagerNext \/ UNCHANGED managerVars) =>
    \A r \in Resources : holder'[r] = "nobody" => holder[r] \in {"manager", "nobody"}
<1> SUFFICES ASSUME ManagerInv, NEW r \in Resources, holder'[r] = "nobody",
                    ManagerNext \/ UNCHANGED managerVars
             PROVE  holder[r] \in {"manager", "nobody"}
  OBVIOUS
<1>1. CASE UNCHANGED managerVars
  BY <1>1 DEF managerVars
<1>2. ASSUME NEW q \in Resources, Register(q)
      PROVE  holder[r] \in {"manager", "nobody"}
  BY <1>2 DEF Register, ManagerInv
<1>3. ASSUME NEW n \in 1..MaxResources, Unregister(n)
      PROVE  holder[r] \in {"manager", "nobody"}
  BY <1>3 DEF Unregister, ManagerInv
<1>4. CASE ReleaseAll
  BY <1>4 DEF ReleaseAll, ManagerInv
<1> QED
  BY <1>1, <1>2, <1>3, <1>4 DEF ManagerNext

-----------------------------------------------------------------------------
(***************************************************************************)
(* Reading a string table: a search comes to the strings of the table, one *)
(* after the other.                                                        *)
(***************************************************************************)

\* A string starts at n.
Starts(tab, n) == n = 0 \/ ByteOf(tab, n - 1) = NUL

LEMMA MinIsLeast ==
  ASSUME NEW S \in SUBSET Nat, S # {}
  PROVE  Min(S) \in S /\ \A k \in S : Min(S) <= k
<1>1. \E m \in S : \A k \in S : m <= k
  BY LeastElement
<1> QED
  BY <1>1 DEF Min

LEMMA NulFound ==
  ASSUME NEW tab, NEW limit \in Nat, NEW n \in 0..limit
  PROVE  /\ NulFrom(tab, limit, n) \in n..limit
         /\ NulFrom(tab, limit, n) < limit => ByteOf(tab, NulFrom(tab, limit, n)) = NUL
         /\ \A k \in n..(limit - 1) : ByteOf(tab, k) = NUL => NulFrom(tab, limit, n) <= k
<1> DEFINE S == {m \in n..(limit - 1) : ByteOf(tab, m) = NUL} \union {limit}
<1>1. S \in SUBSET Nat /\ S # {} /\ S \subseteq n..limit
  OBVIOUS
<1>2. NulFrom(tab, limit, n) = Min(S)
  BY DEF NulFrom
<1>3. Min(S) \in S /\ \A k \in S : Min(S) <= k
  <2> HIDE DEF S
  <2> QED BY <1>1, MinIsLeast
<1> QED
  BY <1>1, <1>2, <1>3

\* What string_table_get and string_table_get_raw return inside the table.
LEMMA GetString ==
  ASSUME NEW tab \in Seq(TableBytes), NEW limit \in 1..Len(tab), NEW n \in 0..(limit - 1),
         ByteOf(tab, 0) = NUL
  PROVE  LET end == NulFrom(tab, limit, n) IN
         /\ end \in n..limit
         /\ end = limit => Get(tab, limit, n) = Unset
         /\ end < limit => /\ Get(tab, limit, n) = SubSeq(tab, n + 1, end)
                          /\ Get(tab, limit, n) # Unset
                          /\ Get(tab, limit, n) \in Seq(TableBytes)
                          /\ Len(Get(tab, limit, n)) = end - n
                          /\ ByteOf(tab, end) = NUL
         /\ Get(tab, limit, n) = GetRaw(tab, limit, n)
<1> DEFINE end == NulFrom(tab, limit, n)
<1>1. limit \in Nat /\ n \in 0..limit /\ Len(tab) \in Nat /\ limit <= Len(tab) /\ limit >= 1
  OBVIOUS
<1>2. /\ end \in n..limit
      /\ end < limit => ByteOf(tab, end) = NUL
      /\ \A k \in n..(limit - 1) : ByteOf(tab, k) = NUL => end <= k
  BY <1>1, NulFound
<1> HIDE DEF end
<1>3. end < limit => /\ SubSeq(tab, n + 1, end) \in Seq(TableBytes)
                    /\ Len(SubSeq(tab, n + 1, end)) = end - n
  <2>1. SUFFICES ASSUME end < limit
                 PROVE  /\ SubSeq(tab, n + 1, end) \in Seq(TableBytes)
                        /\ Len(SubSeq(tab, n + 1, end)) = end - n
    OBVIOUS
  <2>2. n + 1 \in Nat /\ end \in Nat /\ 1 <= n + 1 /\ end <= Len(tab) /\ n <= end
    BY <1>1, <1>2, <2>1
  <2>3. end = n \/ n + 1 <= end
    BY <2>2
  <2> QED
    BY <2>2, <2>3
<1>4. Unset \notin Seq(TableBytes)
  BY TableAssumption DEF TableAssumption
<1>5. GetRaw(tab, limit, n) = IF end = limit THEN Unset ELSE SubSeq(tab, n + 1, end)
  BY <1>1 DEF GetRaw, end
<1>6. n = 0 => end = 0 /\ SubSeq(tab, n + 1, end) = <<>>
  <2>1. SUFFICES ASSUME n = 0
                 PROVE  end = 0 /\ SubSeq(tab, 1, 0) = <<>>
    BY <1>1
  <2>2. end <= 0
    BY <1>1, <1>2, <2>1
  <2> QED
    BY <1>2, <2>1, <2>2
<1>7. Get(tab, limit, n) = GetRaw(tab, limit, n)
  <2>1. CASE n = 0
    <3>1. ~(n >= limit) /\ end # limit
      BY <1>1, <1>6, <2>1
    <3>2. Get(tab, limit, n) = <<>>
      BY <2>1, <3>1 DEF Get
    <3> QED
      BY <1>5, <1>6, <2>1, <3>1, <3>2
  <2>2. CASE n # 0
    BY <1>1, <2>2 DEF Get
  <2> QED
    BY <2>1, <2>2
<1>8. end # limit <=> end < limit
  BY <1>1, <1>2
<1>9. end = NulFrom(tab, limit, n)
  BY DEF end
<1> QED
  BY <1>2, <1>3, <1>4, <1>5, <1>7, <1>8, <1>9

\* The offsets of a search, one after the other: where it starts, then behind
\* the NUL of each string; `limit` for good behind a string without one.
After(tab, limit, n) ==
  IF Get(tab, limit, n) = Unset THEN limit ELSE n + Len(Get(tab, limit, n)) + 1

LEMMA AfterTypes ==
  ASSUME NEW tab \in Seq(TableBytes), NEW limit \in 1..Len(tab), ByteOf(tab, 0) = NUL
  PROVE  /\ After(tab, limit, limit) = limit
         /\ \A n \in 0..(limit - 1) :
              /\ After(tab, limit, n) \in (n + 1)..limit
              /\ After(tab, limit, n) < limit => Starts(tab, After(tab, limit, n))
              /\ \A k \in n..(limit - 1) : ByteOf(tab, k) = NUL => After(tab, limit, n) <= k + 1
<1>1. limit \in Nat /\ limit >= 1
  OBVIOUS
<1>2. After(tab, limit, limit) = limit
  BY <1>1 DEF After, Get
<1>3. ASSUME NEW n \in 0..(limit - 1)
      PROVE  /\ After(tab, limit, n) \in (n + 1)..limit
             /\ After(tab, limit, n) < limit => Starts(tab, After(tab, limit, n))
             /\ \A k \in n..(limit - 1) : ByteOf(tab, k) = NUL => After(tab, limit, n) <= k + 1
  <2> DEFINE end == NulFrom(tab, limit, n)
             str == Get(tab, limit, n)
  <2>1. /\ end \in n..limit
        /\ end = limit => str = Unset
        /\ end < limit => str # Unset /\ Len(str) = end - n /\ ByteOf(tab, end) = NUL
    BY GetString
  <2>2. n \in 0..limit
    BY <1>1
  <2>3. \A k \in n..(limit - 1) : ByteOf(tab, k) = NUL => end <= k
    BY <1>1, <2>2, NulFound
  <2> HIDE DEF end, str
  <2>4. CASE end = limit
    <3>1. After(tab, limit, n) = limit
      BY <2>1, <2>4 DEF After, str
    <3>2. \A k \in n..(limit - 1) : ByteOf(tab, k) # NUL
      BY <1>1, <2>3, <2>4
    <3> QED
      BY <1>1, <3>1, <3>2
  <2>5. CASE end < limit
    <3>1. After(tab, limit, n) = n + (end - n) + 1
      BY <2>1, <2>5 DEF After, str
    <3>2. After(tab, limit, n) = end + 1 /\ (end + 1) - 1 = end
      BY <1>1, <2>1, <3>1
    <3>3. Starts(tab, end + 1)
      BY <2>1, <2>5, <3>2 DEF Starts
    <3> QED
      BY <1>1, <2>1, <2>3, <2>5, <3>2, <3>3
  <2> QED
    BY <1>1, <2>1, <2>4, <2>5
<1> QED
  BY <1>2, <1>3

Walk(tab, limit, start, at) ==
  \A n \in 0..limit : at[n] = IF n = 0 THEN start ELSE After(tab, limit, at[n - 1])

\* The recursive function of StepsFrom exists.
LEMMA WalkExists ==
  ASSUME NEW tab \in Seq(TableBytes), NEW limit \in 1..Len(tab), NEW start \in 0..(limit - 1),
         ByteOf(tab, 0) = NUL
  PROVE  \E at \in [0..limit -> 0..limit] :
           /\ Walk(tab, limit, start, at)
           /\ StepsFrom(tab, limit, start) = {at[n] : n \in 0..limit} \ {limit}
<1> DEFINE T == 0..limit
           G == [x \in T |-> [n \in Int |-> After(tab, limit, x)]]
           Rhs(f) == [n \in 0..limit |->
                        IF n = 0 THEN start
                        ELSE LET str == Get(tab, limit, f[n - 1]) IN
                             IF str = Unset THEN limit ELSE f[n - 1] + Len(str) + 1]
           walk == CHOOSE f : f = Rhs(f)
<1>1. limit \in Nat /\ start \in T
  OBVIOUS
<1>2. \A x \in T : After(tab, limit, x) \in T
  <2>1. \A x \in 0..(limit - 1) : After(tab, limit, x) \in (x + 1)..limit
    BY AfterTypes
  <2>2. After(tab, limit, limit) = limit
    BY AfterTypes
  <2> QED
    BY <1>1, <2>1, <2>2
<1>3. G \in [T -> [Int -> T]]
  BY <1>2
<1>4. PICK f \in [0..limit -> T] : Recursive(f, 0, limit, start, G)
  <2>1. 0 \in Int /\ limit \in Int
    BY <1>1
  <2> HIDE DEF G, T
  <2> QED BY <1>1, <1>3, <2>1, RecursionExists, Zenon
<1>5. Walk(tab, limit, start, f)
  <2>1. SUFFICES ASSUME NEW n \in 0..limit
                 PROVE  f[n] = IF n = 0 THEN start ELSE After(tab, limit, f[n - 1])
    BY DEF Walk
  <2>2. n # 0 => n - 1 \in 0..limit /\ f[n - 1] \in T /\ n \in Int
    BY <1>1, SMTT(60)
  <2>3. \A x \in T, k \in Int : G[x][k] = After(tab, limit, x)
    OBVIOUS
  <2> HIDE DEF G, T
  <2> QED
    BY <1>4, <2>2, <2>3 DEF Recursive
<1>6. f = Rhs(f)
  BY <1>4, <1>5 DEF Walk, After
<1>7. walk = Rhs(walk)
  BY <1>6
<1>8. \A n \in 0..limit : walk[n] = IF n = 0 THEN start ELSE After(tab, limit, walk[n - 1])
  <2> HIDE DEF walk
  <2> QED BY <1>7 DEF After
<1>9. walk \in [0..limit -> T]
  <2> DEFINE S == {n \in 0..limit : walk[n] \in T}
  <2>1. 0 \in S
    <3>1. 0 \in 0..limit
      BY <1>1
    <3> HIDE DEF walk, T
    <3> QED
      BY <1>1, <1>8, <3>1
  <2>2. ASSUME NEW n \in 0..(limit - 1), n \in S
        PROVE  n + 1 \in S
    <3>1. n + 1 \in 0..limit /\ n + 1 # 0 /\ (n + 1) - 1 = n
      BY <1>1
    <3>2. walk[n + 1] = After(tab, limit, walk[n])
      <4> HIDE DEF walk
      <4> QED BY <1>8, <3>1
    <3> HIDE DEF walk
    <3> QED
      BY <1>2, <2>2, <3>1, <3>2
  <2>3. \A n \in 0..limit : n \in S
    <3>1. 0 \in Int /\ limit \in Int
      BY <1>1, SMTT(60)
    <3> HIDE DEF S
    <3> QED BY <3>1, <2>1, <2>2, IntervalInduction, Zenon
  <2>4. walk = [n \in 0..limit |-> walk[n]]
    BY <1>7
  <2> HIDE DEF walk
  <2> QED
    BY <2>3, <2>4
<1>10. StepsFrom(tab, limit, start) = {walk[n] : n \in 0..limit} \ {limit}
  BY DEF StepsFrom
<1> HIDE DEF walk
<1> QED
  BY <1>8, <1>9, <1>10 DEF Walk

\* A search comes to all the strings of the table behind where it starts, and
\* to nothing else.
LEMMA WalkComplete ==
  ASSUME NEW tab \in Seq(TableBytes), NEW limit \in 1..Len(tab), NEW start \in 0..(limit - 1),
         ByteOf(tab, 0) = NUL, Starts(tab, start)
  PROVE  StepsFrom(tab, limit, start) = {n \in start..(limit - 1) : Starts(tab, n)}
<1>1. PICK at \in [0..limit -> 0..limit] :
        /\ Walk(tab, limit, start, at)
        /\ StepsFrom(tab, limit, start) = {at[n] : n \in 0..limit} \ {limit}
  BY WalkExists
<1>2. limit \in Nat /\ limit >= 1 /\ start \in Nat /\ start < limit /\ 0 \in Int /\ limit \in Int
  OBVIOUS
<1>3. at[0] = start /\ \A n \in 0..(limit - 1) : at[n + 1] = After(tab, limit, at[n])
  <2>1. 0 \in 0..limit
    BY <1>2
  <2>2. \A n \in 0..(limit - 1) : n + 1 \in 0..limit /\ n + 1 # 0 /\ (n + 1) - 1 = n
    BY <1>2
  <2> QED
    BY <1>1, <2>1, <2>2 DEF Walk
<1>4. /\ After(tab, limit, limit) = limit
      /\ \A n \in 0..(limit - 1) :
           /\ After(tab, limit, n) \in (n + 1)..limit
           /\ After(tab, limit, n) < limit => Starts(tab, After(tab, limit, n))
           /\ \A k \in n..(limit - 1) : ByteOf(tab, k) = NUL => After(tab, limit, n) <= k + 1
  BY AfterTypes
<1>5. \A n \in 0..limit : n <= at[n] /\ start <= at[n] /\ (at[n] < limit => Starts(tab, at[n]))
  <2> DEFINE S == {n \in 0..limit :
                     n <= at[n] /\ start <= at[n] /\ (at[n] < limit => Starts(tab, at[n]))}
  <2>1. 0 \in S
    BY <1>2, <1>3
  <2>2. ASSUME NEW n \in 0..(limit - 1), n \in S
        PROVE  n + 1 \in S
    <3>1. n + 1 \in 0..limit /\ at[n] \in 0..limit /\ at[n + 1] \in 0..limit
      BY <1>2, SMTT(60)
    <3>2. at[n + 1] = After(tab, limit, at[n]) /\ n <= at[n] /\ start <= at[n]
      BY <1>3, <2>2
    <3>3. CASE at[n] = limit
      <4>1. at[n + 1] = limit
        BY <1>4, <3>2, <3>3
      <4>2. n + 1 <= limit /\ start <= limit /\ ~(limit < limit)
        BY <1>2
      <4> QED
        BY <3>1, <4>1, <4>2
    <3>4. CASE at[n] # limit
      <4>1. at[n] \in 0..(limit - 1)
        BY <1>2, <3>1, <3>4, SMTT(60)
      <4>2. at[n + 1] \in (at[n] + 1)..limit /\ (at[n + 1] < limit => Starts(tab, at[n + 1]))
        BY <1>4, <3>2, <4>1
      <4>3. n + 1 <= at[n + 1] /\ start <= at[n + 1]
        <5>1. \A x, y \in Int : y \in (x + 1)..limit /\ n <= x /\ start <= x => n + 1 <= y /\ start <= y
          BY <1>2, SMTT(60)
        <5>2. at[n] \in Int /\ at[n + 1] \in Int
          BY <3>1
        <5> QED
          BY <3>2, <4>2, <5>1, <5>2
      <4> QED
        BY <3>1, <4>2, <4>3
    <3> QED
      BY <3>3, <3>4
  <2>3. \A n \in 0..limit : n \in S
    <3> HIDE DEF S
    <3> QED BY <1>2, <2>1, <2>2, IntervalInduction, Zenon
  <2> QED
    BY <2>3
<1>6. ASSUME NEW m \in StepsFrom(tab, limit, start)
      PROVE  m \in {n \in start..(limit - 1) : Starts(tab, n)}
  <2>1. PICK n \in 0..limit : m = at[n]
    BY <1>1
  <2>2. m \in 0..limit /\ m # limit
    BY <1>1, <2>1
  <2>3. start <= m /\ m < limit
    BY <1>2, <1>5, <2>1, <2>2
  <2> QED
    BY <1>2, <1>5, <2>1, <2>2, <2>3
<1>7. ASSUME NEW m \in start..(limit - 1), Starts(tab, m)
      PROVE  m \in StepsFrom(tab, limit, start)
  <2> DEFINE S == {m - at[n] : n \in {k \in 0..limit : at[k] <= m}}
  <2>1. S \in SUBSET Nat /\ S # {}
    <3>1. \A k \in 0..limit : at[k] \in Nat
      BY <1>2, SMTT(60)
    <3>2. m \in Nat /\ 0 \in 0..limit /\ at[0] <= m
      BY <1>2, <1>3
    <3>3. \A x \in Nat : x <= m => m - x \in Nat
      BY <3>2
    <3>4. \A k \in 0..limit : at[k] <= m => m - at[k] \in Nat
      BY <3>1, <3>3
    <3> QED
      BY <3>2, <3>4
  <2> HIDE DEF S
  <2>2. PICK d \in S : \A k \in S : d <= k
    BY <2>1, LeastElement
  <2>3. PICK n \in 0..limit : at[n] <= m /\ d = m - at[n]
    BY <2>2 DEF S
  <2>4. at[n] \in 0..(limit - 1) /\ n \in 0..(limit - 1)
    <3>1. at[n] \in 0..limit /\ n <= at[n] /\ at[n] <= m /\ n \in 0..limit /\ m \in start..(limit - 1)
      BY <1>5, <2>3
    <3>2. limit \in Nat /\ start \in Nat
      BY <1>2
    <3>3. \A a, k, l, s, x \in Int :
            k <= a /\ a <= x /\ k \in 0..l /\ x \in s..(l - 1) => a \in 0..(l - 1) /\ k \in 0..(l - 1)
      OBVIOUS
    <3>4. at[n] \in Int /\ n \in Int /\ m \in Int /\ limit \in Int /\ start \in Int
      BY ONLY <3>1, <3>2
    <3> QED
      BY ONLY <3>1, <3>3, <3>4
  <2>5. CASE at[n] = m
    <3>1. m # limit
      BY <1>2
    <3> QED
      BY <1>1, <2>3, <2>5, <3>1
  <2>6. CASE at[n] # m
    <3>1. m # 0 /\ m - 1 \in at[n]..(limit - 1) /\ (m - 1) + 1 = m
      <4>1. m \in Nat /\ m < limit /\ at[n] \in Nat /\ at[n] <= m /\ at[n] # m
        BY <1>2, <2>3, <2>4, <2>6
      <4>2. \A x \in Nat : x <= m /\ x # m => m # 0 /\ m - 1 \in x..(limit - 1) /\ (m - 1) + 1 = m
        BY <1>2, <4>1
      <4> QED
        BY <4>1, <4>2
    <3>2. ByteOf(tab, m - 1) = NUL
      BY <1>7, <3>1 DEF Starts
    <3>3. at[n + 1] \in (at[n] + 1)..limit /\ at[n + 1] <= m
      BY <1>3, <1>4, <2>4, <3>1, <3>2
    <3>4. n + 1 \in 0..limit
      BY <1>2, <2>4
    <3>5. m - at[n + 1] \in S
      BY <3>3, <3>4 DEF S
    <3>6. m - at[n] <= m - at[n + 1]
      BY <2>2, <2>3, <3>5
    <3>7. m \in Nat /\ at[n] \in Nat /\ at[n + 1] \in Nat /\ at[n + 1] > at[n]
      <4>1. m \in Nat /\ limit \in Nat
        BY <1>2
      <4>2. at[n] \in Nat
        BY <2>4
      <4>3. \A x, l \in Nat : \A y \in (x + 1)..l : y \in Nat /\ y > x
        OBVIOUS
      <4> QED
        BY ONLY <3>3, <4>1, <4>2, <4>3
    <3>8. \A x, y, z \in Nat : y > x => ~(z - x <= z - y)
      OBVIOUS
    <3> QED
      BY ONLY <3>6, <3>7, <3>8
  <2> QED
    BY <2>5, <2>6
<1> QED
  BY <1>6, <1>7

\* The first string of a name from an offset on.
There(tab, limit, name, start) ==
  {n \in start..(limit - 1) : Starts(tab, n) /\ GetRaw(tab, limit, n) = name}

LEMMA SearchFinds ==
  ASSUME NEW tab \in Seq(TableBytes), NEW limit \in 1..Len(tab), limit <= OffsetLimit \div 2,
         NEW start \in 0..(limit - 1), NEW name,
         ByteOf(tab, 0) = NUL, Starts(tab, start)
  PROVE  /\ FindByName(tab, limit, name, start)
              = IF There(tab, limit, name, start) = {} THEN NotFound ELSE Min(There(tab, limit, name, start))
         /\ There(tab, limit, name, start) \in SUBSET Nat
<1> DEFINE there == There(tab, limit, name, start)
           found == {n \in StepsFrom(tab, limit, start) : Get(tab, limit, n) = name}
<1>1. limit \in Nat /\ start \in Nat /\ start < limit
  OBVIOUS
<1>2. there \in SUBSET Nat /\ \A n \in there : n < limit
  BY <1>1 DEF There
<1>3. found = there
  <2>1. StepsFrom(tab, limit, start) = {n \in start..(limit - 1) : Starts(tab, n)}
    BY WalkComplete
  <2>2. \A n \in start..(limit - 1) : n \in 0..(limit - 1)
    BY <1>1
  <2>3. \A n \in start..(limit - 1) : Get(tab, limit, n) = GetRaw(tab, limit, n)
    BY <2>2, GetString
  <2> QED
    BY <2>1, <2>3 DEF There
<1>4. FindByName(tab, limit, name, start) = IF found = {} THEN NotFound ELSE AsInt(Min(found))
  BY <1>1 DEF FindByName
<1>5. \A n \in Nat : n < limit => AsInt(n) = n
  <2>1. OffsetLimit \in Nat
    BY TableAssumption DEF TableAssumption
  <2>2. ASSUME NEW n \in Nat, n < limit
        PROVE  AsInt(n) = n
    <3>1. n < OffsetLimit \div 2 /\ n < OffsetLimit
      BY <1>1, <2>1, <2>2
    <3>2. n % OffsetLimit = n
      BY <2>1, <3>1
    <3> QED
      BY <3>1, <3>2 DEF AsInt
  <2> QED
    BY <2>2
<1>6. there # {} => AsInt(Min(there)) = Min(there)
  <2> HIDE DEF there
  <2> QED
    BY <1>2, <1>5, MinIsLeast
<1> HIDE DEF found
<1> QED
  BY <1>2, <1>3, <1>4, <1>6

-----------------------------------------------------------------------------
(***************************************************************************)
(* The string table.  Each name that was added is stored where its symbol  *)
(* says, behind a NUL and before one; what is written later lies behind    *)
(* all of them.                                                            *)
(***************************************************************************)
StoredIn(tab, limit, str, at) ==
  /\ at \in Nat \ {0} /\ at + Len(str) < limit
  /\ tab[at] = NUL
  /\ \A k \in 1..Len(str) : tab[at + k] = str[k]
  /\ tab[at + Len(str) + 1] = NUL

TableTypes ==
  /\ bytes \in Seq(TableBytes) /\ size \in 1..Len(bytes) /\ size <= MaxTableSize /\ block \in Nat
  /\ added \in Seq([str : Strings, at : 0..(OffsetLimit - 1), ok : BOOLEAN])
  /\ viewed.bytes \in Seq(TableBytes) /\ viewed.size \in 1..Len(viewed.bytes)
  /\ viewed.size <= OffsetLimit \div 2 /\ viewed.block \in Nat \union {Foreign}

TableInv ==
  /\ TableTypes
  /\ bytes[1] = NUL /\ bytes[size] = NUL
  /\ \A n \in DOMAIN added :
       IF added[n].ok /\ added[n].str # <<>> THEN StoredIn(bytes, size, added[n].str, added[n].at) ELSE added[n].at = 0
  /\ viewed.block <= block
  /\ viewed.block = block =>
       viewed.size <= size /\ \A k \in 1..viewed.size : bytes[k] = viewed.bytes[k]

LEMMA AddedTypes ==
  TableTypes => \A n \in DOMAIN added : /\ added[n].str \in Strings /\ added[n].at \in 0..(OffsetLimit - 1)
                                       /\ added[n].ok \in BOOLEAN
<1> SUFFICES ASSUME TableTypes, NEW n \in DOMAIN added
             PROVE  /\ added[n].str \in Strings /\ added[n].at \in 0..(OffsetLimit - 1)
                    /\ added[n].ok \in BOOLEAN
  OBVIOUS
<1> DEFINE R == [str : Strings, at : 0..(OffsetLimit - 1), ok : BOOLEAN]
<1>1. added \in Seq(R)
  BY DEF TableTypes
<1>2. added[n] \in R
  <2> HIDE DEF R
  <2> QED BY <1>1
<1> QED
  BY <1>2

LEMMA TableTyped == TableInv => TableTypeOK
<1> SUFFICES ASSUME TableInv
             PROVE  TableTypeOK
  OBVIOUS
<1>1. \A n \in DOMAIN added : added[n].str \in Strings /\ added[n].at \in 0..(OffsetLimit - 1)
  BY AddedTypes DEF TableInv
<1> QED
  BY <1>1 DEF TableInv, TableTypes, TableTypeOK

LEMMA TableReads == TableInv => ViewReads
<1> SUFFICES ASSUME TableInv
             PROVE  ViewReads
  OBVIOUS
<1> DEFINE t == viewed.bytes
           limit == viewed.size
<1>1. /\ t \in Seq(TableBytes) /\ limit \in 1..Len(t) /\ limit <= OffsetLimit \div 2
      /\ limit \in Nat /\ limit >= 1
  <2>1. Len(t) \in Nat
    BY DEF TableInv, TableTypes
  <2> QED
    BY <2>1 DEF TableInv, TableTypes
<1> HIDE DEF t, limit
<1>2. SUFFICES ASSUME ByteOf(t, 0) = NUL
      PROVE  /\ \A n \in 0..limit :
                  /\ Get(t, limit, n) = GetRaw(t, limit, n)
                  /\ Get(t, limit, n) # Unset => ByteOf(t, n + Len(Get(t, limit, n))) = NUL
             /\ \A name \in Strings, start \in {n \in 0..(limit - 1) : Starts(t, n)} :
                  FindByName(t, limit, name, start)
                    = IF There(t, limit, name, start) = {} THEN NotFound
                      ELSE Min(There(t, limit, name, start))
  BY DEF ViewReads, Starts, There, t, limit
<1>3. ASSUME NEW n \in 0..limit
      PROVE  /\ Get(t, limit, n) = GetRaw(t, limit, n)
             /\ Get(t, limit, n) # Unset => ByteOf(t, n + Len(Get(t, limit, n))) = NUL
  <2>1. CASE n = limit
    BY <1>1, <2>1 DEF Get, GetRaw
  <2>2. CASE n # limit
    <3> DEFINE end == NulFrom(t, limit, n)
    <3>1. n \in 0..(limit - 1)
      BY <1>1, <2>2
    <3>2. /\ end \in n..limit
          /\ end = limit => Get(t, limit, n) = Unset
          /\ end < limit => Len(Get(t, limit, n)) = end - n /\ ByteOf(t, end) = NUL
          /\ Get(t, limit, n) = GetRaw(t, limit, n)
      BY <1>1, <1>2, <3>1, GetString
    <3> HIDE DEF end
    <3>3. end < limit => n + (end - n) = end
      BY <1>1, <3>1, <3>2
    <3>4. end = limit \/ end < limit
      BY <1>1, <3>1, <3>2
    <3> QED
      BY <3>2, <3>3, <3>4
  <2> QED
    BY <2>1, <2>2
<1>4. ASSUME NEW name \in Strings, NEW start \in {n \in 0..(limit - 1) : Starts(t, n)}
      PROVE  FindByName(t, limit, name, start)
               = IF There(t, limit, name, start) = {} THEN NotFound
                 ELSE Min(There(t, limit, name, start))
  BY <1>1, <1>2, SearchFinds
<1> QED
  BY <1>3, <1>4

LEMMA TableViewStays == TableInv => ViewStays
<1> SUFFICES ASSUME TableInv, viewed.block = block
             PROVE  SubSeq(bytes, 1, viewed.size) = SubSeq(viewed.bytes, 1, viewed.size)
  BY DEF ViewStays
<1> DEFINE t == viewed.bytes
           n == viewed.size
<1>1. /\ bytes \in Seq(TableBytes) /\ t \in Seq(TableBytes)
      /\ size \in 1..Len(bytes) /\ n \in 1..Len(t)
      /\ n <= size /\ \A k \in 1..n : bytes[k] = t[k]
  BY DEF TableInv, TableTypes
<1> HIDE DEF t, n
<1>2. n \in Nat /\ 1 <= n /\ n <= Len(bytes) /\ n <= Len(t) /\ Len(bytes) \in Nat /\ Len(t) \in Nat
  <2>1. Len(bytes) \in Nat /\ Len(t) \in Nat
    BY <1>1
  <2> QED
    BY <1>1, <2>1
<1>3. /\ SubSeq(bytes, 1, n) = [k \in 1..n |-> bytes[k]]
      /\ SubSeq(t, 1, n) = [k \in 1..n |-> t[k]]
  BY <1>1, <1>2
<1>4. SubSeq(bytes, 1, n) = SubSeq(t, 1, n)
  BY <1>1, <1>3
<1> QED
  BY <1>4 DEF t, n

LEMMA Part ==
  ASSUME NEW tab \in Seq(TableBytes), NEW at \in Nat, NEW L \in Nat \ {0}, at + L <= Len(tab)
  PROVE  SubSeq(tab, at + 1, at + L) = [k \in 1..L |-> tab[at + k]]
<1>1. ASSUME NEW a \in Nat, NEW b \in Nat, 1 <= a, a <= b, b <= Len(tab)
      PROVE  /\ SubSeq(tab, a, b) \in Seq(TableBytes)
             /\ Len(SubSeq(tab, a, b)) = b - a + 1
             /\ \A k \in 1..(b - a + 1) : SubSeq(tab, a, b)[k] = tab[a + k - 1]
  BY <1>1
<1> DEFINE from == at + 1
           to == at + L
           part == SubSeq(tab, from, to)
<1>2. from \in Nat /\ to \in Nat /\ 1 <= from /\ from <= to /\ to <= Len(tab)
  OBVIOUS
<1>3. to - from + 1 = L /\ \A k \in 1..L : from + k - 1 = at + k
  OBVIOUS
<1> HIDE DEF from, to
<1>4. part \in Seq(TableBytes) /\ Len(part) = to - from + 1
  BY <1>1, <1>2
<1>5. \A k \in 1..(to - from + 1) : part[k] = tab[from + k - 1]
  BY <1>1, <1>2
<1> HIDE DEF part
<1>6. Len(part) = L /\ \A k \in 1..L : part[k] = tab[at + k]
  BY <1>3, <1>4, <1>5
<1>7. part = [k \in 1..L |-> tab[at + k]]
  BY <1>4, <1>6
<1> QED
  BY <1>7 DEF part, from, to

\* A stored name is what the table holds at its offset.
LEMMA StoredRead ==
  ASSUME TableInv, NEW str \in Strings, NEW at, str # <<>>, StoredIn(bytes, size, str, at)
  PROVE  /\ at \in 0..(size - 1) /\ Starts(bytes, at)
         /\ Get(bytes, size, at) = str /\ GetRaw(bytes, size, at) = str
<1>1. /\ bytes \in Seq(TableBytes) /\ size \in 1..Len(bytes) /\ Len(bytes) \in Nat
      /\ bytes[1] = NUL
  <2>1. bytes \in Seq(TableBytes) /\ size \in 1..Len(bytes) /\ bytes[1] = NUL
    BY DEF TableInv, TableTypes
  <2> QED
    BY <2>1
<1>2. str \in Seq(Characters) /\ Len(str) \in Nat /\ NUL \notin Characters
  <2>1. str \in Seq(Characters) /\ NUL \notin Characters
    BY TableAssumption DEF TableAssumption
  <2> QED
    BY <2>1
<1>3. /\ at \in Nat \ {0} /\ at + Len(str) < size
      /\ bytes[at] = NUL
      /\ \A k \in 1..Len(str) : bytes[at + k] = str[k]
      /\ bytes[at + Len(str) + 1] = NUL
  BY DEF StoredIn
<1> DEFINE L == Len(str)
           end == NulFrom(bytes, size, at)
<1>4. L \in Nat /\ size \in Nat /\ size <= Len(bytes) /\ at < size /\ at \in 0..(size - 1)
  BY <1>1, <1>2, <1>3
<1>5. Starts(bytes, at) /\ ByteOf(bytes, 0) = NUL
  <2>1. (at - 1) + 1 = at /\ 0 + 1 = 1
    BY <1>3
  <2> QED
    BY <1>1, <1>3, <2>1 DEF Starts, ByteOf
<1>6. /\ end \in at..size
      /\ end < size => Get(bytes, size, at) = SubSeq(bytes, at + 1, end)
      /\ end < size => ByteOf(bytes, end) = NUL
      /\ Get(bytes, size, at) = GetRaw(bytes, size, at)
  BY <1>1, <1>4, <1>5, GetString
<1>7. \A k \in at..(size - 1) : ByteOf(bytes, k) = NUL => end <= k
  <2>1. at \in 0..size /\ size \in Nat
    BY <1>4
  <2> QED
    BY <2>1, NulFound
<1> HIDE DEF L, end
<1>8. end = at + L
  <2>1. at + L \in at..(size - 1) /\ ByteOf(bytes, at + L) = NUL
    BY <1>3, <1>4 DEF L, ByteOf
  <2>2. end <= at + L
    BY <1>7, <2>1
  <2>3. ByteOf(bytes, end) = NUL
    BY <1>3, <1>4, <1>6, <2>2 DEF L
  <2>4. ASSUME end < at + L
        PROVE  FALSE
    <3>1. end + 1 - at \in 1..L /\ at + (end + 1 - at) = end + 1
      BY <1>3, <1>4, <1>6, <2>4
    <3>2. bytes[end + 1] = str[end + 1 - at] /\ bytes[end + 1] = NUL
      BY <1>3, <2>3, <3>1 DEF L, ByteOf
    <3>3. str[end + 1 - at] \in Characters
      BY <1>2, <3>1 DEF L
    <3> QED
      BY <1>2, <3>2, <3>3
  <2> QED
    BY <1>3, <1>4, <1>6, <2>2, <2>4
<1>9. Get(bytes, size, at) = SubSeq(bytes, at + 1, at + L)
  BY <1>3, <1>4, <1>6, <1>8 DEF L
<1>10. SubSeq(bytes, at + 1, at + L) = str
  <2>1. at + 1 \in Nat /\ at + L \in Nat /\ 1 <= at + 1 /\ at + L <= Len(bytes) /\ at <= at + L
    BY <1>1, <1>3, <1>4 DEF L
  <2>2. L # 0
    BY <1>2 DEF L
  <2>3. at + 1 <= at + L
    BY <1>4, <2>1, <2>2
  <2>4. SubSeq(bytes, at + 1, at + L) = [k \in 1..L |-> bytes[at + k]]
    BY <1>1, <1>3, <1>4, <2>2, <2>1, Part
  <2>5. str = [k \in 1..L |-> str[k]]
    BY <1>2 DEF L
  <2> QED
    BY <1>3, <2>4, <2>5 DEF L
<1> QED
  BY <1>4, <1>5, <1>6, <1>9, <1>10

LEMMA TableNamesStay == TableInv => NamesStay
<1> SUFFICES ASSUME TableInv, NEW n \in DOMAIN added
             PROVE  /\ SymbolName(n) = IF added[n].ok THEN added[n].str ELSE <<>>
                    /\ added[n].ok =>
                         /\ FindByName(bytes, size, added[n].str, 0) \in 0..added[n].at
                         /\ Get(bytes, size, FindByName(bytes, size, added[n].str, 0)) = added[n].str
  BY DEF NamesStay
<1> DEFINE str == added[n].str
           at == added[n].at
           ok == added[n].ok
<1>1. str \in Strings /\ ok \in BOOLEAN
  BY AddedTypes DEF TableInv
<1>2. IF ok /\ str # <<>> THEN StoredIn(bytes, size, str, at) ELSE at = 0
  BY DEF TableInv
<1>3. /\ bytes \in Seq(TableBytes) /\ size \in 1..Len(bytes) /\ Len(bytes) \in Nat
      /\ size <= OffsetLimit \div 2
  <2>1. bytes \in Seq(TableBytes) /\ size \in 1..Len(bytes) /\ size <= MaxTableSize
    BY DEF TableInv, TableTypes
  <2>2. MaxTableSize \in 1..(OffsetLimit \div 2) /\ OffsetLimit \in Nat
    BY TableAssumption DEF TableAssumption
  <2> QED
    BY <2>1, <2>2
<1>4. size \in Nat /\ size >= 1 /\ 0 \in 0..(size - 1)
  BY <1>3
<1>5. ByteOf(bytes, 0) = NUL /\ Starts(bytes, 0)
  <2>1. bytes[1] = NUL /\ 0 + 1 = 1
    BY DEF TableInv
  <2> QED
    BY <2>1 DEF ByteOf, Starts
<1>6. Get(bytes, size, 0) = <<>> /\ GetRaw(bytes, size, 0) = <<>>
  <2>1. Get(bytes, size, 0) = <<>>
    BY <1>4 DEF Get
  <2> QED
    BY <1>3, <1>4, <1>5, <2>1, GetString
<1>7. /\ at \in 0..(size - 1) /\ Starts(bytes, at)
      /\ Get(bytes, size, at) = IF ok THEN str ELSE <<>>
      /\ GetRaw(bytes, size, at) = IF ok THEN str ELSE <<>>
  <2> HIDE DEF str, at, ok
  <2>1. CASE ok /\ str # <<>>
    BY <1>1, <1>2, <2>1, StoredRead
  <2>2. CASE ~(ok /\ str # <<>>)
    BY <1>1, <1>2, <1>4, <1>5, <1>6, <2>2
  <2> QED
    BY <2>1, <2>2
<1> DEFINE there == There(bytes, size, str, 0)
           found == FindByName(bytes, size, str, 0)
<1>8. ASSUME ok
      PROVE  found \in 0..at /\ Get(bytes, size, found) = str
  <2>1. found = IF there = {} THEN NotFound ELSE Min(there)
    BY <1>3, <1>4, <1>5, SearchFinds
  <2>2. there \in SUBSET Nat
    BY <1>3, <1>4, <1>5, SearchFinds
  <2>3. at \in there
    BY <1>7, <1>8 DEF There
  <2> HIDE DEF there
  <2>4. found \in there /\ found <= at
    <3>1. Min(there) \in there /\ Min(there) <= at
      BY <2>2, <2>3, MinIsLeast
    <3> HIDE DEF found
    <3> QED
      BY <2>1, <2>3, <3>1
  <2>5. found \in 0..(size - 1) /\ GetRaw(bytes, size, found) = str
    BY <2>4 DEF there, There
  <2>6. Get(bytes, size, found) = str
    <3> HIDE DEF found
    <3> QED
      BY <1>3, <1>5, <2>5, GetString
  <2>7. found \in 0..at
    <3> HIDE DEF found
    <3> QED BY <1>4, <1>7, <2>4, <2>5
  <2> QED
    BY <2>6, <2>7
<1>9. SymbolName(n) = IF ok THEN str ELSE <<>>
  BY <1>7 DEF SymbolName
<1> QED
  BY <1>8, <1>9

LEMMA TableInitOK == TableInit => TableInv
<1> SUFFICES ASSUME TableInit
             PROVE  TableInv
  OBVIOUS
<1>1. /\ FirstTableSize \in Nat \ {0} /\ MaxTableSize \in 1..(OffsetLimit \div 2)
      /\ OffsetLimit \in Nat
  BY TableAssumption DEF TableAssumption
<1>2. NUL \in TableBytes
  BY DEF TableBytes
<1>3. /\ bytes = [n \in 1..FirstTableSize |-> NUL] /\ size = 1 /\ block = 0
      /\ added = <<>> /\ viewed = [block |-> Foreign, bytes |-> <<NUL>>, size |-> 1]
  BY DEF TableInit
<1>4. bytes \in Seq(TableBytes) /\ Len(bytes) = FirstTableSize /\ bytes[1] = NUL
  BY <1>1, <1>2, <1>3
<1>5. /\ viewed.bytes \in Seq(TableBytes) /\ Len(viewed.bytes) = 1
      /\ viewed.size = 1 /\ viewed.block = Foreign
  BY <1>2, <1>3
<1>6. 1 <= OffsetLimit \div 2 /\ 1 <= MaxTableSize
  BY <1>1
<1>7. added \in Seq([str : Strings, at : 0..(OffsetLimit - 1), ok : BOOLEAN]) /\ DOMAIN added = {}
  BY <1>3
<1>8. TableTypes
  BY <1>1, <1>3, <1>4, <1>5, <1>6, <1>7 DEF TableTypes, Foreign
<1>9. viewed.block <= block /\ viewed.block # block
  BY <1>3, <1>5 DEF Foreign
<1> QED
  BY <1>3, <1>4, <1>7, <1>8, <1>9 DEF TableInv

\* Doubling comes to a capacity that is large enough, and never to a smaller one
\* than there is.
LEMMA CapacitiesGrow ==
  ASSUME NEW needed \in Nat, Len(bytes) \in Nat \ {0}
  PROVE  /\ Capacities(needed) \in SUBSET Nat
         /\ \A capacity \in Capacities(needed) : Len(bytes) <= capacity
         /\ \E capacity \in Capacities(needed) : needed <= capacity
<1> DEFINE L == Len(bytes)
           T == {x \in Nat : L <= x}
           G == [x \in T |-> [n \in Int |-> 2 * x]]
           Rhs(f) == [n \in 0..needed |-> IF n = 0 THEN L ELSE 2 * f[n - 1]]
           doubled == CHOOSE f : f = Rhs(f)
<1>1. L \in Nat \ {0} /\ L \in T /\ 0 \in Int /\ needed \in Int /\ needed \in 0..needed /\ 0 \in 0..needed
  OBVIOUS
<1>2. \A x \in T : 2 * x \in T
  BY <1>1
<1>3. G \in [T -> [Int -> T]]
  BY <1>2
<1>4. PICK f \in [0..needed -> T] : Recursive(f, 0, needed, L, G)
  <2> HIDE DEF G, T, L
  <2> QED BY <1>1, <1>3, RecursionExists, Zenon
<1>5. f = Rhs(f)
  <2>1. SUFFICES ASSUME NEW n \in 0..needed
                 PROVE  f[n] = IF n = 0 THEN L ELSE 2 * f[n - 1]
    BY <1>4
  <2>2. n # 0 => n - 1 \in 0..needed /\ f[n - 1] \in T /\ n \in Int
    OBVIOUS
  <2>3. \A x \in T, k \in Int : G[x][k] = 2 * x
    OBVIOUS
  <2> HIDE DEF G, T
  <2> QED
    BY <1>4, <2>2, <2>3 DEF Recursive
<1>6. doubled = Rhs(doubled)
  BY <1>5
<1>7. Capacities(needed) = {doubled[n] : n \in 0..needed}
  BY DEF Capacities
<1> HIDE DEF doubled, G
<1>8. doubled[0] = L /\ \A n \in 0..(needed - 1) : doubled[n + 1] = 2 * doubled[n]
  <2>1. \A n \in 0..needed : doubled[n] = IF n = 0 THEN L ELSE 2 * doubled[n - 1]
    BY <1>6
  <2>2. \A n \in 0..(needed - 1) : n + 1 \in 0..needed /\ n + 1 # 0 /\ (n + 1) - 1 = n
    OBVIOUS
  <2> QED
    BY <1>1, <2>1, <2>2
<1>9. \A n \in 0..needed : doubled[n] \in T /\ n + 1 <= doubled[n]
  <2> DEFINE S == {n \in 0..needed : doubled[n] \in T /\ n + 1 <= doubled[n]}
  <2>1. 0 \in S
    BY <1>1, <1>8
  <2>2. ASSUME NEW n \in 0..(needed - 1), n \in S
        PROVE  n + 1 \in S
    <3>1. n + 1 \in 0..needed /\ doubled[n] \in T /\ n + 1 <= doubled[n]
      BY <2>2
    <3>2. doubled[n + 1] = 2 * doubled[n]
      BY <1>8
    <3>3. \A x \in T : n + 1 <= x => 2 * x \in T /\ (n + 1) + 1 <= 2 * x
      BY <1>1
    <3> HIDE DEF T
    <3> QED
      BY <3>1, <3>2, <3>3
  <2>3. \A n \in 0..needed : n \in S
    <3> HIDE DEF S
    <3> QED BY <1>1, <2>1, <2>2, IntervalInduction, Zenon
  <2> QED
    BY <2>3
<1>10. needed <= doubled[needed]
  <2>1. needed + 1 <= doubled[needed] /\ doubled[needed] \in Nat
    BY <1>1, <1>9
  <2> QED
    BY <2>1
<1> QED
  BY <1>1, <1>7, <1>9, <1>10

LEMMA CapacityEnough ==
  ASSUME NEW needed \in Nat, Len(bytes) \in Nat \ {0}
  PROVE  CapacityFor(needed) \in Nat /\ needed <= CapacityFor(needed) /\ Len(bytes) <= CapacityFor(needed)
<1> DEFINE S == {capacity \in Capacities(needed) : needed <= capacity}
<1>1. S \in SUBSET Nat /\ S # {} /\ \A x \in S : needed <= x /\ Len(bytes) <= x
  BY CapacitiesGrow
<1>2. CapacityFor(needed) = Min(S)
  BY DEF CapacityFor
<1> HIDE DEF S
<1> QED
  BY <1>1, <1>2, MinIsLeast

LEMMA GrownKeeps ==
  ASSUME NEW tab \in Seq(TableBytes), NEW capacity \in Nat, Len(tab) <= capacity
  PROVE  /\ Grown(tab, capacity) \in Seq(TableBytes) /\ Len(Grown(tab, capacity)) = capacity
         /\ \A k \in 1..Len(tab) : Grown(tab, capacity)[k] = tab[k]
<1>1. \A k \in 1..capacity : (IF k <= Len(tab) THEN tab[k] ELSE Unset) \in TableBytes
  BY DEF TableBytes
<1>2. \A k \in 1..Len(tab) : k \in 1..capacity /\ k <= Len(tab)
  BY Len(tab) \in Nat
<1> QED
  BY <1>1, <1>2 DEF Grown

\* What is in use stays where it is when the table is written behind it.
LEMMA TableStep ==
  ASSUME TableInv, TableTypes', viewed' = viewed,
         size <= size', bytes'[size'] = NUL, \A k \in 1..size : bytes'[k] = bytes[k],
         block' = block \/ block' = block + 1,
         NEW str \in Strings, NEW at, NEW ok \in BOOLEAN,
         added' = Append(added, [str |-> str, at |-> at, ok |-> ok]),
         IF ok /\ str # <<>> THEN StoredIn(bytes', size', str, at) ELSE at = 0
  PROVE  TableInv'
<1> DEFINE entry == [str |-> str, at |-> at, ok |-> ok]
<1>1. /\ bytes \in Seq(TableBytes) /\ size \in 1..Len(bytes) /\ Len(bytes) \in Nat
      /\ block \in Nat /\ viewed.block \in Int /\ viewed.size \in Nat
      /\ added \in Seq([str : Strings, at : 0..(OffsetLimit - 1), ok : BOOLEAN])
  <2>1. viewed.bytes \in Seq(TableBytes) /\ viewed.size \in 1..Len(viewed.bytes)
    BY DEF TableInv, TableTypes
  <2>2. Len(viewed.bytes) \in Nat
    BY <2>1
  <2>3. viewed.block \in Nat \union {Foreign} /\ Foreign \in Int
    BY DEF TableInv, TableTypes, Foreign
  <2>4. /\ bytes \in Seq(TableBytes) /\ size \in 1..Len(bytes) /\ block \in Nat
        /\ added \in Seq([str : Strings, at : 0..(OffsetLimit - 1), ok : BOOLEAN])
    BY DEF TableInv, TableTypes
  <2> QED
    BY <2>1, <2>2, <2>3, <2>4
<1>2. size \in Nat /\ size >= 1 /\ size' \in Nat
  <2>1. size' \in 1..Len(bytes')
    BY DEF TableTypes
  <2>2. bytes' \in Seq(TableBytes)
    BY DEF TableTypes
  <2>3. Len(bytes') \in Nat
    BY <2>2
  <2> QED
    BY <1>1, <2>1, <2>3
<1>3. bytes'[1] = NUL
  BY <1>2 DEF TableInv
<1>4. viewed'.block <= block'
  BY <1>1 DEF TableInv
<1>5. viewed'.block = block' =>
        viewed'.size <= size' /\ \A k \in 1..viewed'.size : bytes'[k] = viewed'.bytes[k]
  <2>1. SUFFICES ASSUME viewed.block = block'
                 PROVE  viewed.size <= size' /\ \A k \in 1..viewed.size : bytes'[k] = viewed.bytes[k]
    OBVIOUS
  <2>2. viewed.block = block
    BY <1>1, <2>1 DEF TableInv
  <2>3. viewed.size <= size /\ \A k \in 1..viewed.size : bytes[k] = viewed.bytes[k]
    BY <2>2 DEF TableInv
  <2>4. \A k \in 1..viewed.size : k \in 1..size
    BY <1>1, <1>2, <2>3
  <2> QED
    BY <1>1, <1>2, <2>3, <2>4
<1>6. \A old \in Strings, n \in Int : StoredIn(bytes, size, old, n) => StoredIn(bytes', size', old, n)
  <2>1. SUFFICES ASSUME NEW old \in Strings, NEW n \in Int, StoredIn(bytes, size, old, n)
                 PROVE  StoredIn(bytes', size', old, n)
    OBVIOUS
  <2>2. Len(old) \in Nat
    <3>1. old \in Seq(Characters)
      BY TableAssumption DEF TableAssumption
    <3> QED
      BY <3>1
  <2>3. /\ n \in Nat \ {0} /\ n + Len(old) < size
        /\ bytes[n] = NUL
        /\ \A k \in 1..Len(old) : bytes[n + k] = old[k]
        /\ bytes[n + Len(old) + 1] = NUL
    BY <2>1 DEF StoredIn
  <2>4. n \in 1..size /\ n + Len(old) + 1 \in 1..size /\ \A k \in 1..Len(old) : n + k \in 1..size
    BY <1>2, <2>2, <2>3
  <2>5. n + Len(old) < size'
    BY <1>2, <2>2, <2>3
  <2> QED
    BY <2>3, <2>4, <2>5 DEF StoredIn
<1>7. \A n \in DOMAIN added' :
        IF added'[n].ok /\ added'[n].str # <<>> THEN StoredIn(bytes', size', added'[n].str, added'[n].at)
        ELSE added'[n].at = 0
  <2>1. SUFFICES ASSUME NEW n \in DOMAIN added'
                 PROVE  IF added'[n].ok /\ added'[n].str # <<>> THEN StoredIn(bytes', size', added'[n].str, added'[n].at)
                        ELSE added'[n].at = 0
    OBVIOUS
  <2>2. added'[n] = entry \/ (n \in DOMAIN added /\ added'[n] = added[n])
    <3> HIDE DEF entry
    <3>1. added' = Append(added, entry)
      BY DEF entry
    <3> QED
      BY <1>1, <3>1
  <2>3. CASE added'[n] = entry
    BY <2>3
  <2>4. CASE n \in DOMAIN added /\ added'[n] = added[n]
    <3>1. IF added[n].ok /\ added[n].str # <<>> THEN StoredIn(bytes, size, added[n].str, added[n].at)
          ELSE added[n].at = 0
      BY <2>4 DEF TableInv
    <3>2. added[n].str \in Strings /\ added[n].at \in Int
      BY <2>4, AddedTypes DEF TableInv
    <3> QED
      BY <1>6, <2>4, <3>1, <3>2
  <2> QED
    BY <2>2, <2>3, <2>4
<1> QED
  BY <1>3, <1>4, <1>5, <1>7 DEF TableInv

\* The types, after a step that adds one entry and writes the table.
LEMMA TableTypesStep ==
  ASSUME TableInv, viewed' = viewed,
         bytes' \in Seq(TableBytes), size' \in 1..Len(bytes'), size' <= MaxTableSize,
         block' = block \/ block' = block + 1,
         NEW str \in Strings, NEW at \in 0..(OffsetLimit - 1), NEW ok \in BOOLEAN,
         added' = Append(added, [str |-> str, at |-> at, ok |-> ok])
  PROVE  TableTypes'
<1> DEFINE R == [str : Strings, at : 0..(OffsetLimit - 1), ok : BOOLEAN]
           entry == [str |-> str, at |-> at, ok |-> ok]
<1>1. entry \in R /\ added \in Seq(R)
  BY DEF TableInv, TableTypes
<1>2. added' \in Seq(R)
  <2>1. added' = Append(added, entry)
    OBVIOUS
  <2> HIDE DEF R, entry
  <2> QED BY <1>1, <2>1
<1>3. block' \in Nat
  BY SMTT(60) DEF TableInv, TableTypes
<1> QED
  BY <1>2, <1>3 DEF TableInv, TableTypes

LEMMA AddOK ==
  ASSUME TableInv, NEW str \in Strings, Add(str)
  PROVE  TableInv'
<1>1. str \in Seq(Characters) /\ Len(str) \in Nat
  <2>1. str \in Seq(Characters)
    BY TableAssumption DEF TableAssumption
  <2> QED
    BY <2>1
<1>2. /\ bytes \in Seq(TableBytes) /\ size \in 1..Len(bytes) /\ Len(bytes) \in Nat \ {0}
      /\ size <= MaxTableSize /\ bytes[size] = NUL
      /\ size \in Nat /\ size >= 1 /\ size <= Len(bytes)
  <2>1. /\ bytes \in Seq(TableBytes) /\ size \in 1..Len(bytes) /\ size <= MaxTableSize
        /\ bytes[size] = NUL
    BY DEF TableInv, TableTypes
  <2>2. Len(bytes) \in Nat
    BY <2>1
  <2> QED
    BY <2>1, <2>2
<1>3. /\ OffsetLimit \in Nat /\ MaxTableSize \in Nat /\ MaxTableSize <= OffsetLimit \div 2
      /\ 0 \in 0..(OffsetLimit - 1)
  <2>1. OffsetLimit \in Nat /\ MaxTableSize \in 1..(OffsetLimit \div 2)
    BY TableAssumption DEF TableAssumption
  <2> QED
    BY <2>1
<1>4. AddedSize(str) = size + Len(str) + 1 /\ AddedSize(str) \in Nat /\ AddedSize(str) <= MaxTableSize
  BY <1>1, <1>2 DEF AddedSize, Add
<1>5. CASE AddFails(str)
  <2>1. PICK capacity \in Capacities(AddedSize(str)) :
          /\ bytes' = Grown(bytes, capacity)
          /\ block' = IF capacity = Len(bytes) THEN block ELSE block + 1
    BY <1>5 DEF AddFails
  <2>2. capacity \in Nat /\ Len(bytes) <= capacity
    BY <1>2, <1>4, CapacitiesGrow
  <2>3. /\ bytes' \in Seq(TableBytes) /\ Len(bytes') = capacity
        /\ \A k \in 1..Len(bytes) : bytes'[k] = bytes[k]
    BY <1>2, <2>1, <2>2, GrownKeeps
  <2>4. /\ size' = size /\ viewed' = viewed
        /\ added' = Append(added, [str |-> str, at |-> 0, ok |-> FALSE])
    BY <1>5 DEF AddFails
  <2>5. /\ size' \in 1..Len(bytes') /\ size' <= MaxTableSize /\ size <= size' /\ bytes'[size'] = NUL
        /\ \A k \in 1..size : bytes'[k] = bytes[k]
    BY <1>2, <2>2, <2>3, <2>4
  <2>6. block' = block \/ block' = block + 1
    BY <2>1
  <2>7. TableTypes'
    BY <1>3, <2>3, <2>4, <2>5, <2>6, TableTypesStep
  <2> QED
    BY <2>4, <2>5, <2>6, <2>7, TableStep
<1>6. CASE AddCopies(str)
  <2> DEFINE capacity == CapacityFor(AddedSize(str))
             room == Grown(bytes, capacity)
  <2>1. capacity \in Nat /\ AddedSize(str) <= capacity /\ Len(bytes) <= capacity
    BY <1>2, <1>4, CapacityEnough
  <2>2. /\ room \in Seq(TableBytes) /\ Len(room) = capacity
        /\ \A k \in 1..Len(bytes) : room[k] = bytes[k]
    <3> HIDE DEF capacity
    <3> QED BY <1>2, <2>1, GrownKeeps
  <2>3. /\ bytes' = [n \in DOMAIN room |->
                       IF n \in (size + 1)..(size + Len(str)) THEN str[n - size]
                       ELSE IF n = size + Len(str) + 1 THEN NUL ELSE room[n]]
        /\ block' = IF Len(room) = Len(bytes) THEN block ELSE block + 1
        /\ size' = AddedSize(str) /\ viewed' = viewed /\ str # <<>>
        /\ added' = Append(added, [str |-> str, at |-> size % OffsetLimit, ok |-> TRUE])
    BY <1>6 DEF AddCopies
  <2> HIDE DEF room, capacity
  <2>4. DOMAIN room = 1..capacity
    BY <2>2
  <2>5. \A n \in 1..capacity :
          (IF n \in (size + 1)..(size + Len(str)) THEN str[n - size]
           ELSE IF n = size + Len(str) + 1 THEN NUL ELSE room[n]) \in TableBytes
    <3>1. SUFFICES ASSUME NEW n \in 1..capacity
                   PROVE  (IF n \in (size + 1)..(size + Len(str)) THEN str[n - size]
                           ELSE IF n = size + Len(str) + 1 THEN NUL ELSE room[n]) \in TableBytes
      OBVIOUS
    <3>2. n \in (size + 1)..(size + Len(str)) => str[n - size] \in TableBytes
      <4>1. \A k \in 1..Len(str) : str[k] \in Characters
        BY <1>1
      <4>2. n \in (size + 1)..(size + Len(str)) => n - size \in 1..Len(str)
        BY <1>1, <1>2, <2>1
      <4> QED
        BY <4>1, <4>2 DEF TableBytes
    <3>3. room[n] \in TableBytes
      BY <2>1, <2>2
    <3>4. NUL \in TableBytes
      BY DEF TableBytes
    <3> QED
      BY <3>2, <3>3, <3>4
  <2>6. bytes' \in Seq(TableBytes) /\ Len(bytes') = capacity
    BY <2>1, <2>3, <2>4, <2>5
  <2>7. \A k \in 1..size : bytes'[k] = bytes[k]
    <3>1. \A k \in 1..size : /\ k \in 1..capacity /\ k \in 1..Len(bytes)
                             /\ k \notin (size + 1)..(size + Len(str)) /\ k # size + Len(str) + 1
      BY <1>1, <1>2, <2>1
    <3> QED
      BY <2>2, <2>3, <2>4, <3>1
  <2>8. \A k \in 1..Len(str) : bytes'[size + k] = str[k]
    <3>1. \A k \in 1..Len(str) : /\ size + k \in 1..capacity /\ size + k \in (size + 1)..(size + Len(str))
                                 /\ (size + k) - size = k
      BY <1>1, <1>2, <1>4, <2>1
    <3> QED
      BY <2>3, <2>4, <3>1
  <2>9. bytes'[size + Len(str) + 1] = NUL
    <3>1. size + Len(str) + 1 \in 1..capacity /\ size + Len(str) + 1 \notin (size + 1)..(size + Len(str))
      BY <1>1, <1>2, <1>4, <2>1
    <3> QED
      BY <2>3, <2>4, <3>1
  <2>10. size % OffsetLimit = size /\ size \in 0..(OffsetLimit - 1)
    <3>1. size < OffsetLimit
      BY <1>1, <1>2, <1>3, <1>4
    <3> QED
      BY <1>2, <1>3, <3>1
  <2>11. /\ size' = size + Len(str) + 1 /\ size' \in 1..Len(bytes') /\ size' <= MaxTableSize
         /\ size <= size' /\ bytes'[size'] = NUL
    <3>1. size' = size + Len(str) + 1
      BY <1>4, <2>3
    <3> QED
      BY <1>1, <1>2, <1>4, <2>1, <2>6, <2>9, <3>1
  <2>12. StoredIn(bytes', size', str, size)
    <3>1. bytes'[size] = NUL /\ size \in Nat \ {0} /\ size + Len(str) < size'
      BY <1>1, <1>2, <2>7, <2>11
    <3> QED
      BY <2>8, <2>9, <3>1 DEF StoredIn
  <2>13. block' = block \/ block' = block + 1
    BY <2>3
  <2>14. added' = Append(added, [str |-> str, at |-> size, ok |-> TRUE])
    BY <2>3, <2>10
  <2>15. TableTypes'
    BY <2>3, <2>6, <2>10, <2>11, <2>13, <2>14, TableTypesStep
  <2>16. \A at : at = size /\ StoredIn(bytes', size', str, size) => StoredIn(bytes', size', str, at)
    OBVIOUS
  <2> QED
    BY <2>3, <2>7, <2>11, <2>12, <2>13, <2>14, <2>15, TableStep
<1>7. CASE AddEmpty(str)
  <2>1. /\ str = <<>> /\ added' = Append(added, [str |-> str, at |-> 0, ok |-> TRUE])
        /\ bytes' = bytes /\ size' = size /\ block' = block /\ viewed' = viewed
    BY <1>7 DEF AddEmpty
  <2>2. TableTypes'
    BY <1>2, <1>3, <2>1, TableTypesStep
  <2>3. size <= size' /\ bytes'[size'] = NUL /\ \A k \in 1..size : bytes'[k] = bytes[k]
    BY <1>2, <2>1
  <2> QED
    BY <2>1, <2>2, <2>3, TableStep
<1> QED
  BY <1>5, <1>6, <1>7 DEF Add

LEMMA ViewTableOK == TableInv /\ ViewTable => TableInv'
<1> SUFFICES ASSUME TableInv, ViewTable
             PROVE  TableInv'
  OBVIOUS
<1>1. /\ viewed'.block = block /\ viewed'.bytes = bytes /\ viewed'.size = size
      /\ bytes' = bytes /\ size' = size /\ block' = block /\ added' = added
  BY DEF ViewTable
<1>2. size <= OffsetLimit \div 2
  <2>1. size <= MaxTableSize /\ size \in Nat
    <3>1. bytes \in Seq(TableBytes) /\ size \in 1..Len(bytes) /\ size <= MaxTableSize
      BY DEF TableInv, TableTypes
    <3>2. Len(bytes) \in Nat
      BY <3>1
    <3> QED
      BY <3>1, <3>2
  <2>2. MaxTableSize \in 1..(OffsetLimit \div 2) /\ OffsetLimit \in Nat
    BY TableAssumption DEF TableAssumption
  <2> QED
    BY <2>1, <2>2
<1>3. TableTypes'
  BY <1>1, <1>2 DEF TableInv, TableTypes
<1>4. block \in Nat /\ size \in Int
  <2>1. bytes \in Seq(TableBytes) /\ size \in 1..Len(bytes) /\ block \in Nat
    BY DEF TableInv, TableTypes
  <2> QED
    BY <2>1
<1>5. viewed'.block <= block' /\ viewed'.size <= size'
  BY <1>1, <1>4
<1> QED
  BY <1>1, <1>3, <1>5 DEF TableInv

LEMMA ViewForeignOK == TableInv /\ ViewForeign => TableInv'
<1> SUFFICES ASSUME TableInv, NEW t \in ForeignTables,
                    viewed' = [block |-> Foreign, bytes |-> t, size |-> Len(t)],
                    UNCHANGED <<bytes, size, block, added>>
             PROVE  TableInv'
  BY DEF ViewForeign
<1>1. t \in Seq(TableBytes) /\ Len(t) \in 1..(OffsetLimit \div 2) /\ OffsetLimit \in Nat
  BY TableAssumption DEF TableAssumption
<1>2. viewed'.block = Foreign /\ viewed'.bytes = t /\ viewed'.size = Len(t)
  OBVIOUS
<1>3. Len(t) \in 1..Len(t) /\ Len(t) <= OffsetLimit \div 2
  BY <1>1
<1>4. TableTypes'
  BY <1>1, <1>2, <1>3 DEF TableInv, TableTypes
<1>5. block \in Nat
  BY DEF TableInv, TableTypes
<1>6. viewed'.block <= block' /\ viewed'.block # block'
  BY <1>2, <1>5 DEF Foreign
<1> QED
  BY <1>4, <1>6 DEF TableInv

LEMMA TableUnchanged == TableInv /\ UNCHANGED tableVars => TableInv'
BY DEF TableInv, TableTypes, tableVars, StoredIn

-----------------------------------------------------------------------------
(***************************************************************************)
(* The byte orders.  A value that was read digit by digit has these digits.*)
(***************************************************************************)
LEMMA Quotient ==
  ASSUME NEW a \in Nat, NEW b \in Nat \ {0}, NEW q \in Nat, NEW r \in 0..(b - 1), a = b * q + r
  PROVE  a \div b = q /\ a % b = r
<1> DEFINE d == a \div b
           m == a % b
<1>1. d \in Nat /\ m \in 0..(b - 1) /\ a = b * d + m
  BY DivMod
<1> HIDE DEF d, m
<1>2. \A x, y \in Nat : x < y => b * x + b <= b * y
  <2> SUFFICES ASSUME NEW x \in Nat, NEW y \in Nat, x < y
               PROVE  b * x + b <= b * y
    OBVIOUS
  <2>1. PICK k \in Nat : y = x + 1 + k
    <3>1. y - x - 1 \in Nat /\ y = x + 1 + (y - x - 1)
      OBVIOUS
    <3> QED BY <3>1
  <2>2. b * y = b * x + b + b * k
    BY <2>1
  <2>3. b * k \in Nat /\ b * x \in Nat
    OBVIOUS
  <2> QED
    BY <2>2, <2>3
<1>3. b * d \in Nat /\ b * q \in Nat
  BY <1>1
<1>4. ~(d < q) /\ ~(q < d)
  BY <1>1, <1>2, <1>3
<1>5. d = q
  BY <1>1, <1>4
<1>6. m = r
  BY <1>1, <1>3, <1>5
<1> QED
  BY <1>5, <1>6 DEF d, m

\* One digit more in both.
LEMMA QuotientStep ==
  ASSUME NEW x \in Nat, NEW b \in Nat \ {0}, NEW c \in Nat \ {0}, NEW d \in 0..(c - 1)
  PROVE  (x * c + d) \div (c * b) = x \div b
<1> DEFINE q == x \div b
           r == x % b
<1>1. q \in Nat /\ r \in 0..(b - 1) /\ x = b * q + r
  BY DivMod
<1> HIDE DEF q, r
<1>2. c * b \in Nat \ {0} /\ r * c \in Nat /\ x * c \in Nat
  BY <1>1
<1>3. x * c + d = (c * b) * q + (r * c + d)
  <2>1. x * c = (b * q) * c + r * c
    BY <1>1
  <2>2. (b * q) * c = (c * b) * q
    BY <1>1
  <2> DEFINE y == x * c
             z == (b * q) * c
             t == r * c
             u == (c * b) * q
  <2>3. y = z + t /\ z = u /\ t \in Nat
    BY <1>2, <2>1, <2>2
  <2>4. u \in Nat
    BY <1>1, <1>2
  <2> HIDE DEF y, z, t, u
  <2>5. y + d = u + (t + d)
    BY <2>3, <2>4
  <2> QED
    BY <2>5 DEF y, t, u
<1>4. r * c + d \in 0..(c * b - 1)
  <2>1. b - 1 - r \in Nat /\ (b - 1 - r) * c \in Nat
    BY <1>1
  <2>2. (b - 1 - r) * c = c * b - c - r * c
    BY <1>1
  <2> QED
    BY <1>2, <2>1, <2>2
<1>5. x * c + d \in Nat
  BY <1>2
<1> QED
  BY <1>1, <1>2, <1>3, <1>4, <1>5, Quotient DEF q

LEMMA Base == ByteLimit \in Nat \ {0, 1} /\ DataLength \in Nat
BY EndianAssumption DEF EndianAssumption

LEMMA Powers ==
  /\ Power[0] = 1
  /\ \A k \in 0..7 : Power[k + 1] = ByteLimit * Power[k]
  /\ \A k \in 0..8 : Power[k] \in Nat \ {0}
<1> DEFINE T == Nat \ {0}
           G == [x \in T |-> [n \in Int |-> ByteLimit * x]]
           Rhs(f) == [k \in 0..8 |-> IF k = 0 THEN 1 ELSE ByteLimit * f[k - 1]]
           power == CHOOSE f : f = Rhs(f)
<1>1. 0 \in Int /\ 8 \in Int /\ 1 \in T
  OBVIOUS
<1>2. \A x \in T : ByteLimit * x \in T
  BY Base
<1>3. G \in [T -> [Int -> T]]
  BY <1>2
<1>4. PICK f \in [0..8 -> T] : Recursive(f, 0, 8, 1, G)
  <2> HIDE DEF G, T
  <2> QED BY <1>1, <1>3, RecursionExists, Zenon
<1>5. f = Rhs(f)
  <2>1. SUFFICES ASSUME NEW k \in 0..8
                 PROVE  f[k] = IF k = 0 THEN 1 ELSE ByteLimit * f[k - 1]
    BY <1>4
  <2>2. k \in Int /\ (k # 0 => k - 1 \in 0..8)
    OBVIOUS
  <2>3. k # 0 => f[k - 1] \in T
    <3> HIDE DEF T
    <3> QED BY <1>4, <2>2
  <2>4. \A x \in T, n \in Int : G[x][n] = ByteLimit * x
    OBVIOUS
  <2> HIDE DEF G, T
  <2> QED
    BY <1>4, <2>2, <2>3, <2>4 DEF Recursive
<1>6. power = Rhs(power)
  BY <1>5
<1>7. Power = power
  BY DEF Power
<1> HIDE DEF power, G
<1>8. power[0] = 1 /\ \A k \in 0..7 : power[k + 1] = ByteLimit * power[k]
  <2>1. \A k \in 0..8 : power[k] = IF k = 0 THEN 1 ELSE ByteLimit * power[k - 1]
    BY <1>6
  <2>2. \A k \in 0..7 : k + 1 \in 0..8 /\ k + 1 # 0 /\ (k + 1) - 1 = k
    OBVIOUS
  <2> QED
    BY <2>1, <2>2
<1>9. \A k \in 0..8 : power[k] \in T
  <2> DEFINE S == {k \in 0..8 : power[k] \in T}
  <2>1. 0 \in S
    BY <1>1, <1>8
  <2>2. ASSUME NEW k \in 0..(8 - 1), k \in S
        PROVE  k + 1 \in S
    <3>1. k \in 0..7 /\ k + 1 \in 0..8 /\ power[k] \in T
      BY <2>2
    <3> HIDE DEF T
    <3> QED
      BY <1>2, <1>8, <3>1
  <2>3. \A k \in 0..8 : k \in S
    <3> HIDE DEF S
    <3> QED BY <1>1, <2>1, <2>2, IntervalInduction, Zenon
  <2> QED
    BY <2>3
<1> QED
  BY <1>7, <1>8, <1>9

\* What the first n bytes have come to.
LEMMA BigValues ==
  ASSUME NEW w \in Nat, NEW bs \in Seq(0..(ByteLimit - 1)), Len(bs) = w
  PROVE  \E v \in [0..w -> Nat] :
           /\ ParseBig(bs) = v[w] /\ v[0] = 0
           /\ \A n \in 1..w : v[n] = v[n - 1] * ByteLimit + bs[n]
<1> DEFINE T == Nat
           G == [x \in T |-> [n \in Int |-> IF n \in 1..w THEN x * ByteLimit + bs[n] ELSE x]]
           Rhs(f) == [n \in 0..w |-> IF n = 0 THEN 0 ELSE f[n - 1] * ByteLimit + bs[n]]
           value == CHOOSE f : f = Rhs(f)
<1>1. 0 \in Int /\ w \in Int /\ 0 \in T
  OBVIOUS
<1>2. \A n \in 1..w : bs[n] \in Nat
  BY Base
<1>3. G \in [T -> [Int -> T]]
  <2>1. \A x \in T, n \in 1..w : x * ByteLimit + bs[n] \in T
    BY <1>2, Base
  <2> QED
    BY <2>1
<1>4. PICK f \in [0..w -> T] : Recursive(f, 0, w, 0, G)
  <2> HIDE DEF G, T
  <2> QED BY <1>1, <1>3, RecursionExists, Zenon
<1>5. f = Rhs(f)
  <2>1. SUFFICES ASSUME NEW n \in 0..w
                 PROVE  f[n] = IF n = 0 THEN 0 ELSE f[n - 1] * ByteLimit + bs[n]
    BY <1>4
  <2>2. n \in Int /\ (n # 0 => n - 1 \in 0..w /\ n \in 1..w)
    OBVIOUS
  <2>3. n # 0 => f[n - 1] \in T
    <3> HIDE DEF T
    <3> QED BY <1>4, <2>2
  <2>4. \A x \in T, k \in Int : k \in 1..w => G[x][k] = x * ByteLimit + bs[k]
    OBVIOUS
  <2> HIDE DEF G, T
  <2> QED
    BY <1>4, <2>2, <2>3, <2>4 DEF Recursive
<1>6. value = Rhs(value)
  BY <1>5
<1>7. ParseBig(bs) = value[w]
  BY DEF ParseBig
<1> HIDE DEF value, G
<1>8. value[0] = 0 /\ \A n \in 1..w : value[n] = value[n - 1] * ByteLimit + bs[n]
  <2>1. \A n \in 0..w : value[n] = IF n = 0 THEN 0 ELSE value[n - 1] * ByteLimit + bs[n]
    BY <1>6
  <2>2. 0 \in 0..w /\ \A n \in 1..w : n \in 0..w /\ n # 0
    OBVIOUS
  <2> QED
    BY <2>1, <2>2
<1>9. \A n \in 0..w : value[n] \in T
  <2> DEFINE S == {n \in 0..w : value[n] \in T}
  <2>1. 0 \in S
    BY <1>1, <1>8
  <2>2. ASSUME NEW n \in 0..(w - 1), n \in S
        PROVE  n + 1 \in S
    <3>1. n + 1 \in 1..w /\ (n + 1) - 1 = n /\ value[n] \in T /\ n + 1 \in 0..w
      BY <2>2
    <3>2. value[n + 1] = value[n] * ByteLimit + bs[n + 1] /\ bs[n + 1] \in Nat
      BY <1>2, <1>8, <3>1
    <3>3. \A x \in T, y \in Nat : x * ByteLimit + y \in T
      BY Base, SMTT(60)
    <3> HIDE DEF T
    <3> QED
      BY <3>1, <3>2, <3>3
  <2>3. \A n \in 0..w : n \in S
    <3> HIDE DEF S
    <3> QED BY <1>1, <2>1, <2>2, IntervalInduction, Zenon
  <2> QED
    BY <2>3
<1>10. value \in [0..w -> Nat]
  <2>1. value = [n \in 0..w |-> value[n]]
    BY <1>6
  <2> QED
    BY <1>9, <2>1
<1> QED
  BY <1>7, <1>8, <1>10

\* The digits of the value are the bytes, the first the highest.
LEMMA BigDigits ==
  ASSUME NEW w \in 0..8, NEW bs \in Seq(0..(ByteLimit - 1)), Len(bs) = w
  PROVE  /\ ParseBig(bs) \in Nat /\ ParseBig(bs) < Power[w]
         /\ \A n \in 1..w : Digit(ParseBig(bs), w - n) = bs[n]
<1> DEFINE B == ByteLimit
<1>1. PICK v \in [0..w -> Nat] :
        /\ ParseBig(bs) = v[w] /\ v[0] = 0
        /\ \A n \in 1..w : v[n] = v[n - 1] * B + bs[n]
  <2>1. w \in Nat
    OBVIOUS
  <2> QED
    BY <2>1, BigValues
<1>2. B \in Nat \ {0, 1} /\ \A n \in 1..w : bs[n] \in 0..(B - 1)
  BY Base
<1> HIDE DEF B
<1>3. \A n \in 0..w : v[n] \in Nat /\ n \in 0..8
  OBVIOUS
<1>4. /\ \A k \in 0..8 : Power[k] \in Nat \ {0}
      /\ \A k \in 0..7 : Power[k + 1] = B * Power[k]
      /\ Power[0] = 1
  BY Powers DEF B
<1>5. \A n \in 0..w : v[n] < Power[n]
  <2> DEFINE S == {n \in 0..w : v[n] < Power[n]}
  <2>1. 0 \in S
    BY <1>1, <1>4
  <2>2. ASSUME NEW n \in 0..(w - 1), n \in S
        PROVE  n + 1 \in S
    <3>1. n + 1 \in 1..w /\ (n + 1) - 1 = n /\ n + 1 \in 0..w /\ n \in 0..7 /\ n \in 0..w
      BY <2>2
    <3> DEFINE x == v[n]
               b == bs[n + 1]
               p == Power[n]
    <3>2. v[n + 1] = x * B + b /\ Power[n + 1] = B * p
      BY <1>1, <1>4, <3>1
    <3>3. x \in Nat /\ p \in Nat /\ x < p /\ b \in 0..(B - 1)
      BY <1>2, <1>3, <1>4, <2>2, <3>1
    <3> HIDE DEF x, b, p
    <3>4. p - 1 - x \in Nat /\ (p - 1 - x) * B \in Nat
      BY <1>2, <3>3
    <3>5. (p - 1 - x) * B = B * p - B - x * B
      BY <1>2, <3>3
    <3>6. x * B \in Nat /\ B * p \in Nat
      BY <1>2, <3>3
    <3>7. x * B + b < B * p
      BY <1>2, <3>3, <3>4, <3>5, <3>6
    <3> QED
      BY <3>1, <3>2, <3>7
  <2>3. \A n \in 0..w : n \in S
    <3>1. 0 \in Int /\ w \in Int
      OBVIOUS
    <3> HIDE DEF S
    <3> QED BY <2>1, <2>2, <3>1, IntervalInduction, Zenon
  <2> QED
    BY <2>3
\* The bytes behind the first n do not change what these have come to.
<1>6. ASSUME NEW n \in 1..w
      PROVE  v[w] \div Power[w - n] = v[n]
  <2> DEFINE S == {d \in 0..(w - n) : v[n + d] \div Power[d] = v[n]}
  <2>1. 0 \in S
    <3>1. n + 0 = n /\ 0 \in 0..(w - n) /\ n \in 0..w
      OBVIOUS
    <3>2. \A x \in Nat : x \div 1 = x
      OBVIOUS
    <3> QED
      BY <1>3, <1>4, <3>1, <3>2
  <2>2. ASSUME NEW d \in 0..((w - n) - 1), d \in S
        PROVE  d + 1 \in S
    <3>1. /\ d \in 0..7 /\ d \in 0..8 /\ d + 1 \in 0..(w - n) /\ n + (d + 1) \in 1..w
          /\ (n + (d + 1)) - 1 = n + d /\ n + d \in 0..w
      BY <2>2
    <3> DEFINE x == v[n + d]
               b == bs[n + (d + 1)]
               p == Power[d]
    <3>2. v[n + (d + 1)] = x * B + b /\ Power[d + 1] = B * p
      BY <1>1, <1>4, <3>1
    <3>3. x \in Nat /\ p \in Nat \ {0} /\ b \in 0..(B - 1)
      BY <1>2, <1>3, <1>4, <3>1
    <3>4. x \div p = v[n]
      BY <2>2
    <3> HIDE DEF x, b, p
    <3>5. (x * B + b) \div (B * p) = x \div p
      BY <1>2, <3>3, QuotientStep
    <3> QED
      BY <3>1, <3>2, <3>4, <3>5
  <2>3. \A d \in 0..(w - n) : d \in S
    <3>1. 0 \in Int /\ w - n \in Int
      OBVIOUS
    <3> HIDE DEF S
    <3> QED BY <2>1, <2>2, <3>1, IntervalInduction, Zenon
  <2>4. w - n \in 0..(w - n) /\ n + (w - n) = w
    OBVIOUS
  <2> QED
    BY <2>3, <2>4
<1>7. ASSUME NEW n \in 1..w
      PROVE  Digit(v[w], w - n) = bs[n]
  <2>1. v[n] = v[n - 1] * B + bs[n] /\ n - 1 \in 0..w /\ n \in 0..w
    BY <1>1
  <2> DEFINE x == v[n - 1]
             b == bs[n]
             a == v[n]
  <2>2. x \in Nat /\ b \in 0..(B - 1) /\ a \in Nat /\ a = x * B + b
    BY <1>2, <1>3, <2>1
  <2> HIDE DEF x, b, a
  <2>3. a = B * x + b
    BY <1>2, <2>2
  <2>4. a % B = b
    BY <1>2, <2>2, <2>3, Quotient
  <2>5. v[w] \div Power[w - n] = a
    BY <1>6 DEF a
  <2> QED
    BY <2>4, <2>5 DEF Digit, B, b
<1>8. w \in 0..w
  OBVIOUS
<1> QED
  BY <1>1, <1>3, <1>5, <1>7, <1>8

\* What a writer of the same order stores for the value are these bytes.
LEMMA ValueStored ==
  ASSUME NEW w \in 0..8, NEW bs \in Seq(0..(ByteLimit - 1)), Len(bs) = w,
         NEW order \in {"little", "big"}, NEW v,
         v = IF order = "little" THEN ParseLittle(bs) ELSE ParseBig(bs)
  PROVE  v \in Nat /\ v < Power[w] /\ Stored(v, order, w) = bs
<1> DEFINE D == 0..(ByteLimit - 1)
<1>1. bs = [n \in 1..w |-> bs[n]]
  <2> HIDE DEF D
  <2>1. bs \in Seq(D)
    BY DEF D
  <2> QED BY <2>1
<1>2. CASE order = "big"
  <2>1. v = ParseBig(bs)
    BY <1>2
  <2>2. v \in Nat /\ v < Power[w] /\ \A n \in 1..w : Digit(v, w - n) = bs[n]
    BY <2>1, BigDigits
  <2>3. Stored(v, order, w) = [n \in 1..w |-> bs[n]]
    BY <1>2, <2>2 DEF Stored
  <2> QED
    BY <1>1, <2>2, <2>3
<1>3. CASE order = "little"
  <2> DEFINE rs == [n \in 1..w |-> bs[w - n + 1]]
  <2>1. v = ParseBig(rs)
    BY <1>3 DEF ParseLittle, Reverse
  <2>2. rs \in Seq(D) /\ Len(rs) = w
    <3>1. \A n \in 1..w : w - n + 1 \in 1..w
      OBVIOUS
    <3>2. \A n \in 1..w : bs[n] \in D
      <4> HIDE DEF D
      <4>1. bs \in Seq(D)
        BY DEF D
      <4> QED BY <4>1
    <3>3. w \in Nat
      OBVIOUS
    <3> HIDE DEF D
    <3> QED
      BY <3>1, <3>2, <3>3
  <2> HIDE DEF rs
  <2>3. v \in Nat /\ v < Power[w] /\ \A n \in 1..w : Digit(v, w - n) = rs[n]
    BY <2>1, <2>2, BigDigits
  <2>4. \A n \in 1..w : Digit(v, n - 1) = bs[n]
    <3> TAKE n \in 1..w
    <3>1. w - n + 1 \in 1..w /\ w - (w - n + 1) = n - 1 /\ w - (w - n + 1) + 1 = n
      OBVIOUS
    <3>2. rs[w - n + 1] = bs[n]
      BY <3>1 DEF rs
    <3> QED
      BY <2>3, <3>1, <3>2
  <2>5. Stored(v, order, w) = [n \in 1..w |-> bs[n]]
    BY <1>3, <2>4 DEF Stored
  <2> QED
    BY <1>1, <2>3, <2>5
<1> QED
  BY <1>2, <1>3

\* The signed value has the same bits.
LEMMA SignedBits ==
  ASSUME NEW w \in 0..8, NEW u \in Nat, u < Power[w]
  PROVE  Signed(u, w) \in Int /\ Signed(u, w) % Power[w] = u /\ 2 * Signed(u, w) < Power[w]
<1> DEFINE p == Power[w]
           h == p \div 2
<1>1. p \in Nat \ {0}
  BY Powers
<1>2. Signed(u, w) = IF u >= h THEN u - p ELSE u
  BY DEF Signed
<1> HIDE DEF p
<1>3. h \in Nat /\ 2 * h <= p
  BY <1>1
<1> HIDE DEF h
<1>4. u < p
  BY DEF p
<1>5. CASE u >= h
  <2>1. Signed(u, w) = u - p
    BY <1>2, <1>5
  <2>2. u - p \in Int /\ 2 * (u - p) < p
    BY <1>1, <1>4
  <2>3. (u - p) % p = u
    <3>1. \A a \in Int, b \in Nat \ {0} :
            a \div b \in Int /\ a % b \in 0..(b - 1) /\ a = b * (a \div b) + (a % b)
      OBVIOUS
    <3> DEFINE a == u - p
               q == a \div p
               r == a % p
    <3>2. q \in Int /\ r \in 0..(p - 1) /\ u - p = p * q + r
      <4>1. a \in Int
        BY <1>1
      <4> HIDE DEF a
      <4>2. q \in Int /\ r \in 0..(p - 1) /\ a = p * q + r
        BY <1>1, <3>1, <4>1
      <4> QED
        BY <4>2 DEF a
    <3> HIDE DEF q, r
    <3>3. q = -1
      <4>1. p * q \in Int /\ -p <= p * q + r /\ p * q + r < 0
        BY <1>1, <1>4, <3>2
      <4>2. q < 0
        <5>1. q >= 0 => p * q >= 0
          BY <1>1, <3>2
        <5> QED BY <3>2, <4>1, <5>1
      <4>3. q > -2
        <5>1. q <= -2 => p * q <= -2 * p
          <6> SUFFICES ASSUME q <= -2
                       PROVE  p * q <= -2 * p
            OBVIOUS
          <6>1. -2 - q \in Nat /\ p * (-2 - q) \in Nat
            BY <1>1, <3>2
          <6>2. p * (-2 - q) = -2 * p - p * q
            BY <1>1, <3>2
          <6> QED
            BY <1>1, <4>1, <6>1, <6>2
        <5> QED BY <1>1, <3>2, <4>1, <5>1
      <4> QED
        BY <3>2, <4>2, <4>3
    <3>4. p * q = -p
      BY <1>1, <3>3
    <3>5. r = u
      BY <1>1, <3>2, <3>4
    <3> QED
      BY <3>5 DEF r
  <2> QED
    BY <2>1, <2>2, <2>3 DEF p
<1>6. CASE ~(u >= h)
  <2>1. Signed(u, w) = u
    BY <1>2, <1>6
  <2>2. 2 * u < p
    BY <1>1, <1>3, <1>6
  <2>3. u = p * 0 + u /\ u \in 0..(p - 1)
    BY <1>1, <1>4
  <2>4. u % p = u
    BY <1>1, <2>3, Quotient
  <2> QED
    BY <2>1, <2>2, <2>4 DEF p
<1> QED
  BY <1>5, <1>6

EndianInv ==
  /\ data \in [1..DataLength -> 0..(ByteLimit - 1)]
  /\ position \in Nat
  /\ dynamic \in {"unset", "little", "big"} /\ native \in {"unset", "little", "big"}
  /\ FieldsAsStored

LEMMA EndianInitOK == EndianInit => EndianInv
BY DEF EndianInit, EndianInv, FieldsAsStored, Nothing

\* The bytes of a field that is inside the data.
LEMMA FieldBytes ==
  ASSUME data \in [1..DataLength -> 0..(ByteLimit - 1)], position \in Nat,
         NEW w \in 1..8, position + w <= DataLength
  PROVE  Field(w) \in Seq(0..(ByteLimit - 1)) /\ Len(Field(w)) = w
<1> DEFINE D == 0..(ByteLimit - 1)
<1>1. DataLength \in Nat /\ w \in Nat
  BY Base
<1>2. data \in [1..DataLength -> D]
  OBVIOUS
<1> HIDE DEF D
<1>3. data \in Seq(D) /\ Len(data) = DataLength
  BY <1>1, <1>2
<1>4. \A n \in (position + 1)..(position + w) : n \in 1..Len(data)
  BY <1>1, <1>3
<1>5. (position + w) - (position + 1) + 1 = w
  BY <1>1
<1>6. position + 1 \in 1..(Len(data) + 1) /\ position + w \in 0..Len(data)
  BY <1>1, <1>3
<1>7. Field(w) \in Seq(D) /\ Len(Field(w)) = w
  BY <1>1, <1>3, <1>4, <1>5, <1>6 DEF Field
<1> QED
  BY <1>7 DEF D

LEMMA ParseOK ==
  ASSUME EndianInv, NEW order \in {"little", "big"}, NEW w \in Widths, Parse(order, w)
  PROVE  EndianInv'
<1> DEFINE v == Value(order, w)
           s == Signed(v, w)
           bs == Field(w)
<1>1. /\ position + w <= DataLength /\ position' = position + w /\ data' = data
      /\ last' = [at |-> position, width |-> w, order |-> order, value |-> v, signed |-> s]
      /\ dynamic' = dynamic /\ native' = native
  BY DEF Parse
<1>2. w \in 0..8 /\ w \in 1..8 /\ w \in Nat /\ position \in Nat
  BY DEF Widths, EndianInv
<1>3. bs \in Seq(0..(ByteLimit - 1)) /\ Len(bs) = w
  BY <1>1, <1>2, FieldBytes DEF EndianInv
<1>4. v = IF order = "little" THEN ParseLittle(bs) ELSE ParseBig(bs)
  BY DEF Value
<1> HIDE DEF v, bs
<1>5. v \in Nat /\ v < Power[w] /\ Stored(v, order, w) = bs
  BY <1>2, <1>3, <1>4, ValueStored, ZenonT(60)
<1>6. s % Power[w] = v /\ 2 * s < Power[w]
  BY <1>2, <1>5, SignedBits
<1> HIDE DEF s
<1>7. /\ last'.at = position /\ last'.width = w /\ last'.order = order /\ last'.value = v
      /\ last'.signed = s
  BY <1>1
<1>8. Stored(last'.value, last'.order, last'.width) = SubSeq(data', last'.at + 1, last'.at + last'.width)
  BY <1>1, <1>5, <1>7 DEF bs, Field
<1>9. FieldsAsStored'
  BY <1>1, <1>5, <1>6, <1>7, <1>8 DEF FieldsAsStored
<1>10. position' \in Nat
  BY <1>1, <1>2
<1> QED
  BY <1>1, <1>9, <1>10 DEF EndianInv

LEMMA EndianNextOK == EndianInv /\ EndianNext => EndianInv'
<1> SUFFICES ASSUME EndianInv, EndianNext
             PROVE  EndianInv'
  OBVIOUS
<1>1. ASSUME NEW eiData \in 0..3, InitDynamic(eiData)
      PROVE  EndianInv'
  BY <1>1 DEF InitDynamic, EndianInv, FieldsAsStored
<1>2. CASE InitNative
  BY <1>2 DEF InitNative, EndianInv, FieldsAsStored
<1>3. ASSUME NEW w \in Widths, ParseDynamic(w)
      PROVE  EndianInv'
  <2>1. CASE dynamic = "unset"
    <3>1. last' = [Nothing EXCEPT !.at = position] /\ data' = data /\ position' = position
          /\ dynamic' = dynamic /\ native' = native /\ position \in Nat
      BY <1>3, <2>1 DEF ParseDynamic, EndianInv
    <3>2. last'.at = position /\ last'.width = 0 /\ last'.order = "unset"
      BY <3>1 DEF Nothing
    <3> QED
      BY <3>1, <3>2 DEF EndianInv, FieldsAsStored
  <2>2. CASE dynamic # "unset"
    <3>1. Parse(dynamic, w) /\ dynamic \in {"little", "big"}
      BY <1>3, <2>2 DEF ParseDynamic, EndianInv
    <3> QED
      BY <3>1, ParseOK
  <2> QED
    BY <2>1, <2>2
<1>4. ASSUME NEW w \in Widths, ParseNative(w)
      PROVE  EndianInv'
  <2>1. Parse(native, w) /\ native \in {"little", "big"}
    BY <1>4 DEF ParseNative, EndianInv
  <2> QED
    BY <2>1, ParseOK
<1> QED
  BY <1>1, <1>2, <1>3, <1>4 DEF EndianNext

-----------------------------------------------------------------------------
(***************************************************************************)
(* The headers side by side.                                               *)
(***************************************************************************)
HeadersInv == PoolInv /\ ViewInv /\ ManagerInv /\ TableInv /\ EndianInv

LEMMA HeadersInit == Init => HeadersInv
BY PoolInitOK, ViewInitOK, ManagerInitOK, TableInitOK, EndianInitOK DEF Init, HeadersInv

LEMMA HeadersNext == HeadersInv /\ [Next]_vars => HeadersInv'
<1> SUFFICES ASSUME HeadersInv, [Next]_vars
             PROVE  HeadersInv'
  OBVIOUS
<1>1. /\ PoolNext \/ UNCHANGED poolVars
      /\ ViewNext \/ UNCHANGED viewVars
      /\ ManagerNext \/ UNCHANGED managerVars
      /\ TableNext \/ ViewForeign \/ UNCHANGED tableVars
      /\ EndianNext \/ UNCHANGED endianVars
  BY DEF Next, vars, memoryVars
<1>2. PoolInv'
  <2>1. UNCHANGED poolVars => PoolInv'
    BY DEF HeadersInv, PoolInv, PoolSound, AlignedUp, poolVars
  <2> QED
    BY <1>1, <2>1, PoolNextOK DEF HeadersInv
<1>3. ViewInv'
  <2>1. UNCHANGED viewVars => ViewInv'
    BY DEF HeadersInv, ViewInv, ViewsInside, viewVars
  <2> QED
    BY <1>1, <2>1, ViewNextOK DEF HeadersInv
<1>4. ManagerInv'
  <2>1. UNCHANGED managerVars => ManagerInv'
    BY DEF HeadersInv, ManagerInv, Listed, managerVars
  <2> QED
    BY <1>1, <2>1, ManagerNextOK DEF HeadersInv
<1>5. TableInv'
  BY <1>1, AddOK, ViewTableOK, ViewForeignOK, TableUnchanged DEF HeadersInv, TableNext
<1>6. EndianInv'
  <2>1. UNCHANGED endianVars => EndianInv'
    BY DEF HeadersInv, EndianInv, FieldsAsStored, endianVars
  <2> QED
    BY <1>1, <2>1, EndianNextOK DEF HeadersInv
<1> QED
  BY <1>2, <1>3, <1>4, <1>5, <1>6 DEF HeadersInv

\* The invariant from which the rest follows.
THEOREM HeadersInvariant == Spec => []HeadersInv
<1> QED
  BY HeadersInit, HeadersNext, PTL DEF Spec

\* Every variable of the memory utilities and of the string table keeps its type.
THEOREM TypeCorrect == Spec => []TypeOK
<1>1. HeadersInv => TypeOK
  <2> SUFFICES ASSUME HeadersInv
               PROVE  TypeOK
    OBVIOUS
  <2>1. MemoryTypeOK
    BY DEF HeadersInv, PoolInv, ViewInv, ManagerInv, MemoryTypeOK, Record, Slice, SizeT
  <2> QED
    BY <2>1, TableTyped DEF HeadersInv, TypeOK
<1> QED
  BY <1>1, HeadersInvariant, PTL

\* The blocks of a memory pool stay apart, aligned and inside its buffer, for
\* every size of the pool and every alignment that divides half of SIZE_MAX + 1.
THEOREM BlocksApart == Spec => []PoolSound
<1>1. HeadersInv => PoolSound
  BY DEF HeadersInv, PoolInv
<1> QED
  BY <1>1, HeadersInvariant, PTL

\* Whatever size_t values are asked of them, the offset of a view stays inside
\* it; and until a request is granted whose offset and size add up to more than
\* SIZE_MAX, views made of views stay inside the data of the first.
THEOREM ViewsStayInside == Spec => []ViewsInside
<1>1. HeadersInv => ViewsInside
  BY DEF HeadersInv, ViewInv
<1> QED
  BY <1>1, HeadersInvariant, PTL

\* The resource manager lists what it is to release once, and nothing else.
THEOREM ResourcesHeldOnce == Spec => []HeldOnce
<1>1. HeadersInv => HeldOnce
  BY ManagerHoldsOnce DEF HeadersInv
<1> QED
  BY <1>1, HeadersInvariant, PTL

\* It releases nothing that was not registered or was taken back.
THEOREM ManagerReleasesOwn == Spec => OnlyOwnReleased
<1> DEFINE Own == \A r \in Resources : holder'[r] = "nobody" => holder[r] \in {"manager", "nobody"}
<1>1. HeadersInv /\ [Next]_vars => [Own]_managerVars
  <2> SUFFICES ASSUME HeadersInv, [Next]_vars
               PROVE  Own
    OBVIOUS
  <2>1. ManagerNext \/ UNCHANGED managerVars
    BY DEF Next, vars, memoryVars
  <2> QED
    BY <2>1, ReleasesOwn DEF HeadersInv
<1>2. OnlyOwnReleased <=> [][Own]_managerVars
  BY DEF OnlyOwnReleased
<1> HIDE DEF Own
<1> QED
  BY <1>1, <1>2, HeadersInvariant, PTL DEF Spec

\* A name that was added is read and found for good, however the table grows.
THEOREM NamesKept == Spec => []NamesStay
<1>1. HeadersInv => NamesStay
  BY TableNamesStay DEF HeadersInv
<1> QED
  BY <1>1, HeadersInvariant, PTL

\* A view of a string table stays right while the table is not moved.
THEOREM ViewsKept == Spec => []ViewStays
<1>1. HeadersInv => ViewStays
  BY TableViewStays DEF HeadersInv
<1> QED
  BY <1>1, HeadersInvariant, PTL

\* In any table of bytes that starts with the empty string, its last string
\* terminated or not, a search finds the first string of the name, and reading
\* does not pass the end (string_table.h).
THEOREM ViewsReadRight == Spec => []ViewReads
<1>1. HeadersInv => ViewReads
  BY TableReads DEF HeadersInv
<1> QED
  BY <1>1, HeadersInvariant, PTL

\* A field that is read, of any width and in either order, is the number that
\* was stored, signed or not, and the next field begins where it ends.
THEOREM FieldsReadRight == Spec => []FieldsAsStored
<1>1. HeadersInv => FieldsAsStored
  BY DEF HeadersInv, EndianInv
<1> QED
  BY <1>1, HeadersInvariant, PTL
=============================================================================
