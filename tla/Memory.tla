-------------------------------- MODULE Memory --------------------------------
(***************************************************************************)
(* The memory pool, the data view and the resource manager of              *)
(* common/memory.h, each used by one client that follows the comments.     *)
(*                                                                         *)
(* Sizes are size_t: sums are taken modulo SizeLimit.  Objects have sizes  *)
(* that C bounds by PTRDIFF_MAX, and so are the sizes asked of a pool; what*)
(* is asked of a view may be any size_t, such as a field of a file.        *)
(* Addresses are offsets into the pool's buffer and into the data of the   *)
(* first view, modulo SizeLimit too.                                       *)
(***************************************************************************)
EXTENDS Naturals, Sequences, FiniteSets

CONSTANTS
  SizeLimit,     \* 2^64
  Align,         \* 8
  PoolSizes,     \* the sizes a pool is made with
  Sizes,         \* the sizes that are allocated
  Asked,         \* the offsets and sizes asked of a view
  DataSize,      \* the size of the data under the first view
  Resources,     \* what a client may register
  MaxResources,  \* MAX_RESOURCES, 64
  MaxBlocks,     \* bound: blocks handed out between two resets
  NoBuffer       \* a NULL buffer

MaxSize == SizeLimit \div 2 - 1     \* PTRDIFF_MAX
SizeT == 0..(SizeLimit - 1)

MemoryAssumption ==
  /\ Align \in Nat \ {0} /\ SizeLimit \in Nat \ {0} /\ SizeLimit % (2 * Align) = 0
  /\ PoolSizes \subseteq 1..MaxSize /\ Sizes \subseteq 0..MaxSize
  /\ Asked \subseteq SizeT /\ DataSize \in 1..MaxSize
  /\ MaxResources \in Nat /\ MaxBlocks \in Nat
  /\ NoBuffer \notin {"given", "own"} \union Resources

ASSUME MemoryAssumption

VARIABLES
  pool,      \* memory_pool_t
  blocks,    \* what memory_pool_alloc returned since the pool was last reset
  pools,     \* the buffers of memory_pool_create that are not freed
  views,     \* two data_view_t: the start of the data, its size, the offset
  slice,     \* what data_view_read returned last, and from which view
  wrapped,   \* history: a request was granted whose offset and size wrapped
  entries,   \* resource_manager_t.entries
  count,     \* resource_manager_t.count
  holder     \* holder[r]: who has to release resource r

poolVars == <<pool, blocks, pools>>
viewVars == <<views, slice, wrapped>>
managerVars == <<entries, count, holder>>

\* Faulty: a sum is kept in an int.
PlusNarrow(a, b) == (a + b) % (SizeLimit \div 2)

Plus(a, b) == (a + b) % SizeLimit

-----------------------------------------------------------------------------
(***************************************************************************)
(* The pool.                                                               *)
(***************************************************************************)
NoPool == [buffer |-> NoBuffer, capacity |-> 0, used |-> 0, owns |-> FALSE]

\* A client sets up a pool that is new or freed.
PoolInit(size) ==
  /\ pool = NoPool
  /\ pool' = [buffer |-> "given", capacity |-> size, used |-> 0, owns |-> FALSE]
  /\ UNCHANGED <<blocks, pools>>

\* malloc may find nothing; the pool is then as it was.
PoolCreate(size) ==
  /\ pool = NoPool
  /\ \/ UNCHANGED poolVars
     \/ /\ pool' = [buffer |-> "own", capacity |-> size, used |-> 0, owns |-> TRUE]
        /\ pools' = pools + 1
        /\ UNCHANGED blocks

\* (size + 7) & ~7
Aligned(size) == LET s == Plus(size, Align - 1) IN s - (s % Align)

Fits(size) == Plus(pool.used, Aligned(size)) <= pool.capacity

\* NULL is returned, and the pool left alone, when the block does not fit.
PoolAlloc(size) ==
  /\ pool.buffer # NoBuffer /\ size # 0 /\ Cardinality(blocks) < MaxBlocks
  /\ IF Fits(size)
     THEN /\ blocks' = blocks \union {[start |-> pool.used, size |-> size]}
          /\ pool' = [pool EXCEPT !.used = Plus(@, Aligned(size))]
     ELSE UNCHANGED <<blocks, pool>>
  /\ UNCHANGED pools

\* The blocks are given up by the client.
PoolReset == pool' = [pool EXCEPT !.used = 0] /\ blocks' = {} /\ UNCHANGED pools

PoolFree ==
  /\ pools' = IF pool.owns /\ pool.buffer # NoBuffer THEN pools - 1 ELSE pools
  /\ pool' = NoPool /\ blocks' = {}

PoolNext ==
  \/ \E size \in PoolSizes : PoolInit(size) \/ PoolCreate(size)
  \/ \E size \in Sizes : PoolAlloc(size)
  \/ PoolReset \/ PoolFree

-----------------------------------------------------------------------------
(***************************************************************************)
(* Data views: the first is made by data_view_create, and each of the two  *)
(* may be made a subview of the other.                                     *)
(***************************************************************************)
ViewNames == {"one", "two"}
NoSlice == [of |-> "one", start |-> 0, size |-> 0]
View(start, size) == [start |-> start, size |-> size, offset |-> 0]

\* The request for `size` bytes from `offset` on is granted.
Grant(offset, size) == wrapped' = (wrapped \/ offset + size >= SizeLimit)

\* data_view_read: the place of the data, or NULL and nothing moves.
Read(v, size) ==
  LET view == views[v] IN
  /\ Plus(view.offset, size) <= view.size
  /\ views' = [views EXCEPT ![v].offset = Plus(@, size)]
  /\ slice' = [of |-> v, start |-> Plus(view.start, view.offset), size |-> size]
  /\ Grant(view.offset, size)

\* data_view_seek, which is also data_view_rewind when the offset is 0.
Seek(v, offset) ==
  /\ offset <= views[v].size
  /\ views' = [views EXCEPT ![v].offset = offset]
  /\ UNCHANGED <<slice, wrapped>>

MakeSubview(v, w, offset, size) ==
  /\ views' = [views EXCEPT ![w] = View(Plus(views[v].start, offset), size)]
  /\ slice' = IF slice.of = w THEN NoSlice ELSE slice
  /\ Grant(offset, size)

\* Faulty: only the size is compared.
SubviewUnchecked(v, w, offset, size) ==
  v # w /\ size <= views[v].size /\ MakeSubview(v, w, offset, size)

\* data_view_subview of v into w.
Subview(v, w, offset, size) ==
  v # w /\ Plus(offset, size) <= views[v].size /\ MakeSubview(v, w, offset, size)

\* Bound: no view is read or made once a request has wrapped, for pointers may
\* then be outside the data, which C leaves undefined.
ViewNext ==
  \E v, w \in ViewNames, offset, size \in Asked :
    \/ ~wrapped /\ (Read(v, size) \/ Subview(v, w, offset, size))
    \/ Seek(v, offset)

-----------------------------------------------------------------------------
(***************************************************************************)
(* The resource manager.  A resource is the client's until it is           *)
(* registered, and the client's again when it is unregistered.             *)
(***************************************************************************)

\* resource_register_malloc and resource_register_custom, which differ in the
\* function that releases; both refuse when the table is full.
Register(r) ==
  /\ holder[r] = "client" /\ count < MaxResources
  /\ entries' = [entries EXCEPT ![count + 1] = r]
  /\ count' = count + 1
  /\ holder' = [holder EXCEPT ![r] = "manager"]

\* Faulty: the entries behind stay where they are.
UnregisterInPlace(n) ==
  /\ n \in 1..count
  /\ holder' = [holder EXCEPT ![entries[n]] = "client"]
  /\ count' = count - 1
  /\ UNCHANGED entries

\* resource_unregister; the last entry keeps a copy of what was moved.
Unregister(n) ==
  /\ n \in 1..count
  /\ entries' = [k \in DOMAIN entries |-> IF n <= k /\ k < count THEN entries[k + 1] ELSE entries[k]]
  /\ count' = count - 1
  /\ holder' = [holder EXCEPT ![entries[n]] = "client"]

Listed(r) == \E n \in 1..count : entries[n] = r

\* Faulty: all entries are released, not only the first `count`.
ReleaseTable ==
  /\ holder' = [r \in Resources |-> IF \E n \in DOMAIN entries : entries[n] = r THEN "nobody" ELSE holder[r]]
  /\ entries' = [n \in DOMAIN entries |-> NoBuffer]
  /\ count' = 0

\* resource_manager_free clears the entries it releases.
ReleaseAll ==
  /\ holder' = [r \in Resources |-> IF Listed(r) THEN "nobody" ELSE holder[r]]
  /\ entries' = [n \in DOMAIN entries |-> IF n <= count THEN NoBuffer ELSE entries[n]]
  /\ count' = 0

ManagerNext ==
  \/ \E r \in Resources : Register(r)
  \/ \E n \in 1..MaxResources : Unregister(n)
  \/ ReleaseAll

-----------------------------------------------------------------------------
MemoryInit ==
  /\ pool = NoPool /\ blocks = {} /\ pools = 0
  /\ views = [v \in ViewNames |-> View(0, DataSize)] /\ slice = NoSlice /\ wrapped = FALSE
  /\ entries = [n \in 1..MaxResources |-> NoBuffer] /\ count = 0
  /\ holder = [r \in Resources |-> "client"]

-----------------------------------------------------------------------------
(***************************************************************************)
(* Properties.                                                             *)
(***************************************************************************)
\* The types of the variables.
MemoryTypeOK ==
  /\ pool \in [buffer : {NoBuffer, "given", "own"}, capacity : 0..MaxSize, used : 0..(SizeLimit - 1),
               owns : BOOLEAN]
  /\ blocks \subseteq [start : 0..(SizeLimit - 1), size : 1..MaxSize]
  /\ pools \in Nat
  /\ views \in [ViewNames -> [start : SizeT, size : SizeT, offset : SizeT]]
  /\ slice \in [of : ViewNames, start : SizeT, size : SizeT] /\ wrapped \in BOOLEAN
  /\ entries \in [1..MaxResources -> Resources \union {NoBuffer}]
  /\ count \in 0..MaxResources
  /\ holder \in [Resources -> {"client", "manager", "nobody"}]

End(b) == b.start + b.size

\* The blocks a client holds never overlap, are aligned and lie inside the
\* buffer, for every size an object can have: no sum of memory_pool_alloc wraps
\* (memory.h:53-63).  A buffer is freed when, and only when, the pool made it.
PoolSound ==
  /\ \A b \in blocks : b.start % Align = 0 /\ End(b) <= pool.used
  /\ \A b, c \in blocks : b = c \/ End(b) <= c.start \/ End(c) <= b.start
  /\ pool.used <= pool.capacity
  /\ pools = IF pool.buffer = "own" THEN 1 ELSE 0

\* The offset of a view never passes its size, whatever was asked, so that the
\* remaining size does not wrap (memory.h:130-133).  As long as no request was
\* granted whose offset and size add up to more than SIZE_MAX, a view made of
\* views lies inside the data of the first, and what was read inside both.  The
\* condition is needed: the sums of memory.h:120 and 161 wrap, and the code then
\* grants what is outside.
ViewsInside ==
  /\ \A v \in ViewNames : views[v].offset <= views[v].size
  /\ ~wrapped =>
       /\ \A v \in ViewNames : End(views[v]) <= DataSize
       /\ slice # NoSlice => /\ views[slice.of].start <= slice.start
                             /\ End(slice) <= End(views[slice.of])

\* A resource is in the table exactly once while the manager is to release it,
\* and else not at all, however the table was shifted (memory.h:272-287).
HeldOnce ==
  \A r \in Resources :
    Cardinality({n \in 1..count : entries[n] = r}) = IF holder[r] = "manager" THEN 1 ELSE 0

\* The manager never releases what a client has not registered or has taken
\* back, although the table may still hold a copy of it (memory.h:239-268).
OnlyOwnReleased ==
  [][\A r \in Resources : holder'[r] = "nobody" => holder[r] \in {"manager", "nobody"}]_managerVars
=============================================================================
