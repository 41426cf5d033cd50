---------------------------- MODULE ParserProofs ----------------------------
(***************************************************************************)
(* What elf_parse holds and what it has found, for every file and every    *)
(* number of section headers a uint16_t can count.                         *)
(***************************************************************************)
EXTENDS Parser, TLAPS

\* The labels at which the file has been mapped, and the elf_file_t allocated.
Allocated == {"machine", "type", "tables", "scan"}
Mapped == {"close", "validate", "calloc"} \union Allocated

Delivered == pc = "returned" /\ code = "ERR_OK"

\* What is held at each label.
HeldInv ==
  /\ pc \notin {"fstat", "mmap", "close"} => fd = FALSE
  /\ pc \notin Mapped /\ ~Delivered => mapped = FALSE
  /\ pc \in Mapped \/ Delivered => mapped = TRUE
  /\ ~(pc \in Allocated \/ Delivered) => elf = Null
  /\ pc \in Allocated \/ Delivered => elf \in [Fields -> Sections(file) \union {Null}]
  /\ pc \notin {"returned", "freed"} => code = "ERR_OK" /\ out = FALSE
  /\ pc \in {"returned", "freed"} /\ code = "ERR_OK" => out = TRUE
  /\ pc \in {"returned", "freed"} /\ code # "ERR_OK" => out = FALSE

\* What has been checked at each label.
CheckedInv ==
  /\ pc \in {"calloc"} \union Allocated \/ Delivered => file.ident = "valid"
  /\ pc \in {"type", "tables", "scan"} \/ Delivered => file.machine = "AARCH64"
  /\ pc \in {"tables", "scan"} \/ Delivered => file.etype = "DYN"

\* k is the last of the first `i` sections that has this type.
LastSoFar(type, k) ==
  /\ k = Null => \A l \in OfType(file, type) : l >= i
  /\ k # Null => /\ k \in OfType(file, type) /\ k < i
                 /\ \A l \in OfType(file, type) : l < i => l <= k

\* `strings` is what the last of the first `i` sections that has this type and
\* links to a section links to.
LinkedSoFar(type, strings) ==
  \/ strings = Null /\ \A l \in Linking(type) : l >= i
  \/ \E k \in Linking(type) : /\ k < i /\ strings = Header(file, k).link
                              /\ \A l \in Linking(type) : l < i => l <= k

\* What the loop over the section headers has found.
ScanInv ==
  /\ pc \notin {"scan", "returned", "freed"} => i = 0
  /\ pc \in Allocated \ {"scan"} =>
       \A f \in Fields \ {"shstrtab"} : elf[f] = Null
  /\ pc = "scan" \/ Delivered =>
       /\ \A k \in Sections(file) : i \in Sections(file) \/ k < i
       /\ LastSoFar("SYMTAB", elf["symtab"]) /\ LinkedSoFar("SYMTAB", elf["strtab"])
       /\ LastSoFar("DYNSYM", elf["dynsym"]) /\ LinkedSoFar("DYNSYM", elf["dynstr"])
       /\ LastSoFar("DYNAMIC", elf["dynamic"])
  /\ Delivered => i \notin Sections(file)

ParseInv == TypeOK /\ HeldInv /\ CheckedInv /\ ScanInv

-----------------------------------------------------------------------------
\* Section indexes are a prefix of the numbers a uint16_t can hold, and Null
\* is none of them.
LEMMA Indexes ==
  ASSUME NEW f \in Files
  PROVE  /\ Sections(f) \subseteq Nat
         /\ \A k \in Sections(f) : k + 1 < IndexLimit
         /\ Sections(f) # {} => 0 \in Sections(f)
         /\ \A k \in Sections(f), l \in Sections(f) : k + 1 \in Sections(f) \/ l < k + 1
<1>1. PICK n \in 0..(IndexLimit - 1) : Sections(f) = 0..(n - 1)
  BY ParserAssumption DEF ParserAssumption, WellIndexed
<1> QED
  BY <1>1, ParserAssumption DEF ParserAssumption

\* The invariant holds of the initial states.
LEMMA InitParse == Init => ParseInv
<1> SUFFICES ASSUME Init PROVE ParseInv
  OBVIOUS
<1>1. TypeOK
  <2>1. i \in 0..(IndexLimit - 1)
    BY ParserAssumption DEF Init, ParserAssumption
  <2> QED
    BY <2>1, Zenon DEF Init, TypeOK, Labels, Codes
<1>2. HeldInv /\ CheckedInv
  BY DEF Init, HeldInv, CheckedInv, Mapped, Allocated, Delivered
<1>3. ScanInv
  BY DEF Init, ScanInv, Allocated, Delivered
<1> QED
  BY <1>1, <1>2, <1>3 DEF ParseInv

\* The steps up to FindTables, and the last ones, find nothing: they may only
\* take or give up what is held.
LEMMA HoldingStep ==
  ASSUME ParseInv,
         Open \/ Stat \/ Map \/ Close \/ Validate \/ Allocate \/ CheckMachine \/ CheckType
  PROVE  ParseInv'
<1> USE DEF ParseInv
<1>1. file' = file /\ i' = i /\ out' = out /\ UNCHANGED <<file, i, out>>
  BY DEF Open, Stat, Map, Close, Validate, Allocate, CheckMachine, CheckType, Check
<1>2. TypeOK'
  <2>1. pc' \in Labels /\ code' \in Codes
    BY DEF Open, Stat, Map, Close, Validate, Allocate, CheckMachine, CheckType, Check,
           Goto, Return, TypeOK, Labels, Codes
  <2>2. fd' \in BOOLEAN /\ mapped' \in BOOLEAN
    BY DEF Open, Stat, Map, Close, Validate, Allocate, CheckMachine, CheckType, Check, TypeOK
  <2>3. elf' \in {elf, Empty, Null}
    BY DEF Open, Stat, Map, Close, Validate, Allocate, CheckMachine, CheckType, Check
  <2>4. Empty \in [Fields -> Sections(file) \union {Null}]
    BY DEF Empty
  <2> QED
    BY <1>1, <2>1, <2>2, <2>3, <2>4 DEF TypeOK
<1>3. HeldInv' /\ CheckedInv'
  <2> USE <1>1 DEF HeldInv, CheckedInv, Mapped, Allocated, Delivered, Goto, Return
  <2>1. CASE Open BY <2>1 DEF Open
  <2>2. CASE Stat BY <2>2 DEF Stat
  <2>3. CASE Map BY <2>3 DEF Map
  <2>4. CASE Close BY <2>4 DEF Close
  <2>5. CASE Validate
    <3>1. /\ pc = "validate" /\ fd' = fd /\ elf' = elf
          /\ \/ /\ file.ident = "valid"
                /\ mapped' = mapped /\ pc' = "calloc" /\ code' = code
             \/ mapped' = FALSE /\ pc' = "returned" /\ code' = "ERR_INVALID_ELF"
      BY <2>5 DEF Validate
    <3> QED
      BY <3>1
  <2>6. CASE Allocate
    <3>1. Empty \in [Fields -> Sections(file) \union {Null}]
      BY DEF Empty
    <3>2. /\ pc = "calloc" /\ pc' = "machine" /\ code' = code
          /\ fd' = fd /\ mapped' = mapped /\ elf' = Empty
      BY <2>6 DEF Allocate
    <3> QED
      BY <3>1, <3>2
  <2>7. CASE CheckMachine
    <3>1. /\ pc = "machine" /\ fd' = fd
          /\ \/ /\ file.machine = "AARCH64"
                /\ mapped' = mapped /\ elf' = elf /\ pc' = "type" /\ code' = code
             \/ /\ mapped' = FALSE /\ elf' = Null
                /\ pc' = "returned" /\ code' = "ERR_UNSUPPORTED_ARCH"
      BY <2>7 DEF CheckMachine, Check
    <3> QED
      BY <3>1
  <2>8. CASE CheckType
    <3>1. /\ pc = "type" /\ fd' = fd
          /\ \/ /\ file.etype = "DYN"
                /\ mapped' = mapped /\ elf' = elf /\ pc' = "tables" /\ code' = code
             \/ /\ mapped' = FALSE /\ elf' = Null
                /\ pc' = "returned" /\ code' = "ERR_INVALID_ELF"
      BY <2>8 DEF CheckType, Check
    <3> QED
      BY <3>1
  <2> QED
    BY <2>1, <2>2, <2>3, <2>4, <2>5, <2>6, <2>7, <2>8
<1>4. ScanInv'
  <2> USE <1>1 DEF HeldInv, ScanInv, Allocated, Delivered, Goto, Return
  <2>1. CASE Open BY <2>1 DEF Open
  <2>2. CASE Stat BY <2>2 DEF Stat
  <2>3. CASE Map BY <2>3 DEF Map
  <2>4. CASE Close BY <2>4 DEF Close
  <2>5. CASE Validate BY <2>5 DEF Validate
  <2>6. CASE Allocate BY <2>6 DEF Allocate, Empty
  <2>7. CASE CheckMachine BY <2>7 DEF CheckMachine, Check
  <2>8. CASE CheckType BY <2>8 DEF CheckType, Check
  <2> QED
    BY <2>1, <2>2, <2>3, <2>4, <2>5, <2>6, <2>7, <2>8
<1> QED
  BY <1>2, <1>3, <1>4

\* The name table is section e_shstrndx, and the loop starts at section 0.
LEMMA FindTablesStep ==
  ASSUME ParseInv, FindTables
  PROVE  ParseInv'
<1> USE DEF ParseInv
<1>1. pc = "tables" /\ pc' = "scan" /\ UNCHANGED <<file, fd, mapped, out, code, i>> /\ i = 0
  BY DEF FindTables, Goto, ScanInv
<1>2. elf \in [Fields -> Sections(file) \union {Null}]
  BY <1>1 DEF HeldInv, Allocated
<1>3. /\ elf' \in [Fields -> Sections(file) \union {Null}]
      /\ \A f \in Fields \ {"shstrtab"} : elf'[f] = elf[f] /\ elf[f] = Null
  BY <1>1, <1>2 DEF FindTables, ScanInv, Allocated, Fields
<1>4. TypeOK'
  <2>1. pc' \in Labels /\ code' \in Codes
    BY <1>1 DEF TypeOK, Labels
  <2> QED
    BY <1>1, <1>3, <2>1 DEF TypeOK
<1>5. HeldInv' /\ CheckedInv'
  BY <1>1, <1>3 DEF HeldInv, CheckedInv, Mapped, Allocated, Delivered
<1>6. ScanInv'
  <2>1. /\ elf'["symtab"] = Null /\ elf'["strtab"] = Null /\ elf'["dynsym"] = Null
        /\ elf'["dynstr"] = Null /\ elf'["dynamic"] = Null
    BY <1>3 DEF Fields
  <2>2. \A k \in Sections(file) : 0 \in Sections(file) /\ k >= 0
    BY Indexes DEF TypeOK
  <2>3. \A t : /\ \A l \in OfType(file, t) : l >= 0
              /\ \A l \in Linking(t) : l >= 0
    BY <2>2 DEF OfType, Linking
  <2>4. \A t : LastSoFar(t, Null)' /\ LinkedSoFar(t, Null)'
    BY <1>1, <2>3 DEF LastSoFar, LinkedSoFar, OfType, Linking
  <2> QED
    BY <1>1, <2>1, <2>2, <2>4 DEF ScanInv, Allocated, Delivered
<1> QED
  BY <1>4, <1>5, <1>6

\* One iteration of the loop.  A symbol table replaces one of its kind that
\* was found before, and its string table goes with it.
LEMMA ScanStep ==
  ASSUME ParseInv, Scan
  PROVE  ParseInv'
<1> USE DEF ParseInv
<1> DEFINE type == Header(file, i).type
           link == Header(file, i).link
<1>1. /\ pc = "scan" /\ i \in Sections(file)
      /\ UNCHANGED <<file, pc, code, fd, mapped, out>>
  BY DEF Scan
<1>2. /\ i \in Nat /\ i' = i + 1 /\ i + 1 \in 0..(IndexLimit - 1) /\ i # Null
      /\ Sections(file) \subseteq Nat
      /\ \A k \in Sections(file) : i + 1 \in Sections(file) \/ k < i + 1
  <2>1. file \in Files
    BY DEF TypeOK
  <2>2. i \in Nat /\ i + 1 < IndexLimit /\ IndexLimit \in Nat
    BY <1>1, <2>1, Indexes, ParserAssumption DEF ParserAssumption
  <2>3. i' = i + 1
    BY <2>2 DEF Scan
  <2>4. i # Null
    BY <2>2, ParserAssumption DEF ParserAssumption
  <2> QED
    BY <1>1, <2>1, <2>2, <2>3, <2>4, Indexes
<1>3. elf \in [Fields -> Sections(file) \union {Null}]
  BY <1>1 DEF HeldInv, Allocated
<1>4. /\ elf'  \in [Fields -> Sections(file) \union {Null}]
      /\ elf'["symtab"] = IF type = "SYMTAB" THEN i ELSE elf["symtab"]
      /\ elf'["strtab"] = IF type = "SYMTAB" /\ link \in Sections(file) THEN link ELSE elf["strtab"]
      /\ elf'["dynsym"] = IF type = "DYNSYM" THEN i ELSE elf["dynsym"]
      /\ elf'["dynstr"] = IF type = "DYNSYM" /\ link \in Sections(file) THEN link ELSE elf["dynstr"]
      /\ elf'["dynamic"] = IF type = "DYNAMIC" THEN i ELSE elf["dynamic"]
  <2> HIDE DEF type, link
  <2>0. \/ type = "SYMTAB" /\ Take("symtab", "strtab")
        \/ type = "DYNSYM" /\ Take("dynsym", "dynstr")
        \/ type = "DYNAMIC" /\ elf' = [elf EXCEPT !["dynamic"] = i]
        \/ type \notin {"SYMTAB", "DYNSYM", "DYNAMIC"} /\ elf' = elf
    BY DEF Scan, type
  <2>1. CASE type = "SYMTAB"
    <3>1. elf' = [elf EXCEPT !["symtab"] = i,
                             !["strtab"] = IF link \in Sections(file) THEN link ELSE @]
      BY <2>0, <2>1 DEF Take, link
    <3> QED
      BY <1>1, <1>3, <2>1, <3>1 DEF Fields
  <2>2. CASE type = "DYNSYM"
    <3>1. elf' = [elf EXCEPT !["dynsym"] = i,
                             !["dynstr"] = IF link \in Sections(file) THEN link ELSE @]
      BY <2>0, <2>2 DEF Take, link
    <3> QED
      BY <1>1, <1>3, <2>2, <3>1 DEF Fields
  <2>3. CASE type = "DYNAMIC"
    BY <1>1, <1>3, <2>0, <2>3 DEF Fields
  <2>4. CASE type \notin {"SYMTAB", "DYNSYM", "DYNAMIC"}
    BY <1>1, <1>3, <2>0, <2>4 DEF Fields
  <2> QED
    BY <2>1, <2>2, <2>3, <2>4
<1>5. TypeOK'
  BY <1>1, <1>2, <1>4 DEF TypeOK
<1>6. HeldInv' /\ CheckedInv'
  BY <1>1, <1>4 DEF HeldInv, CheckedInv, Mapped, Allocated, Delivered
<1>7. ScanInv'
  <2> HIDE DEF type, link
  <2>1. ASSUME NEW t, NEW k, NEW last, LastSoFar(t, k), last = IF type = t THEN i ELSE k
        PROVE  LastSoFar(t, last)'
    <3>1. OfType(file, t) \subseteq Nat
      BY <1>2 DEF OfType
    <3>2. i \in OfType(file, t) <=> type = t
      BY <1>1 DEF OfType, type
    <3>3. CASE type = t
      BY <1>1, <1>2, <2>1, <3>1, <3>2, <3>3 DEF LastSoFar
    <3>4. CASE type # t
      <4>1. last = k /\ \A l \in OfType(file, t) : l < i + 1 <=> l < i
        BY <1>2, <2>1, <3>1, <3>2, <3>4
      <4> QED
        BY <1>1, <1>2, <2>1, <3>1, <4>1 DEF LastSoFar
    <3> QED
      BY <3>3, <3>4
  <2>2. ASSUME NEW t, NEW strings, NEW names, LinkedSoFar(t, strings),
               names = IF type = t /\ link \in Sections(file) THEN link ELSE strings
        PROVE  LinkedSoFar(t, names)'
    <3>1. Linking(t) \subseteq Nat /\ Linking(t)' = Linking(t)
      BY <1>1, <1>2 DEF Linking, OfType
    <3>2. i \in Linking(t) <=> type = t /\ link \in Sections(file)
      BY <1>1 DEF Linking, OfType, type, link
    <3>3. CASE i \in Linking(t)
      <4>1. names = Header(file, i).link
        BY <2>2, <3>2, <3>3 DEF link
      <4>2. i < i' /\ \A l \in Linking(t) : l < i' => l <= i
        BY <1>2, <3>1
      <4> QED
        BY <1>1, <3>1, <3>3, <4>1, <4>2 DEF LinkedSoFar
    <3>4. CASE i \notin Linking(t)
      <4>1. names = strings
        BY <2>2, <3>2, <3>4
      <4>2. \A l \in Linking(t) : (l < i' <=> l < i) /\ (l >= i => l >= i')
        BY <1>2, <3>1, <3>4
      <4>3. CASE strings = Null /\ \A l \in Linking(t) : l >= i
        BY <3>1, <4>1, <4>2, <4>3 DEF LinkedSoFar
      <4>4. CASE \E k \in Linking(t) : /\ k < i /\ strings = Header(file, k).link
                                       /\ \A l \in Linking(t) : l < i => l <= k
        BY <1>1, <3>1, <4>1, <4>2, <4>4 DEF LinkedSoFar
      <4> QED
        BY <2>2, <4>3, <4>4 DEF LinkedSoFar
    <3> QED
      BY <3>3, <3>4
  <2> QED
    <3>1. pc' = "scan" /\ ~Delivered'
      BY <1>1 DEF Delivered
    <3>2. \A k \in Sections(file) : i' \in Sections(file) \/ k < i'
      BY <1>2
    <3>3. /\ LastSoFar("SYMTAB", elf["symtab"]) /\ LinkedSoFar("SYMTAB", elf["strtab"])
          /\ LastSoFar("DYNSYM", elf["dynsym"]) /\ LinkedSoFar("DYNSYM", elf["dynstr"])
          /\ LastSoFar("DYNAMIC", elf["dynamic"])
      BY <1>1 DEF ScanInv
    <3>4. LastSoFar("SYMTAB", elf["symtab"])'
      BY <1>4, <2>1, <3>3
    <3>5. LastSoFar("DYNSYM", elf["dynsym"])'
      BY <1>4, <2>1, <3>3
    <3>6. LastSoFar("DYNAMIC", elf["dynamic"])'
      BY <1>4, <2>1, <3>3
    <3>7. LinkedSoFar("SYMTAB", elf["strtab"])'
      BY <1>4, <2>2, <3>3
    <3>8. LinkedSoFar("DYNSYM", elf["dynstr"])'
      BY <1>4, <2>2, <3>3
    <3> QED
      BY <1>1, <3>1, <3>2, <3>4, <3>5, <3>6, <3>7, <3>8 DEF ScanInv, Allocated
<1> QED
  BY <1>5, <1>6, <1>7

\* The loop has ended: what it has found is handed out.
LEMMA DeliverStep ==
  ASSUME ParseInv, Deliver
  PROVE  ParseInv'
<1> USE DEF ParseInv
<1>1. /\ pc = "scan" /\ i \notin Sections(file) /\ UNCHANGED <<file, fd, mapped, elf, i>>
      /\ out' = TRUE /\ pc' = "returned" /\ code' = "ERR_OK"
  BY DEF Deliver, Return
<1>2. TypeOK'
  BY <1>1 DEF TypeOK, Labels, Codes
<1>3. HeldInv' /\ CheckedInv'
  BY <1>1 DEF HeldInv, CheckedInv, Mapped, Allocated, Delivered
<1>4. ScanInv'
  BY <1>1 DEF ScanInv, LastSoFar, LinkedSoFar, OfType, Linking, Allocated, Delivered
<1> QED
  BY <1>2, <1>3, <1>4

\* elf_free undoes what a success has left, and only that.
LEMMA FreeStep ==
  ASSUME ParseInv, Free
  PROVE  ParseInv'
<1> USE DEF ParseInv
<1>1. /\ pc = "returned" /\ pc' = "freed" /\ UNCHANGED <<file, code, fd, out, i>>
      /\ mapped' = FALSE /\ elf' = Null
  <2>1. CASE code = "ERR_OK"
    BY <2>1 DEF Free, HeldInv
  <2>2. CASE code # "ERR_OK"
    BY <2>2 DEF Free, HeldInv, Mapped, Allocated, Delivered
  <2> QED
    BY <2>1, <2>2
<1>2. TypeOK'
  BY <1>1 DEF TypeOK, Labels
<1>3. HeldInv' /\ CheckedInv'
  BY <1>1 DEF HeldInv, CheckedInv, Mapped, Allocated, Delivered
<1>4. ScanInv'
  BY <1>1 DEF ScanInv, Allocated, Delivered
<1> QED
  BY <1>2, <1>3, <1>4

\* exit leaves nothing behind.
LEMMA OutOfMemoryStep ==
  ASSUME ParseInv, OutOfMemory
  PROVE  ParseInv'
<1> USE DEF ParseInv
<1>1. /\ pc = "calloc" /\ pc' = "exited" /\ UNCHANGED <<file, code, elf, out, i>>
      /\ fd' = FALSE /\ mapped' = FALSE
  BY DEF OutOfMemory
<1>2. TypeOK'
  BY <1>1 DEF TypeOK, Labels
<1>3. HeldInv' /\ CheckedInv'
  BY <1>1 DEF HeldInv, CheckedInv, Mapped, Allocated, Delivered
<1>4. ScanInv'
  BY <1>1 DEF ScanInv, Allocated, Delivered
<1> QED
  BY <1>2, <1>3, <1>4

\* Every step keeps the invariant.
LEMMA NextParse == ParseInv /\ [Next]_vars => ParseInv'
<1> SUFFICES ASSUME ParseInv, [Next]_vars PROVE ParseInv'
  OBVIOUS
<1>1. CASE Step
  BY <1>1, HoldingStep, FindTablesStep, ScanStep, DeliverStep, FreeStep, OutOfMemoryStep DEF Step
<1>2. CASE UNCHANGED vars
  <2>1. TypeOK'
    BY <1>2 DEF ParseInv, TypeOK, vars
  <2>2. HeldInv' /\ CheckedInv'
    BY <1>2 DEF ParseInv, HeldInv, CheckedInv, vars, Delivered
  <2>3. ScanInv'
    BY <1>2 DEF ParseInv, ScanInv, LastSoFar, LinkedSoFar, OfType, Linking, vars, Delivered
  <2> QED
    BY <2>1, <2>2, <2>3 DEF ParseInv
<1> QED
  BY <1>1, <1>2 DEF Next, Finished

-----------------------------------------------------------------------------
\* ParseInv is an invariant of elf_parse, whatever the file.
LEMMA ParseInvHolds == Spec => []ParseInv
BY InitParse, NextParse, PTL DEF Spec

\* The variables keep their types; in particular the uint16_t index of the loop
\* does not wrap around (parser.c:182).
THEOREM TypeCorrect == Spec => []TypeOK
BY ParseInvHolds, PTL DEF ParseInv

\* None of the failing exits of elf_parse leaves the file open or mapped, or the
\* elf_file_t allocated (parser.c:116-161).
THEOREM NothingHeldOnFailure == Spec => []FailureHoldsNothing
<1>1. ParseInv => FailureHoldsNothing
  BY DEF ParseInv, HeldInv, FailureHoldsNothing, Mapped, Allocated, Delivered
<1> QED
  BY <1>1, ParseInvHolds, PTL

\* Whatever sections a library has and in whatever order, elf_parse delivers its
\* last symbol tables, and as their strings those that the last symbol table of
\* the kind with a valid sh_link has (parser.c:174-211).
THEOREM TablesDelivered == Spec => []TablesFound
<1>1. ASSUME ParseInv, pc = "returned", code = "ERR_OK"
      PROVE  TablesFound
  <2>1. \A type : \A l \in OfType(file, type) : l < i
    BY <1>1 DEF OfType, ParseInv, ScanInv, Delivered
  <2>2. \A type, k : LastSoFar(type, k) => LastOf(type, k)
    BY <1>1, <2>1, Indexes DEF LastSoFar, LastOf, OfType, ParseInv, TypeOK
  <2>3. \A type, strings : LinkedSoFar(type, strings) => LinkedFrom(type, strings)
    <3>1. \A type : /\ Linking(type) \subseteq Nat
                   /\ \A l \in Linking(type) : l < i /\ ~(l >= i)
      BY <1>1, <2>1, Indexes DEF Linking, OfType, ParseInv, TypeOK
    <3> QED
      BY <3>1 DEF LinkedSoFar, LinkedFrom
  <2> QED
    BY <1>1, <2>2, <2>3 DEF ParseInv, HeldInv, CheckedInv, ScanInv, TablesFound, Delivered
<1>2. ParseInv => TablesFound
  BY <1>1 DEF TablesFound
<1> QED
  BY <1>2, ParseInvHolds, PTL
=============================================================================
