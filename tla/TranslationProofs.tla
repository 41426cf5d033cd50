-------------------------- MODULE TranslationProofs --------------------------
(***************************************************************************)
(* What the tables of convert_so_to_archive hold when the object is        *)
(* written, proved for every library.                                      *)
(*                                                                         *)
(* The invariants say of each loop what it has done of the entries it has  *)
(* looked at.                                                              *)
(***************************************************************************)
EXTENDS Translation, FiniteSetTheorems, TLAPS

SectionRecord ==
  [from : Nat, name : STRING \union {Null}, type : SectionTypes, link : Nat, info : Nat,
   size : Nat, align : Nat, data : BOOLEAN]

Kept(k) == ShouldInclude(Header(lib, k), SectionName(lib, k))

\* The section headers that extract_sections has looked at.
SeenSections == IF pc = "extract_sections" THEN {k \in Sections(lib) : k < i} ELSE Sections(lib)

SectionsInv ==
  pc \notin {"start", "freed"} =>
    /\ sections \in Seq(SectionRecord) /\ Len(sections) >= 1 /\ sections[1] = NullSection
    /\ \A j \in 2..Len(sections) :
         /\ sections[j].from \in SeenSections \ {0} /\ Kept(sections[j].from)
         /\ sections[j] = Section(sections[j].from)
    /\ \A j, k \in 2..Len(sections) : j < k => sections[j].from < sections[k].from
    /\ \A k \in SeenSections \ {0} : Kept(k) => \E j \in 2..Len(sections) : sections[j].from = k
    /\ pc = "extract_sections" => i >= 1

Basics == lib \in Libraries /\ i \in Nat

-----------------------------------------------------------------------------
\* A library that is converted.
LEMMA LibraryFacts ==
  ASSUME lib \in Libraries
  PROVE  /\ WellIndexed(lib) /\ WellTyped(lib)
         /\ OneTable(lib, "SYMTAB") /\ OneTable(lib, "DYNSYM")
         /\ \A k \in Sections(lib) : k \in Nat
         /\ \E n \in Nat : Sections(lib) = 0..(n - 1) /\ n < IndexLimit
         /\ Null \notin STRING
<1>1. WellIndexed(lib) /\ IndexLimit \in Nat \ {0}
  BY TranslationAssumption DEF TranslationAssumption
<1>2. PICK n \in 0..(IndexLimit - 1) : Sections(lib) = 0..(n - 1)
  BY <1>1 DEF WellIndexed
<1>3. n \in Nat /\ n < IndexLimit
  BY <1>1
<1> QED
  BY <1>2, <1>3, TranslationAssumption DEF TranslationAssumption

LEMMA HeaderTypes ==
  ASSUME lib \in Libraries, NEW k \in Sections(lib)
  PROVE  LET h == Header(lib, k) IN
         /\ h.type \in SectionTypes /\ h.name \in STRING \union {Null}
         /\ h.link \in Nat /\ h.info \in Nat /\ h.size \in Nat /\ h.align \in Nat
         /\ h.type \in {"SYMTAB", "DYNSYM"} => h.entries \in Seq(Symbol)
         /\ h.type = "RELA" => h.entries \in Seq(Rela)
         /\ h.type = "REL" => h.entries \in Seq(Rel)
BY LibraryFacts DEF WellTyped

LEMMA SectionTyped ==
  ASSUME lib \in Libraries, NEW k \in Sections(lib)
  PROVE  Section(k) \in SectionRecord /\ Section(k).from = k
<1>1. SectionName(lib, k) \in STRING \union {Null}
  BY HeaderTypes DEF SectionName
<1>2. k \in Nat
  BY LibraryFacts
<1> QED
  BY <1>1, <1>2, HeaderTypes DEF Section, SectionRecord

LEMMA NullSectionTyped == NullSection \in SectionRecord
BY DEF NullSection, SectionRecord, SectionTypes

-----------------------------------------------------------------------------
(***************************************************************************)
(* extract_sections.                                                       *)
(***************************************************************************)
LEMMA SectionsStart == Basics /\ StartSections => SectionsInv'
<1> SUFFICES ASSUME Basics, StartSections
             PROVE  SectionsInv'
  OBVIOUS
<1>1. sections' = <<NullSection>> /\ i' = 1 /\ pc' = "extract_sections" /\ lib' = lib
  BY DEF StartSections
<1>2. sections' \in Seq(SectionRecord) /\ Len(sections') = 1 /\ sections'[1] = NullSection
  BY <1>1, NullSectionTyped
<1>3. SeenSections' \ {0} = {}
  <2>1. \A k \in Sections(lib) : k \in Nat
    BY LibraryFacts DEF Basics
  <2> QED
    BY <1>1, <2>1 DEF SeenSections
<1> QED
  BY <1>1, <1>2, <1>3 DEF SectionsInv

LEMMA SectionsExtract == Basics /\ SectionsInv /\ ExtractSection => SectionsInv'
<1> SUFFICES ASSUME Basics, SectionsInv, ExtractSection
             PROVE  SectionsInv'
  OBVIOUS
<1>1. /\ pc = "extract_sections" /\ pc' = pc /\ lib' = lib /\ i' = i + 1
      /\ i \in Sections(lib) /\ i \in Nat
  BY DEF ExtractSection, Basics
<1>2. /\ sections \in Seq(SectionRecord) /\ Len(sections) >= 1 /\ sections[1] = NullSection
      /\ \A j \in 2..Len(sections) :
           /\ sections[j].from \in SeenSections \ {0} /\ Kept(sections[j].from)
           /\ sections[j] = Section(sections[j].from)
      /\ \A j, k \in 2..Len(sections) : j < k => sections[j].from < sections[k].from
      /\ \A k \in SeenSections \ {0} : Kept(k) => \E j \in 2..Len(sections) : sections[j].from = k
      /\ i >= 1
  BY <1>1 DEF SectionsInv
<1>3. /\ SeenSections = {k \in Sections(lib) : k < i}
      /\ SeenSections' = SeenSections \union {i}
  <2>1. \A k \in Sections(lib) : k \in Nat
    BY LibraryFacts DEF Basics
  <2>2. \A k \in Sections(lib) : k < i + 1 <=> k < i \/ k = i
    BY <1>1, <2>1
  <2> QED
    BY <1>1, <2>2 DEF SeenSections
<1>4. \A k : Kept(k)' <=> Kept(k)
  BY <1>1 DEF Kept
<1>5. \A k : Section(k)' = Section(k)
  BY <1>1 DEF Section
<1>6. CASE ~Kept(i)
  <2>1. sections' = sections
    BY <1>6 DEF ExtractSection, Kept
  <2> QED
    BY <1>1, <1>2, <1>3, <1>4, <1>5, <1>6, <2>1 DEF SectionsInv
<1>7. CASE Kept(i)
  <2> DEFINE L == Len(sections)
  <2>1. sections' = Append(sections, Section(i))
    BY <1>7 DEF ExtractSection, Kept
  <2>2. Section(i) \in SectionRecord /\ Section(i).from = i
    BY <1>1, SectionTyped DEF Basics
  <2>3. L \in Nat /\ L >= 1
    BY <1>2
  <2>4. /\ sections' \in Seq(SectionRecord) /\ Len(sections') = L + 1
        /\ \A j \in 1..L : sections'[j] = sections[j]
        /\ sections'[L + 1] = Section(i)
    BY <1>2, <2>1, <2>2
  <2>5. 2..Len(sections') = (2..L) \union {L + 1} /\ (\A j \in 2..L : j \in 1..L /\ j < L + 1) /\ 1 \in 1..L
    BY <2>3, <2>4
  <2> HIDE DEF L
  <2>6. \A j \in 2..L : sections[j].from < i
    BY <1>2, <1>3 DEF L
  <2>7. Len(sections') >= 1 /\ sections'[1] = NullSection
    BY <1>2, <2>3, <2>4, <2>5
  <2>8. \A j \in 2..Len(sections') :
          /\ sections'[j].from \in SeenSections' \ {0} /\ Kept(sections'[j].from)
          /\ sections'[j] = Section(sections'[j].from)
    <3>1. \A j \in 2..L : sections'[j] = sections[j]
      BY <2>4, <2>5
    <3>2. i # 0
      BY <1>2
    <3> QED
      BY <1>2, <1>3, <1>7, <2>2, <2>4, <2>5, <3>1, <3>2 DEF L
  <2>9. \A j, k \in 2..Len(sections') : j < k => sections'[j].from < sections'[k].from
    <3>1. \A j \in 2..L : sections'[j] = sections[j]
      BY <2>4, <2>5
    <3>2. \A j \in 2..L : ~(L + 1 < j) /\ ~(L + 1 < L + 1)
      BY <2>3
    <3> QED
      BY <1>2, <2>2, <2>4, <2>5, <2>6, <3>1, <3>2, SMTT(60) DEF L
  <2>10. \A k \in SeenSections' \ {0} : Kept(k) => \E j \in 2..Len(sections') : sections'[j].from = k
    <3>1. \A j \in 2..L : sections'[j] = sections[j]
      BY <2>4, <2>5
    <3> QED
      BY <1>2, <1>3, <2>2, <2>4, <2>5, <3>1, ZenonT(60) DEF L
  <2>11. i' >= 1
    BY <1>1
  <2> QED
    BY <1>4, <1>5, <2>4, <2>7, <2>8, <2>9, <2>10, <2>11 DEF SectionsInv
<1> QED
  BY <1>6, <1>7

\* All headers have been looked at.
LEMMA SectionsEnd == Basics /\ SectionsInv /\ StartSymbols => SectionsInv'
<1> SUFFICES ASSUME Basics, SectionsInv, StartSymbols
             PROVE  SectionsInv'
  OBVIOUS
<1>1. /\ pc = "extract_sections" /\ pc' = "extract_symtab" /\ lib' = lib /\ sections' = sections
      /\ i \notin Sections(lib) /\ i \in Nat
  BY DEF StartSymbols, Basics
<1>2. SeenSections = Sections(lib) /\ SeenSections' = Sections(lib)
  <2>1. PICK n \in Nat : Sections(lib) = 0..(n - 1)
    BY LibraryFacts DEF Basics
  <2>2. \A k \in Sections(lib) : k < i
    BY <1>1, <2>1
  <2> QED
    BY <1>1, <2>2 DEF SeenSections
<1>3. \A k : (Kept(k)' <=> Kept(k)) /\ Section(k)' = Section(k)
  BY <1>1 DEF Kept, Section
<1> QED
  BY <1>1, <1>2, <1>3 DEF SectionsInv

\* No other step changes the sections.
LEMMA SectionsStay ==
  ASSUME SectionsInv, lib' = lib, sections' = sections,
         pc \notin {"start", "extract_sections"}, pc' \notin {"extract_sections"},
         pc = "freed" => pc' = "freed"
  PROVE  SectionsInv'
<1>1. \A k : (Kept(k)' <=> Kept(k)) /\ Section(k)' = Section(k)
  BY DEF Kept, Section
<1>2. pc # "freed" => SeenSections' = SeenSections
  BY DEF SeenSections
<1> QED
  BY <1>1, <1>2 DEF SectionsInv

LEMMA SectionsResult == Basics /\ SectionsInv => SectionsKept
<1> DEFINE Froms == {sections[j].from : j \in 2..Len(sections)}
           Wished == {k \in Sections(lib) \ {0} :
                        /\ Header(lib, k).type \in
                             CodeAndData \union {"RELA", "REL", "SYMTAB", "STRTAB", "NOTE"}
                        /\ SectionName(lib, k) \notin LinkerNames \union {Null}}
<1> SUFFICES ASSUME Basics, SectionsInv, pc \notin NoSections
             PROVE  /\ sections[1] = NullSection
                    /\ \A j, k \in 2..Len(sections) : j < k => sections[j].from < sections[k].from
                    /\ Froms = Wished
                    /\ \A j \in 2..Len(sections) : LET h == Header(lib, sections[j].from) IN
                         /\ sections[j].name = SectionName(lib, sections[j].from)
                         /\ sections[j].type = h.type
                         /\ sections[j].size = h.size /\ sections[j].align = h.align
  BY DEF SectionsKept
<1>1. pc \notin {"start", "freed"} /\ SeenSections = Sections(lib)
  BY DEF NoSections, SeenSections
<1>2. /\ sections[1] = NullSection
      /\ \A j \in 2..Len(sections) :
           /\ sections[j].from \in Sections(lib) \ {0} /\ Kept(sections[j].from)
           /\ sections[j] = Section(sections[j].from)
      /\ \A j, k \in 2..Len(sections) : j < k => sections[j].from < sections[k].from
      /\ \A k \in Sections(lib) \ {0} : Kept(k) => \E j \in 2..Len(sections) : sections[j].from = k
  BY <1>1 DEF SectionsInv
<1>3. \A k \in Sections(lib) \ {0} : Kept(k) <=> k \in Wished
  BY DEF Kept, ShouldInclude, Relocating
<1>4. Froms = Wished
  <2> HIDE DEF Wished
  <2>1. ASSUME NEW k \in Froms PROVE k \in Wished
    BY <1>2, <1>3
  <2>2. ASSUME NEW k \in Wished PROVE k \in Froms
    <3>1. k \in Sections(lib) \ {0}
      BY DEF Wished
    <3> QED
      BY <1>2, <1>3, <3>1
  <2> QED
    BY <2>1, <2>2
<1>5. \A k : LET h == Header(lib, k) IN
        /\ Section(k).name = SectionName(lib, k) /\ Section(k).type = h.type
        /\ Section(k).size = h.size /\ Section(k).align = h.align
  BY DEF Section
<1> HIDE DEF Froms, Wished
<1> QED
  BY <1>2, <1>4, <1>5

-----------------------------------------------------------------------------
(***************************************************************************)
(* extract_symbols and convert_dynamic_symbols.                            *)
(***************************************************************************)
Entry == [name : STRING \union {Null}, bind : Bindings, vis : Visibilities, shndx : Nat, value : Nat]

\* The entries that extract_elf_symbols has looked at are the first ones.
LookedAt(type) ==
  IF pc = "extract_symtab" THEN IF type = "SYMTAB" THEN i ELSE 1
  ELSE IF pc = "extract_dynsym" /\ type = "DYNSYM" THEN i
  ELSE Len(Symbols(type))

Found(type) == {j \in Defined(type) : j <= LookedAt(type)}

\* The same symbol, but for its visibility.
Same(entry, sym) == [entry EXCEPT !.vis = sym.vis] = sym

NoSymtab == {"start", "extract_sections", "freed"}
Unconverted(n) == pc \in {"extract_symtab", "extract_dynsym"} \/ (pc = "convert_symbols" /\ n > i)

SymbolsInv ==
  pc \notin NoSymtab =>
    /\ symtab \in Seq(Entry) /\ symtab[1] = NullSymbol
    /\ Len(symtab) = 1 + Cardinality(Found("SYMTAB")) + Cardinality(Found("DYNSYM"))
    /\ \A n \in 2..Len(symtab) :
         \E type \in {"SYMTAB", "DYNSYM"} : \E j \in Found(type) :
           /\ type = "SYMTAB" <=> n <= 1 + Cardinality(Found("SYMTAB"))
           /\ Same(symtab[n], Symbols(type)[j])
    /\ \A type \in {"SYMTAB", "DYNSYM"} : \A j \in Found(type) :
         \E n \in 2..Len(symtab) : Same(symtab[n], Symbols(type)[j])
    /\ \A n \in 2..Len(symtab) : Unconverted(n) \/ symtab[n].vis \in {"DEFAULT", "PROTECTED"}
    /\ pc \in {"extract_symtab", "extract_dynsym", "convert_symbols"} => i >= 1

LEMMA SymbolsTyped ==
  ASSUME lib \in Libraries, NEW type \in {"SYMTAB", "DYNSYM"}
  PROVE  /\ Symbols(type) \in Seq(Symbol)
         /\ Defined(type) \in SUBSET (2..Len(Symbols(type)))
         /\ IsFiniteSet(Defined(type)) /\ IsFiniteSet(Found(type))
         /\ Cardinality(Found(type)) \in Nat
<1>1. Symbols(type) \in Seq(Symbol)
  <2>1. CASE OfType(lib, type) = {}
    BY <2>1 DEF Symbols
  <2>2. CASE OfType(lib, type) # {}
    <3> DEFINE k == CHOOSE k \in OfType(lib, type) : TRUE
    <3>1. k \in Sections(lib) /\ Header(lib, k).type = type
      BY <2>2 DEF OfType
    <3>2. Symbols(type) = Header(lib, k).entries
      BY <2>2 DEF Symbols
    <3> HIDE DEF k
    <3> QED
      BY <3>1, <3>2, HeaderTypes
  <2> QED
    BY <2>1, <2>2
<1>2. Defined(type) \in SUBSET (2..Len(Symbols(type)))
  BY DEF Defined
<1>3. IsFiniteSet(Defined(type))
  <2>1. Len(Symbols(type)) \in Nat
    BY <1>1
  <2>2. IsFiniteSet(2..Len(Symbols(type)))
    BY <2>1, FS_Interval
  <2> QED
    BY <1>2, <2>2, FS_Subset
<1>4. IsFiniteSet(Found(type))
  <2>1. Found(type) \subseteq Defined(type)
    BY DEF Found
  <2> QED
    BY <1>3, <2>1, FS_Subset
<1> QED
  BY <1>1, <1>2, <1>3, <1>4, FS_CardinalityType

LEMMA DefinedWithin ==
  ASSUME lib \in Libraries, NEW type \in {"SYMTAB", "DYNSYM"}
  PROVE  \A j \in Defined(type) : j \in Nat /\ 2 <= j /\ j <= Len(Symbols(type))
<1>1. Len(Symbols(type)) \in Nat
  BY SymbolsTyped
<1>2. \A j \in 2..Len(Symbols(type)) : j \in Nat /\ 2 <= j /\ j <= Len(Symbols(type))
  BY <1>1
<1> QED
  BY <1>2, SymbolsTyped

LEMMA SameOfEqual ==
  ASSUME NEW sym \in Symbol
  PROVE  Same(sym, sym) /\ sym \in Entry
BY DEF Same, Symbol, Entry

\* Only the visibility of an entry is changed.
LEMMA SameAfterVisible ==
  ASSUME NEW entry \in Entry, NEW sym, NEW vis
  PROVE  Same([entry EXCEPT !.vis = vis], sym) <=> Same(entry, sym)
BY DEF Same, Entry

LEMMA SymbolsStart == Basics /\ StartSymbols => SymbolsInv'
<1> SUFFICES ASSUME Basics, StartSymbols
             PROVE  SymbolsInv'
  OBVIOUS
<1>1. symtab' = <<NullSymbol>> /\ i' = 1 /\ pc' = "extract_symtab" /\ lib' = lib
  BY DEF StartSymbols
<1>2. symtab' \in Seq(Entry) /\ Len(symtab') = 1 /\ symtab'[1] = NullSymbol
  <2>1. NullSymbol \in Entry
    BY DEF NullSymbol, Entry, Bindings, Visibilities, SHN_UNDEF
  <2> QED
    BY <1>1, <2>1
<1>3. \A type : Defined(type)' = Defined(type) /\ LookedAt(type)' = 1
  BY <1>1 DEF Defined, Symbols, LookedAt
<1>4. Found("SYMTAB")' = {} /\ Found("DYNSYM")' = {}
  <2>1. \A type \in {"SYMTAB", "DYNSYM"} : \A j \in Defined(type) : ~(j <= 1)
    BY SymbolsTyped DEF Basics
  <2> QED
    BY <1>3, <2>1 DEF Found
<1>5. Cardinality({}) = 0
  BY FS_EmptySet
<1>6. \A type \in {"SYMTAB", "DYNSYM"} : Found(type)' = {}
  BY <1>4
<1> QED
  BY <1>1, <1>2, <1>4, <1>5, <1>6 DEF SymbolsInv

\* One symbol of either table.
LEMMA SymbolsExtract ==
  ASSUME Basics, SymbolsInv, NEW label, NEW type,
         <<label, type>> \in {<<"extract_symtab", "SYMTAB">>, <<"extract_dynsym", "DYNSYM">>},
         ExtractSymbol(label, type)
  PROVE  SymbolsInv'
<1> DEFINE Types == {"SYMTAB", "DYNSYM"}
           syms == Symbols(type)
           sym == syms[i + 1]
           statics == Cardinality(Found("SYMTAB"))
           L == Len(symtab)
<1>1. /\ pc = label /\ pc' = pc /\ lib' = lib /\ i' = i + 1 /\ i < Len(syms)
      /\ IF Wanted(sym) THEN symtab' = Append(symtab, sym) ELSE symtab' = symtab
  BY DEF ExtractSymbol
<1>2. /\ type \in Types /\ pc \notin NoSymtab
      /\ pc \in {"extract_symtab", "extract_dynsym"}
      /\ pc = "extract_symtab" <=> type = "SYMTAB"
  BY <1>1 DEF NoSymtab
<1>3. /\ symtab \in Seq(Entry) /\ symtab[1] = NullSymbol
      /\ L = 1 + statics + Cardinality(Found("DYNSYM"))
      /\ \A n \in 2..L :
           \E t \in Types : \E j \in Found(t) :
             /\ t = "SYMTAB" <=> n <= 1 + statics
             /\ Same(symtab[n], Symbols(t)[j])
      /\ \A t \in Types : \A j \in Found(t) : \E n \in 2..L : Same(symtab[n], Symbols(t)[j])
      /\ i >= 1
  BY <1>2 DEF SymbolsInv
<1>4. i \in Nat /\ Len(syms) \in Nat /\ syms \in Seq(Symbol) /\ lib \in Libraries
  <2>1. syms \in Seq(Symbol)
    BY <1>2, SymbolsTyped DEF Basics
  <2> QED
    BY <2>1 DEF Basics
<1>5. i + 1 \in 2..Len(syms) /\ sym \in Symbol
  <2>1. i + 1 \in 2..Len(syms) /\ i + 1 \in 1..Len(syms)
    BY <1>1, <1>3, <1>4
  <2> HIDE DEF syms
  <2> QED
    BY <1>4, <2>1
<1>6. \A t : Symbols(t)' = Symbols(t) /\ Defined(t)' = Defined(t)
  BY <1>1 DEF Symbols, Defined
<1>7. i + 1 \in Defined(type) <=> Wanted(sym)
  BY <1>5 DEF Defined, Wanted
<1>8. LookedAt(type) = i /\ LookedAt(type)' = i + 1
  BY <1>1, <1>2 DEF LookedAt
<1>9. \A t \in Types : t # type => LookedAt(t)' = LookedAt(t)
  BY <1>1, <1>2, <1>6 DEF LookedAt
<1>10. \A t \in Types : t # type => Found(t)' = Found(t)
  BY <1>6, <1>9 DEF Found
<1>11. i + 1 \notin Found(type)
  BY <1>4, <1>8 DEF Found
<1>12. Found(type)' = IF Wanted(sym) THEN Found(type) \union {i + 1} ELSE Found(type)
  <2>1. \A j \in Defined(type) : j \in Nat
    BY <1>2, <1>4, SymbolsTyped
  <2>2. \A j \in Defined(type) : j <= i + 1 <=> j <= i \/ j = i + 1
    BY <1>4, <2>1
  <2> HIDE DEF sym
  <2> QED
    BY <1>6, <1>7, <1>8, <2>2 DEF Found
<1>13. type = "SYMTAB" => Found("DYNSYM") = {}
  <2>1. SUFFICES ASSUME type = "SYMTAB"
                 PROVE  Found("DYNSYM") = {}
    OBVIOUS
  <2>2. LookedAt("DYNSYM") = 1
    BY <1>2, <2>1 DEF LookedAt
  <2>3. \A j \in Defined("DYNSYM") : ~(j <= 1)
    BY <1>4, SymbolsTyped
  <2> QED
    BY <2>2, <2>3 DEF Found
<1>14. \A n : Unconverted(n)'
  BY <1>1, <1>2 DEF Unconverted
<1>15. statics \in Nat /\ Cardinality(Found("DYNSYM")) \in Nat /\ L \in Nat
  BY <1>3, <1>4, SymbolsTyped
<1>16. i' >= 1 /\ pc' \notin NoSymtab
  BY <1>1, <1>2, <1>3, <1>4
<1>17. CASE ~Wanted(sym)
  <2>1. symtab' = symtab /\ \A t \in Types : Found(t)' = Found(t)
    BY <1>1, <1>10, <1>12, <1>17
  <2>2. Found("SYMTAB")' = Found("SYMTAB") /\ Found("DYNSYM")' = Found("DYNSYM")
    BY <2>1
  <2> HIDE DEF syms, sym
  <2> QED
    BY <1>3, <1>6, <1>14, <1>16, <2>1, <2>2 DEF SymbolsInv
<1>18. CASE Wanted(sym)
  <2>1. symtab' = Append(symtab, sym) /\ sym \in Entry /\ Same(sym, sym)
    BY <1>1, <1>5, <1>18, SameOfEqual
  <2>2. /\ symtab' \in Seq(Entry) /\ Len(symtab') = L + 1 /\ symtab'[L + 1] = sym
        /\ \A n \in 1..L : symtab'[n] = symtab[n]
    <3> HIDE DEF sym
    <3> QED BY <1>3, <2>1
  <2>3. Found(type)' = Found(type) \union {i + 1}
    BY <1>12, <1>18
  <2>4. Cardinality(Found(type)') = Cardinality(Found(type)) + 1
    <3>1. IsFiniteSet(Found(type))
      BY <1>2, <1>4, SymbolsTyped
    <3> QED
      BY <1>11, <2>3, <3>1, FS_AddElement
  <2>5. Len(symtab') = 1 + Cardinality(Found("SYMTAB")') + Cardinality(Found("DYNSYM")')
    <3>1. CASE type = "SYMTAB"
      <4>1. Found("DYNSYM")' = Found("DYNSYM")
        BY <1>10, <3>1
      <4> QED
        BY <1>3, <1>15, <2>2, <2>4, <3>1, <4>1
    <3>2. CASE type = "DYNSYM"
      <4>1. Found("SYMTAB")' = Found("SYMTAB")
        BY <1>10, <3>2
      <4> QED
        BY <1>3, <1>15, <2>2, <2>4, <3>2, <4>1
    <3> QED
      BY <1>2, <3>1, <3>2
  <2>6. 2..Len(symtab') = (2..L) \union {L + 1} /\ (\A n \in 2..L : n \in 1..L) /\ L >= 1 /\ 1 \in 1..L
    BY <1>3, <1>15, <2>2, SMTT(60)
  <2>7. symtab'[1] = NullSymbol /\ \A n \in 2..L : symtab'[n] = symtab[n]
    BY <1>3, <2>2, <2>6
  <2>8. \A t \in Types : Found(t) \subseteq Found(t)'
    BY <1>10, <2>3
  <2>9. ASSUME NEW n \in 2..Len(symtab')
        PROVE  \E t \in Types : \E j \in Found(t)' :
                 /\ t = "SYMTAB" <=> n <= 1 + Cardinality(Found("SYMTAB")')
                 /\ Same(symtab'[n], Symbols(t)[j])
    <3>1. CASE n = L + 1
      <4>1. i + 1 \in Found(type)' /\ Same(symtab'[n], Symbols(type)[i + 1])
        BY <2>1, <2>2, <2>3, <3>1
      <4>2. type = "SYMTAB" <=> n <= 1 + Cardinality(Found("SYMTAB")')
        <5>1. CASE type = "SYMTAB"
          <6>1. Cardinality(Found("DYNSYM")) = 0
            BY <1>13, <5>1, FS_EmptySet
          <6> QED
            BY <1>3, <1>15, <2>4, <3>1, <5>1, <6>1
        <5>2. CASE type = "DYNSYM"
          <6>1. Found("SYMTAB")' = Found("SYMTAB")
            BY <1>10, <5>2
          <6> QED
            BY <1>3, <1>15, <3>1, <5>2, <6>1
        <5> QED
          BY <1>2, <5>1, <5>2
      <4> QED
        BY <1>2, <4>1, <4>2
    <3>2. CASE n # L + 1
      <4>1. n \in 2..L /\ n \in Nat
        BY <2>6, <3>2
      <4>2. PICK t \in Types : \E j \in Found(t) :
              /\ t = "SYMTAB" <=> n <= 1 + statics
              /\ Same(symtab[n], Symbols(t)[j])
        BY <1>3, <4>1
      <4>3. PICK j \in Found(t) : Same(symtab[n], Symbols(t)[j])
        BY <4>2
      <4>4. t = "SYMTAB" <=> n <= 1 + Cardinality(Found("SYMTAB")')
        <5>1. CASE type = "SYMTAB"
          <6>1. t = "SYMTAB"
            BY <1>13, <4>2, <4>3, <5>1
          <6>2. n <= 1 + (statics + 1)
            BY <1>15, <4>1, <4>2, <6>1
          <6> QED
            BY <2>4, <5>1, <6>1, <6>2
        <5>2. CASE type = "DYNSYM"
          <6>1. Found("SYMTAB")' = Found("SYMTAB")
            BY <1>10, <5>2
          <6> QED
            BY <4>2, <6>1
        <5> QED
          BY <1>2, <5>1, <5>2
      <4>5. j \in Found(t)' /\ Same(symtab'[n], Symbols(t)[j])
        BY <2>7, <2>8, <4>1, <4>3
      <4> QED
        BY <4>4, <4>5
    <3> QED
      BY <3>1, <3>2
  <2>10. ASSUME NEW t \in Types, NEW j \in Found(t)'
         PROVE  \E n \in 2..Len(symtab') : Same(symtab'[n], Symbols(t)[j])
    <3>1. CASE j \in Found(t)
      <4>1. PICK n \in 2..L : Same(symtab[n], Symbols(t)[j])
        BY <1>3, <3>1
      <4> QED
        BY <2>6, <2>7, <4>1
    <3>2. CASE j \notin Found(t)
      <4>1. t = type /\ j = i + 1
        BY <1>10, <2>3, <3>2
      <4>2. Same(symtab'[L + 1], Symbols(t)[j])
        BY <2>1, <2>2, <4>1
      <4> QED
        BY <2>6, <4>2
    <3> QED
      BY <3>1, <3>2
  <2> HIDE DEF syms, sym, statics, L
  <2> QED
    BY <1>6, <1>14, <1>16, <2>2, <2>5, <2>7, <2>9, <2>10 DEF SymbolsInv
<1> QED
  BY <1>17, <1>18

\* A step that keeps the table and what it was made of.
LEMMA SymbolsStay ==
  ASSUME SymbolsInv, pc \notin NoSymtab, lib' = lib, symtab' = symtab,
         \A type \in {"SYMTAB", "DYNSYM"} : Found(type)' = Found(type),
         \A n \in 2..Len(symtab) : Unconverted(n) => Unconverted(n)',
         pc' \in {"extract_symtab", "extract_dynsym", "convert_symbols"} => i' >= 1
  PROVE  SymbolsInv'
<1>1. \A type : Symbols(type)' = Symbols(type)
  BY DEF Symbols
<1>2. Found("SYMTAB")' = Found("SYMTAB") /\ Found("DYNSYM")' = Found("DYNSYM")
  OBVIOUS
<1> QED
  BY <1>1, <1>2, SMTT(60) DEF SymbolsInv

LEMMA SymbolsStartDynamic == Basics /\ SymbolsInv /\ StartDynamic => SymbolsInv'
<1> SUFFICES ASSUME Basics, SymbolsInv, StartDynamic
             PROVE  SymbolsInv'
  OBVIOUS
<1>1. /\ pc = "extract_symtab" /\ pc' = "extract_dynsym" /\ i' = 1 /\ lib' = lib /\ symtab' = symtab
      /\ i >= Len(Symbols("SYMTAB")) /\ i \in Nat /\ lib \in Libraries
  BY DEF StartDynamic, Basics
<1>2. \A type : Symbols(type)' = Symbols(type) /\ Defined(type)' = Defined(type)
  BY <1>1 DEF Symbols, Defined
<1>3. /\ LookedAt("SYMTAB") = i /\ LookedAt("DYNSYM") = 1
      /\ LookedAt("SYMTAB")' = Len(Symbols("SYMTAB")) /\ LookedAt("DYNSYM")' = 1
  BY <1>1, <1>2 DEF LookedAt
<1>4. Found("DYNSYM")' = Found("DYNSYM")
  BY <1>2, <1>3 DEF Found
<1>5. Found("SYMTAB")' = Found("SYMTAB")
  <2>1. Len(Symbols("SYMTAB")) \in Nat
    BY <1>1, SymbolsTyped
  <2>2. \A j \in Defined("SYMTAB") : j <= Len(Symbols("SYMTAB")) /\ j <= i
    BY <1>1, <2>1, DefinedWithin
  <2> QED
    BY <1>2, <1>3, <2>2 DEF Found
<1>6. \A n : Unconverted(n)'
  BY <1>1 DEF Unconverted
<1> QED
  BY <1>1, <1>4, <1>5, <1>6, SymbolsStay DEF NoSymtab

LEMMA SymbolsStartConversion == Basics /\ SymbolsInv /\ StartConversion => SymbolsInv'
<1> SUFFICES ASSUME Basics, SymbolsInv, StartConversion
             PROVE  SymbolsInv'
  OBVIOUS
<1>1. /\ pc = "extract_dynsym" /\ pc' = "convert_symbols" /\ i' = 1 /\ lib' = lib /\ symtab' = symtab
      /\ i >= Len(Symbols("DYNSYM")) /\ i \in Nat /\ lib \in Libraries
  BY DEF StartConversion, Basics
<1>2. \A type : Symbols(type)' = Symbols(type) /\ Defined(type)' = Defined(type)
  BY <1>1 DEF Symbols, Defined
<1>3. /\ LookedAt("SYMTAB") = Len(Symbols("SYMTAB")) /\ LookedAt("DYNSYM") = i
      /\ LookedAt("SYMTAB")' = Len(Symbols("SYMTAB")) /\ LookedAt("DYNSYM")' = Len(Symbols("DYNSYM"))
  BY <1>1, <1>2 DEF LookedAt
<1>4. Found("SYMTAB")' = Found("SYMTAB")
  BY <1>2, <1>3 DEF Found
<1>5. Found("DYNSYM")' = Found("DYNSYM")
  <2>1. Len(Symbols("DYNSYM")) \in Nat
    BY <1>1, SymbolsTyped
  <2>2. \A j \in Defined("DYNSYM") : j <= Len(Symbols("DYNSYM")) /\ j <= i
    BY <1>1, <2>1, DefinedWithin
  <2> QED
    BY <1>2, <1>3, <2>2 DEF Found
<1>6. \A n \in 2..Len(symtab) : Unconverted(n)'
  <2>1. \A n \in 2..Len(symtab) : n > 1
    OBVIOUS
  <2> QED
    BY <1>1, <2>1 DEF Unconverted
<1> QED
  BY <1>1, <1>4, <1>5, <1>6, SymbolsStay DEF NoSymtab

LEMMA SymbolsConvert == Basics /\ SymbolsInv /\ ConvertSymbol => SymbolsInv'
<1> SUFFICES ASSUME Basics, SymbolsInv, ConvertSymbol
             PROVE  SymbolsInv'
  OBVIOUS
<1> DEFINE Types == {"SYMTAB", "DYNSYM"}
           L == Len(symtab)
<1>1. /\ pc = "convert_symbols" /\ pc' = pc /\ lib' = lib /\ i' = i + 1 /\ i \in Nat /\ i < L
      /\ symtab' = [symtab EXCEPT ![i + 1].vis = Visible(@)]
  BY DEF ConvertSymbol, Basics
<1>2. /\ symtab \in Seq(Entry) /\ symtab[1] = NullSymbol /\ i >= 1
      /\ L = 1 + Cardinality(Found("SYMTAB")) + Cardinality(Found("DYNSYM"))
      /\ \A n \in 2..L : \E t \in Types : \E j \in Found(t) :
           (t = "SYMTAB" <=> n <= 1 + Cardinality(Found("SYMTAB"))) /\ Same(symtab[n], Symbols(t)[j])
      /\ \A t \in Types : \A j \in Found(t) : \E n \in 2..L : Same(symtab[n], Symbols(t)[j])
      /\ \A n \in 2..L : Unconverted(n) \/ symtab[n].vis \in {"DEFAULT", "PROTECTED"}
  BY <1>1 DEF SymbolsInv, NoSymtab
<1>3. i + 1 \in 2..L /\ i + 1 \in 1..L /\ 1 \in 1..L /\ i + 1 # 1 /\ \A n \in 2..L : n \in 1..L
  BY <1>1, <1>2
<1>4. \A t : Symbols(t)' = Symbols(t) /\ Found(t)' = Found(t)
  BY <1>1 DEF Symbols, Defined, LookedAt, Found
<1>5. /\ symtab[i + 1] \in Entry /\ Visible(symtab[i + 1].vis) \in {"DEFAULT", "PROTECTED"}
      /\ symtab'[i + 1] = [symtab[i + 1] EXCEPT !.vis = Visible(symtab[i + 1].vis)]
      /\ symtab'[i + 1] \in Entry
  <2> DEFINE e == symtab[i + 1]
  <2>1. e \in Entry
    <3> HIDE DEF Entry
    <3> QED BY <1>2, <1>3
  <2>2. Visible(e.vis) \in {"DEFAULT", "PROTECTED"}
    BY <2>1 DEF Visible, Entry, Visibilities
  <2>3. symtab'[i + 1] = [e EXCEPT !.vis = Visible(e.vis)]
    BY <1>1, <1>2, <1>3
  <2>4. \A e2 \in Entry : \A v \in Visibilities : [e2 EXCEPT !.vis = v] \in Entry
    BY DEF Entry
  <2>5. Visible(e.vis) \in Visibilities
    BY <2>2 DEF Visibilities
  <2> HIDE DEF e
  <2> QED
    BY <2>1, <2>2, <2>3, <2>4, <2>5 DEF e
<1>6. /\ symtab' \in Seq(Entry) /\ Len(symtab') = L
      /\ \A n \in 1..L : n # i + 1 => symtab'[n] = symtab[n]
  <2> DEFINE E == Entry
  <2>1. symtab \in Seq(E) /\ symtab'[i + 1] \in E
    BY <1>2, <1>5
  <2>2. symtab' = [symtab EXCEPT ![i + 1] = symtab'[i + 1]]
    BY <1>1, <1>2, <1>3
  <2> HIDE DEF E
  <2>3. symtab' \in Seq(E) /\ Len(symtab') = L
    BY <1>3, <2>1, <2>2
  <2>4. \A n \in 1..L : n # i + 1 => symtab'[n] = symtab[n]
    BY <1>3, <2>1, <2>2
  <2> QED
    BY <2>3, <2>4 DEF E
<1>7. \A n \in 2..L : \A sym : Same(symtab'[n], sym) <=> Same(symtab[n], sym)
  <2> SUFFICES ASSUME NEW n \in 2..L, NEW sym
               PROVE  Same(symtab'[n], sym) <=> Same(symtab[n], sym)
    OBVIOUS
  <2>1. CASE n = i + 1
    <3> DEFINE e == symtab[i + 1]
               v == Visible(e.vis)
    <3>1. e \in Entry /\ symtab'[n] = [e EXCEPT !.vis = v]
      BY <1>5, <2>1
    <3> HIDE DEF v
    <3>2. Same([e EXCEPT !.vis = v], sym) <=> Same(e, sym)
      BY <3>1, SameAfterVisible
    <3> QED
      BY <2>1, <3>1, <3>2
  <2>2. CASE n # i + 1
    BY <1>3, <1>6, <2>2
  <2> QED
    BY <2>1, <2>2
<1>8. \A n \in 2..L : Unconverted(n)' \/ symtab'[n].vis \in {"DEFAULT", "PROTECTED"}
  <2> SUFFICES ASSUME NEW n \in 2..L
               PROVE  Unconverted(n)' \/ symtab'[n].vis \in {"DEFAULT", "PROTECTED"}
    OBVIOUS
  <2>1. CASE n = i + 1
    <3>1. \A e \in Entry : \A v : [e EXCEPT !.vis = v].vis = v
      BY DEF Entry
    <3>2. symtab'[n].vis = Visible(symtab[i + 1].vis)
      BY <1>5, <2>1, <3>1
    <3> QED
      BY <1>5, <3>2
  <2>2. CASE n # i + 1
    <3>1. symtab'[n] = symtab[n]
      BY <1>3, <1>6, <2>2
    <3>2. Unconverted(n) => Unconverted(n)'
      <4>1. n > i => n > i + 1
        BY <1>1, <2>2
      <4> QED
        BY <1>1, <4>1 DEF Unconverted
    <3> QED
      BY <1>2, <3>1, <3>2
  <2> QED
    BY <2>1, <2>2
<1>9. symtab'[1] = NullSymbol /\ i' >= 1
  BY <1>1, <1>2, <1>3, <1>6
<1> HIDE DEF L
<1> QED
  BY <1>2, <1>4, <1>6, <1>7, <1>8, <1>9 DEF SymbolsInv

\* All entries are converted.
LEMMA SymbolsEnd == Basics /\ SymbolsInv /\ StartRelocations => SymbolsInv'
<1> SUFFICES ASSUME Basics, SymbolsInv, StartRelocations
             PROVE  SymbolsInv'
  OBVIOUS
<1>1. /\ pc = "convert_symbols" /\ pc' = "extract_relocations" /\ lib' = lib /\ symtab' = symtab
      /\ i >= Len(symtab) /\ i \in Nat
  BY DEF StartRelocations, Basics
<1>2. \A t : Found(t)' = Found(t)
  BY <1>1 DEF Symbols, Defined, LookedAt, Found
<1>3. \A n \in 2..Len(symtab) : ~Unconverted(n)
  <2>1. symtab \in Seq(Entry)
    BY <1>1 DEF SymbolsInv, NoSymtab
  <2>2. Len(symtab) \in Nat
    BY <2>1
  <2>3. \A n \in 2..Len(symtab) : ~(n > i)
    BY <1>1, <2>2
  <2> QED
    BY <1>1, <2>3 DEF Unconverted
<1> QED
  BY <1>1, <1>2, <1>3, SymbolsStay DEF NoSymtab

\* No later step changes the symbols.
LEMMA SymbolsLeft ==
  ASSUME SymbolsInv, lib' = lib, symtab' = symtab,
         pc \notin NoSymbols, pc' \notin NoSymbols
  PROVE  SymbolsInv'
<1>1. /\ pc \notin NoSymtab
      /\ pc' \notin {"extract_symtab", "extract_dynsym", "convert_symbols"}
      /\ pc \notin {"extract_symtab", "extract_dynsym", "convert_symbols"}
  BY DEF NoSymbols, NoSections, NoSymtab
<1>2. \A t : Found(t)' = Found(t)
  BY <1>1, ZenonT(60) DEF Symbols, Defined, LookedAt, Found
<1>3. \A n : ~Unconverted(n)
  BY <1>1 DEF Unconverted
<1> QED
  BY <1>1, <1>2, <1>3, SymbolsStay

LEMMA SymbolsResult == Basics /\ SymbolsInv => SymbolsTranslated
<1> SUFFICES ASSUME Basics, SymbolsInv, pc \notin NoSymbols
             PROVE  SymbolsTranslated
  BY DEF SymbolsTranslated
<1>1. /\ pc \notin NoSymtab
      /\ pc \notin {"extract_symtab", "extract_dynsym", "convert_symbols"}
  BY DEF NoSymbols, NoSections, NoSymtab
<1>2. \A t \in {"SYMTAB", "DYNSYM"} : Found(t) = Defined(t)
  <2> SUFFICES ASSUME NEW t \in {"SYMTAB", "DYNSYM"}
               PROVE  Found(t) = Defined(t)
    OBVIOUS
  <2>1. LookedAt(t) = Len(Symbols(t))
    BY <1>1 DEF LookedAt
  <2>2. \A j \in Defined(t) : j <= Len(Symbols(t))
    BY DefinedWithin DEF Basics
  <2> QED
    BY <2>1, <2>2 DEF Found
<1>3. Found("SYMTAB") = Defined("SYMTAB") /\ Found("DYNSYM") = Defined("DYNSYM")
  BY <1>2
<1>4. \A n : ~Unconverted(n)
  BY <1>1 DEF Unconverted
<1> QED
  BY <1>1, <1>2, <1>3, <1>4 DEF SymbolsInv, SymbolsTranslated, Same
-----------------------------------------------------------------------------
(***************************************************************************)
(* extract_relocations and convert_dynamic_relocs.                         *)
(***************************************************************************)
RelocType == STRING \union {"ABS64", "CALL26", "PREL64"}
RelocEntry == [offset : Nat, sym : Nat, type : RelocType, addend : Int]
Table == [name : STRING \union {Null}, target : Nat, entries : Seq(RelocEntry)]

\* Those that the second pass has come to.
Passed == IF pc = "extract_relocations" THEN {k \in RelocationSections : k < i} ELSE RelocationSections

\* The place of section k among them.
Rank(k) == Cardinality({l \in RelocationSections : l <= k})

\* The table is that of section k, but for the types of its entries.
Copy(table, k) ==
  LET h == Header(lib, k) IN
  /\ table.name = SectionName(lib, k) /\ table.target = h.info
  /\ DOMAIN table.entries = DOMAIN h.entries
  /\ \A j \in DOMAIN h.entries :
       /\ table.entries[j].offset = h.entries[j].offset
       /\ table.entries[j].sym = h.entries[j].sym
       /\ table.entries[j].addend = IF h.type = "RELA" THEN h.entries[j].addend ELSE 0

\* The types of the entries before and after they are converted.
Raw(table, k) ==
  \A j \in DOMAIN Header(lib, k).entries :
    table.entries[j].type = Header(lib, k).entries[j].type
Retyped(table, k) ==
  \A j \in DOMAIN Header(lib, k).entries :
    table.entries[j].type = StaticType(Header(lib, k).entries[j].type)
Waiting(n) == pc = "extract_relocations" \/ (pc = "convert_relocations" /\ n > i)

TableOf(k, tables) ==
  /\ Copy(tables[Rank(k)], k)
  /\ Waiting(Rank(k)) => Raw(tables[Rank(k)], k)
  /\ ~Waiting(Rank(k)) => Retyped(tables[Rank(k)], k)

RelocsInv ==
  /\ allocated \in Nat
  /\ pc \in NoSymbols => relocs = <<>>
  /\ pc \notin NoSymbols =>
       /\ relocs \in Seq(Table)
       /\ allocated = Cardinality(RelocationSections)
       /\ Len(relocs) = Cardinality(Passed)
       /\ \A k \in Passed : Rank(k) \in 1..Len(relocs) /\ TableOf(k, relocs)

(***************************************************************************)
(* xstrdup.                                                                *)
(***************************************************************************)

\* The entries of a table that have a name of their own.
WithName(s) == {n \in 1..Len(s) : s[n].name # Null}
Copies(s) == Cardinality(WithName(s))

\* Each name has been copied once, that of a symbol twice.
StringsInv ==
  /\ pc = "start" => sections = <<>>
  /\ pc \in {"start", "extract_sections"} => symtab = <<>>
  /\ pc # "freed" => strings = Copies(sections) + 2 * Copies(symtab) + Copies(relocs)

-----------------------------------------------------------------------------
LEMMA RelocSectionsFinite ==
  ASSUME lib \in Libraries
  PROVE  /\ IsFiniteSet(RelocationSections) /\ Cardinality(RelocationSections) \in Nat
         /\ IsFiniteSet(Passed) /\ Cardinality(Passed) \in Nat
         /\ Cardinality(Passed) <= Cardinality(RelocationSections)
         /\ \A k \in RelocationSections : k \in Nat
<1>1. PICK n \in Nat : Sections(lib) = 0..(n - 1)
  BY LibraryFacts
<1>2. IsFiniteSet(0..(n - 1))
  <2>1. n - 1 \in Int
    OBVIOUS
  <2> QED BY <2>1, FS_Interval
<1>3. RelocationSections \subseteq Sections(lib) /\ Passed \subseteq RelocationSections
  BY DEF RelocationSections, Passed
<1>4. IsFiniteSet(RelocationSections)
  BY <1>1, <1>2, <1>3, FS_Subset
<1>5. \A k \in Sections(lib) : k \in Nat
  BY LibraryFacts
<1> QED
  BY <1>3, <1>4, <1>5, FS_Subset, FS_CardinalityType

LEMMA RelocsStart == Basics /\ RelocsInv /\ StartRelocations => RelocsInv'
<1> SUFFICES ASSUME Basics, RelocsInv, StartRelocations
             PROVE  RelocsInv'
  OBVIOUS
<1>1. /\ pc' = "extract_relocations" /\ lib' = lib /\ i' = 0 /\ relocs' = <<>>
      /\ allocated' = Cardinality(RelocationSections)
  BY DEF StartRelocations, RelocationSections
<1>2. RelocationSections' = RelocationSections
  BY <1>1 DEF RelocationSections
<1>3. /\ \A k \in RelocationSections : k \in Nat
      /\ Cardinality(RelocationSections) \in Nat
  BY RelocSectionsFinite DEF Basics
<1>4. Passed' = {}
  <2>1. \A k \in RelocationSections : ~(k < 0)
    BY <1>3
  <2> QED
    BY <1>1, <1>2, <2>1 DEF Passed
<1>5. Cardinality({}) = 0 /\ relocs' \in Seq(Table) /\ Len(relocs') = 0 /\ 1..Len(relocs') = {}
  BY <1>1, FS_EmptySet
<1>6. pc' \notin NoSymbols
  BY <1>1 DEF NoSymbols, NoSections
<1> QED
  BY <1>1, <1>2, <1>3, <1>4, <1>5, <1>6 DEF RelocsInv

\* The table that is made of a section.
LEMMA TableMade ==
  ASSUME lib \in Libraries, NEW k \in RelocationSections
  PROVE  LET t == [name |-> SectionName(lib, k), target |-> Header(lib, k).info,
                   entries |-> AsRela(Header(lib, k))]
         IN  t \in Table /\ Copy(t, k) /\ Raw(t, k)
<1> DEFINE h == Header(lib, k)
           t == [name |-> SectionName(lib, k), target |-> h.info, entries |-> AsRela(h)]
           E == h.entries
<1>1. k \in Sections(lib) /\ h.type \in {"RELA", "REL"}
  BY DEF RelocationSections, Relocating
<1>2. SectionName(lib, k) \in STRING \union {Null} /\ h.info \in Nat
  BY <1>1, HeaderTypes DEF SectionName
<1>3. E \in Seq(Rela) \/ E \in Seq(Rel)
  BY <1>1, HeaderTypes
<1>4. h.type = "RELA" => E \in Seq(Rela)
  BY <1>1, HeaderTypes
<1>5. AsRela(h) = [j \in DOMAIN E |-> [offset |-> E[j].offset, sym |-> E[j].sym, type |-> E[j].type,
                                       addend |-> IF h.type = "RELA" THEN E[j].addend ELSE 0]]
  BY DEF AsRela
<1>6. Len(E) \in Nat /\ DOMAIN E = 1..Len(E)
  BY <1>3
<1>7. ASSUME NEW j \in DOMAIN E
      PROVE  /\ E[j].offset \in Nat /\ E[j].sym \in Nat /\ E[j].type \in STRING
             /\ h.type = "RELA" => E[j].addend \in Int
  <2>1. CASE E \in Seq(Rela)
    <3>1. E[j] \in Rela
      <4> HIDE DEF E, h
      <4> QED BY <1>6, <2>1
    <3> HIDE DEF E, h
    <3> QED BY <3>1 DEF Rela
  <2>2. CASE ~(E \in Seq(Rela))
    <3>1. E \in Seq(Rel) /\ h.type # "RELA"
      BY <1>3, <1>4, <2>2
    <3>2. E[j] \in Rel
      <4> HIDE DEF E, h
      <4> QED BY <1>6, <3>1
    <3> HIDE DEF E, h
    <3> QED BY <3>1, <3>2 DEF Rel
  <2> QED
    BY <2>1, <2>2
<1>8. AsRela(h) \in Seq(RelocEntry)
  <2>1. \A j \in DOMAIN E : AsRela(h)[j] \in RelocEntry
    <3> HIDE DEF E, h
    <3> QED BY <1>5, <1>7 DEF RelocEntry, RelocType
  <2>2. AsRela(h) \in [1..Len(E) -> RelocEntry]
    <3> HIDE DEF E, h
    <3> QED BY <1>5, <1>6, <2>1
  <2> HIDE DEF E, h
  <2> QED
    BY <1>6, <2>2
<1>9. t \in Table
  BY <1>2, <1>8 DEF Table
<1>10. Copy(t, k)
  <2>1. t.name = SectionName(lib, k) /\ t.target = h.info /\ t.entries = AsRela(h)
    OBVIOUS
  <2>2. DOMAIN t.entries = DOMAIN E
    BY <1>5, <2>1
  <2>3. \A j \in DOMAIN E : /\ t.entries[j].offset = E[j].offset
                            /\ t.entries[j].sym = E[j].sym
                            /\ t.entries[j].addend = IF h.type = "RELA" THEN E[j].addend ELSE 0
    BY <1>5, <2>1
  <2> QED
    BY <2>1, <2>2, <2>3 DEF Copy
<1>11. Raw(t, k)
  <2>1. \A j \in DOMAIN E : t.entries[j].type = E[j].type
    BY <1>5
  <2> QED
    BY <2>1 DEF Raw
<1> QED
  BY <1>9, <1>10, <1>11

LEMMA RelocsExtract == Basics /\ RelocsInv /\ ExtractRelocation => RelocsInv'
<1> SUFFICES ASSUME Basics, RelocsInv, ExtractRelocation
             PROVE  RelocsInv'
  OBVIOUS
<1> DEFINE R == Len(relocs)
           t == [name |-> SectionName(lib, i), target |-> Header(lib, i).info,
                 entries |-> AsRela(Header(lib, i))]
<1>1. /\ pc = "extract_relocations" /\ pc' = pc /\ lib' = lib /\ i' = i + 1 /\ allocated' = allocated
      /\ i \in Sections(lib) /\ i \in Nat /\ lib \in Libraries
      /\ relocs' = IF i \in RelocationSections THEN Append(relocs, t) ELSE relocs
  BY DEF ExtractRelocation, Basics, RelocationSections
<1>2. pc \notin NoSymbols
  BY <1>1 DEF NoSymbols, NoSections
<1>3. /\ relocs \in Seq(Table) /\ allocated \in Nat /\ allocated = Cardinality(RelocationSections)
      /\ R = Cardinality(Passed)
      /\ \A k \in Passed : Rank(k) \in 1..R /\ TableOf(k, relocs)
  BY <1>2 DEF RelocsInv
<1>4. /\ RelocationSections' = RelocationSections /\ \A k : Rank(k)' = Rank(k)
      /\ \A table, k : (Copy(table, k)' <=> Copy(table, k)) /\ (Raw(table, k)' <=> Raw(table, k))
  BY <1>1 DEF RelocationSections, Copy, Raw, Rank
<1>5. /\ Passed = {k \in RelocationSections : k < i}
      /\ Passed' = IF i \in RelocationSections THEN Passed \union {i} ELSE Passed
  <2>1. \A k \in RelocationSections : k \in Nat
    BY <1>1, RelocSectionsFinite
  <2>2. \A k \in RelocationSections : k < i + 1 <=> k < i \/ k = i
    BY <1>1, <2>1
  <2> QED
    BY <1>1, <1>4, <2>2 DEF Passed
<1>6. \A n : Waiting(n) /\ Waiting(n)'
  BY <1>1 DEF Waiting
<1>60. \A k : TableOf(k, relocs)' <=> Copy(relocs'[Rank(k)], k) /\ Raw(relocs'[Rank(k)], k)
  BY <1>4, <1>6 DEF TableOf
<1>61. \A k : TableOf(k, relocs) <=> Copy(relocs[Rank(k)], k) /\ Raw(relocs[Rank(k)], k)
  BY <1>6 DEF TableOf
<1>7. CASE i \notin RelocationSections
  <2>1. relocs' = relocs /\ Passed' = Passed
    BY <1>1, <1>5, <1>7
  <2> QED
    BY <1>1, <1>2, <1>3, <1>4, <1>60, <1>61, <2>1 DEF RelocsInv
<1>8. CASE i \in RelocationSections
  <2>1. relocs' = Append(relocs, t) /\ Passed' = Passed \union {i}
    BY <1>1, <1>5, <1>8
  <2>2. t \in Table /\ Copy(t, i) /\ Raw(t, i)
    BY <1>1, <1>8, TableMade
  <2> HIDE DEF t
  <2>3. /\ relocs' \in Seq(Table) /\ Len(relocs') = R + 1 /\ relocs'[R + 1] = t /\ R \in Nat
        /\ \A n \in 1..R : relocs'[n] = relocs[n]
    <3> DEFINE T == Table
    <3>1. relocs \in Seq(T) /\ t \in T
      BY <1>3, <2>2
    <3> HIDE DEF T
    <3> QED BY <2>1, <3>1 DEF T
  <2>4. Cardinality(Passed') = Cardinality(Passed) + 1
    <3>1. i \notin Passed /\ IsFiniteSet(Passed)
      BY <1>1, <1>5, RelocSectionsFinite
    <3> QED
      BY <2>1, <3>1, FS_AddElement
  <2>5. Rank(i) = R + 1
    <3>1. {l \in RelocationSections : l <= i} = Passed \union {i}
      <4>1. \A l \in RelocationSections : l \in Nat /\ (l <= i <=> l < i \/ l = i)
        BY <1>1, RelocSectionsFinite
      <4> QED
        BY <1>5, <1>8, <4>1
    <3> QED
      BY <1>3, <2>1, <2>4, <3>1 DEF Rank
  <2>6. ASSUME NEW k \in Passed'
        PROVE  Rank(k) \in 1..(R + 1) /\ TableOf(k, relocs)'
    <3>1. CASE k = i
      BY <1>60, <2>2, <2>3, <2>5, <3>1
    <3>2. CASE k # i
      <4>1. Rank(k) \in 1..R /\ Copy(relocs[Rank(k)], k) /\ Raw(relocs[Rank(k)], k)
        BY <1>3, <1>61, <2>1, <3>2
      <4> QED
        BY <1>60, <2>3, <4>1
    <3> QED
      BY <3>1, <3>2
  <2> HIDE DEF R
  <2>7. Len(relocs') = Cardinality(Passed')
    BY <1>3, <2>3, <2>4
  <2> QED
    BY <1>1, <1>2, <1>3, <1>4, <2>3, <2>6, <2>7 DEF RelocsInv
<1> QED
  BY <1>7, <1>8

\* The loop is over, or conversion has ended.
LEMMA RelocsStay ==
  ASSUME RelocsInv, lib' = lib, relocs' = relocs, allocated' = allocated,
         pc \notin NoSymbols, pc' \notin NoSymbols, Passed' = Passed,
         \A n \in 1..Len(relocs) : Waiting(n)' <=> Waiting(n)
  PROVE  RelocsInv'
<1>1. /\ RelocationSections' = RelocationSections /\ \A k : Rank(k)' = Rank(k)
      /\ \A table, k : /\ Copy(table, k)' <=> Copy(table, k)
                       /\ Raw(table, k)' <=> Raw(table, k)
                       /\ Retyped(table, k)' <=> Retyped(table, k)
  BY DEF RelocationSections, Copy, Raw, Retyped, Rank
<1>2. \A k : Rank(k) \in 1..Len(relocs) => (TableOf(k, relocs)' <=> TableOf(k, relocs))
  BY <1>1 DEF TableOf
<1> QED
  BY <1>1, <1>2 DEF RelocsInv

LEMMA RelocsStartConversion == Basics /\ RelocsInv /\ StartRelocConversion => RelocsInv'
<1> SUFFICES ASSUME Basics, RelocsInv, StartRelocConversion
             PROVE  RelocsInv'
  OBVIOUS
<1>1. /\ pc = "extract_relocations" /\ pc' = "convert_relocations" /\ i' = 0 /\ lib' = lib
      /\ relocs' = relocs /\ allocated' = allocated /\ i \notin Sections(lib) /\ i \in Nat
      /\ lib \in Libraries
  BY DEF StartRelocConversion, Basics
<1>2. pc \notin NoSymbols /\ pc' \notin NoSymbols
  BY <1>1 DEF NoSymbols, NoSections
<1>3. Passed' = Passed
  <2>1. PICK n \in Nat : Sections(lib) = 0..(n - 1)
    BY <1>1, LibraryFacts
  <2>2. \A k \in Sections(lib) : k < i
    BY <1>1, <2>1
  <2> QED
    BY <1>1, <2>2 DEF Passed, RelocationSections
<1>4. \A n \in 1..Len(relocs) : Waiting(n) /\ Waiting(n)'
  <2>1. \A n \in 1..Len(relocs) : n > 0
    OBVIOUS
  <2> QED
    BY <1>1, <2>1 DEF Waiting
<1> QED
  BY <1>1, <1>2, <1>3, <1>4, RelocsStay

LEMMA RelocsEnd == Basics /\ RelocsInv /\ EndTranslation => RelocsInv'
<1> SUFFICES ASSUME Basics, RelocsInv, EndTranslation
             PROVE  RelocsInv'
  OBVIOUS
<1>1. /\ pc = "convert_relocations" /\ pc' = "translated" /\ i' = i /\ lib' = lib
      /\ relocs' = relocs /\ allocated' = allocated /\ i >= Len(relocs) /\ i \in Nat
  BY DEF EndTranslation, Basics
<1>2. pc \notin NoSymbols /\ pc' \notin NoSymbols
  BY <1>1 DEF NoSymbols, NoSections
<1>3. Passed' = Passed
  BY <1>1 DEF Passed, RelocationSections
<1>4. \A n \in 1..Len(relocs) : ~Waiting(n) /\ ~Waiting(n)'
  <2>1. Len(relocs) \in Nat
    <3>1. relocs \in Seq(Table)
      BY <1>2 DEF RelocsInv
    <3> QED BY <3>1
  <2>2. \A n \in 1..Len(relocs) : ~(n > i)
    BY <1>1, <2>1
  <2> QED
    BY <1>1, <2>2 DEF Waiting
<1> QED
  BY <1>1, <1>2, <1>3, <1>4, RelocsStay

\* No later step changes the relocations.
LEMMA RelocsLeft ==
  ASSUME RelocsInv, lib' = lib, relocs' = relocs, allocated' = allocated,
         pc \notin NoRelocations, pc' \notin NoRelocations
  PROVE  RelocsInv'
<1>1. /\ pc \notin NoSymbols /\ pc' \notin NoSymbols
      /\ pc \notin {"extract_relocations", "convert_relocations"}
      /\ pc' \notin {"extract_relocations", "convert_relocations"}
  BY DEF NoRelocations
<1>2. Passed' = Passed
  BY <1>1 DEF Passed, RelocationSections
<1>3. \A n : ~Waiting(n) /\ ~Waiting(n)'
  BY <1>1 DEF Waiting
<1> QED
  BY <1>1, <1>2, <1>3, RelocsStay

\* The steps before the relocations are read.
LEMMA RelocsNotYet ==
  ASSUME RelocsInv, relocs' = relocs, allocated' = allocated,
         pc \in NoSymbols, pc' \in NoSymbols
  PROVE  RelocsInv'
BY DEF RelocsInv

LEMMA ConvertedTable ==
  ASSUME NEW table \in Table
  PROVE  /\ Converted(table) \in Table /\ Converted(table).name = table.name
         /\ \A k : /\ Copy(Converted(table), k) <=> Copy(table, k)
                   /\ Copy(table, k) /\ Raw(table, k) => Retyped(Converted(table), k)
<1> DEFINE E == table.entries
           C == [j \in DOMAIN E |-> [E[j] EXCEPT !.type = StaticType(@)]]
<1>1. E \in Seq(RelocEntry) /\ table.name \in STRING \union {Null} /\ table.target \in Nat
  BY DEF Table
<1>2. Converted(table) = [table EXCEPT !.entries = C]
  BY DEF Converted
<1>3. /\ Converted(table) = [name |-> table.name, target |-> table.target, entries |-> C]
      /\ Converted(table).entries = C /\ Converted(table).target = table.target
      /\ Converted(table).name = table.name
  <2> HIDE DEF C
  <2> QED BY <1>2 DEF Table
<1>4. ASSUME NEW e \in RelocEntry
      PROVE  /\ [e EXCEPT !.type = StaticType(@)] \in RelocEntry
             /\ [e EXCEPT !.type = StaticType(@)].offset = e.offset
             /\ [e EXCEPT !.type = StaticType(@)].sym = e.sym
             /\ [e EXCEPT !.type = StaticType(@)].addend = e.addend
             /\ [e EXCEPT !.type = StaticType(@)].type = StaticType(e.type)
  <2>1. StaticType(e.type) \in RelocType
    BY DEF StaticType, RelocEntry, RelocType
  <2> DEFINE v == StaticType(e.type)
  <2>2. [e EXCEPT !.type = StaticType(@)] = [e EXCEPT !.type = v]
    OBVIOUS
  <2> HIDE DEF v
  <2> QED
    BY <2>1, <2>2 DEF RelocEntry, v
<1>6. Len(E) \in Nat /\ DOMAIN E = 1..Len(E) /\ \A j \in DOMAIN E : E[j] \in RelocEntry
  <2> DEFINE X == RelocEntry
  <2>1. E \in Seq(X)
    BY <1>1
  <2> HIDE DEF X, E
  <2> QED BY <2>1 DEF X
<1>7. /\ DOMAIN C = DOMAIN E
      /\ \A j \in DOMAIN E : /\ C[j] \in RelocEntry /\ C[j].type = StaticType(E[j].type)
                             /\ C[j].offset = E[j].offset /\ C[j].sym = E[j].sym
                             /\ C[j].addend = E[j].addend
  <2>1. DOMAIN C = DOMAIN E /\ \A j \in DOMAIN E : C[j] = [E[j] EXCEPT !.type = StaticType(@)]
    OBVIOUS
  <2> HIDE DEF C, E
  <2>2. ASSUME NEW j \in DOMAIN E
        PROVE  /\ C[j] \in RelocEntry /\ C[j].type = StaticType(E[j].type)
               /\ C[j].offset = E[j].offset /\ C[j].sym = E[j].sym
               /\ C[j].addend = E[j].addend
    <3> DEFINE e == E[j]
               c == [e EXCEPT !.type = StaticType(@)]
    <3>1. e \in RelocEntry /\ C[j] = c
      BY <1>6, <2>1
    <3> HIDE DEF e
    <3>2. /\ c \in RelocEntry /\ c.offset = e.offset /\ c.sym = e.sym
          /\ c.addend = e.addend /\ c.type = StaticType(e.type)
      BY <1>4, <3>1
    <3> HIDE DEF c
    <3> QED
      BY <3>1, <3>2 DEF e
  <2> QED
    BY <2>1, <2>2
<1> HIDE DEF C, E
<1>8. C \in Seq(RelocEntry)
  <2>1. C \in [1..Len(E) -> RelocEntry]
    <3>1. C = [j \in DOMAIN E |-> C[j]]
      BY DEF C
    <3> QED BY <1>6, <1>7, <3>1
  <2> QED BY <1>6, <2>1
<1>9. Converted(table) \in Table
  BY <1>1, <1>3, <1>8 DEF Table
<1>10. \A k : Copy(table, k) /\ Raw(table, k) => Retyped(Converted(table), k)
  BY <1>3, <1>7 DEF Copy, Raw, Retyped, E
<1>11. \A k : Copy(Converted(table), k) <=> Copy(table, k)
  BY <1>3, <1>7 DEF Copy, E
<1> QED
  BY <1>3, <1>9, <1>10, <1>11

LEMMA RelocsConvert == Basics /\ RelocsInv /\ ConvertTable => RelocsInv'
<1> SUFFICES ASSUME Basics, RelocsInv, ConvertTable
             PROVE  RelocsInv'
  OBVIOUS
<1> DEFINE R == Len(relocs)
<1>1. /\ pc = "convert_relocations" /\ pc' = pc /\ lib' = lib /\ i' = i + 1 /\ allocated' = allocated
      /\ i \in Nat /\ lib \in Libraries /\ i < R
      /\ relocs' = [relocs EXCEPT ![i + 1] = Converted(@)]
  BY DEF ConvertTable, Basics
<1>2. pc \notin NoSymbols
  BY <1>1 DEF NoSymbols, NoSections
<1>3. /\ relocs \in Seq(Table) /\ allocated \in Nat /\ allocated = Cardinality(RelocationSections)
      /\ R = Cardinality(Passed)
      /\ \A k \in Passed : Rank(k) \in 1..R /\ TableOf(k, relocs)
  BY <1>2 DEF RelocsInv
<1>4. /\ RelocationSections' = RelocationSections /\ Passed' = Passed /\ \A k : Rank(k)' = Rank(k)
      /\ \A table, k : /\ Copy(table, k)' <=> Copy(table, k)
                       /\ Raw(table, k)' <=> Raw(table, k)
                       /\ Retyped(table, k)' <=> Retyped(table, k)
  BY <1>1 DEF RelocationSections, Copy, Raw, Retyped, Passed, Rank
<1>5. i + 1 \in 1..R /\ R \in Nat
  BY <1>1, <1>3
<1>6. \A n \in 1..R : relocs[n] \in Table
  <2> DEFINE T == Table
  <2>1. relocs \in Seq(T)
    BY <1>3
  <2> HIDE DEF T
  <2> QED BY <2>1 DEF T
<1>7. /\ relocs' \in Seq(Table) /\ Len(relocs') = R
      /\ relocs'[i + 1] = Converted(relocs[i + 1])
      /\ \A n \in 1..R : n # i + 1 => relocs'[n] = relocs[n]
  <2> DEFINE T == Table
             c == Converted(relocs[i + 1])
  <2>1. relocs \in Seq(T) /\ c \in T
    BY <1>3, <1>5, <1>6, ConvertedTable
  <2>2. relocs' = [relocs EXCEPT ![i + 1] = c]
    BY <1>1
  <2> HIDE DEF T, c
  <2>3. relocs' \in Seq(T) /\ Len(relocs') = R
    BY <1>5, <2>1, <2>2
  <2>4. relocs'[i + 1] = c /\ \A n \in 1..R : n # i + 1 => relocs'[n] = relocs[n]
    BY <1>5, <2>1, <2>2
  <2> QED
    BY <2>3, <2>4 DEF T, c
<1>8. ASSUME NEW k \in Passed
      PROVE  Rank(k) \in 1..R /\ TableOf(k, relocs)'
  <2> DEFINE n == Rank(k)
  <2>1. n \in 1..R /\ TableOf(k, relocs) /\ n' = n
    BY <1>3, <1>4
  <2>2. CASE n = i + 1
    <3>1. Waiting(n) /\ ~Waiting(n)'
      <4> HIDE DEF n
      <4> QED BY <1>1, <2>1, <2>2 DEF Waiting
    <3>2. Copy(relocs[n], k) /\ Raw(relocs[n], k)
      BY <2>1, <3>1 DEF TableOf
    <3>3. Copy(relocs'[n], k) /\ Retyped(relocs'[n], k)
      BY <1>6, <1>7, <2>1, <2>2, <3>2, ConvertedTable
    <3> QED
      BY <1>4, <2>1, <3>1, <3>3 DEF TableOf
  <2>3. CASE n # i + 1
    <3>1. n > i <=> n > i + 1
      BY <1>1, <2>1, <2>3
    <3>2. Waiting(n) <=> Waiting(n)'
      <4> HIDE DEF n
      <4> QED BY <1>1, <2>1, <3>1 DEF Waiting
    <3>3. relocs'[n] = relocs[n]
      BY <1>7, <2>1, <2>3
    <3> QED
      BY <1>4, <2>1, <3>2, <3>3 DEF TableOf
  <2> QED
    BY <2>2, <2>3
<1> HIDE DEF R
<1> QED
  BY <1>1, <1>2, <1>3, <1>4, <1>7, <1>8 DEF RelocsInv

LEMMA RelocsResult == Basics /\ RelocsInv => TablesFit /\ RelocationsTranslated
<1> SUFFICES ASSUME Basics, RelocsInv
             PROVE  TablesFit /\ RelocationsTranslated
  OBVIOUS
<1>1. TablesFit
  <2>1. CASE pc \in NoSymbols
    <3>1. Len(relocs) = 0 /\ allocated \in Nat
      BY <2>1 DEF RelocsInv
    <3> QED BY <2>1, <3>1 DEF TablesFit
  <2>2. CASE pc \notin NoSymbols
    <3>1. /\ Cardinality(Passed) \in Nat /\ Cardinality(RelocationSections) \in Nat
          /\ Cardinality(Passed) <= Cardinality(RelocationSections)
      BY RelocSectionsFinite DEF Basics
    <3>2. allocated = Cardinality(RelocationSections) /\ Len(relocs) = Cardinality(Passed)
      BY <2>2 DEF RelocsInv
    <3>3. pc # "extract_relocations" => Passed = RelocationSections
      BY DEF Passed
    <3> QED
      BY <3>1, <3>2, <3>3 DEF TablesFit
  <2> QED
    BY <2>1, <2>2
<1>2. RelocationsTranslated
  <2>1. SUFFICES ASSUME pc \notin NoRelocations
                 PROVE  RelocationsTranslated
    BY DEF RelocationsTranslated
  <2>2. /\ pc \notin NoSymbols
        /\ pc \notin {"extract_relocations", "convert_relocations"}
    BY <2>1 DEF NoRelocations
  <2>3. Passed = RelocationSections /\ \A n : ~Waiting(n)
    BY <2>2 DEF Passed, Waiting
  <2>4. \A k \in RelocationSections : Copy(relocs[Rank(k)], k) /\ Retyped(relocs[Rank(k)], k)
    BY <2>2, <2>3 DEF RelocsInv, TableOf
  <2>5. Len(relocs) = Cardinality(RelocationSections)
    BY <2>2, <2>3 DEF RelocsInv
  <2>6. \A t : StaticType(t) = IF t \in DOMAIN StaticTypes THEN StaticTypes[t] ELSE t
    BY DEF StaticType, StaticTypes
  <2> QED
    BY <2>4, <2>5, <2>6 DEF RelocationsTranslated, Copy, Retyped, Rank
<1> QED
  BY <1>1, <1>2
-----------------------------------------------------------------------------
(***************************************************************************)
(* The copies that have been made.                                         *)
(***************************************************************************)
LEMMA CopiesEmpty == Copies(<<>>) = 0
<1>1. WithName(<<>>) = {}
  BY DEF WithName
<1> QED
  BY <1>1, FS_EmptySet DEF Copies

LEMMA CopiesOne ==
  ASSUME NEW e, e.name = Null
  PROVE  Copies(<<e>>) = 0
<1>1. WithName(<<e>>) = {}
  BY DEF WithName
<1> QED
  BY <1>1, FS_EmptySet DEF Copies

LEMMA CopiesFinite ==
  ASSUME NEW R, NEW s \in Seq(R)
  PROVE  IsFiniteSet(WithName(s)) /\ Copies(s) \in Nat
<1>1. Len(s) \in Nat
  OBVIOUS
<1>2. IsFiniteSet(1..Len(s))
  BY <1>1, FS_Interval
<1>3. WithName(s) \subseteq 1..Len(s)
  BY DEF WithName
<1>4. IsFiniteSet(WithName(s))
  BY <1>2, <1>3, FS_Subset
<1> QED
  BY <1>4, FS_CardinalityType DEF Copies

LEMMA CopiesAppend ==
  ASSUME NEW R, NEW s \in Seq(R), NEW e \in R
  PROVE  Copies(Append(s, e)) = Copies(s) + (IF e.name # Null THEN 1 ELSE 0)
<1> DEFINE L == Len(s)
           t == Append(s, e)
<1>1. /\ L \in Nat /\ Len(t) = L + 1 /\ t[L + 1] = e
      /\ \A n \in 1..L : t[n] = s[n]
  OBVIOUS
<1>2. 1..(L + 1) = (1..L) \union {L + 1} /\ L + 1 \notin 1..L
  BY <1>1
<1> HIDE DEF L, t
<1>3. WithName(s) = {n \in 1..L : s[n].name # Null}
  BY DEF WithName, L
<1>4. WithName(t) = IF e.name # Null THEN WithName(s) \union {L + 1} ELSE WithName(s)
  BY <1>1, <1>2, <1>3 DEF WithName
<1>5. L + 1 \notin WithName(s)
  BY <1>2, <1>3
<1>6. IsFiniteSet(WithName(s)) /\ Copies(s) \in Nat
  BY CopiesFinite
<1>7. e.name # Null => Cardinality(WithName(t)) = Cardinality(WithName(s)) + 1
  BY <1>4, <1>5, <1>6, FS_AddElement
<1>8. e.name = Null => Cardinality(WithName(t)) = Cardinality(WithName(s))
  BY <1>4
<1> QED
  BY <1>6, <1>7, <1>8 DEF Copies, t

LEMMA CopiesSame ==
  ASSUME NEW s, NEW t, Len(t) = Len(s), \A n \in 1..Len(s) : t[n].name = s[n].name
  PROVE  Copies(t) = Copies(s)
<1>1. WithName(t) = WithName(s)
  BY DEF WithName
<1> QED
  BY <1>1 DEF Copies

\* Every symbol but the null symbol has a name.
LEMMA SymbolNames ==
  ASSUME Basics, SymbolsInv, pc \notin NoSymtab
  PROVE  Copies(symtab) = Len(symtab) - 1
<1>1. /\ symtab \in Seq(Entry) /\ symtab[1] = NullSymbol
      /\ \A n \in 2..Len(symtab) :
           \E t \in {"SYMTAB", "DYNSYM"} : \E j \in Found(t) : Same(symtab[n], Symbols(t)[j])
      /\ Len(symtab) = 1 + Cardinality(Found("SYMTAB")) + Cardinality(Found("DYNSYM"))
  BY DEF SymbolsInv
<1>2. Len(symtab) \in Nat /\ Len(symtab) >= 1
  <2>1. Cardinality(Found("SYMTAB")) \in Nat /\ Cardinality(Found("DYNSYM")) \in Nat
    BY SymbolsTyped DEF Basics
  <2> QED BY <1>1, <2>1
<1>3. ASSUME NEW n \in 2..Len(symtab)
      PROVE  symtab[n].name # Null
  <2>1. PICK t \in {"SYMTAB", "DYNSYM"} : \E j \in Found(t) : Same(symtab[n], Symbols(t)[j])
    BY <1>1
  <2>2. PICK j \in Found(t) : Same(symtab[n], Symbols(t)[j])
    BY <2>1
  <2> DEFINE e == symtab[n]
             sym == Symbols(t)[j]
  <2>3. e \in Entry
    <3> DEFINE X == Entry
    <3>1. symtab \in Seq(X) /\ n \in 1..Len(symtab)
      BY <1>1, <1>2
    <3> HIDE DEF X
    <3> QED BY <3>1 DEF X
  <2>4. sym \in Symbol
    <3> DEFINE X == Symbol
    <3>1. Symbols(t) \in Seq(X) /\ j \in 1..Len(Symbols(t))
      <4>1. j \in Nat /\ 2 <= j /\ j <= Len(Symbols(t)) /\ Symbols(t) \in Seq(Symbol)
        BY DefinedWithin, SymbolsTyped DEF Basics, Found
      <4>2. Len(Symbols(t)) \in Nat
        BY <4>1
      <4> QED BY <4>1, <4>2
    <3> HIDE DEF X
    <3> QED BY <3>1 DEF X
  <2> HIDE DEF e, sym
  <2>5. [e EXCEPT !.vis = sym.vis] = sym
    BY <2>2 DEF e, sym, Same
  <2>6. [e EXCEPT !.vis = sym.vis].name = e.name
    BY <2>3 DEF Entry
  <2>7. sym.name \in STRING
    BY <2>4 DEF Symbol
  <2> QED
    BY <2>5, <2>6, <2>7, LibraryFacts DEF Basics, e
<1>4. symtab[1].name = Null
  BY <1>1 DEF NullSymbol
<1>5. WithName(symtab) = 2..Len(symtab)
  <2>1. \A n \in 1..Len(symtab) : n # 1 <=> n \in 2..Len(symtab)
    BY <1>2
  <2>2. \A n \in 2..Len(symtab) : n \in 1..Len(symtab)
    BY <1>2
  <2> QED
    BY <1>3, <1>4, <2>1, <2>2 DEF WithName
<1>6. Cardinality(2..Len(symtab)) = Len(symtab) - 1
  BY <1>2, FS_Interval
<1> QED
  BY <1>5, <1>6 DEF Copies

-----------------------------------------------------------------------------
TranslationInv == Basics /\ SectionsInv /\ SymbolsInv /\ RelocsInv /\ StringsInv

LEMMA TranslationStart == TranslationInit => TranslationInv
<1> SUFFICES ASSUME TranslationInit
             PROVE  TranslationInv
  OBVIOUS
<1>1. /\ lib \in Libraries /\ pc = "start" /\ i = 0 /\ sections = <<>> /\ symtab = <<>>
      /\ relocs = <<>> /\ allocated = 0 /\ strings = 0
  BY DEF TranslationInit
<1>2. StringsInv
  BY <1>1, CopiesEmpty DEF StringsInv
<1>3. RelocsInv
  BY <1>1 DEF RelocsInv, NoSymbols, NoSections
<1> QED
  BY <1>1, <1>2, <1>3 DEF TranslationInv, Basics, SectionsInv, SymbolsInv, NoSymtab

\* Where sections has its type, and the others theirs.
LEMMA CopiesTyped ==
  ASSUME Basics, SectionsInv, SymbolsInv, RelocsInv, StringsInv, pc # "freed"
  PROVE  Copies(sections) \in Nat /\ Copies(symtab) \in Nat /\ Copies(relocs) \in Nat
<1>1. Copies(sections) \in Nat
  <2>1. pc # "start" => sections \in Seq(SectionRecord)
    BY DEF SectionsInv
  <2>2. pc = "start" => Copies(sections) = 0
    BY CopiesEmpty DEF StringsInv
  <2> QED
    BY <2>1, <2>2, CopiesFinite
<1>2. Copies(symtab) \in Nat
  <2>1. pc \notin {"start", "extract_sections"} => symtab \in Seq(Entry)
    BY DEF SymbolsInv, NoSymtab
  <2>2. pc \in {"start", "extract_sections"} => Copies(symtab) = 0
    BY CopiesEmpty DEF StringsInv
  <2> QED
    BY <2>1, <2>2, CopiesFinite
<1>3. Copies(relocs) \in Nat
  <2>1. pc \notin NoSymbols => relocs \in Seq(Table)
    BY DEF RelocsInv
  <2>2. pc \in NoSymbols => Copies(relocs) = 0
    BY CopiesEmpty DEF RelocsInv
  <2> QED
    BY <2>1, <2>2, CopiesFinite
<1> QED
  BY <1>1, <1>2, <1>3

LEMMA StringsStep ==
  ASSUME TranslationInv, TranslationNext
  PROVE  StringsInv'
<1>1. Basics /\ SectionsInv /\ SymbolsInv /\ RelocsInv /\ StringsInv
  BY DEF TranslationInv
<1>2. ASSUME sections' = sections, symtab' = symtab, relocs' = relocs, strings' = strings,
             pc \notin {"start", "extract_sections", "freed"},
             pc' \notin {"start", "extract_sections", "freed"}
      PROVE  StringsInv'
  BY <1>1, <1>2 DEF StringsInv
<1>3. CASE StartSections
  <2>1. /\ pc = "start" /\ pc' = "extract_sections" /\ sections' = <<NullSection>>
        /\ symtab' = symtab /\ relocs' = relocs /\ strings' = strings
    BY <1>3 DEF StartSections
  <2>2. Copies(sections) = 0 /\ Copies(sections') = 0
    <3>1. NullSection.name = Null
      BY DEF NullSection
    <3> QED
      BY <1>1, <2>1, <3>1, CopiesEmpty, CopiesOne DEF StringsInv
  <2> QED
    BY <1>1, <2>1, <2>2 DEF StringsInv
<1>4. CASE ExtractSection
  <2>1. /\ pc = "extract_sections" /\ pc' = pc /\ i \in Sections(lib)
        /\ symtab' = symtab /\ relocs' = relocs
        /\ IF Kept(i) THEN sections' = Append(sections, Section(i)) /\ strings' = strings + 1
           ELSE sections' = sections /\ strings' = strings
    BY <1>4 DEF ExtractSection, Kept
  <2>2. Kept(i) => Copies(sections') = Copies(sections) + 1
    <3>1. Section(i) \in SectionRecord /\ sections \in Seq(SectionRecord)
      BY <1>1, <2>1, SectionTyped DEF Basics, SectionsInv
    <3>2. Kept(i) => Section(i).name # Null
      BY DEF Kept, ShouldInclude, Section
    <3> QED
      BY <2>1, <3>1, <3>2, CopiesAppend
  <2>3. Copies(sections) \in Nat /\ Copies(symtab) \in Nat /\ Copies(relocs) \in Nat
    BY <1>1, <2>1, CopiesTyped
  <2>4. strings = Copies(sections) + 2 * Copies(symtab) + Copies(relocs) /\ symtab = <<>>
    BY <1>1, <2>1 DEF StringsInv
  <2> QED
    BY <2>1, <2>2, <2>3, <2>4, SMTT(60) DEF StringsInv
<1>5. CASE StartSymbols
  <2>1. /\ pc = "extract_sections" /\ pc' = "extract_symtab" /\ symtab' = <<NullSymbol>>
        /\ sections' = sections /\ relocs' = relocs /\ strings' = strings
    BY <1>5 DEF StartSymbols
  <2>2. Copies(symtab) = 0 /\ Copies(symtab') = 0
    <3>1. NullSymbol.name = Null
      BY DEF NullSymbol
    <3> QED
      BY <1>1, <2>1, <3>1, CopiesEmpty, CopiesOne DEF StringsInv
  <2> QED
    BY <1>1, <2>1, <2>2 DEF StringsInv
<1>6. ASSUME NEW label, NEW type,
             <<label, type>> \in {<<"extract_symtab", "SYMTAB">>, <<"extract_dynsym", "DYNSYM">>},
             ExtractSymbol(label, type)
      PROVE  StringsInv'
  <2> DEFINE sym == Symbols(type)[i + 1]
  <2>1. /\ pc \in {"extract_symtab", "extract_dynsym"} /\ pc' = pc /\ i < Len(Symbols(type))
        /\ sections' = sections /\ relocs' = relocs
        /\ IF Wanted(sym) THEN symtab' = Append(symtab, sym) /\ strings' = strings + 2
           ELSE symtab' = symtab /\ strings' = strings
    BY <1>6 DEF ExtractSymbol
  <2>2. Copies(sections) \in Nat /\ Copies(symtab) \in Nat /\ Copies(relocs) \in Nat
    BY <1>1, <2>1, CopiesTyped
  <2>3. strings = Copies(sections) + 2 * Copies(symtab) + Copies(relocs)
    BY <1>1, <2>1 DEF StringsInv
  <2>4. Wanted(sym) => Copies(symtab') = Copies(symtab) + 1
    <3>1. symtab \in Seq(Entry) /\ i >= 1 /\ i \in Nat /\ lib \in Libraries
      BY <1>1, <2>1 DEF SymbolsInv, NoSymtab, Basics
    <3>2. Symbols(type) \in Seq(Symbol)
      BY <1>6, <3>1, SymbolsTyped
    <3>3. sym \in Symbol
      <4> DEFINE X == Symbol
      <4>1. Symbols(type) \in Seq(X) /\ i + 1 \in 1..Len(Symbols(type))
        BY <2>1, <3>1, <3>2
      <4> HIDE DEF X
      <4> QED BY <4>1 DEF X
    <3> HIDE DEF sym
    <3>4. sym \in Entry /\ sym.name # Null
      BY <3>1, <3>3, SameOfEqual, LibraryFacts DEF Symbol
    <3> QED
      BY <2>1, <3>1, <3>4, CopiesAppend
  <2> HIDE DEF sym
  <2> QED
    BY <2>1, <2>2, <2>3, <2>4, SMTT(60) DEF StringsInv
<1>7. CASE ConvertSymbol
  <2>1. /\ pc = "convert_symbols" /\ pc' = pc /\ sections' = sections /\ relocs' = relocs
        /\ strings' = strings /\ symtab' = [symtab EXCEPT ![i + 1].vis = Visible(@)]
        /\ i < Len(symtab)
    BY <1>7 DEF ConvertSymbol
  <2>2. symtab \in Seq(Entry) /\ i \in Nat
    BY <1>1, <2>1 DEF SymbolsInv, NoSymtab, Basics
  <2>3. Copies(symtab') = Copies(symtab)
    <3>1. Len(symtab') = Len(symtab)
      BY <2>1, <2>2
    <3>2. ASSUME NEW n \in 1..Len(symtab)
          PROVE  symtab'[n].name = symtab[n].name
      <4> DEFINE X == Entry
                 v == Visible(symtab[i + 1].vis)
      <4>1. symtab \in Seq(X) /\ symtab' = [symtab EXCEPT ![i + 1] = [@ EXCEPT !.vis = v]]
        BY <2>1, <2>2
      <4> HIDE DEF X, v
      <4>2. symtab'[n] = (IF n = i + 1 THEN [symtab[n] EXCEPT !.vis = v] ELSE symtab[n])
        BY <4>1
      <4>3. symtab[n] \in Entry
        BY <4>1 DEF X
      <4>4. \A e \in Entry : \A w : [e EXCEPT !.vis = w].name = e.name
        BY DEF Entry
      <4> QED
        BY <4>2, <4>3, <4>4
    <3> QED
      BY <3>1, <3>2, CopiesSame
  <2> QED
    BY <1>1, <2>1, <2>3 DEF StringsInv
<1>8. CASE ExtractRelocation
  <2> DEFINE t == [name |-> SectionName(lib, i), target |-> Header(lib, i).info,
                   entries |-> AsRela(Header(lib, i))]
  <2>1. /\ pc = "extract_relocations" /\ pc' = pc /\ i \in Sections(lib)
        /\ sections' = sections /\ symtab' = symtab
        /\ IF i \in RelocationSections
           THEN /\ relocs' = Append(relocs, t)
                /\ strings' = strings + (IF SectionName(lib, i) = Null THEN 0 ELSE 1)
           ELSE relocs' = relocs /\ strings' = strings
    BY <1>8 DEF ExtractRelocation, RelocationSections
  <2>2. Copies(sections) \in Nat /\ Copies(symtab) \in Nat /\ Copies(relocs) \in Nat
    BY <1>1, <2>1, CopiesTyped
  <2>3. strings = Copies(sections) + 2 * Copies(symtab) + Copies(relocs)
    BY <1>1, <2>1 DEF StringsInv
  <2>4. i \in RelocationSections =>
          Copies(relocs') = Copies(relocs) + (IF SectionName(lib, i) = Null THEN 0 ELSE 1)
    <3> SUFFICES ASSUME i \in RelocationSections
                 PROVE  Copies(relocs') = Copies(relocs) + (IF SectionName(lib, i) = Null THEN 0 ELSE 1)
      OBVIOUS
    <3>1. relocs \in Seq(Table)
      BY <1>1, <2>1 DEF RelocsInv, NoSymbols, NoSections
    <3>2. t \in Table /\ t.name = SectionName(lib, i)
      BY <1>1, TableMade DEF Basics
    <3> HIDE DEF t
    <3> QED
      BY <2>1, <3>1, <3>2, CopiesAppend
  <2> HIDE DEF t
  <2> QED
    BY <2>1, <2>2, <2>3, <2>4 DEF StringsInv
<1>9. CASE StartRelocations
  <2>1. /\ pc = "convert_symbols" /\ pc' = "extract_relocations" /\ sections' = sections
        /\ symtab' = symtab /\ strings' = strings /\ relocs' = <<>>
    BY <1>9 DEF StartRelocations
  <2>2. relocs = <<>>
    BY <1>1, <2>1 DEF RelocsInv, NoSymbols
  <2> QED
    BY <1>2, <2>1, <2>2
<1>10. CASE ConvertTable
  <2>1. /\ pc = "convert_relocations" /\ pc' = pc /\ sections' = sections /\ symtab' = symtab
        /\ strings' = strings /\ relocs' = [relocs EXCEPT ![i + 1] = Converted(@)]
        /\ i < Len(relocs)
    BY <1>10 DEF ConvertTable
  <2>2. relocs \in Seq(Table) /\ i \in Nat
    BY <1>1, <2>1 DEF RelocsInv, NoSymbols, NoSections, Basics
  <2>3. Copies(relocs') = Copies(relocs)
    <3> DEFINE X == Table
               c == Converted(relocs[i + 1])
    <3>1. relocs \in Seq(X) /\ relocs' = [relocs EXCEPT ![i + 1] = c]
      BY <2>1, <2>2
    <3>2. relocs[i + 1] \in X
      <4>1. i + 1 \in 1..Len(relocs)
        BY <2>1, <2>2
      <4> HIDE DEF X
      <4> QED BY <3>1, <4>1
    <3>3. c.name = relocs[i + 1].name
      BY <3>2, ConvertedTable
    <3> HIDE DEF X, c
    <3>4. Len(relocs') = Len(relocs)
      BY <3>1
    <3>5. \A n \in 1..Len(relocs) : relocs'[n].name = relocs[n].name
      BY <3>1, <3>3
    <3> QED
      BY <3>4, <3>5, CopiesSame
  <2> QED
    BY <1>1, <2>1, <2>3 DEF StringsInv
<1>11. CASE StartDynamic
  BY <1>2, <1>11 DEF StartDynamic
<1>12. CASE StartConversion
  BY <1>2, <1>12 DEF StartConversion
<1>13. CASE StartRelocConversion
  BY <1>2, <1>13 DEF StartRelocConversion
<1>14. CASE EndTranslation
  BY <1>2, <1>14 DEF EndTranslation
<1>15. CASE ExtractStatic
  BY <1>6, <1>15 DEF ExtractStatic
<1>16. CASE ExtractDynamic
  BY <1>6, <1>16 DEF ExtractDynamic
<1> QED
  BY <1>3, <1>4, <1>5, <1>7, <1>8, <1>9, <1>10, <1>11, <1>12, <1>13, <1>14, <1>15, <1>16
     DEF TranslationNext

\* The labels at which the steps begin and end.
LEMMA TranslationStep == TranslationInv /\ TranslationNext => TranslationInv'
<1> SUFFICES ASSUME TranslationInv, TranslationNext
             PROVE  TranslationInv'
  OBVIOUS
<1>1. Basics /\ SectionsInv /\ SymbolsInv /\ RelocsInv
  BY DEF TranslationInv
<1>2. StringsInv'
  BY StringsStep
<1>3. i \in Nat /\ i + 1 \in Nat /\ 0 \in Nat /\ 1 \in Nat /\ lib \in Libraries
  BY <1>1 DEF Basics
<1> USE DEF NoSymbols, NoSections, NoSymtab
<1>4. CASE StartSections
  <2>1. pc = "start" /\ pc' = "extract_sections" /\ lib' = lib /\ i' = 1 /\ relocs' = relocs /\ allocated' = allocated
    BY <1>4 DEF StartSections
  <2> QED
    BY <1>1, <1>2, <1>3, <1>4, <2>1, SectionsStart, RelocsNotYet DEF TranslationInv, Basics, SymbolsInv
<1>5. CASE ExtractSection
  <2>1. pc = "extract_sections" /\ pc' = pc /\ lib' = lib /\ i' = i + 1 /\ relocs' = relocs /\ allocated' = allocated
    BY <1>5 DEF ExtractSection
  <2> QED
    BY <1>1, <1>2, <1>3, <1>5, <2>1, SectionsExtract, RelocsNotYet DEF TranslationInv, Basics, SymbolsInv
<1>6. CASE StartSymbols
  <2>1. pc = "extract_sections" /\ pc' = "extract_symtab" /\ lib' = lib /\ i' = 1 /\ relocs' = relocs /\ allocated' = allocated
    BY <1>6 DEF StartSymbols
  <2> QED
    BY <1>1, <1>2, <1>3, <1>6, <2>1, SectionsEnd, SymbolsStart, RelocsNotYet DEF TranslationInv, Basics
<1>7. ASSUME NEW label, NEW type,
             <<label, type>> \in {<<"extract_symtab", "SYMTAB">>, <<"extract_dynsym", "DYNSYM">>},
             ExtractSymbol(label, type)
      PROVE  TranslationInv'
  <2>1. /\ pc \in {"extract_symtab", "extract_dynsym"} /\ pc' = pc /\ lib' = lib /\ i' = i + 1
        /\ relocs' = relocs /\ allocated' = allocated /\ sections' = sections
    BY <1>7 DEF ExtractSymbol
  <2>2. SymbolsInv'
    BY <1>1, <1>7, SymbolsExtract
  <2> QED
    BY <1>1, <1>2, <1>3, <2>1, <2>2, SectionsStay, RelocsNotYet DEF TranslationInv, Basics
<1>8. CASE StartDynamic
  <2>1. /\ pc = "extract_symtab" /\ pc' = "extract_dynsym" /\ lib' = lib /\ i' = 1
        /\ relocs' = relocs /\ allocated' = allocated /\ sections' = sections
    BY <1>8 DEF StartDynamic
  <2> QED
    BY <1>1, <1>2, <1>3, <1>8, <2>1, SectionsStay, SymbolsStartDynamic, RelocsNotYet DEF TranslationInv, Basics
<1>9. CASE StartConversion
  <2>1. /\ pc = "extract_dynsym" /\ pc' = "convert_symbols" /\ lib' = lib /\ i' = 1
        /\ relocs' = relocs /\ allocated' = allocated /\ sections' = sections
    BY <1>9 DEF StartConversion
  <2> QED
    BY <1>1, <1>2, <1>3, <1>9, <2>1, SectionsStay, SymbolsStartConversion, RelocsNotYet DEF TranslationInv, Basics
<1>10. CASE ConvertSymbol
  <2>1. /\ pc = "convert_symbols" /\ pc' = pc /\ lib' = lib /\ i' = i + 1
        /\ relocs' = relocs /\ allocated' = allocated /\ sections' = sections
    BY <1>10 DEF ConvertSymbol
  <2> QED
    BY <1>1, <1>2, <1>3, <1>10, <2>1, SectionsStay, SymbolsConvert, RelocsNotYet DEF TranslationInv, Basics
<1>11. CASE StartRelocations
  <2>1. /\ pc = "convert_symbols" /\ pc' = "extract_relocations" /\ lib' = lib /\ i' = 0
        /\ sections' = sections
    BY <1>11 DEF StartRelocations
  <2> QED
    BY <1>1, <1>2, <1>3, <1>11, <2>1, SectionsStay, SymbolsEnd, RelocsStart DEF TranslationInv, Basics
<1>12. CASE ExtractRelocation
  <2>1. /\ pc = "extract_relocations" /\ pc' = pc /\ lib' = lib /\ i' = i + 1
        /\ sections' = sections /\ symtab' = symtab
    BY <1>12 DEF ExtractRelocation
  <2> QED
    BY <1>1, <1>2, <1>3, <1>12, <2>1, SectionsStay, SymbolsLeft, RelocsExtract DEF TranslationInv, Basics
<1>13. CASE StartRelocConversion
  <2>1. /\ pc = "extract_relocations" /\ pc' = "convert_relocations" /\ lib' = lib /\ i' = 0
        /\ sections' = sections /\ symtab' = symtab
    BY <1>13 DEF StartRelocConversion
  <2> QED
    BY <1>1, <1>2, <1>3, <1>13, <2>1, SectionsStay, SymbolsLeft, RelocsStartConversion DEF TranslationInv, Basics
<1>14. CASE ConvertTable
  <2>1. /\ pc = "convert_relocations" /\ pc' = pc /\ lib' = lib /\ i' = i + 1
        /\ sections' = sections /\ symtab' = symtab
    BY <1>14 DEF ConvertTable
  <2> QED
    BY <1>1, <1>2, <1>3, <1>14, <2>1, SectionsStay, SymbolsLeft, RelocsConvert DEF TranslationInv, Basics
<1>15. CASE EndTranslation
  <2>1. /\ pc = "convert_relocations" /\ pc' = "translated" /\ lib' = lib /\ i' = i
        /\ sections' = sections /\ symtab' = symtab
    BY <1>15 DEF EndTranslation
  <2> QED
    BY <1>1, <1>2, <1>3, <1>15, <2>1, SectionsStay, SymbolsLeft, RelocsEnd DEF TranslationInv, Basics
<1>16. CASE ExtractStatic
  BY <1>7, <1>16 DEF ExtractStatic
<1>17. CASE ExtractDynamic
  BY <1>7, <1>17 DEF ExtractDynamic
<1> QED
  BY <1>4, <1>5, <1>6, <1>8, <1>9, <1>10, <1>11, <1>12, <1>13, <1>14, <1>15, <1>16, <1>17
     DEF TranslationNext

LEMMA TranslationStutter == TranslationInv /\ UNCHANGED tvars => TranslationInv'
<1> SUFFICES ASSUME TranslationInv, UNCHANGED tvars
             PROVE  TranslationInv'
  OBVIOUS
<1>1. /\ lib' = lib /\ pc' = pc /\ i' = i /\ sections' = sections /\ symtab' = symtab
      /\ relocs' = relocs /\ allocated' = allocated /\ strings' = strings
  BY DEF tvars
<1>2. /\ \A k : (Kept(k)' <=> Kept(k)) /\ Section(k)' = Section(k)
      /\ SeenSections' = SeenSections
  BY <1>1 DEF Kept, Section, SeenSections
<1>3. SectionsInv'
  BY <1>1, <1>2 DEF TranslationInv, SectionsInv
<1>4. /\ \A t : Found(t)' = Found(t) /\ Symbols(t)' = Symbols(t)
      /\ \A n : Unconverted(n)' <=> Unconverted(n)
  BY <1>1 DEF Found, Symbols, Defined, LookedAt, Unconverted
<1>5. Found("SYMTAB")' = Found("SYMTAB") /\ Found("DYNSYM")' = Found("DYNSYM")
  BY <1>4
<1>6. SymbolsInv'
  BY <1>1, <1>4, <1>5 DEF TranslationInv, SymbolsInv
<1>7. /\ RelocationSections' = RelocationSections /\ Passed' = Passed
      /\ \A k : TableOf(k, relocs)' <=> TableOf(k, relocs)
      /\ \A k : Rank(k)' = Rank(k)
  BY <1>1 DEF RelocationSections, Passed, Copy, Raw, Retyped, Waiting, TableOf, Rank
<1>8. RelocsInv'
  BY <1>1, <1>7 DEF TranslationInv, RelocsInv
<1>9. StringsInv'
  BY <1>1 DEF TranslationInv, StringsInv
<1> QED
  BY <1>1, <1>3, <1>6, <1>8, <1>9 DEF TranslationInv, Basics

-----------------------------------------------------------------------------
\* The tables are in every state what the loops have made of the library so far.
THEOREM TranslationInvariant == TranslationSpec => []TranslationInv
<1>1. TranslationInit => TranslationInv
  BY TranslationStart
<1>2. TranslationInv /\ [TranslationNext]_tvars => TranslationInv'
  BY TranslationStep, TranslationStutter
<1> QED
  BY <1>1, <1>2, PTL DEF TranslationSpec
=============================================================================
