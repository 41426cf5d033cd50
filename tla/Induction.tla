------------------------------ MODULE Induction ------------------------------
(***************************************************************************)
(* Induction over the natural numbers, stated with sets: a property is the *)
(* set of the numbers that have it.  The library states it with operators. *)
(* Everything rests on the fact that `<` is well-founded on Nat.           *)
(***************************************************************************)
EXTENDS Integers, WellFoundedInduction, TLAPS

Before == {pair \in Nat \X Nat : pair[1] < pair[2]}

LEMMA BeforeWellFounded == IsWellFoundedOn(Before, Nat)
  BY NatLessThanWellFounded DEF OpToRel, Before

\* A set of natural numbers that is not empty has a least element.
LEMMA LeastElement ==
  ASSUME NEW S \in SUBSET Nat, S # {}
  PROVE  \E m \in S : \A k \in S : m <= k
<1>1. PICK m \in S : \A k \in S : <<k, m>> \notin Before
  BY BeforeWellFounded, WFMin
<1>2. \A k, n \in Nat : <<k, n>> \in Before <=> k < n
  BY DEF Before
<1>3. m \in Nat /\ \A k \in S : k \in Nat /\ ~(k < m)
  BY <1>1, <1>2
<1>4. \A k \in S : m <= k
  BY <1>3
<1> QED
  BY <1>4

\* A set that holds 0, and with each number the next, holds all.
LEMMA SetInduction ==
  ASSUME NEW S, 0 \in S, \A n \in Nat : n \in S => n + 1 \in S
  PROVE  \A n \in Nat : n \in S
<1>1. SUFFICES ASSUME NEW x \in Nat, x \notin S
               PROVE  FALSE
  OBVIOUS
<1> DEFINE T == {n \in Nat : n \notin S}
<1>2. PICK m \in T : \A k \in T : m <= k
  BY <1>1, LeastElement
<1>3. m \in Nat /\ m # 0 /\ m - 1 \in Nat /\ (m - 1) + 1 = m
  BY <1>2
<1>4. m - 1 \in S
  BY <1>2, <1>3
<1> QED
  BY <1>2, <1>3, <1>4

\* The same for the numbers of an interval.
LEMMA IntervalInduction ==
  ASSUME NEW a \in Int, NEW b \in Int, NEW S, a \in S,
         \A n \in a..(b - 1) : n \in S => n + 1 \in S
  PROVE  \A n \in a..b : n \in S
<1> DEFINE T == {k \in Nat : a + k <= b => a + k \in S}
<1>1. 0 \in T
  OBVIOUS
<1>2. ASSUME NEW k \in Nat, k \in T
      PROVE  k + 1 \in T
  <2>1. SUFFICES ASSUME a + (k + 1) <= b
                 PROVE  a + (k + 1) \in S
    OBVIOUS
  <2>2. a + k \in a..(b - 1) /\ a + k \in S
    BY <1>2, <2>1
  <2>3. (a + k) + 1 \in S
    BY <2>2
  <2> QED
    BY <2>3
<1>3. \A k \in Nat : k \in T
  <2> HIDE DEF T
  <2> QED BY <1>1, <1>2, SetInduction
<1>4. TAKE n \in a..b
<1>5. n - a \in Nat /\ a + (n - a) = n
  OBVIOUS
<1> QED
  BY <1>3, <1>5

\* f is defined on a..b by recursion: each value follows from the one before it
\* by a function G.
Recursive(f, a, b, c, G) ==
  \A n \in a..b : f[n] = IF n = a THEN c ELSE G[f[n - 1]][n]

\* There is such a function.
LEMMA RecursionExists ==
  ASSUME NEW a \in Int, NEW b \in Int, NEW T, NEW c \in T, NEW G \in [T -> [Int -> T]]
  PROVE  \E f \in [a..b -> T] : Recursive(f, a, b, c, G)
<1> DEFINE S == {m \in Int : \E f \in [a..m -> T] : Recursive(f, a, m, c, G)}
<1>1. a \in S
  <2>1. /\ [n \in a..a |-> c] \in [a..a -> T]
        /\ Recursive([n \in a..a |-> c], a, a, c, G)
    BY DEF Recursive
  <2> QED
    BY <2>1
<1>2. ASSUME NEW m \in a..(b - 1), m \in S
      PROVE  m + 1 \in S
  <2>1. PICK f \in [a..m -> T] : Recursive(f, a, m, c, G)
    BY <1>2
  <2> DEFINE g == [n \in a..(m + 1) |-> IF n = m + 1 THEN G[f[m]][m + 1] ELSE f[n]]
  <2>2. m \in a..m /\ f[m] \in T /\ G[f[m]] \in [Int -> T] /\ G[f[m]][m + 1] \in T
    OBVIOUS
  <2>3. g \in [a..(m + 1) -> T]
    BY <2>2
  <2>4. ASSUME NEW n \in a..(m + 1)
        PROVE  g[n] = IF n = a THEN c ELSE G[g[n - 1]][n]
    <3>1. CASE n = m + 1
      <4>1. n # a /\ n - 1 = m /\ g[n - 1] = f[m] /\ g[n] = G[f[m]][m + 1]
        BY <3>1
      <4> QED
        BY <4>1, <3>1
    <3>2. CASE n # m + 1
      <4>1. n \in a..m /\ g[n] = f[n]
        BY <3>2
      <4>2. n # a => n - 1 \in a..m /\ g[n - 1] = f[n - 1]
        BY <4>1
      <4> QED
        BY <4>1, <4>2, <2>1 DEF Recursive
    <3> QED
      BY <3>1, <3>2
  <2>5. Recursive(g, a, m + 1, c, G)
    BY <2>4 DEF Recursive
  <2> HIDE DEF g
  <2>6. \E h \in [a..(m + 1) -> T] : Recursive(h, a, m + 1, c, G)
    BY <2>3, <2>5
  <2> QED
    BY <2>6
<1>3. \A m \in a..b : m \in S
  <2> HIDE DEF S
  <2> QED
    BY <1>1, <1>2, IntervalInduction
<1>4. CASE a <= b
  BY <1>3, <1>4
<1>5. CASE b < a
  <2>1. /\ [n \in a..b |-> c] \in [a..b -> T]
        /\ Recursive([n \in a..b |-> c], a, b, c, G)
    BY <1>5 DEF Recursive
  <2> QED
    BY <2>1
<1> QED
  BY <1>4, <1>5
=============================================================================
