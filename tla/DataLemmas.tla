------------------------------ MODULE DataLemmas ------------------------------
(***************************************************************************)
(* Facts about numbers and finite sets that the proofs of several           *)
(* components need: the largest of a list of turn numbers, which the code   *)
(* asks for with max(.., default=0), and what a loop over a set computes.   *)
(***************************************************************************)
EXTENDS Integers, FiniteSetsExt, FiniteSetTheorems, WellFoundedInduction, TLAPS

\* Some numbers, if any, have a first one.
LEMMA FirstNumber ==
    ASSUME NEW Bad, Bad \subseteq Nat, Bad # {}
    PROVE  \E k \in Bad : k = 0 \/ (k - 1 \in Nat /\ k - 1 \notin Bad)
<1>1. PICK k \in Bad : \A y \in Bad : ~(<<y, k>> \in OpToRel(<, Nat))
  BY NatLessThanWellFounded, WFMin
<1>2. SUFFICES ASSUME k # 0 PROVE k - 1 \in Nat /\ k - 1 \notin Bad
  OBVIOUS
<1>3. k - 1 \in Nat /\ k \in Nat
  BY <1>2
<1>4. <<k - 1, k>> \in OpToRel(<, Nat)
  BY <1>3 DEF OpToRel
<1> QED
  BY <1>1, <1>3, <1>4

\* Every finite list of numbers has an upper bound.
LEMMA Bounded ==
    ASSUME NEW n \in Nat, NEW f \in [1..n -> Nat]
    PROVE  \E b \in Nat : \A i \in 1..n : f[i] <= b
<1> DEFINE Bad == {k \in Nat : k <= n /\ ~ \E b \in Nat : \A i \in 1..k : f[i] <= b}
<1>1. SUFFICES ASSUME n \in Bad PROVE FALSE
  <2>1. n <= n
    OBVIOUS
  <2> QED
    BY <2>1
<1>2. PICK k \in Bad : k = 0 \/ (k - 1 \in Nat /\ k - 1 \notin Bad)
  <2>1. Bad \subseteq Nat
    OBVIOUS
  <2> HIDE DEF Bad
  <2> QED
    BY <1>1, <2>1, FirstNumber
<1>3. k # 0
  <2>1. SUFFICES ASSUME k = 0 PROVE FALSE
    OBVIOUS
  <2>2. \A i \in 1..k : f[i] <= 0
    BY <2>1
  <2> QED
    BY <2>2
<1>4. k - 1 \in Nat /\ k - 1 \notin Bad /\ k <= n
  BY <1>2, <1>3
<1>5. PICK b \in Nat : \A i \in 1..(k - 1) : f[i] <= b
  BY <1>4
<1>6. f[k] \in Nat
  BY <1>3, <1>4
<1>7. \A i \in 1..k : f[i] <= b + f[k]
  BY <1>4, <1>5, <1>6
<1> QED
  BY <1>6, <1>7

\* A non-empty bounded set of numbers has a largest member, and Max returns it.
LEMMA MaxOfBounded ==
    ASSUME NEW S \in SUBSET Nat, NEW b \in Nat, \A x \in S : x <= b, S # {}
    PROVE  Max(S) \in S /\ \A x \in S : x <= Max(S)
<1> DEFINE Above == {u \in Nat : \A x \in S : x <= u}
<1>1. Above # {} /\ Above \subseteq Nat
  OBVIOUS
<1>2. PICK u \in Above : \A y \in Above : ~(<<y, u>> \in OpToRel(<, Nat))
  BY <1>1, NatLessThanWellFounded, WFMin
<1>3. u \in S
  <2>1. SUFFICES ASSUME u \notin S PROVE FALSE
    OBVIOUS
  <2>2. \A x \in S : x < u
    BY <2>1
  <2>3. u - 1 \in Above
    <3>1. u \in Nat /\ S \subseteq Nat
      OBVIOUS
    <3>2. PICK x \in S : x < u
      BY <2>2
    <3>3. u - 1 \in Nat
      BY <3>1, <3>2
    <3> QED
      BY <2>2, <3>1, <3>3
  <2>4. <<u - 1, u>> \in OpToRel(<, Nat)
    BY <2>3 DEF OpToRel
  <2> QED
    BY <1>2, <2>3, <2>4
<1>4. \E x \in S : \A y \in S : x >= y
  BY <1>3
<1> QED
  BY <1>4 DEF Max

\* Some numbers, if any, have a smallest one, and Min returns it.
LEMMA MinOfNumbers ==
    ASSUME NEW S \in SUBSET Nat, S # {}
    PROVE  Min(S) \in S /\ \A x \in S : Min(S) <= x
<1> DEFINE Up == {u \in Nat : \E x \in S : x <= u}
<1>1. Up # {} /\ Up \subseteq Nat
  <2>1. PICK x \in S : x \in Nat
    OBVIOUS
  <2>2. x \in Up
    BY <2>1
  <2> QED
    BY <2>2
<1>2. PICK k \in Up : k = 0 \/ (k - 1 \in Nat /\ k - 1 \notin Up)
  <2> HIDE DEF Up
  <2> QED
    BY <1>1, FirstNumber
<1>3. PICK x \in S : x <= k
  OBVIOUS
<1>4. \A y \in S : k <= y
  BY <1>2
<1>5. \E y \in S : \A z \in S : y <= z
  BY <1>3, <1>4
<1> QED
  BY <1>5 DEF Min

\* max over some of the numbers f[1]..f[n], or 0 if there is none.
LEMMA LargestNumber ==
    ASSUME NEW n \in Nat, NEW f \in [1..n -> Nat], NEW D \in SUBSET (1..n)
    PROVE  LET m == Max({0} \cup {f[i] : i \in D})
           IN  /\ m \in Nat
               /\ m = 0 \/ \E i \in D : f[i] = m
               /\ \A i \in D : f[i] <= m
<1> DEFINE S == {0} \cup {f[i] : i \in D}
<1>1. PICK b \in Nat : \A i \in 1..n : f[i] <= b
  BY Bounded
<1>2. S \in SUBSET Nat /\ S # {} /\ \A x \in S : x <= b
  BY <1>1
<1>3. Max(S) \in S /\ \A x \in S : x <= Max(S)
  <2> HIDE DEF S
  <2> QED
    BY <1>2, MaxOfBounded
<1> QED
  BY <1>2, <1>3
-----------------------------------------------------------------------------
(* Loops.  FoldSet and FoldLeft are defined by a function iter on the subsets  *)
(* of what they range over.  There is such a function, and what holds of it    *)
(* for the empty set and is kept by each element holds of it throughout.       *)

\* Among some subsets of a finite set one loses no element and stays among them.
LEMMA SmallestSubset ==
    ASSUME NEW S, IsFiniteSet(S), NEW Bad \in SUBSET (SUBSET S), Bad # {}
    PROVE  \E s \in Bad : \A x \in s : s \ {x} \notin Bad
<1>1. IsWellFoundedOn(StrictSubsetOrdering(S), SUBSET S)
  BY FS_StrictSubsetOrderingWellFounded, FS_FiniteSubsetsOfFinite
<1>2. PICK s \in Bad : \A t \in Bad : ~(<<t, s>> \in StrictSubsetOrdering(S))
  BY <1>1, WFMin
<1>3. \A x \in s : s \ {x} \notin Bad
  <2>1. SUFFICES ASSUME NEW x \in s, s \ {x} \in Bad PROVE FALSE
    OBVIOUS
  <2>2. <<s \ {x}, s>> \in StrictSubsetOrdering(S)
    BY <2>1 DEF StrictSubsetOrdering
  <2> QED
    BY <1>2, <2>1, <2>2
<1> QED
  BY <1>2, <1>3

\* f is what a loop over S computes: next takes an element, chosen by pick, and
\* what the loop has made of the elements before it.
Picks(pick, S) ==
    pick \in [SUBSET S -> S \cup {{}}] /\ \A s \in SUBSET S : s # {} => pick[s] \in s
Loops(f, S, base, next, pick) ==
    f = [s \in SUBSET S |-> IF s = {} THEN base ELSE next[<<pick[s], f[s \ {pick[s]}]>>]]

LEMMA LoopExists ==
    ASSUME NEW S, IsFiniteSet(S), NEW A, NEW base \in A, NEW next \in [S \X A -> A],
           NEW pick, Picks(pick, S)
    PROVE  \E f \in [SUBSET S -> A] : Loops(f, S, base, next, pick)
<1> DEFINE Small(k) == {s \in SUBSET S : Cardinality(s) <= k}
           Loop(f, k) == \A s \in Small(k) :
               f[s] = IF s = {} THEN base ELSE next[<<pick[s], f[s \ {pick[s]}]>>]
           Bad == {k \in Nat : ~ \E f \in [Small(k) -> A] : Loop(f, k)}
<1>1. \A s \in SUBSET S : IsFiniteSet(s) /\ Cardinality(s) \in Nat /\ Cardinality(s) <= Cardinality(S)
  BY FS_Subset, FS_CardinalityType
<1>2. Bad = {}
  <2>1. SUFFICES ASSUME Bad # {} PROVE FALSE
    OBVIOUS
  <2>2. PICK k \in Bad : k = 0 \/ (k - 1 \in Nat /\ k - 1 \notin Bad)
    <3>1. Bad \subseteq Nat
      OBVIOUS
    <3> HIDE DEF Bad
    <3> QED
      BY <2>1, <3>1, FirstNumber
  <2>3. k # 0
    <3>1. \A s \in Small(0) : s = {}
      BY <1>1, FS_EmptySet
    <3>2. [s \in Small(0) |-> base] \in [Small(0) -> A] /\ Loop([s \in Small(0) |-> base], 0)
      BY <3>1
    <3>3. 0 \notin Bad
      BY <3>2
    <3> QED
      BY <3>3
  <2>4. k - 1 \in Nat /\ k - 1 \notin Bad
    BY <2>2, <2>3
  <2>5. PICK f \in [Small(k - 1) -> A] : Loop(f, k - 1)
    BY <2>4
  <2> DEFINE g == [s \in Small(k) |->
                     IF s = {} THEN base ELSE next[<<pick[s], f[s \ {pick[s]}]>>]]
  <2>6. \A s \in Small(k) : s # {} => pick[s] \in s /\ s \ {pick[s]} \in Small(k - 1)
    <3>1. SUFFICES ASSUME NEW s \in Small(k), s # {}
                   PROVE  pick[s] \in s /\ s \ {pick[s]} \in Small(k - 1)
      OBVIOUS
    <3>2. pick[s] \in s /\ s \ {pick[s]} \in SUBSET S /\ IsFiniteSet(s)
      BY <1>1, <3>1 DEF Picks
    <3>3. Cardinality(s \ {pick[s]}) = Cardinality(s) - 1
      <4>1. \A T, x : IsFiniteSet(T) /\ x \in T => Cardinality(T \ {x}) = Cardinality(T) - 1
        BY FS_RemoveElement
      <4> QED
        BY <3>2, <4>1
    <3>4. Cardinality(s) \in Nat /\ Cardinality(s) <= k /\ k \in Nat
      BY <1>1
    <3> QED
      BY <3>2, <3>3, <3>4
  <2>7. \A s \in Small(k - 1) : s \in Small(k) /\ g[s] = f[s]
    <3>1. \A s \in Small(k - 1) : s \in Small(k)
      BY <1>1, <2>4
    <3> QED
      BY <2>5, <3>1
  <2>8. g \in [Small(k) -> A] /\ Loop(g, k)
    <3>1. g \in [Small(k) -> A]
      BY <2>6
    <3>2. Loop(g, k)
      BY <2>6, <2>7
    <3> QED
      BY <3>1, <3>2
  <2>9. k \notin Bad
    BY <2>8
  <2> QED
    BY <2>9
<1>3. Cardinality(S) \in Nat /\ Small(Cardinality(S)) = SUBSET S
  BY <1>1, FS_CardinalityType
<1>4. PICK f \in [Small(Cardinality(S)) -> A] : Loop(f, Cardinality(S))
  BY <1>2, <1>3
<1>5. f \in [SUBSET S -> A] /\ \A s \in SUBSET S :
         f[s] = IF s = {} THEN base ELSE next[<<pick[s], f[s \ {pick[s]}]>>]
  BY <1>3, <1>4
<1> HIDE DEF Small
<1>6. Loops(f, S, base, next, pick)
  BY <1>5 DEF Loops
<1> QED
  BY <1>5, <1>6
\* What holds of the empty set and of each set whose last part it holds of, holds
\* of every subset.
LEMMA LoopStays ==
    ASSUME NEW S, IsFiniteSet(S), NEW A, NEW f, f[{}] \in A,
           \A s \in SUBSET S : s # {} => \E x \in s : f[s \ {x}] \in A => f[s] \in A
    PROVE  \A s \in SUBSET S : f[s] \in A
<1> DEFINE Bad == {s \in SUBSET S : f[s] \notin A}
<1>1. SUFFICES ASSUME Bad # {} PROVE FALSE
  OBVIOUS
<1>2. PICK s \in Bad : \A x \in s : s \ {x} \notin Bad
  <2>1. Bad \in SUBSET (SUBSET S)
    OBVIOUS
  <2> HIDE DEF Bad
  <2> QED
    BY <1>1, <2>1, SmallestSubset
<1>3. s # {}
  OBVIOUS
<1>4. PICK x \in s : f[s \ {x}] \in A => f[s] \in A
  BY <1>3
<1> QED
  BY <1>2, <1>4

\* The loop over a list of n elements takes the last of them, after the others.
LEMMA LastOfSome ==
    ASSUME NEW n \in Nat, NEW s \in SUBSET (1..n), s # {}
    PROVE  Max(s) \in s
<1>1. s \in SUBSET Nat /\ \A x \in s : x <= n
  OBVIOUS
<1> QED
  BY <1>1, MaxOfBounded

ListLoops(f, n, base, next) ==
    \A s \in SUBSET (1..n) :
        f[s] = IF s = {} THEN base ELSE next[<<Max(s), f[s \ {Max(s)}]>>]

LEMMA ListLoop ==
    ASSUME NEW n \in Nat, NEW A, NEW base \in A, NEW next \in [(1..n) \X A -> A]
    PROVE  \E f \in [SUBSET (1..n) -> A] : ListLoops(f, n, base, next)
<1> DEFINE S == 1..n
           pick == [s \in SUBSET S |-> IF s = {} THEN {} ELSE Max(s)]
<1>1. IsFiniteSet(S)
  BY FS_Interval
<1>2. Picks(pick, S)
  <2>1. \A s \in SUBSET S : s # {} => Max(s) \in s
    BY LastOfSome
  <2> HIDE DEF S
  <2> QED
    BY <2>1 DEF Picks
<1>3. \A s \in SUBSET S : s # {} => pick[s] = Max(s)
  OBVIOUS
<1> HIDE DEF S, pick
<1>4. next \in [S \X A -> A]
  BY DEF S
<1>5. PICK f \in [SUBSET S -> A] : Loops(f, S, base, next, pick)
  BY <1>1, <1>2, <1>4, LoopExists
<1>6. \A s \in SUBSET S :
         f[s] = IF s = {} THEN base ELSE next[<<Max(s), f[s \ {Max(s)}]>>]
  BY <1>3, <1>5 DEF Loops
<1> QED
  BY <1>5, <1>6 DEF S, ListLoops

=============================================================================
