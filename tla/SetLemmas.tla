----------------------------- MODULE SetLemmas -----------------------------
(***************************************************************************)
(* Facts about sets of numbers and finite sets that the proofs of several  *)
(* components need.  The library's induction rules cannot be used here, so *)
(* induction is by a smallest counterexample.                              *)
(***************************************************************************)
EXTENDS Integers, FiniteSets, FiniteSetsExt, FiniteSetTheorems, WellFoundedInduction, TLAPS

\* A set of naturals that is not empty has a least element.
LEMMA NatLeast ==
  ASSUME NEW T \in SUBSET Nat, T # {}
  PROVE  \E m \in T : \A n \in T : m <= n
<1>1. PICK m \in T : \A n \in T : <<n, m>> \notin OpToRel(<, Nat)
  BY NatLessThanWellFounded, WFMin
<1>2. ASSUME NEW n \in T PROVE m <= n
  <2>1. ~(n < m)
    BY <1>1 DEF OpToRel
  <2> QED BY <2>1
<1> QED BY <1>2

\* One that has a bound has a greatest element.
LEMMA NatGreatest ==
  ASSUME NEW T \in SUBSET Nat, T # {}, NEW b \in Nat, \A n \in T : n <= b
  PROVE  \E m \in T : \A n \in T : n <= m
<1> DEFINE gaps == {b - n : n \in T}
<1>1. gaps \in SUBSET Nat /\ gaps # {}
  <2>1. \A n \in T : b - n \in Nat
    OBVIOUS
  <2> QED BY <2>1
<1>2. PICK g \in gaps : \A h \in gaps : g <= h
  BY <1>1, NatLeast
<1>3. PICK m \in T : g = b - m
  BY <1>2
<1>4. ASSUME NEW n \in T PROVE n <= m
  <2>1. b - n \in gaps /\ b - m <= b - n
    BY <1>2, <1>3
  <2> QED BY <2>1
<1> QED BY <1>4

\* Among some subsets of a finite set there is one that no longer is among
\* them whatever element it loses.
LEMMA SubsetLeast ==
  ASSUME NEW S, IsFiniteSet(S), NEW B \in SUBSET (SUBSET S), B # {}
  PROVE  \E s \in B : IsFiniteSet(s) /\ \A x \in s : s \ {x} \notin B
<1> DEFINE sizes == {Cardinality(s) : s \in B}
<1>1. \A s \in B : IsFiniteSet(s) /\ Cardinality(s) \in Nat
  BY FS_Subset, FS_CardinalityType
<1>2. sizes \in SUBSET Nat /\ sizes # {}
  BY <1>1
<1>3. PICK m \in sizes : \A n \in sizes : m <= n
  BY <1>2, NatLeast
<1>4. PICK s \in B : m = Cardinality(s)
  BY <1>3
<1>5. ASSUME NEW x \in s, s \ {x} \in B PROVE FALSE
  <2>1. Cardinality(s \ {x}) = m - 1
    BY <1>1, <1>4, FS_RemoveElement
  <2>2. m <= m - 1 /\ m \in Nat
    BY <1>2, <1>3, <1>5, <2>1
  <2> QED BY <2>2
<1> QED BY <1>1, <1>5

-----------------------------------------------------------------------------
(* Sums over a finite set.                                                 *)

Pick(s) == CHOOSE x \in s : TRUE

\* A finite set of integers has a greatest and a least element.
LEMMA IntExtremes ==
  ASSUME NEW S \in SUBSET Int, IsFiniteSet(S), S # {}
  PROVE  /\ \E m \in S : \A n \in S : n <= m
         /\ \E m \in S : \A n \in S : m <= n
<1> DEFINE Good(s) == /\ \E m \in s : \A n \in s : n <= m
                      /\ \E m \in s : \A n \in s : m <= n
           bad == {s \in SUBSET S : s # {} /\ ~Good(s)}
<1>1. bad = {}
  <2> SUFFICES ASSUME bad # {} PROVE FALSE
    OBVIOUS
  <2>1. bad \in SUBSET (SUBSET S)
    OBVIOUS
  <2> HIDE DEF bad
  <2>2. PICK s \in bad : \A x \in s : s \ {x} \notin bad
    BY <2>1, SubsetLeast
  <2>3. s \in SUBSET S /\ s # {} /\ ~Good(s)
    BY <2>2 DEF bad
  <2>4. PICK x \in s : TRUE
    BY <2>3
  <2>5. s \ {x} = {} \/ Good(s \ {x})
    BY <2>2, <2>3, <2>4 DEF bad
  <2>6. CASE s \ {x} = {}
    BY <2>3, <2>4, <2>6
  <2>7. CASE Good(s \ {x})
    <3>1. PICK m \in s \ {x} : \A n \in s \ {x} : n <= m
      BY <2>7
    <3>2. PICK l \in s \ {x} : \A n \in s \ {x} : l <= n
      BY <2>7
    <3>3. \E g \in s : \A n \in s : n <= g
      <4>1. CASE x <= m
        BY <2>3, <3>1, <4>1
      <4>2. CASE m <= x
        BY <2>3, <2>4, <3>1, <4>2
      <4> QED BY <2>3, <2>4, <3>1, <4>1, <4>2
    <3>4. \E g \in s : \A n \in s : g <= n
      <4>1. CASE l <= x
        BY <2>3, <3>2, <4>1
      <4>2. CASE x <= l
        BY <2>3, <2>4, <3>2, <4>2
      <4> QED BY <2>3, <2>4, <3>2, <4>1, <4>2
    <3> QED BY <2>3, <3>3, <3>4
  <2> QED BY <2>5, <2>6, <2>7
<1> QED BY <1>1

\* The recursion that MapThenSumSet sums with: the sum of f over S is
\* SumIter(f, S)[S], by definition.
SumIter(f, S) ==
  CHOOSE iter : iter = [s \in SUBSET S |-> IF s = {} THEN 0 ELSE f[Pick(s)] + iter[s \ {Pick(s)}]]

\* On a finite set the recursion has a solution, built up by size.
LEMMA SumExists ==
  ASSUME NEW f, NEW S, IsFiniteSet(S)
  PROVE  \A s \in SUBSET S : SumIter(f, S)[s] =
           IF s = {} THEN 0 ELSE f[Pick(s)] + SumIter(f, S)[s \ {Pick(s)}]
<1> DEFINE Small(n) == {s \in SUBSET S : Cardinality(s) <= n}
           Solves(g, D) == g = [s \in D |-> IF s = {} THEN 0 ELSE f[Pick(s)] + g[s \ {Pick(s)}]]
           bad == {n \in Nat : ~\E g : Solves(g, Small(n))}
<1>1. \A s \in SUBSET S : IsFiniteSet(s) /\ Cardinality(s) \in Nat /\ (Cardinality(s) = 0 <=> s = {})
  BY FS_Subset, FS_CardinalityType, FS_EmptySet
<1>2. \A s \in SUBSET S : s # {} => Pick(s) \in s /\ Cardinality(s \ {Pick(s)}) = Cardinality(s) - 1
  <2>1. \A s \in SUBSET S : s # {} => Pick(s) \in s
    BY DEF Pick
  <2> QED BY <1>1, <2>1, FS_RemoveElement
<1>3. bad = {}
  <2> SUFFICES ASSUME bad # {} PROVE FALSE
    OBVIOUS
  <2>1. PICK n \in bad : \A m \in bad : n <= m
    <3>1. bad \in SUBSET Nat
      OBVIOUS
    <3> HIDE DEF bad
    <3> QED BY <3>1, NatLeast
  <2>2. n # 0
    <3>1. \A s \in Small(0) : s = {}
      BY <1>1
    <3>2. Solves([s \in Small(0) |-> 0], Small(0))
      BY <3>1
    <3> HIDE DEF Solves, Small
    <3> QED BY <2>1, <3>2
  <2>3. n - 1 \in Nat /\ n - 1 \notin bad
    <3>1. n \in Nat
      OBVIOUS
    <3>2. n - 1 \in Nat /\ ~(n <= n - 1)
      BY <2>2, <3>1
    <3> HIDE DEF bad
    <3> QED BY <2>1, <3>2
  <2>4. PICK g : Solves(g, Small(n - 1))
    BY <2>3
  <2> DEFINE h == [s \in Small(n) |-> IF s = {} THEN 0 ELSE f[Pick(s)] + g[s \ {Pick(s)}]]
  <2>5. \A s \in Small(n - 1) : s \in Small(n) /\ h[s] = g[s]
    <3>1. \A s \in Small(n - 1) : s \in Small(n)
      <4>1. n \in Nat
        OBVIOUS
      <4> QED BY <1>1, <4>1
    <3> HIDE DEF Small, bad
    <3> QED BY <2>4, <3>1
  <2>6. \A s \in Small(n) : s # {} => s \ {Pick(s)} \in Small(n - 1)
    BY <1>1, <1>2, <2>1
  <2>7. h = [s \in Small(n) |-> IF s = {} THEN 0 ELSE f[Pick(s)] + h[s \ {Pick(s)}]]
    <3> HIDE DEF Small
    <3> QED BY <2>5, <2>6
  <2> HIDE DEF h, Small
  <2> QED BY <2>1, <2>7
<1>4. Small(Cardinality(S)) = SUBSET S
  BY FS_Subset
<1>5. \E g : Solves(g, SUBSET S)
  <2> HIDE DEF Solves, Small
  <2>1. Cardinality(S) \in Nat /\ Cardinality(S) \notin bad
    BY <1>1, <1>3
  <2> QED BY <1>4, <2>1
<1>6. Solves(SumIter(f, S), SUBSET S)
  BY <1>5 DEF SumIter
<1> QED BY <1>6

\* What changes at one element changes the sum by as much.
LEMMA SumChange ==
  ASSUME NEW S, IsFiniteSet(S), NEW f \in [S -> Int], NEW g \in [S -> Int],
         NEW x \in S, \A y \in S \ {x} : g[y] = f[y]
  PROVE  /\ SumIter(f, S)[S] \in Int
         /\ SumIter(g, S)[S] = SumIter(f, S)[S] + (g[x] - f[x])
<1> DEFINE F == SumIter(f, S)
           G == SumIter(g, S)
           Right(s) == F[s] \in Int /\ G[s] = F[s] + (IF x \in s THEN g[x] - f[x] ELSE 0)
           bad == {s \in SUBSET S : ~Right(s)}
<1>1. bad = {}
  <2> SUFFICES ASSUME bad # {} PROVE FALSE
    OBVIOUS
  <2>1. PICK s \in bad : IsFiniteSet(s) /\ \A y \in s : s \ {y} \notin bad
    <3>1. bad \in SUBSET (SUBSET S)
      OBVIOUS
    <3> HIDE DEF bad
    <3> QED BY <3>1, SubsetLeast
  <2>2. /\ F[s] = IF s = {} THEN 0 ELSE f[Pick(s)] + F[s \ {Pick(s)}]
        /\ G[s] = IF s = {} THEN 0 ELSE g[Pick(s)] + G[s \ {Pick(s)}]
    <3>1. s \in SUBSET S
      OBVIOUS
    <3> HIDE DEF bad, Right
    <3>2. F[s] = IF s = {} THEN 0 ELSE f[Pick(s)] + F[s \ {Pick(s)}]
      BY <3>1, SumExists
    <3>3. G[s] = IF s = {} THEN 0 ELSE g[Pick(s)] + G[s \ {Pick(s)}]
      BY <3>1, SumExists
    <3> QED BY <3>2, <3>3
  <2>3. CASE s = {}
    BY <2>2, <2>3
  <2>4. CASE s # {}
    <3>1. Pick(s) \in s /\ Pick(s) \in S
      BY <2>4 DEF Pick
    <3>2. Right(s \ {Pick(s)})
      BY <2>1, <3>1
    <3> DEFINE p == Pick(s)
    <3>3. f[p] \in Int /\ g[p] \in Int /\ f[x] \in Int /\ g[x] \in Int
      BY <3>1
    <3> HIDE DEF F, G, p
    <3>4. CASE p = x
      <4>1. F[s] = f[x] + F[s \ {x}] /\ G[s] = g[x] + G[s \ {x}] /\ x \in s
        BY <2>2, <2>4, <3>1, <3>4 DEF p
      <4>2. F[s \ {x}] \in Int /\ G[s \ {x}] = F[s \ {x}] + 0
        BY <3>2, <3>4 DEF p
      <4> QED BY <2>1, <3>3, <4>1, <4>2
    <3>5. CASE p # x
      <4>1. F[s] = f[p] + F[s \ {p}] /\ G[s] = f[p] + G[s \ {p}] /\ (x \in s <=> x \in s \ {p})
        BY <2>2, <2>4, <3>1, <3>5 DEF p
      <4>2. F[s \ {p}] \in Int /\ G[s \ {p}] = F[s \ {p}] + (IF x \in s THEN g[x] - f[x] ELSE 0)
        BY <3>2, <4>1 DEF p
      <4> QED BY <2>1, <3>3, <4>1, <4>2
    <3> QED BY <3>4, <3>5
  <2> QED BY <2>3, <2>4
<1>2. Right(S)
  BY <1>1
<1> QED BY <1>2

\* A sum of zeros is 0.
LEMMA SumOfZeros ==
  ASSUME NEW S, IsFiniteSet(S)
  PROVE  SumIter([y \in S |-> 0], S)[S] = 0
<1> DEFINE z == [y \in S |-> 0]
           bad == {s \in SUBSET S : SumIter(z, S)[s] # 0}
<1>1. bad = {}
  <2> SUFFICES ASSUME bad # {} PROVE FALSE
    OBVIOUS
  <2>1. PICK s \in bad : IsFiniteSet(s) /\ \A y \in s : s \ {y} \notin bad
    <3>1. bad \in SUBSET (SUBSET S)
      OBVIOUS
    <3> HIDE DEF bad
    <3> QED BY <3>1, SubsetLeast
  <2>2. SumIter(z, S)[s] = IF s = {} THEN 0 ELSE z[Pick(s)] + SumIter(z, S)[s \ {Pick(s)}]
    BY SumExists
  <2>3. s # {} => Pick(s) \in s
    BY DEF Pick
  <2> HIDE DEF z
  <2>4. s # {} => SumIter(z, S)[s \ {Pick(s)}] = 0
    BY <2>1, <2>3
  <2>5. s # {} => z[Pick(s)] = 0
    BY <2>3 DEF z
  <2> QED BY <2>1, <2>2, <2>4, <2>5
<1> QED BY <1>1
=============================================================================
