--------------------------- MODULE RegistryProofs ---------------------------
(***************************************************************************)
(* Proofs about Registry, for any companies, boards, pages, probes at a    *)
(* time and limits.                                                        *)
(***************************************************************************)
EXTENDS Registry, SetLemmas

-----------------------------------------------------------------------------
(* What probing the candidates in the order of their slugs finds.          *)

\* The recursion that FoldLeft runs over Order with.
SweepIter(acc, candidates, alive) ==
  CHOOSE iter : iter = [s \in SUBSET DOMAIN Order |->
    IF s = {} THEN acc ELSE ProbeNext(iter[s \ {Max(s)}], candidates, alive, Order[Max(s)])]

LEMMA SweepIsIter ==
  ASSUME NEW acc, NEW candidates, NEW alive
  PROVE  Sweep(acc, candidates, alive) = SweepIter(acc, candidates, alive)[DOMAIN Order]
BY DEF Sweep, FoldLeft, MapThenFoldSet, SweepIter

LEMMA PlacesFinite ==
  /\ IsFiniteSet(DOMAIN Order) /\ IsFiniteSet(Boards)
  /\ \A s \in SUBSET DOMAIN Order : s # {} => Max(s) \in s
<1>1. Len(Order) \in Nat /\ DOMAIN Order = 1..Len(Order)
  BY OrderAssumption
<1>2. IsFiniteSet(DOMAIN Order)
  BY <1>1, FS_Interval
<1>3. Order \in Surjection(DOMAIN Order, Boards)
  BY OrderAssumption DEF Surjection
<1>4. ASSUME NEW s \in SUBSET DOMAIN Order, s # {} PROVE Max(s) \in s
  <2>1. s \in SUBSET Nat /\ \A n \in s : n <= Len(Order)
    BY <1>1
  <2>2. PICK m \in s : \A n \in s : n <= m
    BY <1>1, <1>4, <2>1, NatGreatest
  <2>3. \A n \in s : m >= n
    BY <2>1, <2>2
  <2> QED BY <2>3 DEF Max
<1> QED BY <1>2, <1>3, <1>4, FS_Surjection

\* The recursion has a solution, built up by size.
LEMMA SweepExists ==
  ASSUME NEW acc, NEW candidates, NEW alive
  PROVE  \A s \in SUBSET DOMAIN Order : SweepIter(acc, candidates, alive)[s] =
           IF s = {} THEN acc
           ELSE ProbeNext(SweepIter(acc, candidates, alive)[s \ {Max(s)}], candidates, alive, Order[Max(s)])
<1> DEFINE S == DOMAIN Order
           Small(n) == {s \in SUBSET S : Cardinality(s) <= n}
           Next1(s, v) == ProbeNext(v, candidates, alive, Order[Max(s)])
           Solves(g, D) == g = [s \in D |-> IF s = {} THEN acc ELSE Next1(s, g[s \ {Max(s)}])]
           bad == {n \in Nat : ~\E g : Solves(g, Small(n))}
<1>1. \A s \in SUBSET S : IsFiniteSet(s) /\ Cardinality(s) \in Nat /\ (Cardinality(s) = 0 <=> s = {})
  BY PlacesFinite, FS_Subset, FS_CardinalityType, FS_EmptySet
<1>2. \A s \in SUBSET S : s # {} => Max(s) \in s /\ Cardinality(s \ {Max(s)}) = Cardinality(s) - 1
  BY <1>1, PlacesFinite, FS_RemoveElement
<1>3. bad = {}
  <2> HIDE DEF Next1, S
  <2> SUFFICES ASSUME bad # {} PROVE FALSE
    OBVIOUS
  <2>1. PICK n \in bad : \A m \in bad : n <= m
    <3>1. bad \in SUBSET Nat
      OBVIOUS
    <3> HIDE DEF bad
    <3> QED BY <3>1, NatLeast
  <2>2. n # 0
    <3>1. \A s \in Small(0) : s = {}
      BY <1>1
    <3>2. Solves([s \in Small(0) |-> acc], Small(0))
      BY <3>1
    <3> HIDE DEF Solves, Small
    <3> QED BY <2>1, <3>2
  <2>3. n - 1 \in Nat /\ n - 1 \notin bad
    <3>1. n \in Nat
      OBVIOUS
    <3>2. n - 1 \in Nat /\ ~(n <= n - 1)
      BY <2>2, <3>1
    <3> HIDE DEF bad
    <3> QED BY <2>1, <3>2
  <2>4. PICK g : Solves(g, Small(n - 1))
    BY <2>3
  <2> DEFINE h == [s \in Small(n) |-> IF s = {} THEN acc ELSE Next1(s, g[s \ {Max(s)}])]
  <2>5. \A s \in Small(n - 1) : s \in Small(n) /\ h[s] = g[s]
    <3>1. \A s \in Small(n - 1) : s \in Small(n)
      <4>1. n \in Nat
        OBVIOUS
      <4> QED BY <1>1, <4>1
    <3> HIDE DEF Small, bad
    <3> QED BY <2>4, <3>1
  <2>6. \A s \in Small(n) : s # {} => s \ {Max(s)} \in Small(n - 1)
    BY <1>1, <1>2, <2>1
  <2>7. h = [s \in Small(n) |-> IF s = {} THEN acc ELSE Next1(s, h[s \ {Max(s)}])]
    <3> HIDE DEF Small
    <3> QED BY <2>5, <2>6
  <2> HIDE DEF h, Small
  <2> QED BY <2>1, <2>7
<1>4. Small(Cardinality(S)) = SUBSET S
  BY PlacesFinite, FS_Subset
<1>5. \E g : Solves(g, SUBSET S)
  <2> HIDE DEF Solves, Small, S
  <2>1. Cardinality(S) \in Nat /\ Cardinality(S) \notin bad
    BY <1>1, <1>3
  <2> QED BY <1>4, <2>1
<1>6. Solves(SweepIter(acc, candidates, alive), SUBSET S)
  BY <1>5 DEF SweepIter
<1> QED BY <1>6

Accs == [probes : Nat, verified : SUBSET Boards]
SamePlatform(b, boards) == \E v \in boards : Platform[v] = Platform[b]

\* One candidate.
LEMMA ProbeFacts ==
  ASSUME NEW a \in Accs, NEW candidates, NEW alive, NEW b \in Boards
  PROVE  LET r == ProbeNext(a, candidates, alive, b)
         IN  /\ r \in Accs /\ a.verified \subseteq r.verified
             /\ r.verified \subseteq a.verified \cup (candidates \cap alive \cap {b})
             /\ a.probes <= r.probes /\ r.probes <= a.probes + 1
             /\ a.probes >= MaxProbes \/ b \notin candidates => r = a
             /\ b \in candidates \cap alive => a.probes >= MaxProbes \/ SamePlatform(b, r.verified)
<1> DEFINE r == ProbeNext(a, candidates, alive, b)
<1>0. a.probes \in Nat /\ a.verified \in SUBSET Boards /\ MaxProbes \in Nat
  BY RegistryAssumption DEF Accs
<1>1. CASE b \notin candidates \/ a.probes >= MaxProbes \/ SamePlatform(b, a.verified)
  <2>1. r = a
    BY <1>1 DEF ProbeNext, SamePlatform
  <2> QED BY <1>0, <1>1, <2>1
<1>2. CASE ~(b \notin candidates \/ a.probes >= MaxProbes \/ SamePlatform(b, a.verified))
  <2>1. r = [probes |-> a.probes + 1, verified |-> a.verified \cup ({b} \cap alive)]
    BY <1>2 DEF ProbeNext, SamePlatform
  <2>2. r.probes = a.probes + 1 /\ r.verified = a.verified \cup ({b} \cap alive) /\ r \in Accs
    BY <1>0, <2>1 DEF Accs
  <2> HIDE DEF r
  <2>3. b \in alive => SamePlatform(b, r.verified)
    BY <2>2 DEF SamePlatform
  <2>4. /\ r \in Accs /\ a.verified \subseteq r.verified
        /\ r.verified \subseteq a.verified \cup (candidates \cap alive \cap {b})
        /\ a.probes <= r.probes /\ r.probes <= a.probes + 1
        /\ a.probes >= MaxProbes \/ b \notin candidates => r = a
        /\ b \in candidates \cap alive => a.probes >= MaxProbes \/ SamePlatform(b, r.verified)
    BY <1>0, <1>2, <2>2, <2>3
  <2> QED BY <2>4 DEF r
<1> QED BY <1>1, <1>2

\* All of them: a sweep verifies only candidates that are alive, and each one
\* that is alive unless its platform has been verified or the probes are used
\* up; the latter cannot be if there are no more candidates than probes.
LEMMA SweepFacts ==
  ASSUME NEW a \in Accs, NEW candidates \in SUBSET Boards, NEW alive
  PROVE  LET r == Sweep(a, candidates, alive)
         IN  /\ r \in Accs /\ a.verified \subseteq r.verified
             /\ r.verified \subseteq a.verified \cup (candidates \cap alive)
             /\ a.probes >= MaxProbes => r = a
             /\ \A b \in candidates \cap alive : r.probes >= MaxProbes \/ SamePlatform(b, r.verified)
             /\ a.probes + Cardinality(candidates) <= MaxProbes =>
                  \A b \in candidates \cap alive : SamePlatform(b, r.verified)
<1> DEFINE F == SweepIter(a, candidates, alive)
           Seen(s) == {Order[i] : i \in s}
           Right(s) ==
             /\ F[s] \in Accs /\ a.verified \subseteq F[s].verified
             /\ F[s].verified \subseteq a.verified \cup (candidates \cap alive)
             /\ a.probes >= MaxProbes => F[s] = a
             /\ \A b \in candidates \cap alive \cap Seen(s) :
                  F[s].probes >= MaxProbes \/ SamePlatform(b, F[s].verified)
             /\ F[s].probes <= a.probes + Cardinality(candidates \cap Seen(s))
             /\ a.probes + Cardinality(candidates) <= MaxProbes =>
                  \A b \in candidates \cap alive \cap Seen(s) : SamePlatform(b, F[s].verified)
           bad == {s \in SUBSET DOMAIN Order : ~Right(s)}
<1>1. MaxProbes \in Nat /\ a.probes \in Nat /\ IsFiniteSet(candidates)
  BY RegistryAssumption, PlacesFinite, FS_Subset DEF Accs
<1>2. bad = {}
  <2> SUFFICES ASSUME bad # {} PROVE FALSE
    OBVIOUS
  <2>1. PICK s \in bad : IsFiniteSet(s) /\ \A i \in s : s \ {i} \notin bad
    <3>1. bad \in SUBSET (SUBSET DOMAIN Order)
      OBVIOUS
    <3> HIDE DEF bad
    <3> QED BY <3>1, SubsetLeast, PlacesFinite
  <2>2. s \in SUBSET DOMAIN Order /\ ~Right(s)
    OBVIOUS
  <2> HIDE DEF F
  <2>3. F[s] = IF s = {} THEN a ELSE ProbeNext(F[s \ {Max(s)}], candidates, alive, Order[Max(s)])
    BY <2>2, SweepExists DEF F
  <2>4. CASE s = {}
    <3>1. F[s] = a /\ Seen(s) = {} /\ Cardinality(candidates \cap Seen(s)) = 0
      BY <2>3, <2>4, FS_EmptySet
    <3> HIDE DEF Seen
    <3> QED BY <1>1, <2>2, <3>1
  <2>5. CASE s # {}
    <3> DEFINE i == Max(s)
               u == s \ {i}
               b == Order[i]
               p == F[u]
               q == F[s]
    <3>1. i \in s /\ i \in DOMAIN Order /\ b \in Boards /\ u \in SUBSET DOMAIN Order
      BY <2>2, <2>5, PlacesFinite, OrderAssumption
    <3>2. Right(u)
      BY <2>1, <3>1
    <3>3. q = ProbeNext(p, candidates, alive, b)
      BY <2>3, <2>5
    <3>4. Seen(s) = Seen(u) \cup {b} /\ b \notin Seen(u)
      BY <2>2, <3>1, OrderAssumption
    <3>5. p \in Accs
      BY <3>2
    <3> HIDE DEF Seen, b, i, u, p, q
    <3>6. /\ q \in Accs /\ p.verified \subseteq q.verified
          /\ q.verified \subseteq p.verified \cup (candidates \cap alive \cap {b})
          /\ p.probes <= q.probes /\ q.probes <= p.probes + 1
          /\ p.probes >= MaxProbes \/ b \notin candidates => q = p
          /\ b \in candidates \cap alive => p.probes >= MaxProbes \/ SamePlatform(b, q.verified)
      BY <3>1, <3>3, <3>5, ProbeFacts
    <3>7. p.probes \in Nat /\ q.probes \in Nat
      BY <3>5, <3>6 DEF Accs
    <3>8. \A c \in Boards : SamePlatform(c, p.verified) => SamePlatform(c, q.verified)
      BY <3>6 DEF SamePlatform
    <3> DEFINE m == Cardinality(candidates \cap Seen(u))
               n == Cardinality(candidates \cap Seen(s))
    <3>9. /\ m \in Nat /\ n \in Nat /\ n = (IF b \in candidates THEN m + 1 ELSE m)
          /\ n <= Cardinality(candidates) /\ Cardinality(candidates) \in Nat
      <4>1. IsFiniteSet(candidates \cap Seen(u)) /\ m \in Nat
        BY <1>1, FS_Subset, FS_CardinalityType
      <4>2. candidates \cap Seen(s) = IF b \in candidates THEN (candidates \cap Seen(u)) \cup {b}
                                      ELSE candidates \cap Seen(u)
        BY <3>4
      <4>3. n = (IF b \in candidates THEN m + 1 ELSE m)
        BY <3>4, <4>1, <4>2, FS_AddElement
      <4>4. n <= Cardinality(candidates) /\ Cardinality(candidates) \in Nat
        BY <1>1, FS_Subset, FS_CardinalityType
      <4> QED BY <4>1, <4>3, <4>4
    <3>10. /\ p.probes <= a.probes + m
           /\ a.verified \subseteq p.verified
           /\ p.verified \subseteq a.verified \cup (candidates \cap alive)
           /\ a.probes >= MaxProbes => p = a
           /\ \A c \in candidates \cap alive \cap Seen(u) :
                p.probes >= MaxProbes \/ SamePlatform(c, p.verified)
           /\ a.probes + Cardinality(candidates) <= MaxProbes =>
                \A c \in candidates \cap alive \cap Seen(u) : SamePlatform(c, p.verified)
      BY <3>2 DEF p
    <3> HIDE DEF m, n, Right
    <3>11. q.probes <= a.probes + n
      <4>1. CASE b \in candidates
        BY <1>1, <3>6, <3>7, <3>9, <3>10, <4>1
      <4>2. CASE b \notin candidates
        BY <1>1, <3>6, <3>7, <3>9, <3>10, <4>2
      <4> QED BY <4>1, <4>2
    <3>12. a.probes >= MaxProbes => q = a
      BY <3>6, <3>10
    <3>13. a.verified \subseteq q.verified /\ q.verified \subseteq a.verified \cup (candidates \cap alive)
      BY <3>6, <3>10
    <3>14. ASSUME NEW c \in candidates \cap alive \cap Seen(s)
           PROVE  q.probes >= MaxProbes \/ SamePlatform(c, q.verified)
      <4>1. CASE c = b
        BY <1>1, <3>6, <3>7, <3>14, <4>1
      <4>2. CASE c # b
        BY <1>1, <3>4, <3>6, <3>7, <3>8, <3>10, <3>14, <4>2
      <4> QED BY <4>1, <4>2
    <3>15. ASSUME a.probes + Cardinality(candidates) <= MaxProbes,
                  NEW c \in candidates \cap alive \cap Seen(s)
           PROVE  SamePlatform(c, q.verified)
      <4>1. CASE c = b
        <5>1. ~(p.probes >= MaxProbes)
          BY <1>1, <3>7, <3>9, <3>10, <3>15, <4>1
        <5> QED BY <3>6, <3>15, <4>1, <5>1
      <4>2. CASE c # b
        BY <3>4, <3>8, <3>10, <3>15, <4>2
      <4> QED BY <4>1, <4>2
    <3>16. Right(s)
      BY <3>6, <3>11, <3>12, <3>13, <3>14, <3>15 DEF Right, q, n
    <3> QED BY <2>2, <3>16
  <2> QED BY <2>4, <2>5
<1>3. Right(DOMAIN Order)
  BY <1>2
<1>4. Seen(DOMAIN Order) = Boards
  BY OrderAssumption
<1>5. F[DOMAIN Order] = Sweep(a, candidates, alive)
  BY SweepIsIter
<1> HIDE DEF F, Seen
<1> QED BY <1>3, <1>4, <1>5

\* With the boards of the page swept before the guesses, a guess is the only
\* one verified only if none of the page's is alive.
LEMMA VerifiedFacts ==
  ASSUME NEW page \in SUBSET Boards, NEW guesses \in SUBSET Boards, NEW alive
  PROVE  LET v == Verified(page, guesses, alive)
         IN  /\ v \subseteq page \cup guesses /\ v \subseteq Boards
             /\ page \cap alive # {} => \A w : v = {w} => w \in page
             /\ page \cap alive # {} /\ Cardinality(page) <= MaxProbes => v # {}
<1> DEFINE A == Sweep(Unprobed, page, alive)
           B == Sweep(A, guesses \ page, alive)
<1>1. Unprobed \in Accs /\ Unprobed.verified = {} /\ Unprobed.probes = 0
  BY DEF Unprobed, Accs
<1>2. /\ A \in Accs /\ A.verified \subseteq page
      /\ \A b \in page \cap alive : A.probes >= MaxProbes \/ SamePlatform(b, A.verified)
      /\ 0 + Cardinality(page) <= MaxProbes =>
           \A b \in page \cap alive : SamePlatform(b, A.verified)
  BY <1>1, SweepFacts
<1> HIDE DEF A
<1>3. /\ B \in Accs /\ A.verified \subseteq B.verified /\ B.verified \subseteq A.verified \cup guesses
      /\ A.probes >= MaxProbes => B = A
  <2>1. guesses \ page \in SUBSET Boards
    OBVIOUS
  <2> QED BY <1>2, <2>1, SweepFacts
<1>4. Verified(page, guesses, alive) = B.verified
  BY DEF Verified, A
<1> HIDE DEF B
<1>5. ASSUME page \cap alive # {}, NEW w, B.verified = {w} PROVE w \in page
  <2> SUFFICES ASSUME w \notin page PROVE FALSE
    OBVIOUS
  <2>1. A.verified = {}
    BY <1>2, <1>3, <1>5
  <2>2. A.probes >= MaxProbes
    BY <1>2, <1>5, <2>1 DEF SamePlatform
  <2> QED BY <1>3, <1>5, <2>1, <2>2
<1>6. ASSUME page \cap alive # {}, Cardinality(page) <= MaxProbes PROVE B.verified # {}
  <2>1. 0 + Cardinality(page) <= MaxProbes
    <3>1. Cardinality(page) \in Nat
      BY PlacesFinite, FS_Subset, FS_CardinalityType
    <3> QED BY <1>6, <3>1
  <2> QED BY <1>2, <1>3, <1>6, <2>1 DEF SamePlatform
<1>7. B.verified \subseteq Boards
  BY <1>3 DEF Accs
<1> QED BY <1>2, <1>3, <1>4, <1>5, <1>6, <1>7

LEMMA OutcomeFacts ==
  ASSUME NEW c \in Companies, NEW s \in Sites, NEW reached \in BOOLEAN, NEW renders \in BOOLEAN
  PROVE  LET o == Outcome(c, s, reached, renders)
         IN  /\ o.board \in Boards \cup {None} /\ o.via \in Sources \cup {None}
             /\ o.board # None /\ reached /\ s.page \cap s.alive # {} =>
                  /\ o.via # "name_guess"
                  /\ Cardinality(s.page) <= MaxProbes => o.via = "static_html"
<1> DEFINE page == Fetched(s, reached)
           rendered == IF renders THEN s.rendered ELSE {}
           first == Verified(page, Guesses[c], s.alive)
           verified == IF first # {} THEN first ELSE Verified(rendered, {}, s.alive)
           winner == CHOOSE b \in verified : TRUE
           o == Outcome(c, s, reached, renders)
<1>1. o = IF Cardinality(verified) # 1 THEN [board |-> None, via |-> None]
          ELSE [board |-> winner, via |-> BestSource(winner, page, rendered)]
  BY DEF Outcome
<1>2. page \in SUBSET Boards /\ rendered \in SUBSET Boards /\ Guesses[c] \in SUBSET Boards
  BY RegistryAssumption DEF Fetched
<1>3. reached => page = s.page
  BY DEF Fetched
<1> HIDE DEF page, rendered
<1>4. /\ first \subseteq Boards
      /\ page \cap s.alive # {} => \A w : first = {w} => w \in page
      /\ page \cap s.alive # {} /\ Cardinality(page) <= MaxProbes => first # {}
  BY <1>2, VerifiedFacts
<1>5. Verified(rendered, {}, s.alive) \subseteq rendered
  <2>1. {} \in SUBSET Boards
    OBVIOUS
  <2> QED BY <1>2, <2>1, VerifiedFacts
<1> HIDE DEF first, o
<1>6. CASE Cardinality(verified) # 1
  <2>1. o.board = None /\ o.via = None
    BY <1>1, <1>6
  <2> QED BY <2>1 DEF o
<1>7. CASE Cardinality(verified) = 1
  <2>1. IsFiniteSet(verified) /\ verified \subseteq Boards
    BY <1>2, <1>4, <1>5, PlacesFinite, FS_Subset
  <2>2. verified = {winner}
    BY <1>7, <2>1, FS_Singleton
  <2>3. winner \in Boards /\ winner # None
    BY <2>1, <2>2, RegistryAssumption
  <2>4. winner \in first \/ winner \in rendered
    BY <1>5, <2>2
  <2>5. o.board = winner /\ o.via = BestSource(winner, page, rendered)
    BY <1>1, <1>7
  <2>6. BestSource(winner, page, rendered) \in Sources
    BY DEF BestSource, Sources
  <2>7. page \cap s.alive # {} => winner \in page \/ winner \in rendered
    BY <1>4, <2>2, <2>4
  <2>8. page \cap s.alive # {} /\ Cardinality(page) <= MaxProbes => winner \in page
    BY <1>4, <2>2
  <2> HIDE DEF verified, winner
  <2> QED BY <1>3, <2>3, <2>5, <2>6, <2>7, <2>8 DEF BestSource, o
<1> QED BY <1>6, <1>7

-----------------------------------------------------------------------------
(* Type correctness.                                                       *)

\* Instants that have passed stay in the past.
LEMMA BlocksStay ==
  ASSUME NEW m \in Nat, NEW n \in Nat, m <= n
  PROVE  /\ Blocks(m) \subseteq Blocks(n) /\ Rows(m) \subseteq Rows(n)
         /\ Work(m) \subseteq Work(n) /\ Edits(m) \subseteq Edits(n)
<1>1. 0..m \subseteq 0..n
  OBVIOUS
<1>2. Blocks(m) \subseteq Blocks(n)
  BY <1>1 DEF Blocks
<1>3. Rows(m) \subseteq Rows(n)
  BY <1>1, <1>2 DEF Rows
<1>4. Work(m) \subseteq Work(n)
  BY <1>1, <1>2 DEF Work
<1>5. Edits(m) \subseteq Edits(n)
  BY <1>1 DEF Edits
<1> QED BY <1>2, <1>3, <1>4, <1>5

LEMMA TypeInit == Init => TypeOK
<1> SUFFICES ASSUME Init PROVE TypeOK
  OBVIOUS
<1>1. clock = 0 /\ NoBlock \in Blocks(0)
  BY DEF Init, NoBlock, Blocks
<1>2. row \in [Companies -> Rows(clock)]
  <2>1. \A u \in Urls \cup {None} :
          [ats |-> None, slug |-> None, url |-> u, resolvedAt |-> 0, enabled |-> TRUE,
           res |-> NoBlock] \in Rows(0)
    BY <1>1 DEF Rows, Ats, Identifiers
  <2> QED BY <1>1, <2>1 DEF Init
<1>3. clock \in Nat /\ taken \in 0..Slots
  BY RegistryAssumption DEF Init
<1>4. thread \in [Threads -> {Idle} \cup Work(clock)] /\ site \in [Companies -> Sites]
  BY DEF Init
<1>5. /\ branch \in [Companies -> {None} \cup Blocks(clock)]
      /\ edit \in [Companies -> {None} \cup Edits(clock)]
      /\ last \in [Companies -> Boards \cup {None}]
      /\ torn \in [Companies -> BOOLEAN] /\ stranded \in [Companies -> BOOLEAN]
  BY DEF Init
<1> QED BY <1>2, <1>3, <1>4, <1>5 DEF TypeOK

\* The clock goes on or stays, and each variable keeps its value or gets one of
\* its type.
LEMMA TypesFrom ==
  ASSUME TypeOK, clock' \in Nat, clock <= clock', site' = site,
         row' = row \/ row' \in [Companies -> Rows(clock')],
         thread' = thread \/ thread' \in [Threads -> {Idle} \cup Work(clock')],
         taken' = taken \/ taken' \in 0..Slots,
         branch' = branch \/ branch' \in [Companies -> {None} \cup Blocks(clock')],
         edit' = edit \/ edit' \in [Companies -> {None} \cup Edits(clock')],
         last' = last \/ last' \in [Companies -> Boards \cup {None}],
         torn' = torn \/ torn' \in [Companies -> BOOLEAN],
         stranded' = stranded \/ stranded' \in [Companies -> BOOLEAN]
  PROVE  TypeOK'
<1>1. /\ Blocks(clock) \subseteq Blocks(clock') /\ Rows(clock) \subseteq Rows(clock')
      /\ Work(clock) \subseteq Work(clock') /\ Edits(clock) \subseteq Edits(clock')
  BY BlocksStay DEF TypeOK
<1>2. row' \in [Companies -> Rows(clock')]
  BY <1>1 DEF TypeOK
<1>3. thread' \in [Threads -> {Idle} \cup Work(clock')]
  BY <1>1 DEF TypeOK
<1>4. branch' \in [Companies -> {None} \cup Blocks(clock')]
  BY <1>1 DEF TypeOK
<1>5. edit' \in [Companies -> {None} \cup Edits(clock')]
  BY <1>1 DEF TypeOK
<1> QED BY <1>2, <1>3, <1>4, <1>5 DEF TypeOK

\* One row, or one thread, is written.
LEMMA OneRow ==
  ASSUME TypeOK, clock' \in Nat, clock <= clock', NEW c \in Companies, NEW r \in Rows(clock'),
         row' = [row EXCEPT ![c] = r]
  PROVE  /\ row' \in [Companies -> Rows(clock')] /\ row'[c] = r
         /\ \A d \in Companies \ {c} : row'[d] = row[d]
<1>1. Rows(clock) \subseteq Rows(clock')
  BY BlocksStay DEF TypeOK
<1> QED BY <1>1 DEF TypeOK

LEMMA OneThread ==
  ASSUME TypeOK, clock' \in Nat, clock <= clock', NEW t \in Threads,
         NEW w \in {Idle} \cup Work(clock'), thread' = [thread EXCEPT ![t] = w]
  PROVE  /\ thread' \in [Threads -> {Idle} \cup Work(clock')] /\ thread'[t] = w
         /\ \A u \in Threads \ {t} : thread'[u] = thread[u]
<1>1. Work(clock) \subseteq Work(clock')
  BY BlocksStay DEF TypeOK
<1> QED BY <1>1 DEF TypeOK

\* What a thread holds while it is at work.
LEMMA ThreadIs ==
  ASSUME TypeOK, NEW t \in Threads, thread[t].at # "idle"
  PROVE  /\ thread[t] \in Work(clock) /\ thread[t].c \in Companies /\ thread[t].api \in BOOLEAN
         /\ thread[t].stamp \in 0..clock /\ thread[t].res \in Blocks(clock)
         /\ thread[t].board \in Boards \cup {None} /\ thread[t].url \in Urls \cup {None}
<1>1. thread[t] # Idle
  BY DEF Idle
<1> QED BY <1>1 DEF TypeOK, Work

\* The blocks that are written.
LEMMA BlockTypes ==
  ASSUME NEW m \in Nat
  PROVE  /\ NoBlock \in Blocks(m)
         /\ \A n \in 0..m : /\ ResolvingMarker(n) \in Blocks(m)
                            /\ ResolvingMarker(n).reached = FALSE
         /\ ErrorBlock \in Blocks(m) /\ ErrorBlock.state = "error" /\ ErrorBlock.reached = FALSE
         /\ ManualBlock \in Blocks(m) /\ ManualBlock.state = "resolved"
         /\ ManualBlock.reached = FALSE
<1>1. NoBlock \in Blocks(m) /\ NoBlock.reached = FALSE
  BY DEF NoBlock, Blocks
<1>2. ASSUME NEW n \in 0..m
      PROVE  ResolvingMarker(n) \in Blocks(m) /\ ResolvingMarker(n).reached = FALSE
  BY DEF ResolvingMarker, NoBlock, Blocks
<1>3. ErrorBlock \in Blocks(m) /\ ErrorBlock.state = "error" /\ ErrorBlock.reached = FALSE
  BY <1>1 DEF ErrorBlock, Blocks
<1>4. /\ ManualBlock \in Blocks(m) /\ ManualBlock.state = "resolved"
      /\ ManualBlock.reached = FALSE
  BY <1>1 DEF ManualBlock, Blocks, Sources
<1> QED BY <1>1, <1>2, <1>3, <1>4

LEMMA NewWorkIs ==
  ASSUME NEW m \in Nat, NEW c \in Companies, NEW at \in Phases
  PROVE  /\ NewWork(c, at) \in Work(m) /\ NewWork(c, at).at = at /\ NewWork(c, at).c = c
         /\ NewWork(c, at).api = TRUE
<1>1. NoBlock \in Blocks(m)
  BY BlockTypes
<1> QED BY <1>1 DEF NewWork, Work

\* A step of one thread that writes no row: the thread becomes w.
OnlyThread(t, w) ==
  /\ thread' = [thread EXCEPT ![t] = w] /\ w \in {Idle} \cup Work(clock')
  /\ clock' \in Nat /\ clock <= clock' /\ UNCHANGED <<site, row, branch, edit, last, torn>>

\* What becomes of the thread in each of them: what it does not hold any more
\* is left in the row, or was no probe of the API.
LEMMA ThreadSteps ==
  ASSUME TypeOK, NEW t \in Threads
  PROVE  /\ \A c \in Companies : MarkResolving(c, t) =>
              \E w : /\ OnlyThread(t, w) /\ w.at = "marking" /\ w.api /\ thread[t].at = "idle"
                     /\ UNCHANGED <<taken, stranded>>
         /\ MarkFails(t) => /\ OnlyThread(t, Idle) /\ thread[t].at = "marking"
                            /\ UNCHANGED <<taken, stranded>>
         /\ ReadsCompany(t) =>
              \E w : /\ OnlyThread(t, w) /\ w.at = "queued" /\ w.c = thread[t].c
                     /\ w.api = thread[t].api /\ thread[t].at = "started"
                     /\ UNCHANGED <<taken, stranded>>
         /\ \A c \in Companies, u \in Urls \cup {None} : CliResolve(c, t, u) =>
              \E w : /\ OnlyThread(t, w) /\ w.at = "probing" /\ w.api = FALSE
                     /\ thread[t].at = "idle" /\ UNCHANGED <<taken, stranded>>
         /\ Acquire(t) =>
              \E w : /\ OnlyThread(t, w) /\ w.at = "probing" /\ w.c = thread[t].c
                     /\ w.api = thread[t].api /\ thread[t].at = "queued"
                     /\ UNCHANGED stranded
<1>0. clock \in Nat /\ clock <= clock
  BY DEF TypeOK
<1>1. ASSUME NEW c \in Companies, MarkResolving(c, t)
      PROVE  \E w : /\ OnlyThread(t, w) /\ w.at = "marking" /\ w.api /\ thread[t].at = "idle"
                    /\ UNCHANGED <<taken, stranded>>
  <2> DEFINE w == [NewWork(c, "marking") EXCEPT !.stamp = clock']
  <2>1. clock' \in Nat /\ clock <= clock' /\ clock' \in 0..clock'
    BY <1>1, <1>0 DEF MarkResolving
  <2>2. NewWork(c, "marking") \in Work(clock')
    BY <2>1, NewWorkIs DEF Phases
  <2>3. w \in Work(clock') /\ w.at = "marking" /\ w.api
    BY <2>1, <2>2 DEF NewWork, Work
  <2>4. thread' = [thread EXCEPT ![t] = w] /\ thread[t] = Idle
        /\ UNCHANGED <<site, row, taken, branch, edit, last, torn, stranded>>
    BY <1>1 DEF MarkResolving, history
  <2> HIDE DEF w
  <2>5. OnlyThread(t, w)
    BY <2>1, <2>3, <2>4 DEF OnlyThread
  <2> QED BY <2>3, <2>4, <2>5 DEF Idle
<1>2. ASSUME MarkFails(t)
      PROVE  /\ OnlyThread(t, Idle) /\ thread[t].at = "marking" /\ UNCHANGED <<taken, stranded>>
  BY <1>0, <1>2 DEF MarkFails, OnlyThread, history
<1>3. ASSUME ReadsCompany(t)
      PROVE  \E w : /\ OnlyThread(t, w) /\ w.at = "queued" /\ w.c = thread[t].c
                    /\ w.api = thread[t].api /\ thread[t].at = "started"
                    /\ UNCHANGED <<taken, stranded>>
  <2> DEFINE w == [thread[t] EXCEPT !.at = "queued", !.url = row[thread[t].c].url]
  <2>1. thread[t] \in Work(clock) /\ thread[t].c \in Companies
    BY <1>3, ThreadIs DEF ReadsCompany
  <2>2. row[thread[t].c].url \in Urls \cup {None}
    BY <2>1 DEF TypeOK, Rows
  <2>3. w \in Work(clock) /\ w.at = "queued" /\ w.c = thread[t].c /\ w.api = thread[t].api
    BY <2>1, <2>2 DEF Work, Phases
  <2>4. thread' = [thread EXCEPT ![t] = w] /\ thread[t].at = "started"
        /\ UNCHANGED <<site, row, taken, branch, edit, clock, last, torn, stranded>>
    BY <1>3 DEF ReadsCompany, history
  <2> HIDE DEF w
  <2>5. OnlyThread(t, w)
    BY <1>0, <2>3, <2>4 DEF OnlyThread
  <2> QED BY <2>3, <2>4, <2>5
<1>4. ASSUME NEW c \in Companies, NEW u \in Urls \cup {None}, CliResolve(c, t, u)
      PROVE  \E w : /\ OnlyThread(t, w) /\ w.at = "probing" /\ w.api = FALSE
                    /\ thread[t].at = "idle" /\ UNCHANGED <<taken, stranded>>
  <2> DEFINE w == [NewWork(c, "probing") EXCEPT !.url = u, !.api = FALSE]
  <2>1. NewWork(c, "probing") \in Work(clock)
    BY <1>0, NewWorkIs DEF Phases
  <2>2. w \in Work(clock) /\ w.at = "probing" /\ w.api = FALSE
    BY <2>1 DEF NewWork, Work
  <2>3. thread' = [thread EXCEPT ![t] = w] /\ thread[t] = Idle
        /\ UNCHANGED <<site, row, taken, branch, edit, clock, last, torn, stranded>>
    BY <1>4 DEF CliResolve, history
  <2> HIDE DEF w
  <2>4. OnlyThread(t, w)
    BY <1>0, <2>2, <2>3 DEF OnlyThread
  <2> QED BY <2>2, <2>3, <2>4 DEF Idle
<1>5. ASSUME Acquire(t)
      PROVE  \E w : /\ OnlyThread(t, w) /\ w.at = "probing" /\ w.c = thread[t].c
                    /\ w.api = thread[t].api /\ thread[t].at = "queued" /\ UNCHANGED stranded
  <2> DEFINE w == [thread[t] EXCEPT !.at = "probing"]
  <2>1. thread[t] \in Work(clock)
    BY <1>5, ThreadIs DEF Acquire
  <2>2. w \in Work(clock) /\ w.at = "probing" /\ w.c = thread[t].c /\ w.api = thread[t].api
    BY <2>1 DEF Work, Phases
  <2>3. thread' = [thread EXCEPT ![t] = w] /\ thread[t].at = "queued"
        /\ UNCHANGED <<site, row, branch, edit, clock, last, torn, stranded>>
    BY <1>5 DEF Acquire, history
  <2> HIDE DEF w
  <2>4. OnlyThread(t, w)
    BY <1>0, <2>2, <2>3 DEF OnlyThread
  <2> QED BY <2>2, <2>3, <2>4
<1> QED BY <1>1, <1>2, <1>3, <1>4, <1>5

\* Those in which a thread comes to an end or to its handler.
LEMMA ThreadEnds ==
  ASSUME TypeOK, NEW t \in Threads
  PROVE  /\ DiesEarly(t) \/ ErrorFails(t) =>
              /\ OnlyThread(t, Idle) /\ UNCHANGED taken
              /\ thread[t].at \in {"started", "failing"} /\ Leave(thread[t].c)
         /\ Raise(t) =>
              \E w : /\ OnlyThread(t, w) /\ thread[t].at \in {"probing", "found"}
                     /\ IF thread[t].api THEN w.at = "failing" /\ w.c = thread[t].c /\ w.api
                                         ELSE w = Idle
                     /\ Release(t) /\ UNCHANGED stranded
<1>0. clock \in Nat /\ clock <= clock
  BY DEF TypeOK
<1>1. ASSUME DiesEarly(t) \/ ErrorFails(t)
      PROVE  /\ OnlyThread(t, Idle) /\ UNCHANGED taken
             /\ thread[t].at \in {"started", "failing"} /\ Leave(thread[t].c)
  BY <1>0, <1>1 DEF DiesEarly, ErrorFails, OnlyThread
<1>2. ASSUME Raise(t)
      PROVE  \E w : /\ OnlyThread(t, w) /\ thread[t].at \in {"probing", "found"}
                    /\ IF thread[t].api THEN w.at = "failing" /\ w.c = thread[t].c /\ w.api
                                        ELSE w = Idle
                    /\ Release(t) /\ UNCHANGED stranded
  <2> DEFINE w == IF thread[t].api THEN NewWork(thread[t].c, "failing") ELSE Idle
  <2>1. thread[t].c \in Companies
    BY <1>2, ThreadIs DEF Raise
  <2>2. /\ NewWork(thread[t].c, "failing") \in Work(clock)
        /\ NewWork(thread[t].c, "failing").at = "failing"
        /\ NewWork(thread[t].c, "failing").c = thread[t].c
        /\ NewWork(thread[t].c, "failing").api = TRUE
    BY <1>0, <2>1, NewWorkIs DEF Phases
  <2>3. thread' = [thread EXCEPT ![t] = w] /\ thread[t].at \in {"probing", "found"} /\ Release(t)
        /\ UNCHANGED <<site, row, branch, edit, clock, last, torn, stranded>>
    BY <1>2 DEF Raise, history
  <2>4. OnlyThread(t, w)
    BY <1>0, <2>2, <2>3 DEF OnlyThread
  <2> QED BY <2>2, <2>3, <2>4
<1> QED BY <1>1, <1>2

\* A result: a guess only if the page had nothing alive, a stamp only with a
\* board.
LEMMA FindsStep ==
  ASSUME TypeOK, NEW t \in Threads, FindsResult(t)
  PROVE  \E w : /\ OnlyThread(t, w) /\ w.at = "found" /\ w.c = thread[t].c
                /\ w.api = thread[t].api /\ thread[t].at = "probing"
                /\ FoundHonest(w) /\ UNCHANGED <<taken, stranded>>
<1> DEFINE c == thread[t].c
           o(reached, renders) == OutcomeTable[c][site[c]][reached][renders]
           Found(reached, renders) ==
             LET outcome == OutcomeTable[thread[t].c][site[thread[t].c]][reached][renders]
                 resolved == outcome.board # None
             IN /\ clock' = IF resolved THEN clock + 1 ELSE clock
                /\ thread' = [thread EXCEPT ![t] = [@ EXCEPT
                     !.at = "found", !.board = outcome.board, !.res = ProbeBlock(outcome, reached),
                     !.stamp = IF resolved THEN clock' ELSE 0]]
<1>1. /\ thread[t] \in Work(clock) /\ c \in Companies /\ clock \in Nat /\ site[c] \in Sites
      /\ thread[t].at = "probing"
  BY ThreadIs DEF FindsResult, TypeOK
<1>2. PICK reached \in BOOLEAN, renders \in BOOLEAN : Found(reached, renders)
  BY DEF FindsResult
<1> DEFINE x == o(reached, renders)
           b == ProbeBlock(x, reached)
           w == [thread[t] EXCEPT !.at = "found", !.board = x.board, !.res = b,
                                  !.stamp = IF x.board # None THEN clock' ELSE 0]
<1>3. x = Outcome(c, site[c], reached, renders)
  BY <1>1 DEF OutcomeTable
<1>4. /\ clock' = (IF x.board # None THEN clock + 1 ELSE clock)
      /\ thread' = [thread EXCEPT ![t] = w]
  BY <1>2
<1> HIDE DEF c
<1> HIDE DEF o, Found
<1>5. /\ x.board \in Boards \cup {None} /\ x.via \in Sources \cup {None}
      /\ x.board # None /\ reached /\ site[c].page \cap site[c].alive # {} =>
           /\ x.via # "name_guess"
           /\ Cardinality(site[c].page) <= MaxProbes => x.via = "static_html"
  BY <1>1, <1>3, OutcomeFacts
<1> HIDE DEF x
<1>6. clock' \in Nat /\ clock <= clock' /\ clock' \in 0..clock'
  BY <1>1, <1>4
<1>7. /\ b \in Blocks(clock') /\ b.state # "resolving"
      /\ b.state = "resolved" /\ b.reached => x.board # None /\ reached /\ b.via = x.via
  <2>1. ErrorBlock \in Blocks(clock') /\ ErrorBlock.state = "error"
    BY <1>6, BlockTypes
  <2> QED BY <1>5, <1>6, <2>1 DEF ProbeBlock, Blocks
<1> HIDE DEF b
<1>8. GuessIsLast(c, b)
  BY <1>5, <1>7 DEF GuessIsLast
<1>9. thread[t] \in Work(clock')
  BY <1>1, <1>6, BlocksStay
<1>10. w \in Work(clock') /\ w.at = "found" /\ w.c = thread[t].c /\ w.api = thread[t].api
       /\ w.res = b /\ w.board = x.board /\ w.stamp = (IF x.board # None THEN clock' ELSE 0)
  <2>1. (IF x.board # None THEN clock' ELSE 0) \in 0..clock'
    BY <1>6
  <2>2. thread[t] \in [at : Phases, c : Companies, url : Urls \cup {None}, api : BOOLEAN,
                       board : Boards \cup {None}, stamp : 0..clock', res : Blocks(clock')]
    BY <1>9 DEF Work
  <2>3. "found" \in Phases
    BY DEF Phases
  <2> DEFINE n == IF x.board # None THEN clock' ELSE 0
             bd == x.board
  <2>4. bd \in Boards \cup {None} /\ n \in 0..clock' /\ b \in Blocks(clock')
    BY <1>5, <1>7, <2>1
  <2>5. w = [thread[t] EXCEPT !.at = "found", !.board = bd, !.res = b, !.stamp = n]
    OBVIOUS
  <2> HIDE DEF w, n, bd
  <2>6. /\ w \in [at : Phases, c : Companies, url : Urls \cup {None}, api : BOOLEAN,
                  board : Boards \cup {None}, stamp : 0..clock', res : Blocks(clock')]
        /\ w.at = "found" /\ w.c = thread[t].c /\ w.api = thread[t].api /\ w.res = b
        /\ w.board = bd /\ w.stamp = n
    BY <2>2, <2>3, <2>4, <2>5
  <2> QED BY <2>6 DEF Work, bd, n
<1> HIDE DEF w
<1>11. FoundHonest(w)
  <2>1. clock' # 0 \/ x.board = None
    BY <1>1, <1>4
  <2>2. w.c = c
    BY <1>10 DEF c
  <2> QED BY <1>7, <1>8, <1>10, <2>1, <2>2 DEF FoundHonest
<1>12. UNCHANGED <<site, row, taken, branch, edit, last, torn, stranded>>
  BY DEF FindsResult, history
<1>13. OnlyThread(t, w)
  BY <1>4, <1>6, <1>10, <1>12 DEF OnlyThread
<1> QED BY <1>1, <1>10, <1>11, <1>12, <1>13

\* A step that writes one row, without a new stamp.
RowBecomes(c, r) ==
  row' = [row EXCEPT ![c] = r] /\ r \in Rows(clock) /\ UNCHANGED <<site, clock>>
SameOutcome(c, r) ==
  /\ r.ats = row[c].ats /\ r.slug = row[c].slug /\ r.resolvedAt = row[c].resolvedAt
  /\ UNCHANGED <<last, torn>>

\* The marker, and the error: the block of the row only.
LEMMA OverwriteStep ==
  ASSUME TypeOK, NEW c \in Companies, NEW block \in Blocks(clock), Overwrite(c, block),
         UNCHANGED <<site, clock, last, torn>>
  PROVE  \E r : /\ RowBecomes(c, r) /\ SameOutcome(c, r) /\ r.res = block
                /\ stranded' = [stranded EXCEPT ![c] = FALSE]
<1> DEFINE r == [row[c] EXCEPT !.res = block]
<1>1. row[c] \in Rows(clock)
  BY DEF TypeOK
<1>2. /\ r \in Rows(clock) /\ r.res = block /\ r.ats = row[c].ats /\ r.slug = row[c].slug
      /\ r.resolvedAt = row[c].resolvedAt
  BY <1>1 DEF Rows
<1>3. row' = [row EXCEPT ![c] = r] /\ stranded' = [stranded EXCEPT ![c] = FALSE]
  BY DEF Overwrite
<1> HIDE DEF r
<1> QED BY <1>2, <1>3 DEF RowBecomes, SameOutcome

LEMMA MarkCommitsStep ==
  ASSUME TypeOK, NEW t \in Threads, MarkCommits(t)
  PROVE  /\ thread[t].at = "marking" /\ thread[t].c \in Companies
         /\ thread' = [thread EXCEPT ![t] = NewWork(thread[t].c, "started")]
         /\ NewWork(thread[t].c, "started") \in Work(clock)
         /\ UNCHANGED <<taken, branch, edit>>
         /\ \E r : /\ RowBecomes(thread[t].c, r) /\ SameOutcome(thread[t].c, r)
                   /\ r.res.reached = FALSE
                   /\ stranded' = [stranded EXCEPT ![thread[t].c] = FALSE]
<1>1. /\ thread[t].at = "marking" /\ thread[t].c \in Companies /\ clock \in Nat
      /\ thread[t].stamp \in 0..clock
  BY ThreadIs DEF MarkCommits, TypeOK
<1>2. /\ Overwrite(thread[t].c, ResolvingMarker(thread[t].stamp))
      /\ thread' = [thread EXCEPT ![t] = NewWork(thread[t].c, "started")]
      /\ UNCHANGED <<site, taken, branch, edit, clock, last, torn>>
  BY DEF MarkCommits
<1>3. /\ ResolvingMarker(thread[t].stamp) \in Blocks(clock)
      /\ ResolvingMarker(thread[t].stamp).reached = FALSE
  BY <1>1, BlockTypes
<1>4. NewWork(thread[t].c, "started") \in Work(clock)
  BY <1>1, NewWorkIs DEF Phases
<1>5. \E r : /\ RowBecomes(thread[t].c, r) /\ SameOutcome(thread[t].c, r)
             /\ r.res = ResolvingMarker(thread[t].stamp)
             /\ stranded' = [stranded EXCEPT ![thread[t].c] = FALSE]
  BY <1>1, <1>2, <1>3, OverwriteStep
<1> QED BY <1>1, <1>2, <1>3, <1>4, <1>5

LEMMA ErrorCommitsStep ==
  ASSUME TypeOK, NEW t \in Threads, ErrorCommits(t)
  PROVE  /\ thread[t].at = "failing" /\ thread[t].c \in Companies
         /\ thread' = [thread EXCEPT ![t] = Idle] /\ UNCHANGED <<taken, branch, edit>>
         /\ \E r : /\ RowBecomes(thread[t].c, r) /\ SameOutcome(thread[t].c, r)
                   /\ r.res = ErrorBlock
                   /\ stranded' = [stranded EXCEPT ![thread[t].c] = FALSE]
<1>1. thread[t].at = "failing" /\ thread[t].c \in Companies /\ clock \in Nat
  BY ThreadIs DEF ErrorCommits, TypeOK
<1>2. /\ Overwrite(thread[t].c, ErrorBlock) /\ thread' = [thread EXCEPT ![t] = Idle]
      /\ UNCHANGED <<site, taken, branch, edit, clock, last, torn>>
  BY DEF ErrorCommits
<1>3. ErrorBlock \in Blocks(clock)
  BY <1>1, BlockTypes
<1> QED BY <1>1, <1>2, <1>3, OverwriteStep

LEMMA PersistStep ==
  ASSUME TypeOK, NEW t \in Threads, Persist(t)
  PROVE  LET c == thread[t].c
             board == thread[t].board
         IN  /\ thread[t].at = "found" /\ c \in Companies /\ board \in Boards \cup {None}
             /\ thread' = [thread EXCEPT ![t] = Idle] /\ Release(t) /\ UNCHANGED <<branch, edit>>
             /\ last' = [last EXCEPT ![c] = board] /\ torn' = [torn EXCEPT ![c] = FALSE]
             /\ stranded' = [stranded EXCEPT ![c] = FALSE]
             /\ \E r : /\ RowBecomes(c, r) /\ r.res = thread[t].res
                       /\ r.resolvedAt = thread[t].stamp
                       /\ r.ats = (IF board # None THEN Platform[board] ELSE None)
                       /\ r.slug = (IF board # None THEN Slug[board] ELSE None)
<1> DEFINE c == thread[t].c
           board == thread[t].board
           a == IF board # None THEN Platform[board] ELSE None
           i == IF board # None THEN Slug[board] ELSE None
           r == [row[c] EXCEPT !.ats = a, !.slug = i, !.url = thread[t].url,
                               !.resolvedAt = thread[t].stamp, !.res = thread[t].res]
<1>1. /\ thread[t].at = "found" /\ c \in Companies /\ board \in Boards \cup {None}
      /\ thread[t].url \in Urls \cup {None} /\ thread[t].stamp \in 0..clock
      /\ thread[t].res \in Blocks(clock) /\ row[c] \in Rows(clock)
  BY ThreadIs DEF Persist, TypeOK
<1>2. a \in Ats /\ i \in Identifiers
  BY <1>1 DEF Ats, Identifiers
<1>3. /\ row' = [row EXCEPT ![c] = r]
      /\ thread' = [thread EXCEPT ![t] = Idle] /\ Release(t)
      /\ UNCHANGED <<site, branch, edit, clock>>
      /\ last' = [last EXCEPT ![c] = board] /\ torn' = [torn EXCEPT ![c] = FALSE]
      /\ stranded' = [stranded EXCEPT ![c] = FALSE]
  BY DEF Persist
<1> HIDE DEF a, i
<1>4. /\ r \in Rows(clock) /\ r.res = thread[t].res /\ r.resolvedAt = thread[t].stamp
      /\ r.ats = a /\ r.slug = i
  BY <1>1, <1>2 DEF Rows
<1> HIDE DEF r
<1>5. RowBecomes(c, r)
  BY <1>3, <1>4 DEF RowBecomes
<1> QED BY <1>1, <1>3, <1>4, <1>5 DEF a, i

LEMMA CommitBoardStep ==
  ASSUME TypeOK, NEW c \in Companies, CommitBoard(c)
  PROVE  LET e == edit[c]
         IN  /\ e \in Edits(clock) /\ e.stamp # 0 /\ UNCHANGED <<thread, taken, branch>>
             /\ edit' = [edit EXCEPT ![c] = None]
             /\ last' = [last EXCEPT ![c] = e.board] /\ torn' \in [Companies -> BOOLEAN]
             /\ \A d \in Companies \ {c} : torn'[d] = torn[d]
             /\ stranded' = [stranded EXCEPT ![c] = FALSE]
             /\ \E r : /\ RowBecomes(c, r) /\ r.res = ManualBlock /\ r.resolvedAt = e.stamp
                       /\ torn'[c] \/ (r.ats = Platform[e.board] /\ r.slug = Slug[e.board])
<1> DEFINE e == edit[c]
           sameAts == Platform[e.board] = e.ats
           sameSlug == Slug[e.board] = e.slug
           a == IF sameAts THEN row[c].ats ELSE Platform[e.board]
           i == IF sameSlug THEN row[c].slug ELSE Slug[e.board]
           r == [row[c] EXCEPT !.ats = a, !.slug = i, !.resolvedAt = e.stamp, !.res = ManualBlock]
           x == (sameAts /\ row[c].ats # e.ats) \/ (sameSlug /\ row[c].slug # e.slug)
<1>1. /\ e \in Edits(clock) /\ e.stamp # 0 /\ e.stamp \in 0..clock /\ e.board \in Boards
      /\ row[c] \in Rows(clock) /\ row[c].ats \in Ats /\ row[c].slug \in Identifiers /\ clock \in Nat
  BY DEF CommitBoard, TypeOK, Edits, Rows
<1>2. a \in Ats /\ i \in Identifiers /\ ManualBlock \in Blocks(clock)
  BY <1>1, BlockTypes DEF Ats, Identifiers
<1>3. /\ row' = [row EXCEPT ![c] = r] /\ torn' = [torn EXCEPT ![c] = x]
      /\ UNCHANGED <<site, thread, taken, branch, clock>>
      /\ edit' = [edit EXCEPT ![c] = None]
      /\ last' = [last EXCEPT ![c] = e.board] /\ stranded' = [stranded EXCEPT ![c] = FALSE]
  <2>1. row' = [row EXCEPT ![c] = r]
    BY DEF CommitBoard
  <2>2. torn' = [torn EXCEPT ![c] = x]
    BY Zenon DEF CommitBoard
  <2>3. /\ UNCHANGED <<site, thread, taken, branch, clock>>
        /\ edit' = [edit EXCEPT ![c] = None]
        /\ last' = [last EXCEPT ![c] = e.board] /\ stranded' = [stranded EXCEPT ![c] = FALSE]
    BY DEF CommitBoard
  <2> HIDE DEF r, x
  <2> QED BY <2>1, <2>2, <2>3
<1>4. x \/ (a = Platform[e.board] /\ i = Slug[e.board])
  OBVIOUS
<1>5. x \in BOOLEAN
  OBVIOUS
<1> HIDE DEF a, i, x
<1>6. /\ torn' \in [Companies -> BOOLEAN] /\ torn'[c] = x
      /\ \A d \in Companies \ {c} : torn'[d] = torn[d]
  BY <1>3, <1>5 DEF TypeOK
<1>7. /\ r \in Rows(clock) /\ r.res = ManualBlock /\ r.resolvedAt = e.stamp
      /\ r.ats = a /\ r.slug = i
  BY <1>1, <1>2 DEF Rows
<1> HIDE DEF r
<1>8. RowBecomes(c, r)
  BY <1>3, <1>7 DEF RowBecomes
<1>9. torn'[c] \/ (r.ats = Platform[e.board] /\ r.slug = Slug[e.board])
  BY <1>4, <1>6, <1>7
<1> QED BY <1>1, <1>3, <1>6, <1>7, <1>8, <1>9

LEMMA SaveCrawlStep ==
  ASSUME TypeOK, NEW c \in Companies, SaveCrawlHash(c)
  PROVE  /\ branch[c] # None /\ UNCHANGED <<thread, taken, edit>>
         /\ branch' = [branch EXCEPT ![c] = None]
         /\ stranded' \in [Companies -> BOOLEAN]
         /\ \A d \in Companies \ {c} : stranded'[d] = stranded[d]
         /\ stranded'[c] = \/ stranded[c]
                           \/ /\ branch[c] # row[c].res /\ branch[c].state = "resolving"
                              /\ branch[c].at > row[c].resolvedAt
         /\ \E r : RowBecomes(c, r) /\ SameOutcome(c, r) /\ r.res = branch[c]
<1> DEFINE r == [row[c] EXCEPT !.res = branch[c]]
           back == /\ branch[c] # row[c].res /\ branch[c].state = "resolving"
                   /\ branch[c].at > row[c].resolvedAt
<1>1. branch[c] \in Blocks(clock) /\ row[c] \in Rows(clock) /\ branch[c] # None
  BY DEF SaveCrawlHash, TypeOK
<1>2. /\ row' = [row EXCEPT ![c] = r] /\ branch' = [branch EXCEPT ![c] = None]
      /\ stranded' = [stranded EXCEPT ![c] = stranded[c] \/ back]
      /\ UNCHANGED <<site, thread, taken, edit, clock, last, torn>>
  BY DEF SaveCrawlHash
<1>3. /\ r \in Rows(clock) /\ r.res = branch[c] /\ r.ats = row[c].ats /\ r.slug = row[c].slug
      /\ r.resolvedAt = row[c].resolvedAt
  BY <1>1 DEF Rows
<1>4. back \in BOOLEAN
  OBVIOUS
<1> HIDE DEF r
<1>5. /\ stranded' \in [Companies -> BOOLEAN] /\ stranded'[c] = (stranded[c] \/ back)
      /\ \A d \in Companies \ {c} : stranded'[d] = stranded[d]
  BY <1>2, <1>4 DEF TypeOK
<1>6. RowBecomes(c, r) /\ SameOutcome(c, r)
  BY <1>2, <1>3 DEF RowBecomes, SameOutcome
<1> QED BY <1>1, <1>2, <1>3, <1>5, <1>6

\* The toggle and the URL: neither outcome nor block.
LEMMA UserStep ==
  ASSUME TypeOK, NEW c \in Companies,
         Toggle(c) \/ \E u \in Urls \cup {None} : EditUrl(c, u)
  PROVE  /\ UNCHANGED <<thread, taken, branch, edit, stranded>>
         /\ \E r : RowBecomes(c, r) /\ SameOutcome(c, r) /\ r.res = row[c].res
<1>1. row[c] \in Rows(clock)
  BY DEF TypeOK
<1>2. CASE Toggle(c)
  <2> DEFINE r == [row[c] EXCEPT !.enabled = ~row[c].enabled]
  <2>1. /\ r \in Rows(clock) /\ r.res = row[c].res /\ r.ats = row[c].ats
        /\ r.slug = row[c].slug /\ r.resolvedAt = row[c].resolvedAt
    BY <1>1 DEF Rows
  <2>2. /\ row' = [row EXCEPT ![c] = r]
        /\ UNCHANGED <<site, thread, taken, branch, edit, clock, last, torn, stranded>>
    BY <1>2 DEF Toggle, history
  <2> HIDE DEF r
  <2> QED BY <2>1, <2>2 DEF RowBecomes, SameOutcome
<1>3. ASSUME NEW u \in Urls \cup {None}, EditUrl(c, u)
      PROVE  /\ UNCHANGED <<thread, taken, branch, edit, stranded>>
             /\ \E r : RowBecomes(c, r) /\ SameOutcome(c, r) /\ r.res = row[c].res
  <2> DEFINE r == [row[c] EXCEPT !.url = u]
  <2>1. /\ r \in Rows(clock) /\ r.res = row[c].res /\ r.ats = row[c].ats
        /\ r.slug = row[c].slug /\ r.resolvedAt = row[c].resolvedAt
    BY <1>1 DEF Rows
  <2>2. /\ row' = [row EXCEPT ![c] = r]
        /\ UNCHANGED <<site, thread, taken, branch, edit, clock, last, torn, stranded>>
    BY <1>3 DEF EditUrl, history
  <2> HIDE DEF r
  <2> QED BY <2>1, <2>2 DEF RowBecomes, SameOutcome
<1> QED BY <1>2, <1>3

\* A step that writes neither a row nor a thread: a copy is taken or dropped.
NoRow == UNCHANGED <<site, row, thread, taken, last, torn, stranded>>

LEMMA CopySteps ==
  ASSUME TypeOK, NEW c \in Companies
  PROVE  /\ (\E b \in Boards : ReadToEdit(c, b)) \/ StampEdit(c) \/ EditFails(c) =>
              /\ NoRow /\ UNCHANGED branch /\ clock' \in Nat /\ clock <= clock'
              /\ edit' \in [Companies -> {None} \cup Edits(clock')]
         /\ StartCrawl(c) \/ EndCrawl(c) =>
              /\ NoRow /\ UNCHANGED <<edit, clock>>
              /\ branch' = [branch EXCEPT ![c] = IF StartCrawl(c) THEN row[c].res ELSE None]
              /\ branch' \in [Companies -> {None} \cup Blocks(clock)]
<1>0. clock \in Nat /\ clock <= clock /\ row[c] \in Rows(clock)
  BY DEF TypeOK
<1>1. ASSUME NEW b \in Boards, ReadToEdit(c, b)
      PROVE  /\ NoRow /\ UNCHANGED branch /\ clock' \in Nat /\ clock <= clock'
             /\ edit' \in [Companies -> {None} \cup Edits(clock')]
  <2> DEFINE e == [ats |-> row[c].ats, slug |-> row[c].slug, board |-> b, stamp |-> 0]
  <2>1. e \in Edits(clock)
    BY <1>0 DEF Edits, Rows
  <2>2. /\ edit' = [edit EXCEPT ![c] = e]
        /\ UNCHANGED <<site, row, thread, taken, branch, clock, last, torn, stranded>>
    BY <1>1 DEF ReadToEdit, history
  <2> HIDE DEF e
  <2>3. edit' \in [Companies -> {None} \cup Edits(clock)]
    BY <2>1, <2>2 DEF TypeOK
  <2> QED BY <1>0, <2>2, <2>3 DEF NoRow
<1>2. ASSUME StampEdit(c)
      PROVE  /\ NoRow /\ UNCHANGED branch /\ clock' \in Nat /\ clock <= clock'
             /\ edit' \in [Companies -> {None} \cup Edits(clock')]
  <2> DEFINE e == [edit[c] EXCEPT !.stamp = clock']
  <2>1. /\ clock' \in Nat /\ clock <= clock' /\ clock' \in 0..clock'
        /\ UNCHANGED <<site, row, thread, taken, branch, last, torn, stranded>>
        /\ edit' = [edit EXCEPT ![c] = e] /\ edit[c] # None
    BY <1>0, <1>2 DEF StampEdit, history
  <2>2. Edits(clock) \subseteq Edits(clock')
    BY <1>0, <2>1, BlocksStay
  <2>3. edit[c] \in Edits(clock')
    BY <2>1, <2>2 DEF TypeOK
  <2>4. e \in Edits(clock')
    BY <2>1, <2>3 DEF Edits
  <2> HIDE DEF e
  <2>5. edit' \in [Companies -> {None} \cup Edits(clock')]
    BY <2>1, <2>2, <2>4 DEF TypeOK
  <2> QED BY <2>1, <2>5 DEF NoRow
<1>3. ASSUME EditFails(c)
      PROVE  /\ NoRow /\ UNCHANGED branch /\ clock' \in Nat /\ clock <= clock'
             /\ edit' \in [Companies -> {None} \cup Edits(clock')]
  <2>1. edit' \in [Companies -> {None} \cup Edits(clock)] /\ clock' = clock
    BY <1>3 DEF EditFails, TypeOK
  <2> QED BY <1>0, <1>3, <2>1 DEF EditFails, NoRow, history
<1>4. ASSUME StartCrawl(c) \/ EndCrawl(c)
      PROVE  /\ NoRow /\ UNCHANGED <<edit, clock>>
             /\ branch' = [branch EXCEPT ![c] = IF StartCrawl(c) THEN row[c].res ELSE None]
             /\ branch' \in [Companies -> {None} \cup Blocks(clock)]
  <2>1. NoRow /\ UNCHANGED <<edit, clock>>
    BY <1>4 DEF StartCrawl, EndCrawl, NoRow, history
  <2>2. CASE StartCrawl(c)
    <3>1. branch' = [branch EXCEPT ![c] = row[c].res] /\ row[c].res \in Blocks(clock)
      BY <1>0, <2>2 DEF StartCrawl, Rows
    <3> QED BY <2>1, <2>2, <3>1 DEF TypeOK
  <2>3. CASE ~StartCrawl(c)
    <3>1. branch' = [branch EXCEPT ![c] = None]
      BY <1>4, <2>3 DEF EndCrawl
    <3> QED BY <2>1, <2>3, <3>1 DEF TypeOK
  <2> QED BY <2>2, <2>3
<1> QED BY <1>1, <1>2, <1>3, <1>4

-----------------------------------------------------------------------------
(* The semaphore.                                                          *)

LEMMA ProbingFinite ==
  IsFiniteSet(Probing) /\ Cardinality(Probing) \in Nat
BY RegistryAssumption, FS_Subset, FS_CardinalityType DEF Probing

InSlot(w) == w.at \in {"probing", "found"} /\ w.api
Slotless(w) == w.at \notin {"idle", "probing", "found"} => w.api

\* A slot is in use while some probe of the API is under way.
LEMMA SlotsFrom ==
  ASSUME TypeOK, SlotsCounted, NEW t \in Threads, NEW w \in {Idle} \cup Work(clock'),
         thread' = [thread EXCEPT ![t] = w], Slotless(w),
         \/ (InSlot(w) <=> InSlot(thread[t])) /\ taken' = taken
         \/ InSlot(w) /\ ~InSlot(thread[t]) /\ taken' = taken + 1
         \/ ~InSlot(w) /\ InSlot(thread[t]) /\ taken' = taken - 1
  PROVE  SlotsCounted'
<1>1. \A u \in Threads : thread'[u] = IF u = t THEN w ELSE thread[u]
  BY DEF TypeOK
<1>2. \A u \in Threads : u \in Probing <=> InSlot(thread[u])
  BY DEF Probing, InSlot
<1>3. \A u \in Threads : u \in Probing' <=> InSlot(thread'[u])
  BY DEF Probing, InSlot
<1>4. \A u \in Threads : Slotless(thread[u])
  BY DEF SlotsCounted, Slotless
<1>5. \A u \in Threads : thread'[u].at \notin {"idle", "probing", "found"} => thread'[u].api
  BY <1>1, <1>4 DEF Slotless
<1>6. Probing \subseteq Threads /\ Probing' \subseteq Threads
  BY DEF Probing
<1>7. taken' = Cardinality(Probing')
  <2>1. CASE InSlot(w) <=> InSlot(thread[t])
    <3>1. Probing' = Probing
      BY <1>1, <1>2, <1>3, <1>6, <2>1
    <3> QED BY <2>1, <3>1 DEF SlotsCounted
  <2>2. CASE InSlot(w) /\ ~InSlot(thread[t])
    <3>1. Probing' = Probing \cup {t} /\ t \notin Probing
      BY <1>1, <1>2, <1>3, <1>6, <2>2
    <3> QED BY <2>2, <3>1, ProbingFinite, FS_AddElement DEF SlotsCounted
  <2>3. CASE ~InSlot(w) /\ InSlot(thread[t])
    <3>1. Probing' = Probing \ {t} /\ t \in Probing
      BY <1>1, <1>2, <1>3, <1>6, <2>3
    <3> QED BY <2>3, <3>1, ProbingFinite, FS_RemoveElement DEF SlotsCounted
  <2> QED BY <2>1, <2>2, <2>3
<1> QED BY <1>5, <1>7 DEF SlotsCounted

\* The count stays within the limit.
LEMMA TakenFrom ==
  ASSUME TypeOK, SlotsCounted, NEW t \in Threads,
         \/ taken' = taken
         \/ Acquire(t)
         \/ Release(t) /\ thread[t].at \in {"probing", "found"}
  PROVE  taken' \in 0..Slots
<1>1. Cardinality(Probing) \in Nat /\ taken = Cardinality(Probing) /\ taken \in 0..Slots /\ Slots \in Nat
  BY ProbingFinite, RegistryAssumption DEF SlotsCounted, TypeOK
<1>2. CASE Release(t) /\ thread[t].at \in {"probing", "found"} /\ thread[t].api
  <2>1. t \in Probing
    BY <1>2 DEF Probing
  <2>2. taken # 0
    BY <1>1, <2>1, ProbingFinite, FS_EmptySet
  <2> QED BY <1>1, <1>2, <2>2 DEF Release
<1>3. CASE Acquire(t)
  BY <1>1, <1>3 DEF Acquire
<1> QED BY <1>1, <1>2, <1>3 DEF Release

\* Every step of the specification.
Safe == TypeOK /\ SlotsCounted

LEMMA OnlyThreadSafe ==
  ASSUME Safe, NEW t \in Threads, NEW w, OnlyThread(t, w), Slotless(w),
         \/ (InSlot(w) <=> InSlot(thread[t])) /\ taken' = taken
         \/ InSlot(w) /\ ~InSlot(thread[t]) /\ taken' = taken + 1
         \/ ~InSlot(w) /\ InSlot(thread[t]) /\ taken' = taken - 1,
         taken' \in 0..Slots, stranded' = stranded \/ stranded' \in [Companies -> BOOLEAN]
  PROVE  Safe'
<1>1. /\ thread' = [thread EXCEPT ![t] = w] /\ w \in {Idle} \cup Work(clock')
      /\ clock' \in Nat /\ clock <= clock' /\ UNCHANGED <<site, row, branch, edit, last, torn>>
  BY DEF OnlyThread
<1>2. thread' \in [Threads -> {Idle} \cup Work(clock')]
  BY <1>1, OneThread DEF Safe
<1>3. TypeOK'
  BY <1>1, <1>2, TypesFrom DEF Safe
<1>4. SlotsCounted'
  BY <1>1, SlotsFrom DEF Safe
<1> QED BY <1>3, <1>4 DEF Safe

LEMMA ThreadSafe ==
  ASSUME Safe, NEW t \in Threads, NEW c \in Companies, NEW u \in Urls \cup {None},
         \/ MarkResolving(c, t) \/ MarkFails(t) \/ ReadsCompany(t) \/ CliResolve(c, t, u)
         \/ Acquire(t) \/ FindsResult(t) \/ DiesEarly(t) \/ ErrorFails(t) \/ Raise(t)
  PROVE  Safe'
<1>0. TypeOK /\ SlotsCounted /\ taken \in 0..Slots
  BY DEF Safe, TypeOK
<1>1. Slotless(thread[t]) /\ Slotless(Idle) /\ ~InSlot(Idle)
  BY <1>0 DEF SlotsCounted, Slotless, InSlot, Idle
<1>2. CASE MarkResolving(c, t)
  <2>1. PICK w : /\ OnlyThread(t, w) /\ w.at = "marking" /\ w.api /\ thread[t].at = "idle"
                 /\ UNCHANGED <<taken, stranded>>
    BY <1>0, <1>2, ThreadSteps
  <2>2. Slotless(w) /\ ~InSlot(w) /\ ~InSlot(thread[t])
    BY <2>1 DEF Slotless, InSlot
  <2> QED BY <1>0, <2>1, <2>2, OnlyThreadSafe
<1>3. CASE MarkFails(t)
  <2>1. OnlyThread(t, Idle) /\ thread[t].at = "marking" /\ UNCHANGED <<taken, stranded>>
    BY <1>0, <1>3, ThreadSteps
  <2>2. ~InSlot(thread[t])
    BY <2>1 DEF InSlot
  <2> QED BY <1>0, <1>1, <2>1, <2>2, OnlyThreadSafe
<1>4. CASE ReadsCompany(t)
  <2>1. PICK w : /\ OnlyThread(t, w) /\ w.at = "queued" /\ w.c = thread[t].c
                 /\ w.api = thread[t].api /\ thread[t].at = "started"
                 /\ UNCHANGED <<taken, stranded>>
    BY <1>0, <1>4, ThreadSteps
  <2>2. Slotless(w) /\ ~InSlot(w) /\ ~InSlot(thread[t])
    BY <1>1, <2>1 DEF Slotless, InSlot
  <2> QED BY <1>0, <2>1, <2>2, OnlyThreadSafe
<1>5. CASE CliResolve(c, t, u)
  <2>1. PICK w : /\ OnlyThread(t, w) /\ w.at = "probing" /\ w.api = FALSE
                 /\ thread[t].at = "idle" /\ UNCHANGED <<taken, stranded>>
    BY <1>0, <1>5, ThreadSteps
  <2>2. Slotless(w) /\ ~InSlot(w) /\ ~InSlot(thread[t])
    BY <2>1 DEF Slotless, InSlot
  <2> QED BY <1>0, <2>1, <2>2, OnlyThreadSafe
<1>6. CASE Acquire(t)
  <2>1. PICK w : /\ OnlyThread(t, w) /\ w.at = "probing" /\ w.c = thread[t].c
                 /\ w.api = thread[t].api /\ thread[t].at = "queued" /\ UNCHANGED stranded
    BY <1>0, <1>6, ThreadSteps
  <2>2. thread[t].api
    BY <1>1, <2>1 DEF Slotless
  <2>3. Slotless(w) /\ InSlot(w) /\ ~InSlot(thread[t])
    BY <2>1, <2>2 DEF Slotless, InSlot
  <2>4. taken' = taken + 1
    BY <1>6 DEF Acquire
  <2>5. taken' \in 0..Slots
    BY <1>0, <1>6, TakenFrom
  <2> QED BY <2>1, <2>3, <2>4, <2>5, OnlyThreadSafe
<1>7. CASE FindsResult(t)
  <2>1. PICK w : /\ OnlyThread(t, w) /\ w.at = "found" /\ w.c = thread[t].c
                 /\ w.api = thread[t].api /\ thread[t].at = "probing"
                 /\ FoundHonest(w) /\ UNCHANGED <<taken, stranded>>
    BY <1>0, <1>7, FindsStep
  <2>2. Slotless(w) /\ (InSlot(w) <=> InSlot(thread[t]))
    BY <2>1 DEF Slotless, InSlot
  <2> QED BY <1>0, <2>1, <2>2, OnlyThreadSafe
<1>8. CASE DiesEarly(t) \/ ErrorFails(t)
  <2>1. /\ OnlyThread(t, Idle) /\ UNCHANGED taken
        /\ thread[t].at \in {"started", "failing"} /\ Leave(thread[t].c)
    BY <1>0, <1>8, ThreadEnds
  <2>2. ~InSlot(thread[t])
    BY <2>1 DEF InSlot
  <2>3. stranded' \in [Companies -> BOOLEAN]
    BY <1>0, <2>1 DEF Leave, TypeOK
  <2> QED BY <1>0, <1>1, <2>1, <2>2, <2>3, OnlyThreadSafe
<1>9. CASE Raise(t)
  <2>1. PICK w : /\ OnlyThread(t, w) /\ thread[t].at \in {"probing", "found"}
                 /\ IF thread[t].api THEN w.at = "failing" /\ w.c = thread[t].c /\ w.api
                                     ELSE w = Idle
                 /\ Release(t) /\ UNCHANGED stranded
    BY <1>0, <1>9, ThreadEnds
  <2>2. Slotless(w) /\ ~InSlot(w)
    BY <1>1, <2>1 DEF Slotless, InSlot
  <2>3. IF thread[t].api THEN InSlot(thread[t]) /\ taken' = taken - 1
                         ELSE ~InSlot(thread[t]) /\ taken' = taken
    BY <2>1 DEF InSlot, Release
  <2>4. taken' \in 0..Slots
    BY <1>0, <2>1, TakenFrom
  <2> QED BY <2>1, <2>2, <2>3, <2>4, OnlyThreadSafe
<1> QED BY <1>2, <1>3, <1>4, <1>5, <1>6, <1>7, <1>8, <1>9

\* A thread that writes a row.
LEMMA WriterSafe ==
  ASSUME Safe, NEW t \in Threads, MarkCommits(t) \/ ErrorCommits(t) \/ Persist(t)
  PROVE  Safe'
<1>0. TypeOK /\ SlotsCounted /\ taken \in 0..Slots /\ clock \in Nat /\ clock <= clock
  BY DEF Safe, TypeOK
<1> DEFINE c == thread[t].c
<1>1. CASE MarkCommits(t)
  <2>1. /\ thread[t].at = "marking" /\ c \in Companies
        /\ thread' = [thread EXCEPT ![t] = NewWork(c, "started")]
        /\ NewWork(c, "started") \in Work(clock) /\ UNCHANGED <<taken, branch, edit>>
    BY <1>0, <1>1, MarkCommitsStep
  <2>2. PICK r : /\ RowBecomes(c, r) /\ SameOutcome(c, r)
                 /\ stranded' = [stranded EXCEPT ![c] = FALSE]
    BY <1>0, <1>1, MarkCommitsStep
  <2>3. NewWork(c, "started").at = "started" /\ NewWork(c, "started").api = TRUE
    BY DEF NewWork
  <2> DEFINE w == NewWork(c, "started")
  <2>4. Slotless(w) /\ ~InSlot(w) /\ ~InSlot(thread[t])
    BY <2>1, <2>3 DEF Slotless, InSlot
  <2>5. w \in {Idle} \cup Work(clock) /\ thread' = [thread EXCEPT ![t] = w]
    BY <2>1
  <2> HIDE DEF w, c
  <2>6. UNCHANGED <<site, clock, last, torn>> /\ row' = [row EXCEPT ![c] = r] /\ r \in Rows(clock)
    BY <2>2 DEF RowBecomes, SameOutcome
  <2>7. row' \in [Companies -> Rows(clock')] /\ thread' \in [Threads -> {Idle} \cup Work(clock')]
    BY <1>0, <2>1, <2>5, <2>6, OneRow, OneThread
  <2>8. stranded' \in [Companies -> BOOLEAN]
    BY <1>0, <2>2 DEF TypeOK
  <2>9. TypeOK'
    BY <1>0, <2>1, <2>6, <2>7, <2>8, TypesFrom
  <2>10. SlotsCounted'
    BY <1>0, <2>1, <2>4, <2>5, <2>6, SlotsFrom
  <2> QED BY <2>9, <2>10 DEF Safe
<1>2. CASE ErrorCommits(t)
  <2>1. /\ thread[t].at = "failing" /\ c \in Companies
        /\ thread' = [thread EXCEPT ![t] = Idle] /\ UNCHANGED <<taken, branch, edit>>
    BY <1>0, <1>2, ErrorCommitsStep
  <2>2. PICK r : /\ RowBecomes(c, r) /\ SameOutcome(c, r)
                 /\ stranded' = [stranded EXCEPT ![c] = FALSE]
    BY <1>0, <1>2, ErrorCommitsStep
  <2>3. Slotless(Idle) /\ ~InSlot(Idle) /\ ~InSlot(thread[t])
    BY <2>1 DEF Slotless, InSlot, Idle
  <2> HIDE DEF c
  <2>4. UNCHANGED <<site, clock, last, torn>> /\ row' = [row EXCEPT ![c] = r] /\ r \in Rows(clock)
    BY <2>2 DEF RowBecomes, SameOutcome
  <2>5. row' \in [Companies -> Rows(clock')] /\ thread' \in [Threads -> {Idle} \cup Work(clock')]
    BY <1>0, <2>1, <2>4, OneRow, OneThread
  <2>6. stranded' \in [Companies -> BOOLEAN]
    BY <1>0, <2>2 DEF TypeOK
  <2>7. TypeOK'
    BY <1>0, <2>1, <2>4, <2>5, <2>6, TypesFrom
  <2>8. SlotsCounted'
    BY <1>0, <2>1, <2>3, <2>4, SlotsFrom
  <2> QED BY <2>7, <2>8 DEF Safe
<1>3. CASE Persist(t)
  <2>1. /\ thread[t].at = "found" /\ c \in Companies /\ thread[t].board \in Boards \cup {None}
        /\ thread' = [thread EXCEPT ![t] = Idle] /\ Release(t) /\ UNCHANGED <<branch, edit>>
        /\ last' = [last EXCEPT ![c] = thread[t].board] /\ torn' = [torn EXCEPT ![c] = FALSE]
        /\ stranded' = [stranded EXCEPT ![c] = FALSE]
    BY <1>0, <1>3, PersistStep
  <2>2. PICK r : RowBecomes(c, r)
    BY <1>0, <1>3, PersistStep
  <2>3. Slotless(Idle) /\ ~InSlot(Idle)
    BY DEF Slotless, InSlot, Idle
  <2>4. IF thread[t].api THEN InSlot(thread[t]) /\ taken' = taken - 1
                         ELSE ~InSlot(thread[t]) /\ taken' = taken
    BY <2>1 DEF InSlot, Release
  <2>5. taken' \in 0..Slots
    BY <1>0, <2>1, TakenFrom
  <2> HIDE DEF c
  <2>6. UNCHANGED <<site, clock>> /\ row' = [row EXCEPT ![c] = r] /\ r \in Rows(clock)
    BY <2>2 DEF RowBecomes
  <2>7. row' \in [Companies -> Rows(clock')] /\ thread' \in [Threads -> {Idle} \cup Work(clock')]
    BY <1>0, <2>1, <2>6, OneRow, OneThread
  <2>8. /\ stranded' \in [Companies -> BOOLEAN] /\ torn' \in [Companies -> BOOLEAN]
        /\ last' \in [Companies -> Boards \cup {None}]
    BY <1>0, <2>1 DEF TypeOK
  <2>9. TypeOK'
    BY <1>0, <2>1, <2>5, <2>6, <2>7, <2>8, TypesFrom
  <2>10. SlotsCounted'
    BY <1>0, <2>1, <2>3, <2>4, <2>6, SlotsFrom
  <2> QED BY <2>9, <2>10 DEF Safe
<1> QED BY <1>1, <1>2, <1>3

\* A step without a thread.
LEMMA SlotsStay ==
  ASSUME SlotsCounted, UNCHANGED <<thread, taken>>
  PROVE  SlotsCounted'
<1>1. Probing' = Probing
  BY DEF Probing
<1> QED BY <1>1 DEF SlotsCounted

LEMMA OthersSafe ==
  ASSUME Safe, NEW c \in Companies,
         \/ Toggle(c) \/ (\E u \in Urls \cup {None} : EditUrl(c, u))
         \/ (\E b \in Boards : ReadToEdit(c, b)) \/ StampEdit(c) \/ CommitBoard(c) \/ EditFails(c)
         \/ StartCrawl(c) \/ SaveCrawlHash(c) \/ EndCrawl(c)
  PROVE  Safe'
<1>0. TypeOK /\ SlotsCounted /\ clock \in Nat /\ clock <= clock
  BY DEF Safe, TypeOK
<1>1. CASE Toggle(c) \/ \E u \in Urls \cup {None} : EditUrl(c, u)
  <2>1. UNCHANGED <<thread, taken, branch, edit, stranded>>
    BY <1>0, <1>1, UserStep
  <2>2. PICK r : RowBecomes(c, r) /\ SameOutcome(c, r)
    BY <1>0, <1>1, UserStep
  <2>3. UNCHANGED <<site, clock, last, torn>> /\ row' = [row EXCEPT ![c] = r] /\ r \in Rows(clock)
    BY <2>2 DEF RowBecomes, SameOutcome
  <2>4. row' \in [Companies -> Rows(clock')]
    BY <1>0, <2>3, OneRow
  <2> QED BY <1>0, <2>1, <2>3, <2>4, TypesFrom, SlotsStay DEF Safe
<1>2. CASE CommitBoard(c)
  <2>1. /\ edit[c] \in Edits(clock) /\ UNCHANGED <<thread, taken, branch>>
        /\ edit' = [edit EXCEPT ![c] = None] /\ last' = [last EXCEPT ![c] = edit[c].board]
        /\ torn' \in [Companies -> BOOLEAN] /\ stranded' = [stranded EXCEPT ![c] = FALSE]
    BY <1>0, <1>2, CommitBoardStep
  <2>2. PICK r : RowBecomes(c, r)
    BY <1>0, <1>2, CommitBoardStep
  <2>3. UNCHANGED <<site, clock>> /\ row' = [row EXCEPT ![c] = r] /\ r \in Rows(clock)
    BY <2>2 DEF RowBecomes
  <2>4. row' \in [Companies -> Rows(clock')]
    BY <1>0, <2>3, OneRow
  <2>5. edit[c].board \in Boards
    BY <2>1 DEF Edits
  <2>6. /\ edit' \in [Companies -> {None} \cup Edits(clock')] /\ stranded' \in [Companies -> BOOLEAN]
        /\ last' \in [Companies -> Boards \cup {None}]
    BY <1>0, <2>1, <2>3, <2>5 DEF TypeOK
  <2> QED BY <1>0, <2>1, <2>3, <2>4, <2>6, TypesFrom, SlotsStay DEF Safe
<1>3. CASE SaveCrawlHash(c)
  <2>1. /\ UNCHANGED <<thread, taken, edit>> /\ branch' = [branch EXCEPT ![c] = None]
        /\ stranded' \in [Companies -> BOOLEAN]
    BY <1>0, <1>3, SaveCrawlStep
  <2>2. PICK r : RowBecomes(c, r) /\ SameOutcome(c, r)
    BY <1>0, <1>3, SaveCrawlStep
  <2>3. UNCHANGED <<site, clock, last, torn>> /\ row' = [row EXCEPT ![c] = r] /\ r \in Rows(clock)
    BY <2>2 DEF RowBecomes, SameOutcome
  <2>4. row' \in [Companies -> Rows(clock')]
    BY <1>0, <2>3, OneRow
  <2>5. branch' \in [Companies -> {None} \cup Blocks(clock')]
    BY <1>0, <2>1, <2>3 DEF TypeOK
  <2> QED BY <1>0, <2>1, <2>3, <2>4, <2>5, TypesFrom, SlotsStay DEF Safe
<1>4. CASE (\E b \in Boards : ReadToEdit(c, b)) \/ StampEdit(c) \/ EditFails(c)
  <2>1. /\ NoRow /\ UNCHANGED branch /\ clock' \in Nat /\ clock <= clock'
        /\ edit' \in [Companies -> {None} \cup Edits(clock')]
    BY <1>0, <1>4, CopySteps
  <2> QED BY <1>0, <2>1, TypesFrom, SlotsStay DEF Safe, NoRow
<1>5. CASE StartCrawl(c) \/ EndCrawl(c)
  <2>1. /\ NoRow /\ UNCHANGED <<edit, clock>> /\ branch' \in [Companies -> {None} \cup Blocks(clock)]
    BY <1>0, <1>5, CopySteps
  <2> QED BY <1>0, <2>1, TypesFrom, SlotsStay DEF Safe, NoRow
<1> QED BY <1>1, <1>2, <1>3, <1>4, <1>5

LEMMA CrashIs ==
  ASSUME TypeOK, Crash
  PROVE  /\ UNCHANGED <<site, row, branch, clock, last, torn>> /\ taken' = 0
         /\ edit' = [c \in Companies |-> None]
         /\ thread' \in [Threads -> {Idle} \cup Work(clock)] /\ stranded' \in [Companies -> BOOLEAN]
         /\ \A t \in Threads : /\ thread'[t] = Idle \/ (thread'[t] = thread[t] /\ ~thread[t].api)
                               /\ thread[t].at = "idle" => thread'[t] = thread[t]
         /\ \A c \in Companies : /\ stranded[c] => stranded'[c]
                                 /\ Resolving(c) /\ row[c].res.state = "resolving" => stranded'[c]
<1> DEFINE dead == {t \in Threads : thread[t].at # "idle" /\ thread[t].api}
           Left(c) == \/ stranded[c]
                      \/ row[c].res.state = "resolving" /\ \E t \in dead : thread[t].c = c
<1>1. /\ thread' = [t \in Threads |-> IF t \in dead THEN Idle ELSE thread[t]]
      /\ stranded' = [c \in Companies |-> Left(c)]
      /\ taken' = 0 /\ edit' = [c \in Companies |-> None]
      /\ UNCHANGED <<site, row, branch, clock, last, torn>>
  BY DEF Crash
<1>2. \A t \in Threads : t \in dead \/ thread[t] = Idle \/ ~thread[t].api
  BY DEF TypeOK, Work, Phases, Idle
<1>3. thread' \in [Threads -> {Idle} \cup Work(clock)]
  BY <1>1 DEF TypeOK
<1>4. \A t \in Threads : /\ thread'[t] = Idle \/ (thread'[t] = thread[t] /\ ~thread[t].api)
                         /\ thread[t].at = "idle" => thread'[t] = thread[t]
  BY <1>1, <1>2
<1>5. ASSUME NEW c \in Companies
      PROVE  /\ Left(c) \in BOOLEAN /\ (stranded[c] => Left(c))
             /\ Resolving(c) /\ row[c].res.state = "resolving" => Left(c)
  <2>1. Resolving(c) => \E t \in dead : thread[t].c = c
    BY DEF Resolving, Busy, Phases
  <2>2. stranded[c] \in BOOLEAN
    BY DEF TypeOK
  <2> QED BY <2>1, <2>2
<1> HIDE DEF dead, Left
<1> QED BY <1>1, <1>3, <1>4, <1>5

LEMMA CrashSafe ==
  ASSUME Safe, Crash
  PROVE  Safe'
<1>0. TypeOK /\ SlotsCounted /\ clock \in Nat /\ clock <= clock
  BY DEF Safe, TypeOK
<1>1. /\ UNCHANGED <<site, row, branch, clock, last, torn>> /\ taken' = 0
      /\ edit' = [c \in Companies |-> None]
      /\ thread' \in [Threads -> {Idle} \cup Work(clock)] /\ stranded' \in [Companies -> BOOLEAN]
      /\ \A t \in Threads : thread'[t] = Idle \/ (thread'[t] = thread[t] /\ ~thread[t].api)
  BY <1>0, CrashIs
<1>2. taken' \in 0..Slots /\ edit' \in [Companies -> {None} \cup Edits(clock')]
  BY <1>1, RegistryAssumption
<1>3. TypeOK'
  BY <1>0, <1>1, <1>2, TypesFrom
<1>4. Probing' = {}
  BY <1>1 DEF Probing, Idle
<1>5. taken' = Cardinality(Probing')
  BY <1>1, <1>4, FS_EmptySet
<1>6. \A t \in Threads : thread'[t].at \notin {"idle", "probing", "found"} => thread'[t].api
  BY <1>0, <1>1 DEF SlotsCounted, Idle
<1> QED BY <1>3, <1>5, <1>6 DEF Safe, SlotsCounted

\* Next, action by action.
LEMMA NextIs ==
  ASSUME Next
  PROVE  \/ \E t \in Threads, c \in Companies, u \in Urls \cup {None} :
              MarkResolving(c, t) \/ CliResolve(c, t, u)
         \/ \E t \in Threads :
              \/ MarkCommits(t) \/ MarkFails(t) \/ ReadsCompany(t) \/ DiesEarly(t) \/ Acquire(t)
              \/ FindsResult(t) \/ Persist(t) \/ Raise(t) \/ ErrorCommits(t) \/ ErrorFails(t)
         \/ \E c \in Companies :
              \/ Toggle(c) \/ (\E u \in Urls \cup {None} : EditUrl(c, u))
              \/ (\E b \in Boards : ReadToEdit(c, b)) \/ StampEdit(c) \/ CommitBoard(c)
              \/ EditFails(c) \/ StartCrawl(c) \/ SaveCrawlHash(c) \/ EndCrawl(c)
         \/ Crash
<1>1. Place \subseteq Threads
  BY DEF Place, Free
<1> QED BY <1>1 DEF Next, Works

LEMMA SafeStep ==
  ASSUME Safe, Next
  PROVE  Safe'
<1>1. ASSUME NEW t \in Threads, NEW c \in Companies, NEW u \in Urls \cup {None},
             MarkResolving(c, t) \/ CliResolve(c, t, u)
      PROVE  Safe'
  BY <1>1, ThreadSafe
<1>2. ASSUME NEW t \in Threads,
             \/ MarkFails(t) \/ ReadsCompany(t) \/ DiesEarly(t) \/ Acquire(t)
             \/ FindsResult(t) \/ Raise(t) \/ ErrorFails(t)
      PROVE  Safe'
  <2>1. Companies # {}
    <3>1. thread[t].at # "idle"
      BY <1>2 DEF MarkFails, ReadsCompany, DiesEarly, Acquire, FindsResult, Raise, ErrorFails
    <3> QED BY <3>1, ThreadIs DEF Safe
  <2>2. PICK c \in Companies : TRUE
    BY <2>1
  <2>3. None \in Urls \cup {None}
    OBVIOUS
  <2> QED BY <1>2, <2>2, <2>3, ThreadSafe
<1>3. ASSUME NEW t \in Threads, MarkCommits(t) \/ Persist(t) \/ ErrorCommits(t)
      PROVE  Safe'
  BY <1>3, WriterSafe
<1> QED BY <1>1, <1>2, <1>3, NextIs, OthersSafe, CrashSafe

-----------------------------------------------------------------------------
(* Blocks.                                                                 *)

\* A row gets an honest block, or keeps its own, a copy is one of the row's,
\* and what a thread has found is honest.
LEMMA BlocksFrom ==
  ASSUME BlocksHonest, site' = site,
         \A c \in Companies : row'[c].res = row[c].res \/ GuessIsLast(c, row'[c].res),
         \A c \in Companies : branch'[c] \in {branch[c], row[c].res, None},
         \A t \in Threads : thread'[t].at = "found" =>
                              thread'[t] = thread[t] \/ FoundHonest(thread'[t])
  PROVE  BlocksHonest'
<1>1. ASSUME NEW c \in Companies
      PROVE  GuessIsLast(c, row'[c].res) /\ (branch'[c] # None => GuessIsLast(c, branch'[c]))
  BY DEF BlocksHonest
<1>2. \A t \in Threads : thread'[t].at = "found" => FoundHonest(thread'[t])
  BY DEF BlocksHonest
<1> QED BY <1>1, <1>2 DEF BlocksHonest, FoundHonest, GuessIsLast

-----------------------------------------------------------------------------
(* Outcomes and markers.                                                   *)

\* When the API shows resolving.
Shown(r) == r.res.state = "resolving" /\ r.res.at > r.resolvedAt
Owned(c) == Shown(row[c]) => stranded[c] \/ Resolving(c)

Honest ==
  BlocksHonest /\ (\A c \in Companies : OutcomeShown(c)) /\ (\A c \in Companies : Owned(c))

\* A step of one thread: what it holds goes with it or is left.
LEMMA ThreadHonest ==
  ASSUME TypeOK, Honest, NEW t \in Threads, NEW w, OnlyThread(t, w),
         w.at = "found" => FoundHonest(w), \A c \in Companies : stranded[c] => stranded'[c],
         Busy(thread[t]) =>
           \/ Busy(w) /\ w.c = thread[t].c
           \/ row[thread[t].c].res.state = "resolving" => stranded'[thread[t].c]
  PROVE  Honest'
<1>1. /\ thread' = [thread EXCEPT ![t] = w] /\ UNCHANGED <<site, row, branch, last, torn>>
  BY DEF OnlyThread
<1>2. \A u \in Threads : thread'[u] = IF u = t THEN w ELSE thread[u]
  BY <1>1 DEF TypeOK
<1>3. BlocksHonest'
  BY <1>1, <1>2, BlocksFrom DEF Honest
<1>4. \A c \in Companies : OutcomeShown(c)'
  BY <1>1 DEF Honest, OutcomeShown
<1>5. ASSUME NEW c \in Companies, Shown(row[c]) PROVE stranded'[c] \/ Resolving(c)'
  <2>1. CASE stranded[c]
    BY <2>1
  <2>2. CASE ~stranded[c]
    <3>1. PICK u \in Threads : Busy(thread[u]) /\ thread[u].c = c
      BY <1>5, <2>2 DEF Honest, Owned, Resolving
    <3>2. CASE u = t
      <4>1. CASE Busy(w) /\ w.c = c
        <5>1. Busy(thread'[t]) /\ thread'[t].c = c
          BY <1>2, <4>1
        <5> QED BY <5>1 DEF Resolving, Busy
      <4>2. CASE row[c].res.state = "resolving" => stranded'[c]
        BY <1>5, <4>2 DEF Shown
      <4> QED BY <3>1, <3>2, <4>1, <4>2
    <3>3. CASE u # t
      <4>1. Busy(thread'[u]) /\ thread'[u].c = c
        BY <1>2, <3>1, <3>3
      <4> QED BY <4>1 DEF Resolving, Busy
    <3> QED BY <3>2, <3>3
  <2> QED BY <2>1, <2>2
<1>6. \A c \in Companies : Owned(c)'
  BY <1>1, <1>5 DEF Owned, Shown
<1> QED BY <1>3, <1>4, <1>6 DEF Honest

\* A step that writes one row needs care for that one only.
LEMMA RowHonest ==
  ASSUME TypeOK, Honest, NEW c \in Companies, NEW r, RowBecomes(c, r),
         r.res = row[c].res \/ GuessIsLast(c, r.res),
         \A d \in Companies : branch'[d] \in {branch[d], row[d].res, None},
         \A t \in Threads : thread'[t] # thread[t] => thread'[t].at # "found",
         \A t \in Threads : Busy(thread[t]) /\ thread[t].c # c => thread'[t] = thread[t],
         \A d \in Companies \ {c} : /\ last'[d] = last[d] /\ torn'[d] = torn[d]
                                    /\ stranded[d] => stranded'[d],
         row'[c] = r => OutcomeShown(c)', Shown(r) => stranded'[c] \/ Resolving(c)'
  PROVE  Honest'
<1>1. row'[c] = r /\ site' = site
  BY DEF RowBecomes, TypeOK
<1>2. \A d \in Companies \ {c} : row'[d] = row[d]
  BY DEF RowBecomes, TypeOK
<1>3. BlocksHonest'
  <2>1. \A d \in Companies : row'[d].res = row[d].res \/ GuessIsLast(d, row'[d].res)
    BY <1>1, <1>2
  <2> QED BY <1>1, <2>1, BlocksFrom DEF Honest
<1>4. ASSUME NEW d \in Companies PROVE OutcomeShown(d)'
  <2>1. CASE d = c
    BY <1>1, <2>1
  <2>2. CASE d # c
    BY <1>2, <2>2 DEF Honest, OutcomeShown
  <2> QED BY <2>1, <2>2
<1>5. ASSUME NEW d \in Companies, Shown(row'[d]) PROVE stranded'[d] \/ Resolving(d)'
  <2>1. CASE d = c
    BY <1>1, <1>5, <2>1
  <2>2. CASE d # c /\ ~stranded[d]
    <3>1. PICK u \in Threads : Busy(thread[u]) /\ thread[u].c = d
      BY <1>2, <1>5, <2>2 DEF Honest, Owned, Resolving
    <3>2. Busy(thread'[u]) /\ thread'[u].c = d
      BY <2>2, <3>1
    <3> QED BY <3>2 DEF Resolving, Busy
  <2> QED BY <2>1, <2>2
<1>6. \A d \in Companies : Owned(d)'
  BY <1>5 DEF Owned, Shown
<1> QED BY <1>3, <1>4, <1>6 DEF Honest

LEMMA ThreadsHonest ==
  ASSUME TypeOK, Honest, NEW t \in Threads, NEW c \in Companies, NEW u \in Urls \cup {None},
         \/ MarkResolving(c, t) \/ MarkFails(t) \/ ReadsCompany(t) \/ CliResolve(c, t, u)
         \/ Acquire(t) \/ FindsResult(t) \/ DiesEarly(t) \/ ErrorFails(t) \/ Raise(t)
  PROVE  Honest'
<1>1. Idle.at # "found" /\ ~Busy(Idle)
  BY DEF Idle, Busy, Phases
<1>2. CASE MarkResolving(c, t)
  <2>1. PICK w : /\ OnlyThread(t, w) /\ w.at = "marking" /\ w.api /\ thread[t].at = "idle"
                 /\ UNCHANGED <<taken, stranded>>
    BY <1>2, ThreadSteps
  <2>2. ~Busy(thread[t])
    BY <2>1 DEF Busy, Phases
  <2> QED BY <2>1, <2>2, ThreadHonest
<1>3. CASE MarkFails(t)
  <2>1. OnlyThread(t, Idle) /\ thread[t].at = "marking" /\ UNCHANGED <<taken, stranded>>
    BY <1>3, ThreadSteps
  <2>2. ~Busy(thread[t])
    BY <2>1 DEF Busy, Phases
  <2> QED BY <1>1, <2>1, <2>2, ThreadHonest
<1>4. CASE ReadsCompany(t)
  <2>1. PICK w : /\ OnlyThread(t, w) /\ w.at = "queued" /\ w.c = thread[t].c
                 /\ w.api = thread[t].api /\ thread[t].at = "started"
                 /\ UNCHANGED <<taken, stranded>>
    BY <1>4, ThreadSteps
  <2>2. Busy(thread[t]) => Busy(w) /\ w.c = thread[t].c
    BY <2>1 DEF Busy, Phases
  <2> QED BY <2>1, <2>2, ThreadHonest
<1>5. CASE CliResolve(c, t, u)
  <2>1. PICK w : /\ OnlyThread(t, w) /\ w.at = "probing" /\ w.api = FALSE
                 /\ thread[t].at = "idle" /\ UNCHANGED <<taken, stranded>>
    BY <1>5, ThreadSteps
  <2>2. ~Busy(thread[t])
    BY <2>1 DEF Busy, Phases
  <2> QED BY <2>1, <2>2, ThreadHonest
<1>6. CASE Acquire(t)
  <2>1. PICK w : /\ OnlyThread(t, w) /\ w.at = "probing" /\ w.c = thread[t].c
                 /\ w.api = thread[t].api /\ thread[t].at = "queued" /\ UNCHANGED stranded
    BY <1>6, ThreadSteps
  <2>2. Busy(thread[t]) => Busy(w) /\ w.c = thread[t].c
    BY <2>1 DEF Busy, Phases
  <2> QED BY <2>1, <2>2, ThreadHonest
<1>7. CASE FindsResult(t)
  <2>1. PICK w : /\ OnlyThread(t, w) /\ w.at = "found" /\ w.c = thread[t].c
                 /\ w.api = thread[t].api /\ thread[t].at = "probing"
                 /\ FoundHonest(w) /\ UNCHANGED <<taken, stranded>>
    BY <1>7, FindsStep
  <2>2. Busy(thread[t]) => Busy(w) /\ w.c = thread[t].c
    BY <2>1 DEF Busy, Phases
  <2> QED BY <2>1, <2>2, ThreadHonest
<1>8. CASE DiesEarly(t) \/ ErrorFails(t)
  <2>1. /\ OnlyThread(t, Idle) /\ thread[t].at \in {"started", "failing"} /\ Leave(thread[t].c)
    BY <1>8, ThreadEnds
  <2>2. thread[t].c \in Companies
    BY <2>1, ThreadIs
  <2>3. /\ \A d \in Companies : stranded[d] => stranded'[d]
        /\ row[thread[t].c].res.state = "resolving" => stranded'[thread[t].c]
    BY <2>1, <2>2 DEF Leave, TypeOK
  <2> QED BY <1>1, <2>1, <2>3, ThreadHonest
<1>9. CASE Raise(t)
  <2>1. PICK w : /\ OnlyThread(t, w) /\ thread[t].at \in {"probing", "found"}
                 /\ IF thread[t].api THEN w.at = "failing" /\ w.c = thread[t].c /\ w.api
                                     ELSE w = Idle
                 /\ Release(t) /\ UNCHANGED stranded
    BY <1>9, ThreadEnds
  <2>2. Busy(thread[t]) => Busy(w) /\ w.c = thread[t].c
    BY <2>1 DEF Busy, Phases
  <2>3. w.at # "found"
    BY <1>1, <2>1
  <2> QED BY <2>1, <2>2, <2>3, ThreadHonest
<1> QED BY <1>2, <1>3, <1>4, <1>5, <1>6, <1>7, <1>8, <1>9

\* The outcome stays, if board, stamp and what is known of it do.
LEMMA OutcomeStays ==
  ASSUME Honest, NEW c \in Companies, NEW r, SameOutcome(c, r), row'[c] = r
  PROVE  OutcomeShown(c)'
BY DEF Honest, SameOutcome, OutcomeShown

LEMMA WritersHonest ==
  ASSUME TypeOK, Honest, NEW t \in Threads, MarkCommits(t) \/ ErrorCommits(t) \/ Persist(t)
  PROVE  Honest'
<1>1. CASE MarkCommits(t)
  <2>a. PICK c \in Companies : c = thread[t].c
    BY <1>1, MarkCommitsStep
  <2>1. /\ thread[t].at = "marking" /\ UNCHANGED branch
        /\ thread' = [thread EXCEPT ![t] = NewWork(c, "started")]
    BY <1>1, <2>a, MarkCommitsStep
  <2>2. PICK r : /\ RowBecomes(c, r) /\ SameOutcome(c, r) /\ r.res.reached = FALSE
                 /\ stranded' = [stranded EXCEPT ![c] = FALSE]
    BY <1>1, <2>a, MarkCommitsStep
  <2>3. /\ NewWork(c, "started").at = "started" /\ NewWork(c, "started").api = TRUE
        /\ NewWork(c, "started").c = c
    BY DEF NewWork
  <2>4. \A u \in Threads : thread'[u] = IF u = t THEN NewWork(c, "started") ELSE thread[u]
    BY <2>1 DEF TypeOK
  <2>5. Resolving(c)'
    <3>1. Busy(thread'[t]) /\ thread'[t].c = c
      BY <2>3, <2>4 DEF Busy, Phases
    <3> QED BY <2>a, <3>1 DEF Resolving, Busy
  <2>6. ~Busy(thread[t])
    BY <2>1 DEF Busy, Phases
  <2>7. GuessIsLast(c, r.res)
    BY <2>2 DEF GuessIsLast
  <2>8. row'[c] = r => OutcomeShown(c)'
    BY <2>1, <2>2, OutcomeStays
  <2>9. \A d \in Companies \ {c} : /\ last'[d] = last[d] /\ torn'[d] = torn[d]
                                   /\ stranded[d] => stranded'[d]
    BY <2>2 DEF SameOutcome, TypeOK
  <2>10. /\ \A u \in Threads : thread'[u] # thread[u] => thread'[u].at # "found"
         /\ \A u \in Threads : Busy(thread[u]) /\ thread[u].c # c => thread'[u] = thread[u]
    BY <2>3, <2>4, <2>6
  <2>11. \A d \in Companies : branch'[d] \in {branch[d], row[d].res, None}
    BY <2>1
  <2> QED BY <2>a, <2>1, <2>2, <2>5, <2>7, <2>8, <2>9, <2>10, <2>11, RowHonest
<1>2. CASE ErrorCommits(t)
  <2>a. PICK c \in Companies : c = thread[t].c
    BY <1>2, ErrorCommitsStep
  <2>1. /\ thread[t].at = "failing" /\ UNCHANGED branch
        /\ thread' = [thread EXCEPT ![t] = Idle]
    BY <1>2, <2>a, ErrorCommitsStep
  <2>2. PICK r : /\ RowBecomes(c, r) /\ SameOutcome(c, r) /\ r.res = ErrorBlock
                 /\ stranded' = [stranded EXCEPT ![c] = FALSE]
    BY <1>2, <2>a, ErrorCommitsStep
  <2>3. ErrorBlock.state = "error"
    BY BlockTypes DEF TypeOK
  <2>4. \A u \in Threads : thread'[u] = IF u = t THEN Idle ELSE thread[u]
    BY <2>1 DEF TypeOK
  <2>5. GuessIsLast(c, r.res) /\ ~Shown(r)
    BY <2>2, <2>3 DEF GuessIsLast, Shown
  <2>6. /\ \A u \in Threads : thread'[u] # thread[u] => thread'[u].at # "found"
        /\ \A u \in Threads : Busy(thread[u]) /\ thread[u].c # c => thread'[u] = thread[u]
    BY <2>1, <2>4, <2>a DEF Idle
  <2>7. row'[c] = r => OutcomeShown(c)'
    BY <2>1, <2>2, OutcomeStays
  <2>8. \A d \in Companies \ {c} : /\ last'[d] = last[d] /\ torn'[d] = torn[d]
                                   /\ stranded[d] => stranded'[d]
    BY <2>2 DEF SameOutcome, TypeOK
  <2>9. \A d \in Companies : branch'[d] \in {branch[d], row[d].res, None}
    BY <2>1
  <2> QED BY <2>a, <2>1, <2>2, <2>5, <2>6, <2>7, <2>8, <2>9, RowHonest
<1>3. CASE Persist(t)
  <2>a. PICK c \in Companies, board \in Boards \cup {None} :
           c = thread[t].c /\ board = thread[t].board
    BY <1>3, PersistStep
  <2>1. /\ thread[t].at = "found" 
        /\ thread' = [thread EXCEPT ![t] = Idle] /\ UNCHANGED branch
        /\ last' = [last EXCEPT ![c] = board] /\ torn' = [torn EXCEPT ![c] = FALSE]
        /\ stranded' = [stranded EXCEPT ![c] = FALSE]
    BY <1>3, <2>a, PersistStep
  <2>2. PICK r : /\ RowBecomes(c, r) /\ r.res = thread[t].res
                 /\ r.resolvedAt = thread[t].stamp
                 /\ r.ats = (IF board # None THEN Platform[board] ELSE None)
                 /\ r.slug = (IF board # None THEN Slug[board] ELSE None)
    BY <1>3, <2>a, PersistStep
  <2>3. FoundHonest(thread[t])
    BY <2>1 DEF Honest, BlocksHonest
  <2>4. GuessIsLast(c, r.res) /\ ~Shown(r)
    BY <2>a, <2>2, <2>3 DEF FoundHonest, Shown
  <2>5. thread[t].stamp = 0 <=> board = None
    BY <2>a, <2>3 DEF FoundHonest
  <2>6. \A u \in Threads : thread'[u] = IF u = t THEN Idle ELSE thread[u]
    BY <2>1 DEF TypeOK
  <2>7. /\ \A u \in Threads : thread'[u] # thread[u] => thread'[u].at # "found"
        /\ \A u \in Threads : Busy(thread[u]) /\ thread[u].c # c => thread'[u] = thread[u]
    BY <2>1, <2>6, <2>a DEF Idle
  <2>8. last'[c] = board
    BY <2>1 DEF TypeOK
  <2>9. row'[c] = r => OutcomeShown(c)'
    BY <2>2, <2>5, <2>8 DEF OutcomeShown
  <2>10. \A d \in Companies \ {c} : /\ last'[d] = last[d] /\ torn'[d] = torn[d]
                                    /\ stranded[d] => stranded'[d]
    BY <2>1 DEF TypeOK
  <2>11. \A d \in Companies : branch'[d] \in {branch[d], row[d].res, None}
    BY <2>1
  <2> QED BY <2>a, <2>1, <2>2, <2>4, <2>7, <2>9, <2>10, <2>11, RowHonest
<1> QED BY <1>1, <1>2, <1>3

LEMMA OthersHonest ==
  ASSUME TypeOK, Honest, NEW c \in Companies,
         \/ Toggle(c) \/ (\E u \in Urls \cup {None} : EditUrl(c, u))
         \/ (\E b \in Boards : ReadToEdit(c, b)) \/ StampEdit(c) \/ CommitBoard(c) \/ EditFails(c)
         \/ StartCrawl(c) \/ SaveCrawlHash(c) \/ EndCrawl(c)
  PROVE  Honest'
<1>1. CASE Toggle(c) \/ \E u \in Urls \cup {None} : EditUrl(c, u)
  <2>1. UNCHANGED <<thread, taken, branch, edit, stranded>>
    BY <1>1, UserStep
  <2>2. PICK r : RowBecomes(c, r) /\ SameOutcome(c, r) /\ r.res = row[c].res
    BY <1>1, UserStep
  <2>3. UNCHANGED <<last, torn>> /\ r.resolvedAt = row[c].resolvedAt
    BY <2>2 DEF SameOutcome
  <2>4. Shown(r) => stranded'[c] \/ Resolving(c)'
    BY <2>1, <2>2, <2>3 DEF Honest, Owned, Shown, Resolving
  <2>5. row'[c] = r => OutcomeShown(c)'
    BY <2>2, OutcomeStays
  <2> QED BY <2>1, <2>2, <2>3, <2>4, <2>5, RowHonest
<1>2. CASE CommitBoard(c)
  <2> DEFINE e == edit[c]
  <2>1. /\ e \in Edits(clock) /\ e.stamp # 0 /\ UNCHANGED <<thread, taken, branch>>
        /\ last' = [last EXCEPT ![c] = e.board]
        /\ \A d \in Companies \ {c} : torn'[d] = torn[d]
        /\ stranded' = [stranded EXCEPT ![c] = FALSE]
    BY <1>2, CommitBoardStep
  <2>2. PICK r : /\ RowBecomes(c, r) /\ r.res = ManualBlock /\ r.resolvedAt = e.stamp
                 /\ torn'[c] \/ (r.ats = Platform[e.board] /\ r.slug = Slug[e.board])
    BY <1>2, CommitBoardStep
  <2>3. ManualBlock.state = "resolved" /\ ManualBlock.reached = FALSE
    BY BlockTypes DEF TypeOK
  <2>4. GuessIsLast(c, r.res) /\ ~Shown(r)
    BY <2>2, <2>3 DEF GuessIsLast, Shown
  <2>5. e.board \in Boards /\ e.board # None
    BY <2>1, RegistryAssumption DEF Edits
  <2> HIDE DEF e
  <2>6. last'[c] = e.board
    BY <2>1 DEF TypeOK
  <2>7. row'[c] = r => OutcomeShown(c)'
    BY <2>1, <2>2, <2>5, <2>6 DEF OutcomeShown
  <2>8. \A d \in Companies \ {c} : /\ last'[d] = last[d] /\ torn'[d] = torn[d]
                                   /\ stranded[d] => stranded'[d]
    BY <2>1 DEF TypeOK
  <2> QED BY <2>1, <2>2, <2>4, <2>7, <2>8, RowHonest
<1>3. CASE SaveCrawlHash(c)
  <2>1. /\ branch[c] # None /\ UNCHANGED <<thread, taken, edit>>
        /\ branch' = [branch EXCEPT ![c] = None]
        /\ \A d \in Companies \ {c} : stranded'[d] = stranded[d]
        /\ stranded'[c] = \/ stranded[c]
                          \/ /\ branch[c] # row[c].res /\ branch[c].state = "resolving"
                             /\ branch[c].at > row[c].resolvedAt
    BY <1>3, SaveCrawlStep
  <2>2. PICK r : RowBecomes(c, r) /\ SameOutcome(c, r) /\ r.res = branch[c]
    BY <1>3, SaveCrawlStep
  <2>3. UNCHANGED <<last, torn>> /\ r.resolvedAt = row[c].resolvedAt
    BY <2>2 DEF SameOutcome
  <2>4. GuessIsLast(c, r.res)
    BY <2>1, <2>2 DEF Honest, BlocksHonest
  <2>5. Shown(r) => stranded'[c] \/ Resolving(c)'
    <3>1. Shown(r) /\ branch[c] # row[c].res => stranded'[c]
      BY <2>1, <2>2, <2>3 DEF Shown
    <3>2. Shown(r) /\ branch[c] = row[c].res => stranded[c] \/ Resolving(c)
      BY <2>2, <2>3 DEF Shown, Honest, Owned
    <3>3. Resolving(c) => Resolving(c)'
      BY <2>1 DEF Resolving, Busy
    <3> QED BY <2>1, <3>1, <3>2, <3>3
  <2>6. row'[c] = r => OutcomeShown(c)'
    BY <2>2, OutcomeStays
  <2>7. \A d \in Companies : branch'[d] \in {branch[d], row[d].res, None}
    BY <2>1 DEF TypeOK
  <2> QED BY <2>1, <2>2, <2>3, <2>4, <2>5, <2>6, <2>7, RowHonest
<1>4. CASE (\E b \in Boards : ReadToEdit(c, b)) \/ StampEdit(c) \/ EditFails(c)
  <2>1. NoRow /\ UNCHANGED branch
    BY <1>4, CopySteps
  <2>2. BlocksHonest'
    BY <2>1, BlocksFrom DEF NoRow, Honest
  <2> QED BY <2>1, <2>2 DEF NoRow, Honest, OutcomeShown, Owned, Shown, Resolving, Busy
<1>5. CASE StartCrawl(c) \/ EndCrawl(c)
  <2>1. /\ NoRow
        /\ branch' = [branch EXCEPT ![c] = IF StartCrawl(c) THEN row[c].res ELSE None]
    BY <1>5, CopySteps
  <2>2. \A d \in Companies : branch'[d] \in {branch[d], row[d].res, None}
    BY <2>1 DEF TypeOK
  <2>3. BlocksHonest'
    BY <2>1, <2>2, BlocksFrom DEF NoRow, Honest
  <2> QED BY <2>1, <2>3 DEF NoRow, Honest, OutcomeShown, Owned, Shown, Resolving, Busy
<1> QED BY <1>1, <1>2, <1>3, <1>4, <1>5

LEMMA CrashHonest ==
  ASSUME TypeOK, Honest, Crash
  PROVE  Honest'
<1>1. /\ UNCHANGED <<site, row, branch, last, torn>>
      /\ \A t \in Threads : thread'[t] = Idle \/ (thread'[t] = thread[t] /\ ~thread[t].api)
      /\ \A c \in Companies : /\ stranded[c] => stranded'[c]
                              /\ Resolving(c) /\ row[c].res.state = "resolving" => stranded'[c]
  BY CrashIs
<1>2. BlocksHonest'
  BY <1>1, BlocksFrom DEF Honest, Idle
<1>3. \A c \in Companies : OutcomeShown(c)'
  BY <1>1 DEF Honest, OutcomeShown
<1>4. ASSUME NEW c \in Companies, Shown(row[c]) PROVE stranded'[c]
  BY <1>1, <1>4 DEF Honest, Owned, Shown
<1>5. \A c \in Companies : Owned(c)'
  BY <1>1, <1>4 DEF Owned, Shown
<1> QED BY <1>2, <1>3, <1>5 DEF Honest

LEMMA HonestStep ==
  ASSUME TypeOK, Honest, Next
  PROVE  Honest'
<1>1. ASSUME NEW t \in Threads, NEW c \in Companies, NEW u \in Urls \cup {None},
             MarkResolving(c, t) \/ CliResolve(c, t, u)
      PROVE  Honest'
  BY <1>1, ThreadsHonest
<1>2. ASSUME NEW t \in Threads,
             \/ MarkFails(t) \/ ReadsCompany(t) \/ DiesEarly(t) \/ Acquire(t)
             \/ FindsResult(t) \/ Raise(t) \/ ErrorFails(t)
      PROVE  Honest'
  <2>1. Companies # {}
    <3>1. thread[t].at # "idle"
      BY <1>2 DEF MarkFails, ReadsCompany, DiesEarly, Acquire, FindsResult, Raise, ErrorFails
    <3> QED BY <3>1, ThreadIs
  <2>2. PICK c \in Companies : TRUE
    BY <2>1
  <2>3. None \in Urls \cup {None}
    OBVIOUS
  <2> QED BY <1>2, <2>2, <2>3, ThreadsHonest
<1>3. ASSUME NEW t \in Threads, MarkCommits(t) \/ Persist(t) \/ ErrorCommits(t)
      PROVE  Honest'
  BY <1>3, WritersHonest
<1> QED BY <1>1, <1>2, <1>3, NextIs, OthersHonest, CrashHonest

-----------------------------------------------------------------------------
(* The invariant and what follows from it.                                 *)

LEMMA AllInit == Init => Safe /\ Honest
<1> SUFFICES ASSUME Init PROVE Safe /\ Honest
  OBVIOUS
<1>1. SlotsCounted
  <2>1. Probing = {} /\ taken = 0
    BY DEF Init, Probing, Idle
  <2>2. \A t \in Threads : thread[t].at = "idle"
    BY DEF Init, Idle
  <2> QED BY <2>1, <2>2, FS_EmptySet DEF SlotsCounted
<1>2. ASSUME NEW c \in Companies
      PROVE  /\ branch[c] = None /\ last[c] = None /\ row[c].ats = None /\ row[c].slug = None
             /\ row[c].resolvedAt = 0 /\ row[c].res.state = "none"
  BY DEF Init, NoBlock
<1>3. BlocksHonest
  BY <1>2 DEF Init, BlocksHonest, GuessIsLast, Idle
<1>4. \A c \in Companies : OutcomeShown(c) /\ Owned(c)
  BY <1>2 DEF OutcomeShown, Owned, Shown
<1> QED BY <1>1, <1>3, <1>4, TypeInit DEF Safe, Honest

LEMMA AllStep == Safe /\ Honest /\ [Next]_vars => (Safe /\ Honest)'
<1> SUFFICES ASSUME Safe, Honest, [Next]_vars PROVE (Safe /\ Honest)'
  OBVIOUS
<1>1. CASE Next
  BY <1>1, SafeStep, HonestStep DEF Safe
<1>2. CASE UNCHANGED vars
  <2>1. UNCHANGED <<site, row, thread, taken, branch, edit, clock, last, torn, stranded>>
    BY <1>2 DEF vars, history
  <2>2. Safe'
    BY <2>1 DEF Safe, TypeOK, SlotsCounted, Probing
  <2>3. BlocksHonest'
    BY <2>1, BlocksFrom DEF Honest
  <2>4. \A c \in Companies : OutcomeShown(c)' /\ Owned(c)'
    BY <2>1 DEF Honest, OutcomeShown, Owned, Shown, Resolving, Busy
  <2> QED BY <2>2, <2>3, <2>4 DEF Honest
<1> QED BY <1>1, <1>2

LEMMA AllInvariant == Spec => [](Safe /\ Honest)
<1> QED BY AllInit, AllStep, PTL DEF Spec

\* The semaphore counts the API's probes that are under way, however they ended
\* before; no block, in a row, in the copy of a branch or in the result of a
\* probe that waits to be committed, tells of a guess that outranked the page.
THEOREM RegistryInvariant == Spec => []RegistryInv
<1>1. Safe /\ Honest => RegistryInv
  BY DEF Safe, Honest, RegistryInv
<1> QED BY <1>1, AllInvariant, PTL

\* The row says what the outcome committed last was, unless a board entered by
\* hand met a row that had changed; and resolving is shown only while a probe
\* is under way or where one of the four things has left it.
THEOREM StateIsHonest == Spec => []StateHonest
<1>1. Safe /\ Honest => StateHonest
  <2> SUFFICES ASSUME Safe, Honest, NEW c \in Companies
               PROVE  /\ OutcomeShown(c)
                      /\ ResolutionState(c) = "resolving" => stranded[c] \/ Resolving(c)
    BY DEF StateHonest
  <2>1. ResolutionState(c) = "resolving" => Shown(row[c])
    BY DEF ResolutionState, Shown
  <2> QED BY <2>1 DEF Honest, Owned
<1> QED BY <1>1, AllInvariant, PTL

\* No employer whose page was read and names a live board is resolved by a
\* guess of its name.
THEOREM PageOutranksGuesses == Spec => []PageOutranksGuess
<1>1. RegistryInv => PageOutranksGuess
  BY DEF RegistryInv, BlocksHonest, PageOutranksGuess
<1> QED BY <1>1, RegistryInvariant, PTL
=============================================================================
