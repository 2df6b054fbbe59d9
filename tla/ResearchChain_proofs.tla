------------------------ MODULE ResearchChain_proofs ------------------------
(***************************************************************************)
(* Theorems about the research chain: SignalEngine, TradeReplay with its   *)
(* RiskPlanner, and CandidateScore, for any weights, thresholds, markets,  *)
(* policies and configurations.  The signal engine favours neither side    *)
(* and sees no candle of the future; a simulated position is planned as it *)
(* should be, its target never claimed before the market went there, its   *)
(* label never taken from beyond its fold; and two scripts that score the  *)
(* same replay come to the same figures of its sides.                      *)
(***************************************************************************)
EXTENDS SignalEngine, TradeReplay, CandidateScore, FiniteSetTheorems,
        WellFoundedInduction, SequenceTheorems, TLAPS

-----------------------------------------------------------------------------
(* Least and greatest.                                                     *)

\* A set of natural numbers has a least one.
LEMMA LeastNumber ==
    ASSUME NEW D \in SUBSET Nat, D # {}
    PROVE  \E d \in D : \A m \in D : d <= m
<1> DEFINE R == OpToRel(<, Nat)
<1>1. IsWellFoundedOn(R, Nat)
  BY NatLessThanWellFounded
<1>2. \A a, b \in Nat : a < b => <<a, b>> \in R
  BY DEF OpToRel
<1> HIDE DEF R
<1>3. PICK d \in D : \A m \in D : ~(<<m, d>> \in R)
  BY <1>1, WFMin
<1>4. ASSUME NEW m \in D PROVE d <= m
  <2>1. m \in Nat /\ d \in Nat /\ ~(m < d)
    BY <1>2, <1>3, Zenon
  <2> QED
    BY <2>1
<1> QED
  BY <1>4

LEMMA MaxIs ==
    ASSUME NEW n \in Nat, NEW S \in SUBSET (1..n), NEW k \in S, \A j \in S : j <= k
    PROVE  Max(S) = k
<1>1. \A x \in S : (\A y \in S : x >= y) <=> x = k
  OBVIOUS
<1> QED
  BY <1>1, Zenon DEF Max

LEMMA MaxAbove ==
    ASSUME NEW n \in Nat, NEW S \in SUBSET (1..n), S # {}
    PROVE  Max(S) \in S /\ \A j \in S : j <= Max(S)
<1>1. PICK k \in S : \A j \in S : j <= k
  <2> DEFINE D == {k \in Nat : n - k \in S}
  <2>1. PICK i \in S : TRUE
    OBVIOUS
  <2>2. n - i \in D
    <3>1. i \in 1..n /\ n - (n - i) = i
      OBVIOUS
    <3> QED
      BY <3>1
  <2>3. PICK d \in D : \A m \in D : d <= m
    <3> HIDE DEF D
    <3>1. D \in SUBSET Nat
      BY DEF D
    <3> QED
      BY <2>2, <3>1, LeastNumber
  <2>4. n - d \in S /\ d \in Nat
    BY <2>3
  <2>5. ASSUME NEW j \in S PROVE j <= n - d
    <3>1. j \in 1..n /\ n - (n - j) = j
      OBVIOUS
    <3>2. n - j \in D
      BY <3>1
    <3>3. d <= n - j
      BY <2>3, <3>2
    <3> QED
      BY <2>4, <3>1, <3>3
  <2> QED
    BY <2>4, <2>5
<1> QED
  BY <1>1, MaxIs

-----------------------------------------------------------------------------
(* Selection: the list of the positions that are kept.                     *)

KeptOf(s, S) == {i \in DOMAIN s : s[i] \in S}

\* A later position has a higher rank.
LEMMA RankRises ==
    ASSUME NEW Q \in SUBSET Nat, IsFiniteSet(Q), NEW i \in Q
    PROVE  /\ Rank(Q, i) \in 1..Cardinality(Q)
           /\ \A k \in Q : i < k => Rank(Q, i) < Rank(Q, k)
<1> DEFINE Up(k) == {j \in Q : j <= k}
<1>1. \A k : Up(k) \subseteq Q /\ IsFiniteSet(Up(k)) /\ Cardinality(Up(k)) \in Nat
             /\ Cardinality(Up(k)) <= Cardinality(Q)
  BY FS_Subset, FS_CardinalityType
<1>2. Cardinality(Q) \in Nat
  BY FS_CardinalityType
<1>3. Cardinality(Up(i)) # 0
  BY <1>1, FS_EmptySet
<1>4. ASSUME NEW k \in Q, i < k PROVE Cardinality(Up(i)) < Cardinality(Up(k))
  <2>1. Up(i) \subseteq Up(k) /\ k \in Up(k) /\ k \notin Up(i)
    <3>1. i \in Nat /\ k \in Nat /\ \A j \in Q : j \in Nat
      OBVIOUS
    <3>2. \A j \in Q : j <= i => j <= k
      BY <1>4, <3>1
    <3>3. k <= k /\ ~(k <= i)
      BY <1>4, <3>1
    <3> QED
      BY <3>2, <3>3
  <2> HIDE DEF Up
  <2>2. Cardinality(Up(i)) <= Cardinality(Up(k)) /\ Cardinality(Up(i)) # Cardinality(Up(k))
    BY <1>1, <2>1, FS_Subset
  <2> QED
    BY <1>1, <2>2
<1> QED
  BY <1>1, <1>2, <1>3, <1>4 DEF Rank

LEMMA RankIsOne ==
    ASSUME NEW Q \in SUBSET Nat, IsFiniteSet(Q), NEW i \in Q, NEW k \in Q, Rank(Q, i) = Rank(Q, k)
    PROVE  i = k
<1>1. i < k \/ k < i \/ i = k
  OBVIOUS
<1>2. Rank(Q, i) \in Nat /\ Rank(Q, k) \in Nat
  BY RankRises
<1> QED
  BY <1>1, <1>2, RankRises

\* Every rank is somebody's.
LEMMA RankIsTaken ==
    ASSUME NEW Q \in SUBSET Nat, IsFiniteSet(Q), NEW n \in 1..Cardinality(Q)
    PROVE  \E i \in Q : Rank(Q, i) = n
<1> DEFINE f == [i \in Q |-> Rank(Q, i)]
           N == 1..Cardinality(Q)
<1>1. Cardinality(Q) \in Nat
  BY FS_CardinalityType
<1>2. IsFiniteSet(N) /\ Cardinality(N) = Cardinality(Q)
  BY <1>1, FS_Interval
<1>3. f \in [Q -> N]
  BY RankRises
<1>4. \A i, k \in Q : f[i] = f[k] => i = k
  BY RankIsOne
<1> HIDE DEF f, N
<1>5. f \in Injection(Q, N)
  BY <1>3, <1>4 DEF Injection, IsInjective
<1>6. f \in Surjection(Q, N)
  BY <1>2, <1>5, FS_Injection
<1>7. \E i \in Q : f[i] = n
  BY <1>6 DEF Surjection, N
<1> QED
  BY <1>7 DEF f

\* Positions in their order, all of them.
Lists(g, m, Q) ==
    /\ g \in [1..m -> Q]
    /\ \A a, b \in 1..m : a < b => g[a] < g[b]
    /\ \A i \in Q : \E a \in 1..m : g[a] = i

\* There is one list of a finite set of positions.
LEMMA ListExists ==
    ASSUME NEW Q \in SUBSET Nat, IsFiniteSet(Q), NEW g,
           g = [n \in 1..Cardinality(Q) |-> CHOOSE i \in Q : Rank(Q, i) = n]
    PROVE  Lists(g, Cardinality(Q), Q)
<1>1. \A n \in 1..Cardinality(Q) : g[n] \in Q /\ Rank(Q, g[n]) = n
  BY RankIsTaken
<1>2. ASSUME NEW a \in 1..Cardinality(Q), NEW b \in 1..Cardinality(Q), a < b PROVE g[a] < g[b]
  <2>1. g[a] \in Q /\ g[b] \in Q /\ Rank(Q, g[a]) = a /\ Rank(Q, g[b]) = b
    BY <1>1
  <2>2. PICK i \in Q, k \in Q : i = g[a] /\ k = g[b]
    BY <2>1
  <2>3. Rank(Q, i) < Rank(Q, k) /\ a \in Nat /\ b \in Nat
    BY <1>2, <2>1, <2>2
  <2>4. ~(k < i) /\ i # k
    <3>1. Rank(Q, i) \in Int /\ Rank(Q, k) \in Int
      BY <2>1, <2>2, <2>3
    <3>2. k < i => Rank(Q, k) < Rank(Q, i)
      BY RankRises
    <3> QED
      BY <2>3, <3>1, <3>2
  <2>5. i \in Nat /\ k \in Nat
    OBVIOUS
  <2> QED
    BY <2>2, <2>4, <2>5
<1>3. ASSUME NEW i \in Q PROVE \E a \in 1..Cardinality(Q) : g[a] = i
  <2>1. Rank(Q, i) \in 1..Cardinality(Q)
    BY RankRises
  <2>2. g[Rank(Q, i)] = i
    BY <1>1, <2>1, RankIsOne
  <2> QED
    BY <2>1, <2>2
<1> QED
  BY <1>1, <1>2, <1>3 DEF Lists

LEMMA ListIsOne ==
    ASSUME NEW Q \in SUBSET Nat, NEW m \in Nat, NEW g, Lists(g, m, Q)
    PROVE  /\ IsFiniteSet(Q) /\ Cardinality(Q) = m
           /\ \A n \in 1..m : Rank(Q, g[n]) = n
<1>1. /\ g \in [1..m -> Q]
      /\ \A a, b \in 1..m : a < b => g[a] < g[b]
      /\ \A i \in Q : \E a \in 1..m : g[a] = i
  BY DEF Lists
<1>2. \A a \in 1..m : g[a] \in Nat
  BY <1>1
<1>3. \A a, b \in 1..m : g[a] = g[b] => a = b
  BY <1>1, <1>2
<1>4. \A a, b \in 1..m : a <= b <=> g[a] <= g[b]
  BY <1>1, <1>2
<1>5. g \in Bijection(1..m, Q)
  BY <1>1, <1>3 DEF Bijection, Injection, Surjection, IsInjective
<1>6. IsFiniteSet(1..m) /\ Cardinality(1..m) = m
  BY FS_Interval
<1>7. IsFiniteSet(Q) /\ Cardinality(Q) = m
  BY <1>5, <1>6, FS_Bijection DEF ExistsBijection
<1>8. ASSUME NEW n \in 1..m PROVE Rank(Q, g[n]) = n
  <2> DEFINE U == {j \in Q : j <= g[n]}
             h == [a \in 1..n |-> g[a]]
  <2>1. \A a \in 1..n : a \in 1..m
    OBVIOUS
  <2>2. h \in [1..n -> U]
    BY <1>1, <1>4, <2>1
  <2>3. \A a, b \in 1..n : h[a] = h[b] => a = b
    BY <1>3, <2>1
  <2>4. \A u \in U : \E a \in 1..n : h[a] = u
    <3> TAKE u \in U
    <3>1. PICK a \in 1..m : g[a] = u
      BY <1>1
    <3>2. a \in 1..n
      BY <1>4, <3>1
    <3> QED
      BY <3>1, <3>2
  <2> HIDE DEF U, h
  <2>5. h \in Bijection(1..n, U)
    BY <2>2, <2>3, <2>4 DEF Bijection, Injection, Surjection, IsInjective
  <2>6. IsFiniteSet(1..n) /\ Cardinality(1..n) = n
    BY FS_Interval
  <2>7. Cardinality(U) = n
    BY <2>5, <2>6, FS_Bijection DEF ExistsBijection
  <2> QED
    BY <2>7 DEF U, Rank
<1> QED
  BY <1>7, <1>8

\* What is selected, by the list of its positions.
LEMMA HavingIs ==
    ASSUME NEW T, NEW s \in Seq(T), NEW S
    PROVE  /\ KeptOf(s, S) \in SUBSET Nat /\ IsFiniteSet(KeptOf(s, S))
           /\ \E m \in Nat, g \in Seq(Nat) : /\ Lists(g, m, KeptOf(s, S))
                                              /\ Having(s, S) = [n \in 1..m |-> s[g[n]]]
<1> DEFINE Q == KeptOf(s, S)
           m == Cardinality(Q)
           g == [n \in 1..m |-> CHOOSE i \in Q : Rank(Q, i) = n]
<1>1. DOMAIN s = 1..Len(s) /\ Len(s) \in Nat
  OBVIOUS
<1>2. IsFiniteSet(1..Len(s))
  BY <1>1, FS_Interval
<1>3. Q \in SUBSET Nat /\ IsFiniteSet(Q)
  BY <1>1, <1>2, FS_Subset DEF KeptOf
<1>4. m \in Nat
  BY <1>3, FS_CardinalityType
<1>5. Having(s, S) = [n \in 1..m |-> s[CHOOSE i \in Q : Rank(Q, i) = n]]
  BY DEF Having, KeptOf
<1> HIDE DEF Q, m
<1>6. Lists(g, m, Q)
  BY <1>3, ListExists DEF m
<1>7. Having(s, S) = [n \in 1..m |-> s[g[n]]]
  BY <1>5
<1> HIDE DEF g
<1>8. g \in Seq(Nat)
  <2>1. g \in [1..m -> Q]
    BY <1>6 DEF Lists
  <2>2. g \in [1..m -> Nat]
    BY <1>3, <2>1
  <2> QED
    BY <1>4, <2>2
<1> QED
  BY <1>3, <1>4, <1>6, <1>7, <1>8 DEF Q

\* Any list of the positions will do.
LEMMA HavingListed ==
    ASSUME NEW T, NEW s \in Seq(T), NEW S, NEW m \in Nat, NEW g, Lists(g, m, KeptOf(s, S))
    PROVE  Having(s, S) = [n \in 1..m |-> s[g[n]]]
<1> DEFINE Q == KeptOf(s, S)
<1>1. Q \in SUBSET Nat /\ IsFiniteSet(Q)
  BY HavingIs
<1>2. Cardinality(Q) = m /\ \A n \in 1..m : Rank(Q, g[n]) = n /\ g[n] \in Q
  <2>1. Lists(g, m, Q)
    OBVIOUS
  <2> HIDE DEF Q
  <2>2. Cardinality(Q) = m /\ \A n \in 1..m : Rank(Q, g[n]) = n
    BY <1>1, <2>1, ListIsOne
  <2> QED
    BY <2>1, <2>2 DEF Lists
<1>3. \A n \in 1..m : (CHOOSE i \in Q : Rank(Q, i) = n) = g[n]
  <2> TAKE n \in 1..m
  <2>1. \E i \in Q : Rank(Q, i) = n
    BY <1>2
  <2>2. PICK k : k = CHOOSE i \in Q : Rank(Q, i) = n
    OBVIOUS
  <2>3. k \in Q /\ Rank(Q, k) = n
    BY <2>1, <2>2
  <2>4. g[n] \in Q /\ Rank(Q, g[n]) = n
    BY <1>2
  <2> HIDE DEF Q
  <2>5. k = g[n]
    BY <1>1, <2>3, <2>4, RankIsOne
  <2> QED
    BY <2>2, <2>5
<1>4. Having(s, S) = [n \in 1..Cardinality(Q) |-> s[CHOOSE i \in Q : Rank(Q, i) = n]]
  BY DEF Having, KeptOf
<1> HIDE DEF Q
<1> QED
  BY <1>2, <1>3, <1>4

LEMMA HavingSeq ==
    ASSUME NEW T, NEW s \in Seq(T), NEW S
    PROVE  /\ Having(s, S) \in Seq(T) /\ ToSet(Having(s, S)) = ToSet(s) \cap S
<1>1. PICK m \in Nat, g \in Seq(Nat) :
             Lists(g, m, KeptOf(s, S)) /\ Having(s, S) = [n \in 1..m |-> s[g[n]]]
  BY HavingIs
<1>2. \A n \in 1..m : g[n] \in DOMAIN s /\ s[g[n]] \in S /\ s[g[n]] \in T
  BY <1>1 DEF Lists, KeptOf
<1>3. Having(s, S) \in Seq(T) /\ DOMAIN Having(s, S) = 1..m
  <2>1. Having(s, S) \in [1..m -> T]
    BY <1>1, <1>2
  <2> QED
    BY <2>1
<1>4. ASSUME NEW i \in DOMAIN s, s[i] \in S PROVE \E n \in 1..m : s[g[n]] = s[i]
  BY <1>1, <1>4 DEF Lists, KeptOf
<1>5. ToSet(Having(s, S)) = {s[g[n]] : n \in 1..m}
  BY <1>1, <1>3 DEF ToSet
<1>6. ToSet(s) \cap S = {s[g[n]] : n \in 1..m}
  <2>1. \A x \in ToSet(s) \cap S : \E n \in 1..m : x = s[g[n]]
    BY <1>4 DEF ToSet
  <2>2. \A n \in 1..m : s[g[n]] \in ToSet(s) \cap S
    BY <1>2 DEF ToSet
  <2> QED
    BY <2>1, <2>2
<1> QED
  BY <1>3, <1>5, <1>6

\* One filter after the other.
LEMMA HavingTwice ==
    ASSUME NEW T, NEW s \in Seq(T), NEW A, NEW B
    PROVE  Having(Having(s, A), B) = Having(s, A \cap B)
<1> DEFINE h == Having(s, A)
<1>1. PICK m \in Nat, g \in Seq(Nat) : Lists(g, m, KeptOf(s, A)) /\ h = [n \in 1..m |-> s[g[n]]]
  BY HavingIs
<1>2. h \in Seq(T)
  BY HavingSeq
<1> HIDE DEF h
<1>3. PICK q \in Nat, e \in Seq(Nat) : Lists(e, q, KeptOf(h, B)) /\ Having(h, B) = [n \in 1..q |-> h[e[n]]]
  BY <1>2, HavingIs
<1> DEFINE c == [n \in 1..q |-> g[e[n]]]
<1>4. /\ g \in [1..m -> KeptOf(s, A)]
      /\ \A a, b \in 1..m : a < b => g[a] < g[b]
      /\ \A i \in KeptOf(s, A) : \E a \in 1..m : g[a] = i
  BY <1>1 DEF Lists
<1>5. /\ e \in [1..q -> KeptOf(h, B)]
      /\ \A a, b \in 1..q : a < b => e[a] < e[b]
      /\ \A i \in KeptOf(h, B) : \E a \in 1..q : e[a] = i
  BY <1>3 DEF Lists
<1>6. KeptOf(h, B) = {a \in 1..m : s[g[a]] \in B}
  BY <1>1 DEF KeptOf
<1>7. Lists(c, q, KeptOf(s, A \cap B))
  <2>1. c \in [1..q -> KeptOf(s, A \cap B)]
    BY <1>4, <1>5, <1>6 DEF KeptOf
  <2>2. \A a, b \in 1..q : a < b => c[a] < c[b]
    BY <1>4, <1>5, <1>6
  <2>3. ASSUME NEW i \in KeptOf(s, A \cap B) PROVE \E n \in 1..q : c[n] = i
    <3>1. i \in KeptOf(s, A) /\ s[i] \in B
      BY DEF KeptOf
    <3>2. PICK a \in 1..m : g[a] = i
      BY <1>4, <3>1
    <3>3. PICK n \in 1..q : e[n] = a
      BY <1>5, <1>6, <3>1, <3>2
    <3> QED
      BY <3>2, <3>3
  <2> QED
    BY <2>1, <2>2, <2>3 DEF Lists
<1>8. Having(s, A \cap B) = [n \in 1..q |-> s[c[n]]]
  <2> HIDE DEF c
  <2>1. PICK d : d = c /\ Lists(d, q, KeptOf(s, A \cap B))
    BY <1>7
  <2> DEFINE S == A \cap B
  <2>2. Lists(d, q, KeptOf(s, S))
    BY <2>1
  <2> HIDE DEF S
  <2>3. Having(s, S) = [n \in 1..q |-> s[d[n]]]
    BY ONLY s \in Seq(T), q \in Nat, <2>2, HavingListed, SMT
  <2> QED
    BY <2>1, <2>3 DEF S
<1>9. \A n \in 1..q : h[e[n]] = s[c[n]]
  BY <1>1, <1>5, <1>6
<1> QED
  BY <1>3, <1>8, <1>9 DEF h

\* Only the elements a sequence has matter.
LEMMA HavingOnly ==
    ASSUME NEW T, NEW s \in Seq(T), NEW A, NEW B, ToSet(s) \cap A = ToSet(s) \cap B
    PROVE  Having(s, A) = Having(s, B)
<1>1. \A i \in DOMAIN s : s[i] \in ToSet(s)
  BY DEF ToSet
<1>2. \A i \in DOMAIN s : s[i] \in A <=> s[i] \in B
  BY <1>1
<1>3. KeptOf(s, A) = KeptOf(s, B)
  BY <1>2 DEF KeptOf
<1>4. PICK m \in Nat, g \in Seq(Nat) :
             Lists(g, m, KeptOf(s, A)) /\ Having(s, A) = [n \in 1..m |-> s[g[n]]]
  BY HavingIs
<1>5. Having(s, B) = [n \in 1..m |-> s[g[n]]]
  BY <1>3, <1>4, HavingListed
<1> QED
  BY <1>4, <1>5

-----------------------------------------------------------------------------
(* SignalEngine.                                                           *)

Opposite(side) == IF side = "LONG" THEN "SHORT" ELSE "LONG"

-----------------------------------------------------------------------------
(* Evidence turned upside down.                                            *)

LEMMA EvidenceFields ==
    ASSUME NEW e \in EvidenceSet
    PROVE  /\ e.candles \in [Frames -> Seq(Candles)]
           /\ e.asOf \in Int \cup {Missing}
           /\ e.regime \in Regimes \cup {Missing}
           /\ e.trend \in [Trends -> TrendReads \cup {Missing}]
           /\ e.structure \in Structures \cup {Missing}
           /\ e.retraced \in Int \cup {Missing} /\ e.rsi \in Int \cup {Missing}
           /\ e.rsi1h \in Int \cup {Missing} /\ e.roc \in Int
           /\ e.macd \in MacdReads \cup {Missing}
           /\ e.volume \in Nat \cup {Missing} /\ e.distance \in Nat \cup {Missing}
           /\ e.cycle \in CycleReads \cup {Missing}
           /\ e.health \in [Feeds -> Statuses]
  BY Zenon DEF EvidenceSet

\* What the mirror image reads.
LEMMA MirrorReads ==
    ASSUME NEW e \in EvidenceSet, NEW m, m = MirrorEvidence(e)
    PROVE  /\ m.candles = [f \in Frames |->
                             [i \in DOMAIN e.candles[f] |-> MirrorCandle(e.candles[f][i])]]
           /\ m.regime = MirrorRegime(e.regime)
           /\ m.trend = [f \in Trends |-> MirrorTrend(e.trend[f])]
           /\ m.structure = MirrorStructureRead(e.structure)
           /\ m.retraced = FromHundred(e.retraced)
           /\ m.rsi = FromHundred(e.rsi)
           /\ m.rsi1h = FromHundred(e.rsi1h)
           /\ m.roc = 0 - e.roc
           /\ m.macd = MirrorMacd(e.macd)
           /\ m.asOf = e.asOf /\ m.volume = e.volume /\ m.distance = e.distance
           /\ m.cycle = e.cycle /\ m.blackout = e.blackout
           /\ m.configured = e.configured /\ m.health = e.health
<1> DEFINE c == [f \in Frames |-> [i \in DOMAIN e.candles[f] |-> MirrorCandle(e.candles[f][i])]]
           r == MirrorRegime(e.regime)
           t == [f \in Trends |-> MirrorTrend(e.trend[f])]
           s == MirrorStructureRead(e.structure)
           a == FromHundred(e.retraced)
           x == FromHundred(e.rsi)
           y == FromHundred(e.rsi1h)
           n == 0 - e.roc
           d == MirrorMacd(e.macd)
<1>1. m = [e EXCEPT !.candles = c, !.regime = r, !.trend = t, !.structure = s, !.retraced = a,
                    !.rsi = x, !.rsi1h = y, !.roc = n, !.macd = d]
  BY Zenon DEF MirrorEvidence
<1> HIDE DEF c, r, t, s, a, x, y, n, d
<1>2. /\ m.candles = c /\ m.regime = r /\ m.trend = t /\ m.structure = s /\ m.retraced = a
      /\ m.rsi = x /\ m.rsi1h = y /\ m.roc = n /\ m.macd = d
      /\ m.asOf = e.asOf /\ m.volume = e.volume /\ m.distance = e.distance
      /\ m.cycle = e.cycle /\ m.blackout = e.blackout
      /\ m.configured = e.configured /\ m.health = e.health
  BY <1>1 DEF EvidenceSet
<1> QED
  BY <1>2, Zenon DEF c, r, t, s, a, x, y, n, d

-----------------------------------------------------------------------------
(* Candles: the mirror image is closed when the original is.               *)

LEMMA MirrorCandleReads ==
    ASSUME NEW c \in Candles
    PROVE  /\ MirrorCandle(c).close = c.close /\ MirrorCandle(c).closed = c.closed
           /\ MirrorCandle(c).shape = [lower |-> c.shape.upper, upper |-> c.shape.lower,
                                       closeAt |-> 100 - c.shape.closeAt, body |-> 0 - c.shape.body]
           /\ MirrorCandle(c) \in Candles
<1> DEFINE s == [lower |-> c.shape.upper, upper |-> c.shape.lower,
                 closeAt |-> 100 - c.shape.closeAt, body |-> 0 - c.shape.body]
<1>1. MirrorCandle(c) = [c EXCEPT !.shape = s]
  BY Zenon DEF MirrorCandle
<1>2. s \in [lower: Int, upper: Int, closeAt: Int, body: Int]
  <2>1. c.shape \in [lower: Int, upper: Int, closeAt: Int, body: Int]
    BY DEF Candles
  <2> QED
    BY <2>1
<1> HIDE DEF s
<1>3. /\ MirrorCandle(c).close = c.close /\ MirrorCandle(c).closed = c.closed
      /\ MirrorCandle(c).shape = s /\ MirrorCandle(c) \in Candles
  BY <1>1, <1>2 DEF Candles
<1> QED
  BY <1>3 DEF s

\* A function on 1..k is a sequence of length k.
LEMMA FunctionIsSeq ==
    ASSUME NEW S, NEW k \in Nat, NEW g \in [1..k -> S]
    PROVE  g \in Seq(S) /\ Len(g) = k /\ DOMAIN g = 1..k
  OBVIOUS

\* A sequence of candles, mirrored one by one.
LEMMA MirrorSeq ==
    ASSUME NEW s \in Seq(Candles), NEW n, n = [i \in DOMAIN s |-> MirrorCandle(s[i])]
    PROVE  /\ Len(s) \in Nat /\ Len(n) = Len(s)
           /\ DOMAIN s = 1..Len(s) /\ DOMAIN n = 1..Len(s)
           /\ \A i \in 1..Len(s) :
                /\ s[i] \in Candles /\ n[i] \in Candles /\ n[i] = MirrorCandle(s[i])
                /\ n[i].close = s[i].close /\ n[i].closed = s[i].closed
<1>1. Len(s) \in Nat /\ DOMAIN s = 1..Len(s) /\ \A i \in 1..Len(s) : s[i] \in Candles
  BY LenProperties, ElementOfSeq
<1>2. ASSUME NEW i \in 1..Len(s)
      PROVE  /\ n[i] = MirrorCandle(s[i]) /\ n[i] \in Candles
             /\ n[i].close = s[i].close /\ n[i].closed = s[i].closed
  <2>1. n[i] = MirrorCandle(s[i]) /\ s[i] \in Candles
    BY <1>1
  <2> QED
    BY <2>1, MirrorCandleReads
<1>3. n \in [1..Len(s) -> Candles]
  <2>1. \A i \in 1..Len(s) : MirrorCandle(s[i]) \in Candles
    BY <1>1, MirrorCandleReads, Zenon
  <2> QED
    BY <1>1, <2>1, Zenon
<1>4. n \in Seq(Candles) /\ Len(n) = Len(s) /\ DOMAIN n = 1..Len(s)
  BY <1>1, <1>3, FunctionIsSeq, Zenon
<1> QED
  BY <1>1, <1>2, <1>4, Zenon

LEMMA MirrorCandles ==
    ASSUME NEW e \in EvidenceSet, NEW m, m = MirrorEvidence(e), NEW f \in Frames
    PROVE  /\ e.candles[f] \in Seq(Candles)
           /\ m.candles[f] = [i \in DOMAIN e.candles[f] |-> MirrorCandle(e.candles[f][i])]
<1>1. e.candles[f] \in Seq(Candles)
  BY EvidenceFields
<1>2. m.candles = [g \in Frames |-> [i \in DOMAIN e.candles[g] |-> MirrorCandle(e.candles[g][i])]]
  BY MirrorReads, Zenon
<1> QED
  BY <1>1, <1>2, Zenon

\* The evidence has a decision time.
Timed(e) == e.asOf # Missing \/ e.candles["15m"] # <<>>

LEMMA MirrorTime ==
    ASSUME NEW e \in EvidenceSet, NEW m, m = MirrorEvidence(e), Timed(e)
    PROVE  DecisionTime(m) = DecisionTime(e)
<1> DEFINE s == e.candles["15m"]
           n == m.candles["15m"]
<1>1. m.asOf = e.asOf
  BY MirrorReads
<1>2. CASE e.asOf # Missing
  BY <1>1, <1>2 DEF DecisionTime
<1>3. CASE e.asOf = Missing
  <2>1. "15m" \in Frames
    BY DEF Frames
  <2>2. /\ Len(s) \in Nat /\ DOMAIN s = 1..Len(s) /\ DOMAIN n = 1..Len(s) /\ Len(n) = Len(s)
        /\ \A i \in 1..Len(s) : n[i].close = s[i].close /\ n[i].closed = s[i].closed
    <3>1. s \in Seq(Candles) /\ n = [i \in DOMAIN s |-> MirrorCandle(s[i])]
      BY <2>1, MirrorCandles, Zenon
    <3> QED
      BY <3>1, MirrorSeq, Zenon
  <2>3. ClosedOnly(n) = ClosedOnly(s) /\ ClosedOnly(s) \subseteq 1..Len(s)
    BY <2>2 DEF ClosedOnly
  <2>4. CASE ClosedOnly(s) # {}
    <3>1. Max(ClosedOnly(s)) \in 1..Len(s)
      BY <2>2, <2>3, <2>4, MaxAbove
    <3>2. n[Max(ClosedOnly(n))].close = s[Max(ClosedOnly(s))].close
      BY <2>2, <2>3, <3>1
    <3> QED
      BY <1>1, <1>3, <2>3, <2>4, <3>2 DEF DecisionTime
  <2>5. CASE ClosedOnly(s) = {}
    <3>1. s # <<>> /\ s \in Seq(Candles)
      BY <1>3, <2>1, EvidenceFields DEF Timed
    <3>2. Len(s) \in 1..Len(s)
      <4> HIDE DEF s
      <4> QED
        BY <2>2, <3>1, EmptySeq
    <3>3. n[Len(n)].close = s[Len(s)].close
      BY <2>2, <3>2
    <3> QED
      BY <1>1, <1>3, <2>3, <2>5, <3>3 DEF DecisionTime
  <2> QED
    BY <2>4, <2>5
<1> QED
  BY <1>2, <1>3

LEMMA MirrorUnclosed ==
    ASSUME NEW e \in EvidenceSet, NEW m, m = MirrorEvidence(e), Timed(e)
    PROVE  UnclosedAt(m) <=> UnclosedAt(e)
<1>1. ASSUME NEW f \in Frames, NEW t
      PROVE  HasUnclosed(m.candles[f], t) <=> HasUnclosed(e.candles[f], t)
  <2>1. /\ DOMAIN e.candles[f] = 1..Len(e.candles[f]) /\ DOMAIN m.candles[f] = 1..Len(e.candles[f])
        /\ \A i \in 1..Len(e.candles[f]) :
              m.candles[f][i].close = e.candles[f][i].close
              /\ m.candles[f][i].closed = e.candles[f][i].closed
    <3>1. /\ e.candles[f] \in Seq(Candles)
          /\ m.candles[f] = [i \in DOMAIN e.candles[f] |-> MirrorCandle(e.candles[f][i])]
      BY MirrorCandles, Zenon
    <3> QED
      BY <3>1, MirrorSeq, Zenon
  <2> QED
    BY <2>1, Zenon DEF HasUnclosed
<1> QED
  BY <1>1, MirrorTime, Zenon DEF UnclosedAt

\* The trigger candle of the mirror image is the mirrored trigger candle.
LEMMA MirrorTrigger ==
    ASSUME NEW e \in EvidenceSet, NEW m, m = MirrorEvidence(e), Timed(e)
    PROVE  \/ LastVisible(m) = Missing /\ LastVisible(e) = Missing
           \/ /\ LastVisible(e) \in Candles
              /\ LastVisible(m) = MirrorCandle(LastVisible(e)) /\ LastVisible(m) \in Candles
<1> DEFINE s == e.candles["15m"]
           n == m.candles["15m"]
           t == DecisionTime(e)
           v == Visible(s, t)
<1>1. "15m" \in Frames /\ DecisionTime(m) = t
  BY MirrorTime DEF Frames
<1>2. /\ Len(s) \in Nat /\ DOMAIN s = 1..Len(s) /\ DOMAIN n = 1..Len(s)
      /\ \A i \in 1..Len(s) :
           /\ s[i] \in Candles /\ n[i] \in Candles /\ n[i] = MirrorCandle(s[i])
           /\ n[i].close = s[i].close /\ n[i].closed = s[i].closed
  <2>1. s \in Seq(Candles) /\ n = [i \in DOMAIN s |-> MirrorCandle(s[i])]
    BY <1>1, MirrorCandles, Zenon
  <2> QED
    BY <2>1, MirrorSeq, Zenon
<1>4. Visible(n, t) = v /\ v \in SUBSET (1..Len(s))
  BY <1>2 DEF Visible
<1>5. LastVisible(e) = IF v = {} THEN Missing ELSE s[Max(v)]
  BY DEF LastVisible
<1>6. LastVisible(m) = IF v = {} THEN Missing ELSE n[Max(v)]
  BY <1>1, <1>4 DEF LastVisible
<1> HIDE DEF v, s, n
<1>7. v # {} => Max(v) \in 1..Len(s)
  BY <1>2, <1>4, MaxAbove
<1> QED
  BY <1>2, <1>5, <1>6, <1>7

-----------------------------------------------------------------------------
(* Each component scores the mirror image for a side as it scores the      *)
(* original for the opposite side.                                         *)

LEMMA MirrorRegimePoints ==
    ASSUME NEW e \in EvidenceSet, NEW m, m = MirrorEvidence(e), NEW side \in Sides
    PROVE  RegimePoints(side, m) = RegimePoints(Opposite(side), e)
<1>1. m.regime = MirrorRegime(e.regime) /\ e.regime \in Regimes \cup {Missing}
  BY MirrorReads, EvidenceFields, Zenon
<1>2. CASE e.regime = Missing
  BY <1>1, <1>2 DEF MirrorRegime, RegimePoints
<1>3. CASE e.regime # Missing
  <2>1. e.regime \in Regimes
    BY <1>1, <1>3
  <2>2. m.regime = [kind |-> MirrorKind(e.regime.kind), confidence |-> e.regime.confidence]
    BY <1>1, <1>3 DEF MirrorRegime
  <2>3. m.regime \in Regimes
    BY <2>1, <2>2 DEF Regimes, MirrorKind
  <2>4. /\ m.regime # Missing /\ m.regime.kind = MirrorKind(e.regime.kind)
        /\ m.regime.confidence = e.regime.confidence
    BY <2>2, <2>3, MissingAssumption
  <2> QED
    BY <1>3, <2>4 DEF RegimePoints, MirrorKind, Sides, Opposite
<1> QED
  BY <1>2, <1>3

LEMMA MirrorTrendPoints ==
    ASSUME NEW trend \in TrendReads \cup {Missing}, NEW weight, NEW side \in Sides
    PROVE  TrendPoints(side, MirrorTrend(trend), weight) = TrendPoints(Opposite(side), trend, weight)
<1>1. CASE trend = Missing
  BY <1>1 DEF MirrorTrend, TrendPoints
<1>2. CASE trend # Missing
  <2> DEFINE u == MirrorTrend(trend)
  <2>1. trend \in TrendReads
    BY <1>2
  <2>2. u = [align |-> 0 - trend.align, slope |-> 0 - trend.slope,
             strong |-> trend.strong, di |-> 0 - trend.di]
    BY <1>2 DEF MirrorTrend
  <2> HIDE DEF u
  <2>3. /\ trend.align \in Int /\ trend.slope \in Int /\ trend.di \in Int
        /\ trend.strong \in BOOLEAN
    BY <2>1 DEF TrendReads
  <2>4. u \in TrendReads
    BY <2>2, <2>3 DEF TrendReads
  <2>5. /\ u # Missing /\ u.align = 0 - trend.align /\ u.slope = 0 - trend.slope
        /\ u.strong = trend.strong /\ u.di = 0 - trend.di
    BY <2>2, <2>4, MissingAssumption
  <2>6. CASE side = "LONG"
    <3>1. /\ u.align = 1 <=> trend.align = -1
          /\ u.slope > 0 <=> trend.slope < 0
          /\ u.di > 0 <=> trend.di < 0
      BY <2>3, <2>5
    <3> QED
      BY <1>2, <2>5, <2>6, <3>1 DEF TrendPoints, Favours, Opposite, u
  <2>7. CASE side = "SHORT"
    <3>1. /\ u.align = -1 <=> trend.align = 1
          /\ u.slope < 0 <=> trend.slope > 0
          /\ u.di < 0 <=> trend.di > 0
      BY <2>3, <2>5
    <3> QED
      BY <1>2, <2>5, <2>7, <3>1 DEF TrendPoints, Favours, Opposite, u
  <2> QED
    BY <2>6, <2>7 DEF Sides
<1> QED
  BY <1>1, <1>2

LEMMA MirrorStructurePoints ==
    ASSUME NEW e \in EvidenceSet, NEW m, m = MirrorEvidence(e), NEW side \in Sides
    PROVE  StructurePoints(side, m) = StructurePoints(Opposite(side), e)
<1>1. m.structure = MirrorStructureRead(e.structure) /\ e.structure \in Structures \cup {Missing}
  BY MirrorReads, EvidenceFields, Zenon
<1>2. CASE e.structure = Missing
  BY <1>1, <1>2 DEF MirrorStructureRead, StructurePoints
<1>3. CASE e.structure # Missing
  <2>1. e.structure \in Structures
    BY <1>1, <1>3
  <2>2. /\ e.structure.type \in {"HH", "HL", "LH", "LL", "CONSOLIDATION"}
        /\ e.structure.bos \in Int
    BY <2>1 DEF Structures
  <2>3. m.structure = [type |-> MirrorType(e.structure.type), bos |-> 0 - e.structure.bos]
    BY <1>1, <1>3 DEF MirrorStructureRead
  <2>4. m.structure \in Structures
    BY <2>2, <2>3 DEF Structures, MirrorType
  <2>5. /\ m.structure # Missing /\ m.structure.type = MirrorType(e.structure.type)
        /\ m.structure.bos = 0 - e.structure.bos
    BY <2>3, <2>4, MissingAssumption
  <2>6. CASE side = "LONG"
    <3>1. m.structure.type \in {"HH", "HL"} <=> e.structure.type \in {"LH", "LL"}
      BY <2>2, <2>5 DEF MirrorType
    <3>2. m.structure.type = "CONSOLIDATION" <=> e.structure.type = "CONSOLIDATION"
      BY <2>2, <2>5 DEF MirrorType
    <3> QED
      BY <1>3, <2>2, <2>5, <2>6, <3>1, <3>2 DEF StructurePoints, Opposite
  <2>7. CASE side = "SHORT"
    <3>1. m.structure.type \in {"LH", "LL"} <=> e.structure.type \in {"HH", "HL"}
      BY <2>2, <2>5 DEF MirrorType
    <3>2. m.structure.type = "CONSOLIDATION" <=> e.structure.type = "CONSOLIDATION"
      BY <2>2, <2>5 DEF MirrorType
    <3>3. 0 - m.structure.bos = e.structure.bos
      BY <2>2, <2>5
    <3> QED
      BY <1>3, <2>5, <2>7, <3>1, <3>2, <3>3 DEF StructurePoints, Opposite
  <2> QED
    BY <2>6, <2>7 DEF Sides
<1> QED
  BY <1>2, <1>3

LEMMA MirrorHundred ==
    ASSUME NEW x \in Int \cup {Missing}
    PROVE  /\ FromHundred(x) = Missing <=> x = Missing
           /\ x # Missing => x \in Int /\ FromHundred(x) = 100 - x
  BY MissingAssumption DEF FromHundred

LEMMA MirrorPullbackPoints ==
    ASSUME NEW e \in EvidenceSet, NEW m, m = MirrorEvidence(e), NEW side \in Sides
    PROVE  PullbackPoints(side, m) = PullbackPoints(Opposite(side), e)
<1>1. m.retraced = FromHundred(e.retraced) /\ e.retraced \in Int \cup {Missing}
  BY MirrorReads, EvidenceFields, Zenon
<1>2. CASE e.retraced = Missing
  BY <1>1, <1>2, MirrorHundred DEF PullbackPoints
<1>3. CASE e.retraced # Missing
  <2>1. /\ e.retraced \in Int /\ m.retraced = 100 - e.retraced /\ m.retraced # Missing
        /\ 100 - m.retraced = e.retraced
    BY <1>1, <1>3, MirrorHundred
  <2> QED
    BY <1>3, <2>1 DEF PullbackPoints, Sides, Opposite
<1> QED
  BY <1>2, <1>3

LEMMA MirrorMacdReads ==
    ASSUME NEW e \in EvidenceSet, NEW m, m = MirrorEvidence(e)
    PROVE  \/ e.macd = Missing /\ m.macd = Missing
           \/ /\ e.macd # Missing /\ m.macd # Missing
              /\ e.macd.hist \in Int /\ e.macd.gap \in Int
              /\ m.macd.hist = 0 - e.macd.hist /\ m.macd.gap = 0 - e.macd.gap
<1>1. m.macd = MirrorMacd(e.macd) /\ e.macd \in MacdReads \cup {Missing}
  BY MirrorReads, EvidenceFields, Zenon
<1>2. CASE e.macd = Missing
  BY <1>1, <1>2 DEF MirrorMacd
<1>3. CASE e.macd # Missing
  <2>1. e.macd.hist \in Int /\ e.macd.gap \in Int
    BY <1>1, <1>3 DEF MacdReads
  <2>2. m.macd = [hist |-> 0 - e.macd.hist, gap |-> 0 - e.macd.gap]
    BY <1>1, <1>3 DEF MirrorMacd
  <2>3. m.macd \in MacdReads
    BY <2>1, <2>2 DEF MacdReads
  <2> QED
    BY <1>3, <2>1, <2>2, <2>3, MissingAssumption
<1> QED
  BY <1>2, <1>3

LEMMA MirrorMomentumPoints ==
    ASSUME NEW e \in EvidenceSet, NEW m, m = MirrorEvidence(e), NEW side \in Sides
    PROVE  MomentumPoints(side, m) = MomentumPoints(Opposite(side), e)
<1> DEFINE strength(d, x) ==
             IF x.rsi = Missing THEN 0
             ELSE IF d = "LONG"
                  THEN (IF x.rsi \in 45..65 THEN 50 ELSE IF x.rsi \in 35..44 THEN 25 ELSE 0)
                  ELSE (IF x.rsi \in 35..55 THEN 50 ELSE IF x.rsi \in 56..65 THEN 25 ELSE 0)
           momentum(d, x) ==
             IF x.macd = Missing THEN 0
             ELSE IF d = "LONG"
                  THEN (IF x.macd.hist > 0 THEN (IF x.macd.gap >= 0 THEN 50 ELSE 25) ELSE 0)
                  ELSE (IF x.macd.hist < 0 THEN (IF x.macd.gap <= 0 THEN 50 ELSE 25) ELSE 0)
<1>1. strength(side, m) = strength(Opposite(side), e)
  <2>1. m.rsi = FromHundred(e.rsi) /\ e.rsi \in Int \cup {Missing}
    BY MirrorReads, EvidenceFields, Zenon
  <2>2. CASE e.rsi = Missing
    BY <2>1, <2>2, MirrorHundred
  <2>3. CASE e.rsi # Missing
    <3>1. e.rsi \in Int /\ m.rsi = 100 - e.rsi /\ m.rsi # Missing
      BY <2>1, <2>3, MirrorHundred
    <3> QED
      BY <2>3, <3>1 DEF Sides, Opposite
  <2> QED
    BY <2>2, <2>3
<1>2. momentum(side, m) = momentum(Opposite(side), e)
  BY MirrorMacdReads DEF Sides, Opposite
<1>3. \A d, x : MomentumPoints(d, x) = Weights.momentum * (strength(d, x) + momentum(d, x))
  BY Zenon DEF MomentumPoints
<1> HIDE DEF strength, momentum
<1> QED
  BY <1>1, <1>2, <1>3, Zenon

LEMMA MirrorTurnPoints ==
    ASSUME NEW e \in EvidenceSet, NEW m, m = MirrorEvidence(e), NEW side \in Sides
    PROVE  TurnPoints(side, m) = TurnPoints(Opposite(side), e)
<1> DEFINE turn(d, x) ==
             IF x.rsi = Missing THEN 0
             ELSE IF d = "LONG"
                  THEN (IF x.rsi \in 45..65 THEN 50 ELSE IF x.rsi < 45 /\ x.roc > 0 THEN 30 ELSE 0)
                  ELSE (IF x.rsi \in 35..55 THEN 50 ELSE IF x.rsi > 55 /\ x.roc < 0 THEN 30 ELSE 0)
           hourly(d, x) ==
             IF x.rsi1h = Missing THEN 0
             ELSE IF (d = "LONG" /\ x.rsi1h >= 45) \/ (d = "SHORT" /\ x.rsi1h <= 55)
                  THEN 50 ELSE 0
<1>1. turn(side, m) = turn(Opposite(side), e)
  <2>1. /\ m.rsi = FromHundred(e.rsi) /\ e.rsi \in Int \cup {Missing}
        /\ m.roc = 0 - e.roc /\ e.roc \in Int
    BY MirrorReads, EvidenceFields, Zenon
  <2>2. CASE e.rsi = Missing
    BY <2>1, <2>2, MirrorHundred
  <2>3. CASE e.rsi # Missing
    <3>1. e.rsi \in Int /\ m.rsi = 100 - e.rsi /\ m.rsi # Missing
      BY <2>1, <2>3, MirrorHundred
    <3> QED
      BY <2>1, <2>3, <3>1 DEF Sides, Opposite
  <2> QED
    BY <2>2, <2>3
<1>2. hourly(side, m) = hourly(Opposite(side), e)
  <2>1. m.rsi1h = FromHundred(e.rsi1h) /\ e.rsi1h \in Int \cup {Missing}
    BY MirrorReads, EvidenceFields, Zenon
  <2>2. CASE e.rsi1h = Missing
    BY <2>1, <2>2, MirrorHundred
  <2>3. CASE e.rsi1h # Missing
    <3>1. e.rsi1h \in Int /\ m.rsi1h = 100 - e.rsi1h /\ m.rsi1h # Missing
      BY <2>1, <2>3, MirrorHundred
    <3> QED
      BY <2>3, <3>1 DEF Sides, Opposite
  <2> QED
    BY <2>2, <2>3
<1>3. \A d, x : TurnPoints(d, x) = Weights.turn * (turn(d, x) + hourly(d, x))
  BY Zenon DEF TurnPoints
<1> HIDE DEF turn, hourly
<1> QED
  BY <1>1, <1>2, <1>3, Zenon

LEMMA MirrorReversalPoints ==
    ASSUME NEW c \in Candles, NEW side \in Sides
    PROVE  ReversalPoints(side, MirrorCandle(c)) = ReversalPoints(Opposite(side), c)
<1> DEFINE w == MirrorCandle(c)
<1>1. /\ w.shape = [lower |-> c.shape.upper, upper |-> c.shape.lower,
                    closeAt |-> 100 - c.shape.closeAt, body |-> 0 - c.shape.body]
      /\ w # Missing /\ c # Missing
  BY MirrorCandleReads, MissingAssumption
<1>2. /\ c.shape.lower \in Int /\ c.shape.upper \in Int /\ c.shape.closeAt \in Int
      /\ c.shape.body \in Int
  <2>1. c.shape \in [lower: Int, upper: Int, closeAt: Int, body: Int]
    BY DEF Candles
  <2> QED
    BY <2>1
<1> HIDE DEF w
<1>3. /\ w.shape.lower = c.shape.upper /\ w.shape.upper = c.shape.lower
      /\ w.shape.closeAt = 100 - c.shape.closeAt /\ w.shape.body = 0 - c.shape.body
  BY <1>1
<1>4. ReversalPoints(side, w) = ReversalPoints(Opposite(side), c)
  BY <1>1, <1>2, <1>3 DEF ReversalPoints, Sides, Opposite
<1> QED
  BY <1>4 DEF w

-----------------------------------------------------------------------------
(* The scores, the gate and the matrix.                                    *)

LEMMA MirrorDirection ==
    ASSUME NEW e \in EvidenceSet, NEW m, m = MirrorEvidence(e), NEW side \in Sides
    PROVE  DirectionScore(side, m) = DirectionScore(Opposite(side), e)
<1>1. \A f \in Trends : m.trend[f] = MirrorTrend(e.trend[f])
                        /\ e.trend[f] \in TrendReads \cup {Missing}
  <2>1. /\ m.trend = [f \in Trends |-> MirrorTrend(e.trend[f])]
        /\ e.trend \in [Trends -> TrendReads \cup {Missing}]
    BY MirrorReads, EvidenceFields, Zenon
  <2> QED
    BY <2>1, Zenon
<1>2. \A f \in Trends : \A weight : TrendPoints(side, m.trend[f], weight)
                                  = TrendPoints(Opposite(side), e.trend[f], weight)
  BY <1>1, MirrorTrendPoints, Zenon
<1>3. /\ TrendPoints(side, m.trend["1h"], Weights.trend1h)
           = TrendPoints(Opposite(side), e.trend["1h"], Weights.trend1h)
      /\ TrendPoints(side, m.trend["4h"], Weights.trend4h)
           = TrendPoints(Opposite(side), e.trend["4h"], Weights.trend4h)
      /\ TrendPoints(side, m.trend["1d"], Weights.trend1d)
           = TrendPoints(Opposite(side), e.trend["1d"], Weights.trend1d)
  BY <1>2, Zenon DEF Trends
<1>4. VolumePoints(Weights.volume, m) = VolumePoints(Weights.volume, e)
  <2>1. m.volume = e.volume
    BY MirrorReads, Zenon
  <2> QED
    BY <2>1, Zenon DEF VolumePoints
<1>5. RegimePoints(side, m) = RegimePoints(Opposite(side), e)
  BY MirrorRegimePoints, Zenon
<1>6. StructurePoints(side, m) = StructurePoints(Opposite(side), e)
  BY MirrorStructurePoints, Zenon
<1>7. PullbackPoints(side, m) = PullbackPoints(Opposite(side), e)
  BY MirrorPullbackPoints, Zenon
<1>8. MomentumPoints(side, m) = MomentumPoints(Opposite(side), e)
  BY MirrorMomentumPoints, Zenon
<1> QED
  BY <1>3, <1>4, <1>5, <1>6, <1>7, <1>8, Zenon DEF DirectionScore

LEMMA MirrorTiming ==
    ASSUME NEW e \in EvidenceSet, NEW m, m = MirrorEvidence(e), Timed(e), NEW side \in Sides
    PROVE  TimingScore(side, m) = TimingScore(Opposite(side), e)
<1>1. m.distance = e.distance /\ m.cycle = e.cycle /\ m.volume = e.volume
  BY MirrorReads, Zenon
<1>2. LastVisible(m) = Missing <=> LastVisible(e) = Missing
  BY MirrorTrigger, MissingAssumption, Zenon
<1>3. ZonePoints(m) = ZonePoints(e)
  BY <1>1, <1>2, Zenon DEF ZonePoints
<1>4. CyclePoints(m) = CyclePoints(e)
  BY <1>1, Zenon DEF CyclePoints
<1>5. VolumePoints(Weights.response, m) = VolumePoints(Weights.response, e)
  BY <1>1, Zenon DEF VolumePoints
<1>6. TurnPoints(side, m) = TurnPoints(Opposite(side), e)
  BY MirrorTurnPoints, Zenon
<1>7. ReversalPoints(side, LastVisible(m)) = ReversalPoints(Opposite(side), LastVisible(e))
  <2>1. CASE LastVisible(m) = Missing /\ LastVisible(e) = Missing
    BY <2>1, Zenon DEF ReversalPoints
  <2>2. CASE LastVisible(e) \in Candles /\ LastVisible(m) = MirrorCandle(LastVisible(e))
    BY <2>2, MirrorReversalPoints, Zenon
  <2> QED
    BY <2>1, <2>2, MirrorTrigger, Zenon
<1> QED
  BY <1>3, <1>4, <1>5, <1>6, <1>7, Zenon DEF TimingScore

LEMMA MirrorTier ==
    ASSUME NEW e \in EvidenceSet, NEW m, m = MirrorEvidence(e), Timed(e), NEW side \in Sides
    PROVE  SideTier(side, m) = SideTier(Opposite(side), e)
  BY MirrorDirection, MirrorTiming, Zenon DEF SideTier

LEMMA TierRange ==
    ASSUME NEW direction, NEW timing
    PROVE  Tier(direction, timing) \in 0..3
  BY DEF Tier

\* The matrix of tiers, turned around.
LEMMA MirrorMatrix ==
    ASSUME NEW long \in 0..3, NEW short \in 0..3
    PROVE  Resolved(short, long) = MirrorState(Resolved(long, short))
<1>1. long \in {0, 1, 2, 3} /\ short \in {0, 1, 2, 3}
  OBVIOUS
<1>2. CASE long = short
  BY <1>1, <1>2 DEF Resolved, MirrorState
<1>3. CASE long # short /\ long >= 2 /\ short >= 2
  BY <1>1, <1>3 DEF Resolved, MirrorState
<1>4. CASE ~(long >= 2 /\ short >= 2) /\ long > short
  BY <1>1, <1>4 DEF Resolved, TierState, MirrorState
<1>5. CASE ~(long >= 2 /\ short >= 2) /\ long < short
  BY <1>1, <1>5 DEF Resolved, TierState, MirrorState
<1> QED
  BY <1>1, <1>2, <1>3, <1>4, <1>5

LEMMA MirrorGate ==
    ASSUME NEW e \in EvidenceSet, NEW m, m = MirrorEvidence(e), Timed(e)
    PROVE  HardBlocked(m) <=> HardBlocked(e)
<1>1. m.blackout = e.blackout /\ m.health = e.health
  BY MirrorReads, Zenon
<1>2. UnclosedAt(m) <=> UnclosedAt(e)
  BY MirrorUnclosed, Zenon
<1> QED
  BY <1>1, <1>2, Zenon DEF HardBlocked

LEMMA MirrorCandidate ==
    ASSUME NEW e \in EvidenceSet, Timed(e)
    PROVE  Candidate(MirrorEvidence(e)) = MirrorState(Candidate(e))
<1> DEFINE m == MirrorEvidence(e)
<1>1. HardBlocked(m) <=> HardBlocked(e)
  BY MirrorGate, Zenon
<1>2. m.configured = e.configured
  BY MirrorReads, Zenon
<1>3. SideTier("LONG", m) = SideTier("SHORT", e) /\ SideTier("SHORT", m) = SideTier("LONG", e)
  <2>1. \A side \in Sides : SideTier(side, m) = SideTier(Opposite(side), e)
    BY MirrorTier, Zenon
  <2> QED
    BY <2>1 DEF Sides, Opposite
<1>4. SideTier("LONG", e) \in 0..3 /\ SideTier("SHORT", e) \in 0..3
  BY TierRange DEF SideTier
<1>5. Resolved(SideTier("LONG", m), SideTier("SHORT", m))
        = MirrorState(Resolved(SideTier("LONG", e), SideTier("SHORT", e)))
  BY <1>3, <1>4, MirrorMatrix
<1>6. MirrorState("FORCE_WAIT") = "FORCE_WAIT" /\ MirrorState("NO_TRADE") = "NO_TRADE"
  BY DEF MirrorState
<1> HIDE DEF m
<1>7. Candidate(m) = MirrorState(Candidate(e))
  BY <1>1, <1>2, <1>5, <1>6, Zenon DEF Candidate
<1> QED
  BY <1>7 DEF m

-----------------------------------------------------------------------------
(* The evidence stays evidence; feeds turning change its health alone.     *)

Judgement(e) ==
    IF ~e.configured THEN "NO_TRADE" ELSE Resolved(SideTier("LONG", e), SideTier("SHORT", e))

\* The snapshot of an analysis that nothing holds back.
Through(e) ==
    [at |-> DecisionTime(e), candidate |-> Judgement(e), advice |-> Advice(Judgement(e)),
     published |-> "NO_TRADE"]

\* Of the candles a side's tier reads the last visible one alone.
LEMMA TierReads ==
    ASSUME NEW e, NEW g, LastVisible(g) = LastVisible(e),
           g.regime = e.regime, g.trend = e.trend,
           g.structure = e.structure, g.retraced = e.retraced, g.rsi = e.rsi,
           g.rsi1h = e.rsi1h, g.roc = e.roc, g.macd = e.macd, g.volume = e.volume,
           g.distance = e.distance, g.cycle = e.cycle
    PROVE  SideTier("LONG", g) = SideTier("LONG", e) /\ SideTier("SHORT", g) = SideTier("SHORT", e)
<1>1. ASSUME NEW side PROVE SideTier(side, g) = SideTier(side, e)
  <2>1. RegimePoints(side, g) = RegimePoints(side, e)
    BY Zenon DEF RegimePoints
  <2>2. StructurePoints(side, g) = StructurePoints(side, e)
    BY Zenon DEF StructurePoints
  <2>3. PullbackPoints(side, g) = PullbackPoints(side, e)
    BY Zenon DEF PullbackPoints
  <2>4. MomentumPoints(side, g) = MomentumPoints(side, e)
    BY Zenon DEF MomentumPoints
  <2>5. \A w : VolumePoints(w, g) = VolumePoints(w, e)
    BY Zenon DEF VolumePoints
  <2>6. ZonePoints(g) = ZonePoints(e)
    BY Zenon DEF ZonePoints
  <2>7. TurnPoints(side, g) = TurnPoints(side, e)
    BY Zenon DEF TurnPoints
  <2>8. CyclePoints(g) = CyclePoints(e)
    BY Zenon DEF CyclePoints
  <2>9. DirectionScore(side, g) = DirectionScore(side, e)
    BY <2>1, <2>2, <2>3, <2>4, <2>5, Zenon DEF DirectionScore
  <2>10. TimingScore(side, g) = TimingScore(side, e)
    BY <2>5, <2>6, <2>7, <2>8, Zenon DEF TimingScore
  <2> QED
    BY <2>9, <2>10, Zenon DEF SideTier
<1> QED
  BY <1>1, Zenon

\* The judgement reads everything but the gate's inputs.
LEMMA HealthUnread ==
    ASSUME NEW e, NEW g,
           g.asOf = e.asOf, g.candles = e.candles, g.regime = e.regime, g.trend = e.trend,
           g.structure = e.structure, g.retraced = e.retraced, g.rsi = e.rsi,
           g.rsi1h = e.rsi1h, g.roc = e.roc, g.macd = e.macd, g.volume = e.volume,
           g.distance = e.distance, g.cycle = e.cycle, g.configured = e.configured
    PROVE  Through(g) = Through(e)
<1>1. DecisionTime(g) = DecisionTime(e)
  BY Zenon DEF DecisionTime
<1>2. LastVisible(g) = LastVisible(e)
  BY <1>1, Zenon DEF LastVisible
<1>3. SideTier("LONG", g) = SideTier("LONG", e) /\ SideTier("SHORT", g) = SideTier("SHORT", e)
  BY <1>2, TierReads
<1>4. Judgement(g) = Judgement(e)
  BY <1>3 DEF Judgement
<1> QED
  BY <1>1, <1>4, Zenon DEF Through

LEMMA EvidenceKept ==
    ASSUME evidence \in EvidenceSet, [SigNext]_sigVars
    PROVE  /\ evidence' \in EvidenceSet
           /\ Through(evidence') = Through(evidence)
<1>1. CASE evidence' = evidence
  BY <1>1, Zenon
<1>2. CASE FeedTurns
  <2>1. PICK f \in Feeds, s \in Statuses : evidence' = [evidence EXCEPT !.health[f] = s]
    BY <1>2, Zenon DEF FeedTurns
  <2> DEFINE h == [evidence.health EXCEPT ![f] = s]
             e == evidence
  <2>2. e \in EvidenceSet
    OBVIOUS
  <2>3. h \in [Feeds -> Statuses]
    BY EvidenceFields
  <2>4. evidence' = [e EXCEPT !.health = h]
    BY <2>1, <2>2 DEF EvidenceSet
  <2> HIDE DEF h, e
  <2>5. evidence' \in EvidenceSet
    BY <2>2, <2>3, <2>4 DEF EvidenceSet
  <2>6. /\ evidence'.asOf = e.asOf /\ evidence'.candles = e.candles
        /\ evidence'.regime = e.regime /\ evidence'.trend = e.trend
        /\ evidence'.structure = e.structure /\ evidence'.retraced = e.retraced
        /\ evidence'.rsi = e.rsi /\ evidence'.rsi1h = e.rsi1h /\ evidence'.roc = e.roc
        /\ evidence'.macd = e.macd /\ evidence'.volume = e.volume
        /\ evidence'.distance = e.distance /\ evidence'.cycle = e.cycle
        /\ evidence'.configured = e.configured
    BY <2>2, <2>4 DEF EvidenceSet
  <2>7. Through(evidence') = Through(e)
    BY <2>6, HealthUnread, Zenon
  <2> QED
    BY <2>5, <2>7 DEF e
<1> QED
  BY <1>1, <1>2 DEF SigNext, Analyze, sigVars

\* The last analysis was either held back or says what the evidence says by itself.
Judged ==
    /\ evidence \in EvidenceSet
    /\ signal = Missing \/ signal.candidate = "FORCE_WAIT" \/ signal = Through(evidence)

LEMMA HeldOrThrough ==
    ASSUME NEW e
    PROVE  Snapshot(e).candidate = "FORCE_WAIT" \/ Snapshot(e) = Through(e)
<1>1. CASE HardBlocked(e)
  <2>1. Candidate(e) = "FORCE_WAIT"
    BY <1>1 DEF Candidate
  <2> QED
    BY <2>1 DEF Snapshot
<1>2. CASE ~HardBlocked(e)
  <2>1. Candidate(e) = Judgement(e)
    BY <1>2, Zenon DEF Candidate, Judgement
  <2> QED
    BY <1>2, <2>1, Zenon DEF Snapshot, Through
<1> QED
  BY <1>1, <1>2

LEMMA JudgedInitially == SigInit => Judged
  BY EvidenceAssumption DEF SigInit, Judged

LEMMA JudgedAlways == Judged /\ [SigNext]_sigVars => Judged'
<1> SUFFICES ASSUME Judged, [SigNext]_sigVars PROVE Judged'
  OBVIOUS
<1>1. evidence' \in EvidenceSet /\ Through(evidence') = Through(evidence)
  BY EvidenceKept DEF Judged
<1>2. \/ signal' = Missing \/ signal'.candidate = "FORCE_WAIT" \/ signal' = Through(evidence)
  <2>1. CASE signal' = signal
    BY <2>1, Zenon DEF Judged
  <2>2. CASE Analyze
    BY <2>2, HeldOrThrough, Zenon DEF Analyze
  <2> QED
    BY <2>1, <2>2 DEF SigNext, FeedTurns, sigVars
<1> QED
  BY <1>1, <1>2, Zenon DEF Judged

LEMMA AlwaysJudged == SigSpec => []Judged
  BY JudgedInitially, JudgedAlways, PTL DEF SigSpec

\* Neither copy of the rules and no cell of the matrix prefers a side, whatever the weights,
\* the thresholds and the evidence.
THEOREM FavoursNoSide == SigSpec => []NoSideIsFavoured
<1>1. Judged => NoSideIsFavoured
  BY MirrorCandidate DEF Judged, NoSideIsFavoured, CanAnalyze, Timed
<1> QED
  BY <1>1, AlwaysJudged, PTL

\* Feeds hold a candidate back or let it through: they never turn one into another.
THEOREM HealthNeverTurns == SigSpec => HealthOnlyHoldsBack
<1> DEFINE turned == (signal # Missing /\ signal' # signal) =>
                       "FORCE_WAIT" \in {signal.candidate, signal'.candidate}
<1>1. Judged /\ [SigNext]_sigVars => [turned]_sigVars
  <2> SUFFICES ASSUME Judged, SigNext, signal # Missing, signal' # signal
               PROVE  "FORCE_WAIT" \in {signal.candidate, signal'.candidate}
    BY DEF sigVars
  <2>1. Analyze
    BY DEF SigNext, FeedTurns
  <2>2. signal'.candidate = "FORCE_WAIT" \/ signal' = Through(evidence)
    BY <2>1, HeldOrThrough, Zenon DEF Analyze
  <2>3. signal.candidate = "FORCE_WAIT" \/ signal = Through(evidence)
    BY Zenon DEF Judged
  <2> QED
    BY <2>2, <2>3, Zenon
<1> QED
  BY <1>1, AlwaysJudged, PTL DEF SigSpec, HealthOnlyHoldsBack

-----------------------------------------------------------------------------
(* Candles of the future.                                                  *)

\* What is left of a time frame when the candles that close later are taken away.
LEMMA KnownCandles ==
    ASSUME NEW s \in Seq(Candles), NEW t \in Int, NEW h,
           h = Having(s, {c \in ToSet(s) : c.close <= t})
    PROVE  /\ HasUnclosed(h, t) <=> HasUnclosed(s, t)
           /\ Visible(h, t) = {} <=> Visible(s, t) = {}
           /\ Visible(s, t) # {} => h[Max(Visible(h, t))] = s[Max(Visible(s, t))]
<1> DEFINE C == {c \in ToSet(s) : c.close <= t}
           K == {i \in DOMAIN s : s[i].close <= t}
<1>1. KeptOf(s, C) = K
  BY DEF KeptOf, ToSet
<1> HIDE DEF C
<1>2. PICK m \in Nat, g \in Seq(Nat) : Lists(g, m, K) /\ h = [n \in 1..m |-> s[g[n]]]
  <2>1. PICK m \in Nat, g \in Seq(Nat) :
               Lists(g, m, KeptOf(s, C)) /\ Having(s, C) = [n \in 1..m |-> s[g[n]]]
    BY HavingIs
  <2>2. h = Having(s, C)
    BY DEF C
  <2> HIDE DEF K
  <2> QED
    BY <1>1, <2>1, <2>2
<1>3. /\ g \in [1..m -> K]
      /\ \A a, b \in 1..m : a < b => g[a] < g[b]
      /\ \A i \in K : \E a \in 1..m : g[a] = i
  BY <1>2 DEF Lists
<1>4. DOMAIN s = 1..Len(s) /\ Len(s) \in Nat /\ DOMAIN h = 1..m
  BY <1>2
<1>5. HasUnclosed(h, t) <=> HasUnclosed(s, t)
  <2>1. \A n \in 1..m : g[n] \in DOMAIN s /\ h[n] = s[g[n]]
    BY <1>2, <1>3
  <2>2. ASSUME NEW n \in 1..m, h[n].close <= t, ~h[n].closed PROVE HasUnclosed(s, t)
    BY <2>1, <2>2 DEF HasUnclosed
  <2>3. ASSUME NEW i \in DOMAIN s, s[i].close <= t, ~s[i].closed PROVE HasUnclosed(h, t)
    <3>1. PICK a \in 1..m : g[a] = i
      BY <1>3, <2>3
    <3> QED
      BY <1>4, <2>1, <2>3, <3>1 DEF HasUnclosed
  <2> QED
    BY <1>4, <2>2, <2>3, Zenon DEF HasUnclosed
<1> DEFINE v == Visible(s, t)
           w == Visible(h, t)
<1>6. v \in SUBSET (1..Len(s)) /\ w \in SUBSET (1..m) /\ v \subseteq K
  BY <1>4 DEF Visible
<1>7. \A n \in 1..m : n \in w <=> g[n] \in v
  BY <1>2, <1>3, <1>4 DEF Visible
<1> HIDE DEF v, w, K
<1>8. w = {} <=> v = {}
  BY <1>3, <1>6, <1>7
<1>9. ASSUME v # {} PROVE h[Max(w)] = s[Max(v)]
  <2>1. Max(v) \in v /\ \A j \in v : j <= Max(v)
    BY <1>4, <1>6, <1>9, MaxAbove
  <2>2. PICK p \in v : p = Max(v)
    BY <2>1
  <2>3. PICK a \in 1..m : g[a] = p
    BY <1>3, <1>6
  <2>4. a \in w
    BY <1>7, <2>3
  <2>5. ASSUME NEW n \in w PROVE n <= a
    <3>1. n \in 1..m /\ g[n] \in v /\ g[n] <= p
      BY <1>6, <1>7, <2>1, <2>2
    <3>2. ~(a < n)
      <4>1. p \in Nat /\ g[n] \in Nat
        <5>1. p \in 1..Len(s) /\ g[n] \in 1..Len(s)
          BY <1>6, <3>1
        <5> QED
          BY <5>1
      <4>2. a < n => p < g[n]
        BY <1>3, <2>3, <3>1
      <4> QED
        BY <3>1, <4>1, <4>2
    <3> QED
      BY <3>1, <3>2
  <2>6. Max(w) = a
    BY <1>6, <2>4, <2>5, MaxIs
  <2> QED
    BY <1>2, <2>2, <2>3, <2>6
<1> QED
  BY <1>5, <1>8, <1>9 DEF v, w

\* An analysis reads the candles only for what is visible of them at its time.
LEMMA CandlesUnread ==
    ASSUME NEW e, NEW m, UnclosedAt(m) <=> UnclosedAt(e), LastVisible(m) = LastVisible(e),
           DecisionTime(m) = DecisionTime(e),
           m.regime = e.regime, m.trend = e.trend, m.structure = e.structure,
           m.retraced = e.retraced, m.rsi = e.rsi, m.rsi1h = e.rsi1h, m.roc = e.roc,
           m.macd = e.macd, m.volume = e.volume, m.distance = e.distance, m.cycle = e.cycle,
           m.blackout = e.blackout, m.configured = e.configured, m.health = e.health
    PROVE  Snapshot(m) = Snapshot(e)
<1>1. HardBlocked(m) <=> HardBlocked(e)
  BY Zenon DEF HardBlocked
<1>2. SideTier("LONG", m) = SideTier("LONG", e) /\ SideTier("SHORT", m) = SideTier("SHORT", e)
  BY TierReads
<1>4. Candidate(m) = Candidate(e)
  BY <1>1, <1>2 DEF Candidate
<1> QED
  BY <1>1, <1>4, Zenon DEF Snapshot

LEMMA TimeIsTime ==
    ASSUME NEW e \in EvidenceSet, Timed(e)
    PROVE  DecisionTime(e) \in Int /\ DecisionTime(e) # Missing
<1> DEFINE s == e.candles["15m"]
<1>1. s \in Seq(Candles) /\ e.asOf \in Int \cup {Missing}
  BY EvidenceFields DEF Frames
<1>2. DOMAIN s = 1..Len(s) /\ Len(s) \in Nat /\ \A i \in 1..Len(s) : s[i].close \in Int
  <2> HIDE DEF s
  <2>1. DOMAIN s = 1..Len(s) /\ Len(s) \in Nat
    BY <1>1
  <2>2. \A i \in 1..Len(s) : s[i] \in Candles
    BY <1>1
  <2>3. \A x \in Candles : x.close \in Int
    BY DEF Candles
  <2> QED
    BY <2>1, <2>2, <2>3
<1>3. CASE e.asOf # Missing
  BY <1>1, <1>3, MissingAssumption DEF DecisionTime
<1>4. CASE e.asOf = Missing /\ ClosedOnly(s) # {}
  <2>1. ClosedOnly(s) \in SUBSET (1..Len(s))
    BY <1>2 DEF ClosedOnly
  <2>2. Max(ClosedOnly(s)) \in 1..Len(s)
    BY <1>2, <1>4, <2>1, MaxAbove
  <2>3. DecisionTime(e) = s[Max(ClosedOnly(s))].close
    BY <1>4 DEF DecisionTime
  <2> QED
    BY <1>2, <2>2, <2>3, MissingAssumption
<1>5. CASE e.asOf = Missing /\ ClosedOnly(s) = {}
  <2>1. s # <<>>
    BY <1>5 DEF Timed
  <2>2. Len(s) \in 1..Len(s)
    <3> HIDE DEF s
    <3> QED
      BY <1>1, <1>2, <2>1, EmptySeq
  <2>3. DecisionTime(e) = s[Len(s)].close
    BY <1>5 DEF DecisionTime
  <2> QED
    BY <1>2, <2>2, <2>3, MissingAssumption
<1> QED
  BY <1>3, <1>4, <1>5

LEMMA FutureUnread ==
    ASSUME NEW e \in EvidenceSet, Timed(e), NEW t, t = DecisionTime(e), NEW c,
           c = [f \in Frames |-> Having(e.candles[f], {x \in ToSet(e.candles[f]) : x.close <= t})]
    PROVE  Snapshot([e EXCEPT !.asOf = t, !.candles = c]) = Snapshot(e)
<1> DEFINE m == [e EXCEPT !.asOf = t, !.candles = c]
<1>1. t \in Int /\ t # Missing
  BY TimeIsTime
<1>2. /\ m.asOf = t /\ m.candles = c
      /\ m.regime = e.regime /\ m.trend = e.trend /\ m.structure = e.structure
      /\ m.retraced = e.retraced /\ m.rsi = e.rsi /\ m.rsi1h = e.rsi1h /\ m.roc = e.roc
      /\ m.macd = e.macd /\ m.volume = e.volume /\ m.distance = e.distance /\ m.cycle = e.cycle
      /\ m.blackout = e.blackout /\ m.configured = e.configured /\ m.health = e.health
  BY Zenon DEF EvidenceSet
<1> HIDE DEF m
<1>3. DecisionTime(m) = t
  BY <1>1, <1>2 DEF DecisionTime
<1>4. ASSUME NEW f \in Frames
      PROVE  /\ HasUnclosed(m.candles[f], t) <=> HasUnclosed(e.candles[f], t)
             /\ Visible(m.candles[f], t) = {} <=> Visible(e.candles[f], t) = {}
             /\ Visible(e.candles[f], t) # {} =>
                  m.candles[f][Max(Visible(m.candles[f], t))] = e.candles[f][Max(Visible(e.candles[f], t))]
  <2>1. PICK s \in Seq(Candles) : s = e.candles[f]
    BY EvidenceFields
  <2>2. PICK h : h = m.candles[f]
    OBVIOUS
  <2>3. h = Having(s, {x \in ToSet(s) : x.close <= t})
    BY <1>2, <2>1, <2>2
  <2> QED
    BY <1>1, <2>1, <2>2, <2>3, KnownCandles
<1>5. UnclosedAt(m) <=> UnclosedAt(e)
  BY <1>3, <1>4, Zenon DEF UnclosedAt
<1>6. LastVisible(m) = LastVisible(e)
  <2>1. "15m" \in Frames
    BY DEF Frames
  <2> QED
    BY <1>3, <1>4, <2>1, Zenon DEF LastVisible
<1> QED
  BY <1>2, <1>3, <1>5, <1>6, CandlesUnread, Zenon DEF m

\* No decision rests on a candle that closes after its time.
THEOREM FutureUnseen == SigSpec => []FutureIsInvisible
<1>1. Judged => FutureIsInvisible
  <2> SUFFICES ASSUME Judged, CanAnalyze(evidence)
               PROVE  LET t == DecisionTime(evidence)
                          known == [evidence EXCEPT !.asOf = t,
                                      !.candles = [f \in Frames |->
                                          Having(evidence.candles[f],
                                                 {c \in ToSet(evidence.candles[f]) : c.close <= t})]]
                      IN  Snapshot(known) = Snapshot(evidence)
    BY Zenon DEF FutureIsInvisible
  <2>1. PICK e \in EvidenceSet : e = evidence
    BY Zenon DEF Judged
  <2>2. Timed(e)
    BY <2>1, Zenon DEF CanAnalyze, Timed
  <2> QED
    BY <2>1, <2>2, FutureUnread, Zenon
<1> QED
  BY <1>1, AlwaysJudged, PTL

-----------------------------------------------------------------------------
(* RiskPlanner: what a valid plan is.                                      *)

\* Triples in their order.
Triples == Int \X Int \X Int

LEMMA EarlierOf ==
    ASSUME NEW a \in Triples, NEW b \in Triples
    PROVE  Earlier(a, b) <=> \/ a[1] < b[1]
                             \/ a[1] = b[1] /\ a[2] < b[2]
                             \/ a[1] = b[1] /\ a[2] = b[2] /\ a[3] < b[3]
<1>1. DOMAIN a = 1..3 /\ DOMAIN b = 1..3 /\ a[1] \in Int /\ a[2] \in Int /\ a[3] \in Int
      /\ b[1] \in Int /\ b[2] \in Int /\ b[3] \in Int
  BY DEF Triples
<1>2. 1..3 = {1, 2, 3}
  OBVIOUS
<1> QED
  BY <1>1, <1>2 DEF Earlier

LEMMA FirstExists ==
    ASSUME NEW S, IsFiniteSet(S), S # {}, NEW key \in [S -> Triples]
    PROVE  \E z \in S : \A y \in S : ~Earlier(key[y], key[z])
<1> DEFINE Below(z) == {y \in S : Earlier(key[y], key[z])}
           T == {Below(z) : z \in S}
<1>2. T \subseteq FiniteSubsetsOf(S)
  BY FS_FiniteSubsetsOfFinite
<1>3. T # {}
  OBVIOUS
<1>4. PICK t \in T : \A u \in T : ~(<<u, t>> \in StrictSubsetOrdering(S))
  <2> HIDE DEF T
  <2>1. IsWellFoundedOn(StrictSubsetOrdering(S), FiniteSubsetsOf(S))
    BY FS_StrictSubsetOrderingWellFounded
  <2> QED
    BY ONLY <2>1, <1>2, <1>3, WFMin
<1>5. PICK x \in S : t = Below(x)
  OBVIOUS
<1>6. ASSUME NEW y \in S, Earlier(key[y], key[x]) PROVE FALSE
  <2>1. ASSUME NEW d \in Below(y) PROVE d \in Below(x)
    <3>1. d \in S /\ Earlier(key[d], key[y])
      OBVIOUS
    <3>2. key[d] \in Triples /\ key[y] \in Triples /\ key[x] \in Triples
      BY <3>1
    <3>3. Earlier(key[d], key[x])
      <4> HIDE DEF Below
      <4>1. /\ key[d][1] \in Int /\ key[d][2] \in Int /\ key[d][3] \in Int
            /\ key[y][1] \in Int /\ key[y][2] \in Int /\ key[y][3] \in Int
            /\ key[x][1] \in Int /\ key[x][2] \in Int /\ key[x][3] \in Int
        BY <3>2 DEF Triples
      <4> QED
        BY <3>1, <3>2, <4>1, <1>6, EarlierOf
    <3> QED
      BY <3>1, <3>3
  <2>2. y \in Below(x) /\ y \notin Below(y)
    <3>1. key[y] \in Triples
      OBVIOUS
    <3>2. ~Earlier(key[y], key[y])
      BY <3>1, EarlierOf DEF Triples
    <3> QED
      BY <1>6, <3>2
  <2>3. <<Below(y), Below(x)>> \in StrictSubsetOrdering(S)
    BY <2>1, <2>2, <1>2 DEF StrictSubsetOrdering
  <2> QED
    BY <2>3, <1>4, <1>5
<1> QED
  BY <1>6

\* Minimum by a key: exists, and nothing comes before it.
LEMMA FirstByLow ==
    ASSUME NEW Z \in SUBSET ZoneSet, IsFiniteSet(Z), Z # {}
    PROVE  LET z == FirstBy(LAMBDA w : <<w.low, w.born, w.high>>, Z)
           IN  z \in Z /\ \A y \in Z : z.low <= y.low
<1> DEFINE key == [w \in Z |-> <<w.low, w.born, w.high>>]
           f == FirstBy(LAMBDA w : <<w.low, w.born, w.high>>, Z)
<1>1. key \in [Z -> Triples]
  BY DEF Triples, ZoneSet
<1>2. PICK z \in Z : \A y \in Z : ~Earlier(key[y], key[z])
  BY <1>1, FirstExists
<1>3. f \in Z /\ \A y \in Z : ~Earlier(<<y.low, y.born, y.high>>, <<f.low, f.born, f.high>>)
  BY <1>2 DEF FirstBy
<1>4. ASSUME NEW y \in Z PROVE f.low <= y.low
  <2> HIDE DEF f
  <2>1. <<y.low, y.born, y.high>> \in Triples /\ <<f.low, f.born, f.high>> \in Triples
    BY <1>3 DEF Triples, ZoneSet
  <2>2. ~(y.low < f.low) /\ y.low \in Int /\ f.low \in Int
    BY <2>1, <1>3, EarlierOf DEF ZoneSet
  <2> QED
    BY <2>2
<1> QED
  BY <1>3, <1>4

LEMMA FirstByHigh ==
    ASSUME NEW Z \in SUBSET ZoneSet, IsFiniteSet(Z), Z # {}
    PROVE  LET z == FirstBy(LAMBDA w : <<0 - w.high, w.born, 0 - w.low>>, Z)
           IN  z \in Z /\ \A y \in Z : y.high <= z.high
<1> DEFINE key == [w \in Z |-> <<0 - w.high, w.born, 0 - w.low>>]
           f == FirstBy(LAMBDA w : <<0 - w.high, w.born, 0 - w.low>>, Z)
<1>1. key \in [Z -> Triples]
  BY DEF Triples, ZoneSet
<1>2. PICK z \in Z : \A y \in Z : ~Earlier(key[y], key[z])
  BY <1>1, FirstExists
<1>3. f \in Z /\ \A y \in Z : ~Earlier(<<0 - y.high, y.born, 0 - y.low>>, <<0 - f.high, f.born, 0 - f.low>>)
  BY <1>2 DEF FirstBy
<1>4. ASSUME NEW y \in Z PROVE y.high <= f.high
  <2> HIDE DEF f
  <2>1. <<0 - y.high, y.born, 0 - y.low>> \in Triples /\ <<0 - f.high, f.born, 0 - f.low>> \in Triples
    BY <1>3 DEF Triples, ZoneSet
  <2>2. ~(0 - y.high < 0 - f.high) /\ y.high \in Int /\ f.high \in Int
    BY <2>1, <1>3, EarlierOf DEF ZoneSet
  <2> QED
    BY <2>2
<1> QED
  BY <1>3, <1>4

LEMMA EntryByHigh ==
    ASSUME NEW Z \in SUBSET ZoneSet, IsFiniteSet(Z), Z # {}
    PROVE  FirstBy(LAMBDA w : <<0 - w.high, w.born, w.low>>, Z) \in Z
<1> DEFINE key == [w \in Z |-> <<0 - w.high, w.born, w.low>>]
<1>1. key \in [Z -> Triples]
  BY DEF Triples, ZoneSet
<1>2. PICK z \in Z : \A y \in Z : ~Earlier(key[y], key[z])
  BY <1>1, FirstExists
<1> QED
  BY <1>2 DEF FirstBy

LEMMA EntryByLow ==
    ASSUME NEW Z \in SUBSET ZoneSet, IsFiniteSet(Z), Z # {}
    PROVE  FirstBy(LAMBDA w : <<w.low, w.born, 0 - w.high>>, Z) \in Z
<1> DEFINE key == [w \in Z |-> <<w.low, w.born, 0 - w.high>>]
<1>1. key \in [Z -> Triples]
  BY DEF Triples, ZoneSet
<1>2. PICK z \in Z : \A y \in Z : ~Earlier(key[y], key[z])
  BY <1>1, FirstExists
<1> QED
  BY <1>2 DEF FirstBy

LEMMA ZonesKnown ==
    ASSUME NEW s \in Setups
    PROVE  /\ s.at \in Int /\ s.atr \in Int /\ s.configured \in BOOLEAN
           /\ KnownZones(s.fifteen, s.at) \in SUBSET ZoneSet /\ IsFiniteSet(KnownZones(s.fifteen, s.at))
           /\ PitZones(s) \in SUBSET ZoneSet /\ IsFiniteSet(PitZones(s))
<1>1. s \in SetupSet /\ Absent \notin StructureSet
  BY SetupAssumption
<1>2. ASSUME NEW k \in StructureSet \cup {Absent}
      PROVE  KnownZones(k, s.at) \in SUBSET ZoneSet /\ IsFiniteSet(KnownZones(k, s.at))
  <2>1. CASE k = Absent
    BY <2>1, FS_EmptySet DEF KnownZones
  <2>2. CASE k # Absent
    <3>1. k.zones \in SUBSET ZoneSet /\ IsFiniteSet(k.zones)
      BY <2>2 DEF StructureSet
    <3>2. KnownZones(k, s.at) \subseteq k.zones
      BY <2>2 DEF KnownZones
    <3> QED
      BY <3>1, <3>2, FS_Subset
  <2> QED
    BY <2>1, <2>2
<1>3. s.fifteen \in StructureSet \cup {Absent} /\ s.four \in StructureSet \cup {Absent}
      /\ s.at \in Int /\ s.atr \in Int /\ s.configured \in BOOLEAN
  BY <1>1 DEF SetupSet
<1>4. KnownZones(s.fifteen, s.at) \in SUBSET ZoneSet /\ IsFiniteSet(KnownZones(s.fifteen, s.at))
  BY <1>2, <1>3
<1>5. KnownZones(s.four, s.at) \in SUBSET ZoneSet /\ IsFiniteSet(KnownZones(s.four, s.at))
  BY <1>2, <1>3
<1>6. PitZones(s) \in SUBSET ZoneSet /\ IsFiniteSet(PitZones(s))
  BY <1>4, <1>5, FS_Union DEF PitZones
<1> QED
  BY <1>3, <1>4, <1>6

\* What a plan that is valid promises of its levels.
Tradeable(side, s, plan) ==
    /\ plan.zone \in ZoneSet /\ plan.stop \in Int /\ plan.tp1 \in Int /\ plan.tp2 \in Int \cup {Absent}
    /\ IF side = "LONG" THEN plan.stop < plan.zone.low /\ plan.zone.high < plan.tp1
                        ELSE plan.stop > plan.zone.high /\ plan.zone.low > plan.tp1
    /\ plan.tp2 # Absent => IF side = "LONG" THEN plan.tp2 > plan.tp1 ELSE plan.tp2 < plan.tp1
    /\ \A z \in PitZones(s) :
          IF side = "LONG" THEN ~(z.type = "RESISTANCE" /\ plan.zone.high < z.low /\ z.low < plan.tp1)
                           ELSE ~(z.type = "SUPPORT" /\ z.high < plan.zone.low /\ z.high > plan.tp1)

LEMMA LongTradeable ==
    ASSUME NEW s \in Setups, PlanLong(s).valid
    PROVE  Tradeable("LONG", s, PlanLong(s))
<1> DEFINE zone == LongEntryZone(s)
           stop == LongStop(zone, s.atr)
           tp1 == LongTp1(s, zone)
           tp2 == LongTp2(s, zone, tp1)
<1>1. /\ zone # Absent /\ LongStopOK(zone, s.atr) /\ tp1 # Absent
      /\ PlanLong(s).zone = zone /\ PlanLong(s).stop = stop
      /\ PlanLong(s).tp1 = tp1 /\ PlanLong(s).tp2 = tp2
  <2> HIDE DEF zone, stop, tp1, tp2
  <2> QED
    BY DEF PlanLong, Refused, zone, stop, tp1, tp2
<1>2. s.atr \in Int /\ KnownZones(s.fifteen, s.at) \in SUBSET ZoneSet
      /\ IsFiniteSet(KnownZones(s.fifteen, s.at)) /\ PitZones(s) \in SUBSET ZoneSet
      /\ IsFiniteSet(PitZones(s))
  BY ZonesKnown
<1>3. zone \in ZoneSet
  <2> DEFINE S == {z \in KnownZones(s.fifteen, s.at) : z.type = "SUPPORT"}
  <2>1. S \in SUBSET ZoneSet /\ IsFiniteSet(S) /\ S # {}
    BY <1>1, <1>2, FS_Subset DEF LongEntryZone
  <2>2. zone = FirstBy(LAMBDA z : <<0 - z.high, z.born, z.low>>, S)
    BY <2>1 DEF LongEntryZone
  <2> HIDE DEF S
  <2> QED
    BY <2>1, <2>2, EntryByHigh
<1> HIDE DEF zone
<1>4. zone.low \in Int /\ zone.high \in Int
  BY <1>3 DEF ZoneSet
<1>5. stop \in Int /\ stop < zone.low
  <2>1. Policy.buffer \in Int /\ Policy.atrMult \in Int
    BY RiskPolicyAssumption DEF RiskPolicyAssumption
  <2>2. Middle(zone) \in Int /\ Policy.atrMult * s.atr \in Int
    BY <2>1, <1>2, <1>4 DEF Middle
  <2> QED
    BY <2>1, <2>2, <1>1, <1>4 DEF LongStop, LongStopOK
<1> DEFINE R == LongTargetZones(s, zone)
<1>6. R \in SUBSET ZoneSet /\ IsFiniteSet(R) /\ R # {}
  BY <1>1, <1>2, FS_Subset DEF LongTargetZones, LongTp1
<1>7. /\ \E z \in R : tp1 = z.low
      /\ \A y \in R : tp1 <= y.low
  <2>1. tp1 = FirstBy(LAMBDA z : <<z.low, z.born, z.high>>, R).low
    BY <1>6 DEF LongTp1
  <2> HIDE DEF R, tp1
  <2> QED
    BY <1>6, <2>1, FirstByLow
<1>8. tp1 \in Int /\ zone.high < tp1
  <2> HIDE DEF tp1
  <2> QED
    BY <1>7, <1>6 DEF LongTargetZones, ZoneSet
<1> HIDE DEF tp1
<1>9. \A z \in PitZones(s) : ~(z.type = "RESISTANCE" /\ zone.high < z.low /\ z.low < tp1)
  <2> SUFFICES ASSUME NEW z \in PitZones(s), z.type = "RESISTANCE", zone.high < z.low, z.low < tp1
               PROVE  FALSE
    OBVIOUS
  <2>1. z.low \in Int
    BY <1>2 DEF ZoneSet
  <2>2. z \in R
    BY <2>1, <1>4 DEF LongTargetZones
  <2> QED
    BY <2>1, <2>2, <1>7, <1>8
<1>10. tp2 \in Int \cup {Absent} /\ (tp2 # Absent => tp2 > tp1)
  <2> DEFINE B == {z \in R : z.low > tp1}
             far == Middle(zone) + Policy.tp2Mult * s.atr
  <2>1. CASE B # {}
    <3>1. B \in SUBSET ZoneSet /\ IsFiniteSet(B)
      BY <1>6, FS_Subset
    <3>2. tp2 = FirstBy(LAMBDA z : <<z.low, z.born, z.high>>, B).low
      BY <2>1 DEF LongTp2
    <3>3. PICK z \in B : tp2 = z.low
      <4> HIDE DEF B, tp2
      <4> QED
        BY <3>1, <3>2, <2>1, FirstByLow
    <3> QED
      BY <3>1, <3>3 DEF ZoneSet
  <2>2. CASE B = {} /\ Policy.tp2Mult # Absent /\ far > tp1
    <3>1. tp2 = far
      BY <2>2 DEF LongTp2
    <3>2. Middle(zone) \in Int /\ Policy.tp2Mult * s.atr \in Int
      BY <2>2, <1>2, <1>4, RiskPolicyAssumption DEF Middle, RiskPolicyAssumption
    <3> HIDE DEF tp2
    <3> QED
      BY <3>1, <3>2, <2>2
  <2>3. CASE B = {} /\ ~(Policy.tp2Mult # Absent /\ far > tp1)
    <3>1. tp2 = Absent
      BY <2>3 DEF LongTp2
    <3> QED
      BY <3>1
  <2> QED
    BY <2>1, <2>2, <2>3
<1> HIDE DEF tp2, stop
<1> QED
  BY <1>1, <1>3, <1>5, <1>8, <1>9, <1>10 DEF Tradeable

LEMMA ShortTradeable ==
    ASSUME NEW s \in Setups, PlanShort(s).valid
    PROVE  Tradeable("SHORT", s, PlanShort(s))
<1> DEFINE zone == ShortEntryZone(s)
           stop == ShortStop(zone, s.atr)
           tp1 == ShortTp1(s, zone)
           tp2 == ShortTp2(s, zone, tp1)
<1>1. /\ zone # Absent /\ ShortStopOK(zone, s.atr) /\ tp1 # Absent
      /\ PlanShort(s).zone = zone /\ PlanShort(s).stop = stop
      /\ PlanShort(s).tp1 = tp1 /\ PlanShort(s).tp2 = tp2
  <2> HIDE DEF zone, stop, tp1, tp2
  <2> QED
    BY DEF PlanShort, Refused, zone, stop, tp1, tp2
<1>2. s.atr \in Int /\ KnownZones(s.fifteen, s.at) \in SUBSET ZoneSet
      /\ IsFiniteSet(KnownZones(s.fifteen, s.at)) /\ PitZones(s) \in SUBSET ZoneSet
      /\ IsFiniteSet(PitZones(s))
  BY ZonesKnown
<1>3. zone \in ZoneSet
  <2> DEFINE S == {z \in KnownZones(s.fifteen, s.at) : z.type = "RESISTANCE"}
  <2>1. S \in SUBSET ZoneSet /\ IsFiniteSet(S) /\ S # {}
    BY <1>1, <1>2, FS_Subset DEF ShortEntryZone
  <2>2. zone = FirstBy(LAMBDA z : <<z.low, z.born, 0 - z.high>>, S)
    BY <2>1 DEF ShortEntryZone
  <2> HIDE DEF S
  <2> QED
    BY <2>1, <2>2, EntryByLow
<1> HIDE DEF zone
<1>4. zone.low \in Int /\ zone.high \in Int
  BY <1>3 DEF ZoneSet
<1>5. stop \in Int /\ stop > zone.high
  <2>1. Policy.buffer \in Int /\ Policy.atrMult \in Int
    BY RiskPolicyAssumption DEF RiskPolicyAssumption
  <2>2. Middle(zone) \in Int /\ Policy.atrMult * s.atr \in Int
    BY <2>1, <1>2, <1>4 DEF Middle
  <2> QED
    BY <2>1, <2>2, <1>1, <1>4 DEF ShortStop, ShortStopOK
<1> DEFINE R == ShortTargetZones(s, zone)
<1>6. R \in SUBSET ZoneSet /\ IsFiniteSet(R) /\ R # {}
  BY <1>1, <1>2, FS_Subset DEF ShortTargetZones, ShortTp1
<1>7. /\ \E z \in R : tp1 = z.high
      /\ \A y \in R : y.high <= tp1
  <2>1. tp1 = FirstBy(LAMBDA z : <<0 - z.high, z.born, 0 - z.low>>, R).high
    BY <1>6 DEF ShortTp1
  <2> HIDE DEF R, tp1
  <2> QED
    BY <1>6, <2>1, FirstByHigh
<1>8. tp1 \in Int /\ zone.low > tp1
  <2> HIDE DEF tp1
  <2> QED
    BY <1>7, <1>6 DEF ShortTargetZones, ZoneSet
<1> HIDE DEF tp1
<1>9. \A z \in PitZones(s) : ~(z.type = "SUPPORT" /\ z.high < zone.low /\ z.high > tp1)
  <2> SUFFICES ASSUME NEW z \in PitZones(s), z.type = "SUPPORT", z.high < zone.low, z.high > tp1
               PROVE  FALSE
    OBVIOUS
  <2>1. z.high \in Int
    BY <1>2 DEF ZoneSet
  <2>2. z \in R
    BY <2>1, <1>4 DEF ShortTargetZones
  <2> QED
    BY <2>1, <2>2, <1>7, <1>8
<1>10. tp2 \in Int \cup {Absent} /\ (tp2 # Absent => tp2 < tp1)
  <2> DEFINE B == {z \in R : z.high < tp1}
             far == Middle(zone) - Policy.tp2Mult * s.atr
  <2>1. CASE B # {}
    <3>1. B \in SUBSET ZoneSet /\ IsFiniteSet(B)
      BY <1>6, FS_Subset
    <3>2. tp2 = FirstBy(LAMBDA z : <<0 - z.high, z.born, 0 - z.low>>, B).high
      BY <2>1 DEF ShortTp2
    <3>3. PICK z \in B : tp2 = z.high
      <4> HIDE DEF B, tp2
      <4> QED
        BY <3>1, <3>2, <2>1, FirstByHigh
    <3> QED
      BY <3>1, <3>3 DEF ZoneSet
  <2>2. CASE B = {} /\ Policy.tp2Mult # Absent /\ far < tp1
    <3>1. tp2 = far
      BY <2>2 DEF ShortTp2
    <3>2. Middle(zone) \in Int /\ Policy.tp2Mult * s.atr \in Int
      BY <2>2, <1>2, <1>4, RiskPolicyAssumption DEF Middle, RiskPolicyAssumption
    <3> HIDE DEF tp2
    <3> QED
      BY <3>1, <3>2, <2>2
  <2>3. CASE B = {} /\ ~(Policy.tp2Mult # Absent /\ far < tp1)
    <3>1. tp2 = Absent
      BY <2>3 DEF ShortTp2
    <3> QED
      BY <3>1
  <2> QED
    BY <2>1, <2>2, <2>3
<1> HIDE DEF tp2, stop
<1> QED
  BY <1>1, <1>3, <1>5, <1>8, <1>9, <1>10 DEF Tradeable

-----------------------------------------------------------------------------
(* TradeReplay.                                                            *)

\* Quotient and remainder of a number between two multiples.
LEMMA Division ==
    ASSUME NEW x \in Nat, NEW d \in Nat, d > 0
    PROVE  /\ x \div d \in Nat /\ x % d \in 0..(d - 1)
           /\ x = d * (x \div d) + (x % d)
<1>1. x % d \in 0..(d - 1)
  BY SMTT(20)
<1>2. x \div d \in Nat
  BY SMTT(20)
<1>3. x = d * (x \div d) + (x % d)
  BY SMTT(20)
<1> QED
  BY <1>1, <1>2, <1>3

LEMMA Quotient ==
    ASSUME NEW d \in Nat \ {0}, NEW q \in Nat, NEW r \in 0..(d - 1)
    PROVE  (q * d + r) \div d = q /\ (q * d + r) % d = r
<1>1. PICK x \in Nat : x = q * d + r
  OBVIOUS
<1>2. x \div d \in Int /\ x % d \in 0..(d - 1) /\ x = d * (x \div d) + (x % d)
  BY Division
<1>3. PICK p \in Int, m \in 0..(d - 1) : p = x \div d /\ m = x % d /\ x = d * p + m
  BY <1>2
<1>4. d * (p - q) = r - m
  <2>1. d * (p - q) = d * p - q * d
    OBVIOUS
  <2> QED
    BY <2>1, <1>1, <1>3
<1>5. PICK e \in Int : e = p - q
  OBVIOUS
<1>6. d * e < d /\ d * e > 0 - d
  BY <1>4, <1>5
<1>7. e = 0
  <2>1. CASE e >= 1
    <3>1. d * e >= d
      BY <2>1
    <3> QED
      BY <3>1, <1>6
  <2>2. CASE e <= 0 - 1
    <3>1. d * e <= 0 - d
      BY <2>2
    <3> QED
      BY <3>1, <1>6
  <2> QED
    BY <2>1, <2>2
<1> QED
  BY <1>1, <1>3, <1>4, <1>5, <1>7

\* Every number from 1 on lies in a stretch of length d.
LEMMA Stretch ==
    ASSUME NEW d \in Nat \ {0}, NEW n \in Nat \ {0}
    PROVE  \E k \in Nat \ {0}, j \in 1..d : n = (k - 1) * d + j
<1>1. (n - 1) \div d \in Nat /\ (n - 1) % d \in 0..(d - 1)
      /\ n - 1 = d * ((n - 1) \div d) + ((n - 1) % d)
  BY Division
<1>2. PICK q \in Nat, r \in 0..(d - 1) : n - 1 = d * q + r
  BY <1>1
<1>3. q + 1 \in Nat \ {0} /\ r + 1 \in 1..d /\ n = ((q + 1) - 1) * d + (r + 1)
  BY <1>2
<1> QED
  BY <1>3

LEMMA LeastIs ==
    ASSUME NEW S \in SUBSET Nat, S # {}
    PROVE  Min(S) \in S /\ \A y \in S : Min(S) <= y
  BY LeastNumber DEF Min

-----------------------------------------------------------------------------
AllTrades == {Trade(tape, CloseOf(k), s, runEnd) : k \in Nat, s \in Setups}

ReplayInv ==
    /\ tape \in Tapes /\ runEnd \in RunEnds /\ step \in Nat
    /\ trades \in Seq(AllTrades)
    /\ report # Absent =>
          /\ report.config \in Configs
          /\ report.folds = [i \in 1..report.config.folds |-> FoldOf(report.config, i)]

LEMMA ReplayStarts == ReplayInit => ReplayInv
  BY DEF ReplayInit, ReplayInv, AllTrades

LEMMA ReplaySteps == ReplayInv /\ [ReplayNext]_replayVars => ReplayInv'
<1> SUFFICES ASSUME ReplayInv, [ReplayNext]_replayVars PROVE ReplayInv'
  OBVIOUS
<1> USE DEF ReplayInv
<1>1. CASE TakeCandidate
  <2>1. PICK s \in Setups : /\ trades' = Append(trades, Trade(tape, CloseOf(step), s, runEnd))
                            /\ step' = step + 1 /\ tape' = tape /\ runEnd' = runEnd
                            /\ report' = report /\ report = Absent
    BY <1>1 DEF TakeCandidate
  <2>2. Trade(tape, CloseOf(step), s, runEnd) \in AllTrades
    BY DEF AllTrades
  <2>3. AllTrades' = AllTrades
    BY <2>1 DEF AllTrades
  <2>4. trades' \in Seq(AllTrades)
    BY <2>1, <2>2, AppendProperties
  <2> QED
    BY <2>1, <2>3, <2>4
<1>2. CASE PassBy
  <2>1. AllTrades' = AllTrades
    BY <1>2 DEF PassBy, AllTrades
  <2> QED
    BY <1>2, <2>1 DEF PassBy
<1>3. CASE WalkForward
  <2>1. AllTrades' = AllTrades
    BY <1>3 DEF WalkForward, AllTrades
  <2>2. PICK c \in Configs : report' = [config |-> c, folds |-> [i \in 1..c.folds |-> FoldOf(c, i)]]
    BY <1>3 DEF WalkForward
  <2>3. \A d, i : FoldOf(d, i)' = FoldOf(d, i)
    BY <1>3 DEF WalkForward, FoldOf, Kept
  <2> QED
    BY <1>3, <2>1, <2>2, <2>3 DEF WalkForward
<1>4. CASE UNCHANGED replayVars
  <2>1. AllTrades' = AllTrades
    BY <1>4 DEF replayVars, AllTrades
  <2>3. \A d, i : FoldOf(d, i)' = FoldOf(d, i)
    BY <1>4 DEF replayVars, FoldOf, Kept
  <2> QED
    BY <1>4, <2>1, <2>3 DEF replayVars
<1> QED
  BY <1>1, <1>2, <1>3, <1>4 DEF ReplayNext

-----------------------------------------------------------------------------
\* Bars in their order.
LEMMA BarOrder ==
    ASSUME NEW k \in Int, NEW m \in Int
    PROVE  /\ CloseOf(k) \in Int /\ OpenOf(k) \in Int /\ OpenOf(k) = CloseOf(k) - BarLen
           /\ OpenOf(k) < CloseOf(k)
           /\ k <= m <=> CloseOf(k) <= CloseOf(m)
           /\ k < m <=> CloseOf(k) < CloseOf(m)
           /\ k < m <=> CloseOf(k) <= OpenOf(m)
<1>1. BarLen \in Nat /\ BarLen >= 1
  BY ReplayAssumption DEF ReplayAssumption
<1>2. CloseOf(k) \in Int /\ OpenOf(k) \in Int /\ OpenOf(k) = CloseOf(k) - BarLen
  BY <1>1 DEF CloseOf, OpenOf
<1>3. CloseOf(m) \in Int /\ OpenOf(m) \in Int /\ OpenOf(m) = CloseOf(m) - BarLen
  BY <1>1 DEF CloseOf, OpenOf
<1>4. ASSUME NEW a \in Int, NEW b \in Int, a < b PROVE CloseOf(a) + BarLen <= CloseOf(b)
  <2>1. PICK e \in Int : e = b - a /\ e >= 1
    BY <1>4
  <2>2. e * BarLen >= BarLen
    BY <1>1, <2>1
  <2>3. e * BarLen = b * BarLen - a * BarLen
    BY <1>1, <2>1
  <2> QED
    BY <1>1, <2>2, <2>3 DEF CloseOf
<1>5. k < m \/ k = m \/ m < k
  OBVIOUS
<1> HIDE DEF CloseOf, OpenOf
<1>6. CASE k < m
  BY <1>6, <1>1, <1>2, <1>3, <1>4
<1>7. CASE k = m
  BY <1>7, <1>1, <1>2, <1>3
<1>8. CASE m < k
  BY <1>8, <1>1, <1>2, <1>3, <1>4
<1> QED
  BY <1>5, <1>6, <1>7, <1>8

LEMMA BarOfMinute ==
    ASSUME NEW k \in Nat \ {0}, NEW m \in Int, OpenOf(k) < m, m <= CloseOf(k)
    PROVE  BarOf(m) = k
<1>1. BarLen \in Nat \ {0}
  BY ReplayAssumption DEF ReplayAssumption
<1>2. PICK r \in 0..(BarLen - 1) : r = m - 1 - OpenOf(k)
  BY <1>1, BarOrder
<1>3. k - 1 \in Nat /\ m - 1 = (k - 1) * BarLen + r
  BY <1>2, BarOrder DEF OpenOf
<1> QED
  BY <1>1, <1>3, Quotient DEF BarOf

LEMMA PriceIs ==
    ASSUME NEW k \in Nat \ {0}, NEW j \in 1..(2 * BarLen)
    PROVE  PriceAt((k - 1) * (2 * BarLen) + j) = tape[k].path[j]
<1>1. PICK d \in Nat \ {0} : d = 2 * BarLen
  BY ReplayAssumption DEF ReplayAssumption
<1>2. PICK q \in Nat, r \in 0..(d - 1) : q = k - 1 /\ r = j - 1
  BY <1>1
<1>3. (k - 1) * (2 * BarLen) + j - 1 = q * d + r
  BY <1>1, <1>2
<1>4. (q * d + r) \div d = q /\ (q * d + r) % d = r
  BY Quotient
<1> QED
  BY <1>1, <1>2, <1>3, <1>4 DEF PriceAt

\* A position of the path lies in a bar.
LEMMA PositionIn ==
    ASSUME NEW a \in Nat \ {0}, NEW b \in Nat, NEW n \in (2 * OpenOf(a) + 1)..(2 * CloseOf(b))
    PROVE  \E k \in a..b, j \in 1..(2 * BarLen) :
              n = (k - 1) * (2 * BarLen) + j /\ n = 2 * OpenOf(k) + j
<1>1. BarLen \in Nat \ {0}
  BY ReplayAssumption DEF ReplayAssumption
<1>2. OpenOf(a) \in Nat
  BY <1>1 DEF OpenOf
<1>3. n \in Nat \ {0} /\ CloseOf(b) \in Int
  BY <1>2, BarOrder
<1> DEFINE d == 2 * BarLen
<1>4. PICK k \in Nat \ {0}, j \in 1..d : n = (k - 1) * d + j
  <2>1. d \in Nat \ {0}
    BY <1>1
  <2> HIDE DEF d
  <2> QED
    BY <2>1, <1>3, Stretch
<1>5. n = 2 * OpenOf(k) + j /\ OpenOf(k) \in Int /\ CloseOf(k) = OpenOf(k) + BarLen
  <2>1. (k - 1) * (2 * BarLen) = 2 * ((k - 1) * BarLen)
    BY <1>1
  <2>2. OpenOf(k) \in Int /\ OpenOf(k) = CloseOf(k) - BarLen /\ CloseOf(k) \in Int
    BY BarOrder
  <2>3. n = 2 * OpenOf(k) + j
    BY <1>4, <2>1 DEF OpenOf
  <2> QED
    BY <1>1, <2>2, <2>3
<1>6. k >= a
  <2> SUFFICES ASSUME k < a PROVE FALSE
    OBVIOUS
  <2>1. CloseOf(k) <= OpenOf(a)
    BY BarOrder
  <2> QED
    BY <2>1, <1>1, <1>2, <1>5
<1>7. k <= b
  <2> SUFFICES ASSUME b < k PROVE FALSE
    OBVIOUS
  <2>1. CloseOf(b) <= OpenOf(k)
    BY BarOrder
  <2> QED
    BY <2>1, <1>1, <1>3, <1>5
<1> QED
  BY <1>4, <1>5, <1>6, <1>7

-----------------------------------------------------------------------------
CandlePrices(bar, i, length) == PricesIn(bar, (i - 1) * length + 1, i * length)
CandleNumbers(length) == {i \in 1..BarLen : i * length <= BarLen}
AimsAt(plan, bar, i, length) == HitsTarget(plan.side, CandlePrices(bar, i, length), plan.tp1)
StopsAt(plan, bar, i, length) == HitsStop(plan.side, CandlePrices(bar, i, length), plan.stop)

\* What the first candle that touches a barrier says.
LEMMA TouchIs ==
    ASSUME NEW plan, NEW bar, NEW length \in Nat \ {0}, NEW stored \in SUBSET CandleNumbers(length),
           NEW open \in Int, FirstTouch(plan, bar, stored, open, length) # Absent
    PROVE  \E f \in stored :
              /\ AimsAt(plan, bar, f, length) \/ StopsAt(plan, bar, f, length)
              /\ ~AimsAt(plan, bar, f, length) \/ ~StopsAt(plan, bar, f, length)
              /\ \A i \in stored : AimsAt(plan, bar, i, length) \/ StopsAt(plan, bar, i, length) => f <= i
              /\ FirstTouch(plan, bar, stored, open, length) =
                    [hit |-> IF AimsAt(plan, bar, f, length) THEN "TP1_FIRST" ELSE "SL_FIRST",
                     at |-> open + f * length]
<1> DEFINE T == {i \in stored : AimsAt(plan, bar, i, length) \/ StopsAt(plan, bar, i, length)}
<1>1. T # {} /\ T \in SUBSET Nat
  <2>1. ASSUME NEW i \in T PROVE i \in Nat
    <3>1. i \in stored
      OBVIOUS
    <3> QED
      BY <3>1 DEF CandleNumbers
  <2>2. ASSUME T = {} PROVE FALSE
    BY <2>2 DEF FirstTouch, AimsAt, StopsAt, CandlePrices
  <2> QED
    BY <2>1, <2>2
<1>2. Min(T) \in T /\ \A i \in T : Min(T) <= i
  <2> HIDE DEF T
  <2> QED
    BY <1>1, LeastIs
<1>3. ~(AimsAt(plan, bar, Min(T), length) /\ StopsAt(plan, bar, Min(T), length))
  BY <1>1 DEF FirstTouch, AimsAt, StopsAt, CandlePrices
<1>4. FirstTouch(plan, bar, stored, open, length) =
         [hit |-> IF AimsAt(plan, bar, Min(T), length) THEN "TP1_FIRST" ELSE "SL_FIRST",
          at |-> open + Min(T) * length]
  BY <1>1, <1>3 DEF FirstTouch, AimsAt, StopsAt, CandlePrices
<1>5. PICK f : f = Min(T)
  OBVIOUS
<1>6. AimsAt(plan, bar, f, length) \/ StopsAt(plan, bar, f, length)
  BY <1>2, <1>5
<1> QED
  BY <1>2, <1>3, <1>4, <1>5, <1>6

Aims(plan, bar) == HitsTarget(plan.side, PricesIn(bar, 1, BarLen), plan.tp1)
Stops(plan, bar) == HitsStop(plan.side, PricesIn(bar, 1, BarLen), plan.stop)

\* What the lower candles of a bar say, if they may be asked.
Replayed(plan, bar, k, at, fillAt, end, stored, length) ==
    LET passed == Passed(stored, OpenOf(k), length, at, end)
    IN  IF GridOK(passed, OpenOf(k), length, fillAt)
        THEN FirstTouch(plan, bar, passed, OpenOf(k), length) ELSE Absent

LEMMA ReplayedIs ==
    ASSUME NEW plan, NEW bar, NEW k \in Nat \ {0}, NEW at \in Int, NEW fillAt \in Int,
           NEW end \in Int, NEW length \in Nat \ {0}, NEW stored \in SUBSET CandleNumbers(length),
           Replayed(plan, bar, k, at, fillAt, end, stored, length) # Absent
    PROVE  LET r == Replayed(plan, bar, k, at, fillAt, end, stored, length)
           IN  /\ r \in [hit: {"TP1_FIRST", "SL_FIRST"}, at: Int]
               /\ OpenOf(k) < r.at /\ r.at <= CloseOf(k)
<1> DEFINE P == Passed(stored, OpenOf(k), length, at, end)
           r == Replayed(plan, bar, k, at, fillAt, end, stored, length)
<1>1. P \in SUBSET CandleNumbers(length)
  BY DEF Passed
<1>2. r = FirstTouch(plan, bar, P, OpenOf(k), length) /\ r # Absent
  BY DEF Replayed
<1>3. OpenOf(k) \in Int /\ CloseOf(k) = OpenOf(k) + BarLen
  BY BarOrder, ReplayAssumption DEF ReplayAssumption
<1> HIDE DEF P, r
<1>4. PICK f \in P : r = [hit |-> IF AimsAt(plan, bar, f, length) THEN "TP1_FIRST" ELSE "SL_FIRST",
                          at |-> OpenOf(k) + f * length]
  <2>1. \E f \in P :
              /\ AimsAt(plan, bar, f, length) \/ StopsAt(plan, bar, f, length)
              /\ ~AimsAt(plan, bar, f, length) \/ ~StopsAt(plan, bar, f, length)
              /\ \A i \in P : AimsAt(plan, bar, i, length) \/ StopsAt(plan, bar, i, length) => f <= i
              /\ FirstTouch(plan, bar, P, OpenOf(k), length) =
                    [hit |-> IF AimsAt(plan, bar, f, length) THEN "TP1_FIRST" ELSE "SL_FIRST",
                     at |-> OpenOf(k) + f * length]
    <3>1. FirstTouch(plan, bar, P, OpenOf(k), length) # Absent
      BY <1>2
    <3>2. PICK o \in Int : o = OpenOf(k)
      BY <1>3
    <3> QED
      BY <1>1, <3>1, <3>2, TouchIs
  <2> QED
    BY <2>1, <1>2
<1>5. f \in Nat \ {0} /\ f * length <= BarLen
  BY <1>1 DEF CandleNumbers
<1>6. f * length \in Nat /\ f * length > 0
  BY <1>5
<1>7. r.at = OpenOf(k) + f * length /\ r \in [hit: {"TP1_FIRST", "SL_FIRST"}, at: Int]
  BY <1>3, <1>4, <1>6
<1>8. OpenOf(k) < r.at /\ r.at <= CloseOf(k)
  BY <1>3, <1>5, <1>6, <1>7, ReplayAssumption DEF ReplayAssumption
<1> QED
  BY <1>7, <1>8 DEF r

LEMMA HitForm ==
    ASSUME NEW plan, NEW bar, NEW k, NEW at, NEW fillAt, NEW end
    PROVE  LET one == Replayed(plan, bar, k, at, fillAt, end, bar.ones, 1)
               five == Replayed(plan, bar, k, at, fillAt, end, bar.fives, FiveLen)
               says(what) == [hit |-> what, at |-> CloseOf(k)]
           IN  BarHit(plan, bar, k, at, fillAt, end) =
                 IF ~Aims(plan, bar) /\ ~Stops(plan, bar) THEN Absent
                 ELSE IF ~Stops(plan, bar) THEN says("TP1_FIRST")
                 ELSE IF ~Aims(plan, bar) THEN says("SL_FIRST")
                 ELSE IF Ambiguity = "SKIP_AMBIGUOUS" THEN says("SKIPPED")
                 ELSE IF Ambiguity = "CONSERVATIVE_SL_FIRST" THEN says("SL_FIRST")
                 ELSE IF one # Absent THEN one
                 ELSE IF five # Absent THEN five
                 ELSE says("SL_FIRST")
  BY DEF BarHit, Aims, Stops, Replayed

LEMMA HitIs ==
    ASSUME NEW plan, NEW bar \in BarSet, NEW k \in Nat \ {0}, NEW at \in Int, NEW fillAt \in Int,
           NEW end \in Int
    PROVE  LET h == BarHit(plan, bar, k, at, fillAt, end)
               one == Replayed(plan, bar, k, at, fillAt, end, bar.ones, 1)
               five == Replayed(plan, bar, k, at, fillAt, end, bar.fives, FiveLen)
           IN  /\ h = Absent <=> ~Aims(plan, bar) /\ ~Stops(plan, bar)
               /\ h # Absent => /\ h \in HitSet
                                /\ OpenOf(k) < h.at /\ h.at <= CloseOf(k)
               /\ h # Absent /\ h.hit = "TP1_FIRST" =>
                     /\ Aims(plan, bar)
                     /\ Stops(plan, bar) => \/ one # Absent /\ h = one
                                            \/ five # Absent /\ h = five
<1> DEFINE h == BarHit(plan, bar, k, at, fillAt, end)
           one == Replayed(plan, bar, k, at, fillAt, end, bar.ones, 1)
           five == Replayed(plan, bar, k, at, fillAt, end, bar.fives, FiveLen)
           says(what) == [hit |-> what, at |-> CloseOf(k)]
<1>1. h = IF ~Aims(plan, bar) /\ ~Stops(plan, bar) THEN Absent
          ELSE IF ~Stops(plan, bar) THEN says("TP1_FIRST")
          ELSE IF ~Aims(plan, bar) THEN says("SL_FIRST")
          ELSE IF Ambiguity = "SKIP_AMBIGUOUS" THEN says("SKIPPED")
          ELSE IF Ambiguity = "CONSERVATIVE_SL_FIRST" THEN says("SL_FIRST")
          ELSE IF one # Absent THEN one
          ELSE IF five # Absent THEN five
          ELSE says("SL_FIRST")
  BY HitForm
<1>2. /\ FiveLen \in Nat \ {0} /\ BarLen \in Nat \ {0} /\ bar.ones \in SUBSET CandleNumbers(1)
      /\ bar.fives \in SUBSET CandleNumbers(FiveLen) /\ Absent \notin HitSet
  BY ReplayAssumption DEF ReplayAssumption, BarSet, CandleNumbers
<1>3. OpenOf(k) \in Int /\ CloseOf(k) \in Int /\ OpenOf(k) < CloseOf(k)
  BY BarOrder
<1>4. one # Absent => one \in [hit: {"TP1_FIRST", "SL_FIRST"}, at: Int]
                      /\ OpenOf(k) < one.at /\ one.at <= CloseOf(k)
  BY <1>2, ReplayedIs
<1>5. five # Absent => five \in [hit: {"TP1_FIRST", "SL_FIRST"}, at: Int]
                      /\ OpenOf(k) < five.at /\ five.at <= CloseOf(k)
  BY <1>2, ReplayedIs
<1>6. \A what \in {"TP1_FIRST", "SL_FIRST", "SKIPPED"} :
         /\ says(what) # Absent /\ says(what) \in HitSet
         /\ says(what).hit = what /\ says(what).at = CloseOf(k)
  <2> SUFFICES ASSUME NEW what \in {"TP1_FIRST", "SL_FIRST", "SKIPPED"}
               PROVE  /\ says(what) # Absent
                      /\ says(what) \in HitSet
                      /\ says(what).hit = what /\ says(what).at = CloseOf(k)
    OBVIOUS
  <2>1. says(what) \in HitSet
    BY <1>3 DEF HitSet
  <2> QED
    BY <2>1, <1>2
<1>7. Aims(plan, bar) \in BOOLEAN /\ Stops(plan, bar) \in BOOLEAN
  BY DEF Aims, Stops, HitsTarget, HitsStop
<1>8. [hit: {"TP1_FIRST", "SL_FIRST"}, at: Int] \subseteq HitSet
  BY DEF HitSet
<1> HIDE DEF h, one, five, says
<1> QED
  BY <1>1, <1>3, <1>4, <1>5, <1>6, <1>7, <1>8 DEF h, one, five

LEMMA HitNone ==
    ASSUME NEW plan, NEW bar \in BarSet, NEW k \in Nat \ {0}, NEW at \in Int, NEW fillAt \in Int,
           NEW end \in Int
    PROVE  BarHit(plan, bar, k, at, fillAt, end) = Absent <=> ~Aims(plan, bar) /\ ~Stops(plan, bar)
  BY HitIs

LEMMA HitPlace ==
    ASSUME NEW plan, NEW bar \in BarSet, NEW k \in Nat \ {0}, NEW at \in Int, NEW fillAt \in Int,
           NEW end \in Int, NEW h, h = BarHit(plan, bar, k, at, fillAt, end), h # Absent
    PROVE  h \in HitSet /\ OpenOf(k) < h.at /\ h.at <= CloseOf(k)
  BY HitIs

LEMMA HitTarget ==
    ASSUME NEW plan, NEW bar \in BarSet, NEW k \in Nat \ {0}, NEW at \in Int, NEW fillAt \in Int,
           NEW end \in Int, NEW h, h = BarHit(plan, bar, k, at, fillAt, end), h # Absent,
           h.hit = "TP1_FIRST"
    PROVE  /\ Aims(plan, bar)
           /\ Stops(plan, bar) =>
                \/ /\ Replayed(plan, bar, k, at, fillAt, end, bar.ones, 1) # Absent
                   /\ h = Replayed(plan, bar, k, at, fillAt, end, bar.ones, 1)
                \/ /\ Replayed(plan, bar, k, at, fillAt, end, bar.fives, FiveLen) # Absent
                   /\ h = Replayed(plan, bar, k, at, fillAt, end, bar.fives, FiveLen)
  BY HitIs

-----------------------------------------------------------------------------
(* The life of a trade. *)
PlanFor(s) == PlanOf(SideOf(s), s)
EntryOf(market, at, end) == Min(EntryBars(market, at, end))
EnteredAt(market, at, end) == OpenOf(EntryOf(market, at, end))
LimitOf(market, at, end) ==
    LET held == EnteredAt(market, at, end) + HorizonBars * BarLen
    IN  IF held > end THEN end ELSE held
OpenBars(market, at, end) ==
    {k \in Later(market, at, end) :
        CloseOf(k) >= EnteredAt(market, at, end) /\ OpenOf(k) < LimitOf(market, at, end)}
HeldBars(market, at, end) ==
    {k \in OpenBars(market, at, end) :
        Cardinality({j \in OpenBars(market, at, end) : j < k}) < HorizonBars}
HitsOf(market, at, s, end) ==
    [k \in HeldBars(market, at, end) |->
        BarHit(PlanFor(s), market[k], k, at, EnteredAt(market, at, end), end)]
FillOf(market, at, s, end) == FillPrice(PlanFor(s).side, market[EntryOf(market, at, end)])
FilledTrade(market, at, s, end) ==
    [Unfilled(s, at, "ENTRY_INVALIDATED_STALE_RISK_PLAN", EnteredAt(market, at, end))
        EXCEPT !.fillAt = EnteredAt(market, at, end), !.fill = FillOf(market, at, s, end)]

LEMMA TradeIs ==
    ASSUME NEW market, NEW at, NEW s, NEW end
    PROVE  Trade(market, at, s, end) =
             IF ~PlanFor(s).valid THEN Unfilled(s, at, "SKIPPED", at)
             ELSE IF EntryBars(market, at, end) = {} THEN Unfilled(s, at, "NO_FILL", Deadline(at, end))
             ELSE IF StaleFill(PlanFor(s), FillOf(market, at, s, end)) THEN FilledTrade(market, at, s, end)
             ELSE Settled(FilledTrade(market, at, s, end), PlanFor(s), market,
                          HitsOf(market, at, s, end), LimitOf(market, at, end))
  BY Zenon DEF Trade, PlanFor, EntryOf, EnteredAt, LimitOf, OpenBars, HeldBars, HitsOf, FillOf, FilledTrade

\* The fields of a trade that was filled.
TradeFields == {"setup", "side", "at", "outcome", "fillAt", "fill", "exitAt", "exit", "depEnd", "tp2"}

LEMMA FilledFields ==
    ASSUME NEW market, NEW at, NEW s, NEW end
    PROVE  LET f == FilledTrade(market, at, s, end)
           IN  /\ DOMAIN f = TradeFields
               /\ f.setup = s /\ f.side = SideOf(s) /\ f.at = at
               /\ f.outcome = "ENTRY_INVALIDATED_STALE_RISK_PLAN"
               /\ f.fillAt = EnteredAt(market, at, end) /\ f.fill = FillOf(market, at, s, end)
               /\ f.exitAt = Absent /\ f.exit = Absent
               /\ f.depEnd = EnteredAt(market, at, end)
<1>1. PICK e, p, u : /\ e = EnteredAt(market, at, end) /\ p = FillOf(market, at, s, end)
                     /\ u = Unfilled(s, at, "ENTRY_INVALIDATED_STALE_RISK_PLAN", e)
  OBVIOUS
<1>2. /\ DOMAIN u = TradeFields
      /\ u.setup = s /\ u.side = SideOf(s) /\ u.at = at /\ u.exitAt = Absent /\ u.exit = Absent
      /\ u.outcome = "ENTRY_INVALIDATED_STALE_RISK_PLAN" /\ u.depEnd = e
  BY <1>1 DEF Unfilled, TradeFields
<1>3. FilledTrade(market, at, s, end) = [u EXCEPT !.fillAt = e, !.fill = p]
  BY <1>1 DEF FilledTrade
<1>4. PICK f : f = [u EXCEPT !.fillAt = e, !.fill = p]
  OBVIOUS
<1>5. /\ DOMAIN f = TradeFields
      /\ f.setup = s /\ f.side = SideOf(s) /\ f.at = at /\ f.exitAt = Absent /\ f.exit = Absent
      /\ f.outcome = "ENTRY_INVALIDATED_STALE_RISK_PLAN" /\ f.depEnd = e
      /\ f.fillAt = e /\ f.fill = p
  BY <1>2, <1>4 DEF TradeFields
<1> QED
  BY <1>1, <1>3, <1>4, <1>5

\* The bars that end it, and the first of them.
Over(hits) == {k \in DOMAIN hits : hits[k] # Absent}
EndedBy(hits) == Min(Over(hits))

\* What becomes of a filled trade.
LEMMA SettledFields ==
    ASSUME NEW f, NEW plan, NEW market, NEW hits, NEW limit, DOMAIN f = TradeFields
    PROVE  LET t == Settled(f, plan, market, hits, limit)
               over == Over(hits)
               last == EndedBy(hits)
           IN  /\ t.setup = f.setup /\ t.side = f.side /\ t.at = f.at
               /\ t.fillAt = f.fillAt /\ t.fill = f.fill
               /\ over = {} => /\ t.outcome = "UNRESOLVED" /\ t.depEnd = limit
                               /\ t.exitAt = f.exitAt /\ t.exit = f.exit
               /\ over # {} => /\ t.outcome = hits[last].hit /\ t.exitAt = hits[last].at
                               /\ t.depEnd = hits[last].at
                               /\ t.exit = IF hits[last].hit = "TP1_FIRST" THEN plan.tp1
                                           ELSE IF hits[last].hit = "SL_FIRST" THEN plan.stop
                                           ELSE f.fill
<1> DEFINE t == Settled(f, plan, market, hits, limit)
           over == Over(hits)
           last == EndedBy(hits)
<1>1. CASE over = {}
  <2>1. t = [f EXCEPT !.outcome = "UNRESOLVED", !.depEnd = limit]
    BY <1>1 DEF Settled, Over
  <2> HIDE DEF t
  <2>2. /\ t.setup = f.setup /\ t.side = f.side /\ t.at = f.at
        /\ t.fillAt = f.fillAt /\ t.fill = f.fill /\ t.exitAt = f.exitAt /\ t.exit = f.exit
        /\ t.outcome = "UNRESOLVED" /\ t.depEnd = limit
    BY <2>1 DEF TradeFields
  <2> QED
    BY <1>1, <2>2 DEF t
<1>2. CASE over # {}
  <2> DEFINE exit == CASE hits[last].hit = "TP1_FIRST" -> plan.tp1
                       [] hits[last].hit = "SL_FIRST" -> plan.stop
                       [] OTHER -> f.fill
             tp2 == /\ hits[last].hit = "TP1_FIRST" /\ plan.tp2 # Absent
                    /\ \E k \in DOMAIN hits :
                          k >= last /\ HitsTarget(plan.side, PricesIn(market[k], 1, BarLen), plan.tp2)
  <2>1. t = [f EXCEPT !.outcome = hits[last].hit, !.exitAt = hits[last].at, !.depEnd = hits[last].at,
                      !.exit = exit, !.tp2 = tp2]
    BY <1>2, Zenon DEF Settled, Over, EndedBy
  <2>2. exit = IF hits[last].hit = "TP1_FIRST" THEN plan.tp1
               ELSE IF hits[last].hit = "SL_FIRST" THEN plan.stop ELSE f.fill
    OBVIOUS
  <2> HIDE DEF t, exit, tp2, last, over
  <2>3. /\ t.setup = f.setup /\ t.side = f.side /\ t.at = f.at
        /\ t.fillAt = f.fillAt /\ t.fill = f.fill /\ t.outcome = hits[last].hit
        /\ t.exitAt = hits[last].at /\ t.depEnd = hits[last].at /\ t.exit = exit
    BY <2>1 DEF TradeFields
  <2> QED
    BY <1>2, <2>2, <2>3 DEF t, last, over
<1> QED
  BY <1>1, <1>2

\* What a trade holds on to, whatever becomes of it.
LEMMA TradeKeeps ==
    ASSUME NEW market, NEW at, NEW s, NEW end
    PROVE  LET t == Trade(market, at, s, end)
           IN  /\ t.setup = s /\ t.side = SideOf(s) /\ t.at = at
               /\ t.outcome # "SKIPPED" \/ t.fill # Absent => PlanFor(s).valid
<1> DEFINE t == Trade(market, at, s, end)
           f == FilledTrade(market, at, s, end)
           hits == HitsOf(market, at, s, end)
<1>1. CASE ~PlanFor(s).valid
  <2>1. t = Unfilled(s, at, "SKIPPED", at)
    BY <1>1, TradeIs
  <2> HIDE DEF t
  <2> QED
    BY <2>1 DEF Unfilled, t
<1>2. CASE PlanFor(s).valid /\ EntryBars(market, at, end) = {}
  <2>1. t = Unfilled(s, at, "NO_FILL", Deadline(at, end))
    BY <1>2, TradeIs
  <2> HIDE DEF t
  <2> QED
    BY <1>2, <2>1 DEF Unfilled, t
<1>3. CASE PlanFor(s).valid /\ EntryBars(market, at, end) # {}
  <2>1. t = f \/ t = Settled(f, PlanFor(s), market, hits, LimitOf(market, at, end))
    BY <1>3, TradeIs
  <2> HIDE DEF t, f, hits
  <2>2. f.setup = s /\ f.side = SideOf(s) /\ f.at = at
        /\ DOMAIN f = TradeFields
    BY FilledFields DEF f
  <2>3. t.setup = s /\ t.side = SideOf(s) /\ t.at = at
    <3>1. PICK limit : limit = LimitOf(market, at, end)
      OBVIOUS
    <3>2. CASE t = f
      BY <3>2, <2>2
    <3>3. CASE t = Settled(f, PlanFor(s), market, hits, limit)
      <4>1. PICK p : p = PlanFor(s)
        OBVIOUS
      <4>2. t = Settled(f, p, market, hits, limit)
        BY <3>1, <3>3, <4>1
      <4>3. LET r == Settled(f, p, market, hits, limit)
            IN  r.setup = f.setup /\ r.side = f.side /\ r.at = f.at
        BY <2>2, <3>1, SettledFields
      <4>4. t.setup = f.setup /\ t.side = f.side /\ t.at = f.at
        BY <4>2, <4>3
      <4> QED
        BY <4>4, <2>2
    <3> QED
      BY <2>1, <3>1, <3>2, <3>3
  <2> QED
    BY <1>3, <2>3 DEF t
<1> QED
  BY <1>1, <1>2, <1>3

-----------------------------------------------------------------------------
\* Entries.
LEMMA Bars ==
    ASSUME NEW market \in Seq(BarSet)
    PROVE  /\ DOMAIN market \in SUBSET (Nat \ {0}) /\ IsFiniteSet(DOMAIN market)
           /\ \A k \in DOMAIN market : market[k] \in BarSet
           /\ \A k, m \in Nat \ {0} : k <= m /\ m \in DOMAIN market => k \in DOMAIN market
<1>1. PICK n \in Nat : DOMAIN market = 1..n
  OBVIOUS
<1>2. IsFiniteSet(1..n)
  BY FS_Interval
<1>3. \A k \in DOMAIN market : market[k] \in BarSet
  OBVIOUS
<1>4. \A k, m \in Nat \ {0} : k <= m /\ m \in DOMAIN market => k \in DOMAIN market
  BY <1>1
<1>5. DOMAIN market \in SUBSET (Nat \ {0})
  BY <1>1
<1> QED
  BY <1>1, <1>2, <1>3, <1>4, <1>5

LEMMA EntryIs ==
    ASSUME NEW market \in Seq(BarSet), NEW c \in Nat, NEW end \in Nat,
           EntryBars(market, CloseOf(c), end) # {}
    PROVE  LET first == EntryOf(market, CloseOf(c), end)
           IN  /\ first \in EntryBars(market, CloseOf(c), end) /\ first \in Nat \ {0}
               /\ \A k \in EntryBars(market, CloseOf(c), end) : first <= k
               /\ \A k \in Later(market, CloseOf(c), end) :
                     CloseOf(k) >= OpenOf(first) => first <= k
<1> DEFINE at == CloseOf(c)
           E == EntryBars(market, at, end)
           first == EntryOf(market, at, end)
<1>1. E \in SUBSET Nat
  BY Bars DEF EntryBars, Later
<1>2. first \in E /\ \A k \in E : first <= k
  <2> HIDE DEF E
  <2> QED
    BY <1>1, LeastIs DEF EntryOf, E
<1> HIDE DEF first
<1>3. first \in Nat \ {0} /\ first \in Later(market, at, end)
  BY <1>2, Bars DEF EntryBars, Later
<1>4. ASSUME NEW k \in Later(market, at, end), CloseOf(k) >= OpenOf(first), k < first PROVE FALSE
  <2>1. k \in Nat \ {0} /\ k \in DOMAIN market
    BY Bars DEF Later
  <2>2. CloseOf(k) <= OpenOf(first) /\ OpenOf(first) \in Int /\ CloseOf(k) \in Int
        /\ OpenOf(k) \in Int /\ OpenOf(k) < CloseOf(k)
    BY <2>1, <1>3, <1>4, BarOrder
  <2>3. at < CloseOf(k) /\ CloseOf(k) < end
    BY DEF Later
  <2>4. CloseOf(c) <= OpenOf(k)
    <3>1. c < k
      BY <2>1, <2>3, BarOrder
    <3> QED
      BY <2>1, <3>1, BarOrder
  <2>5. IF end <= at + FillWait THEN OpenOf(k) < end ELSE OpenOf(k) <= at + FillWait
    <3>1. at \in Int /\ FillWait \in Int
      BY BarOrder, ReplayAssumption DEF ReplayAssumption
    <3>2. IF end <= at + FillWait THEN OpenOf(first) < end ELSE OpenOf(first) <= at + FillWait
      BY <1>2 DEF EntryBars
    <3> HIDE DEF at
    <3> QED
      BY <2>2, <2>3, <3>1, <3>2
  <2>6. k \in E
    BY <2>4, <2>5 DEF EntryBars
  <2> QED
    BY <1>2, <1>3, <1>4, <2>1, <2>6
<1>5. ASSUME NEW k \in Later(market, at, end), CloseOf(k) >= OpenOf(first) PROVE first <= k
  <2>1. k \in Nat
    BY Bars DEF Later
  <2> QED
    BY <2>1, <1>3, <1>4, <1>5
<1> QED
  BY <1>2, <1>3, <1>5 DEF first

THEOREM PlansAreTradeable == ReplaySpec => []PlanIsTradeable
<1>1. ReplayInv => PlanIsTradeable
  <2> SUFFICES ASSUME ReplayInv, NEW t \in Recorded, t.outcome # "SKIPPED" \/ t.fill # Absent
               PROVE  Tradeable(t.side, t.setup, PlanOf(t.side, t.setup))
    BY DEF PlanIsTradeable, Tradeable
  <2>1. PICK k \in Nat, s \in Setups : t = Trade(tape, CloseOf(k), s, runEnd)
    BY DEF ReplayInv, Recorded, AllTrades
  <2>2. t.setup = s /\ t.side = SideOf(s) /\ PlanFor(s).valid
    BY <2>1, TradeKeeps
  <2>3. CASE SideOf(s) = "LONG"
    BY <2>2, <2>3, LongTradeable DEF PlanFor, PlanOf
  <2>4. CASE SideOf(s) = "SHORT"
    BY <2>2, <2>4, ShortTradeable DEF PlanFor, PlanOf
  <2> QED
    BY <2>3, <2>4 DEF SideOf
<1> QED
  BY <1>1, ReplayStarts, ReplaySteps, PTL DEF ReplaySpec

-----------------------------------------------------------------------------
LEMMA HeldAreBars ==
    ASSUME NEW market \in Seq(BarSet), NEW at, NEW end
    PROVE  /\ OpenBars(market, at, end) \in SUBSET DOMAIN market
           /\ HeldBars(market, at, end) \in SUBSET OpenBars(market, at, end)
           /\ HeldBars(market, at, end) \in SUBSET (Nat \ {0})
           /\ IsFiniteSet(OpenBars(market, at, end))
<1>1. HeldBars(market, at, end) \subseteq OpenBars(market, at, end)
  BY DEF HeldBars
<1>2. OpenBars(market, at, end) \subseteq DOMAIN market
  BY DEF OpenBars, Later
<1>3. DOMAIN market \in SUBSET (Nat \ {0}) /\ IsFiniteSet(DOMAIN market)
  BY Bars
<1> QED
  BY <1>1, <1>2, <1>3, FS_Subset

\* A trade that was ended by a barrier.
LEMMA EndedIs ==
    ASSUME NEW market \in Seq(BarSet), NEW at, NEW s, NEW end,
           Trade(market, at, s, end).outcome \in {"TP1_FIRST", "SL_FIRST"}
    PROVE  LET t == Trade(market, at, s, end)
               hits == HitsOf(market, at, s, end)
           IN  /\ PlanFor(s).valid /\ EntryBars(market, at, end) # {}
               /\ t.fillAt = EnteredAt(market, at, end)
               /\ \E last \in HeldBars(market, at, end) :
                     /\ hits[last] # Absent /\ t.outcome = hits[last].hit /\ t.exitAt = hits[last].at
                     /\ \A k \in HeldBars(market, at, end) : k < last => hits[k] = Absent
<1> DEFINE t == Trade(market, at, s, end)
           f == FilledTrade(market, at, s, end)
           hits == HitsOf(market, at, s, end)
           held == HeldBars(market, at, end)
<1>1. PlanFor(s).valid /\ EntryBars(market, at, end) # {}
  <2>1. CASE ~PlanFor(s).valid
    <3>1. t = Unfilled(s, at, "SKIPPED", at)
      BY <2>1, TradeIs
    <3> QED
      BY <3>1 DEF Unfilled
  <2>2. CASE PlanFor(s).valid /\ EntryBars(market, at, end) = {}
    <3>1. t = Unfilled(s, at, "NO_FILL", Deadline(at, end))
      BY <2>2, TradeIs
    <3> QED
      BY <3>1 DEF Unfilled
  <2> QED
    BY <2>1, <2>2
<1>2. DOMAIN f = TradeFields /\ f.outcome = "ENTRY_INVALIDATED_STALE_RISK_PLAN"
      /\ f.fillAt = EnteredAt(market, at, end)
  BY FilledFields
<1>3. t = Settled(f, PlanFor(s), market, hits, LimitOf(market, at, end))
  <2>1. t = f \/ t = Settled(f, PlanFor(s), market, hits, LimitOf(market, at, end))
    BY <1>1, TradeIs
  <2> HIDE DEF f
  <2> QED
    BY <1>2, <2>1
<1>4. DOMAIN hits = held
  BY DEF HitsOf
<1> HIDE DEF t, f, hits, held
<1>5. PICK o, last, limit, p : o = Over(hits) /\ last = EndedBy(hits) /\ limit = LimitOf(market, at, end)
                               /\ p = PlanFor(s)
  OBVIOUS
<1>6. /\ t.fillAt = f.fillAt
      /\ o = {} => t.outcome = "UNRESOLVED"
      /\ o # {} => t.outcome = hits[last].hit /\ t.exitAt = hits[last].at
  <2>1. t = Settled(f, p, market, hits, limit)
    BY <1>3, <1>5
  <2>2. LET r == Settled(f, p, market, hits, limit)
        IN  /\ r.fillAt = f.fillAt
            /\ o = {} => r.outcome = "UNRESOLVED"
            /\ o # {} => r.outcome = hits[last].hit /\ r.exitAt = hits[last].at
    BY <1>2, <1>5, SettledFields
  <2> QED
    BY <2>1, <2>2
<1>7. o # {} /\ o \in SUBSET Nat
  <2>1. held \in SUBSET (Nat \ {0})
    BY HeldAreBars DEF held
  <2>2. ASSUME NEW k \in o PROVE k \in Nat
    BY <1>4, <1>5, <2>1 DEF Over
  <2>3. o # {}
    BY <1>6 DEF t
  <2> QED
    BY <2>2, <2>3
<1>8. last \in o /\ \A k \in o : last <= k
  BY <1>5, <1>7, LeastIs DEF EndedBy
<1>9. last \in held /\ hits[last] # Absent
  BY <1>4, <1>5, <1>8 DEF Over
<1>10. ASSUME NEW k \in held, k < last PROVE hits[k] = Absent
  <2>1. k \in o => last <= k /\ k \in Nat /\ last \in Nat
    BY <1>7, <1>8
  <2>2. k \notin o
    BY <2>1, <1>10
  <2> QED
    BY <2>2, <1>4, <1>5 DEF Over
<1> QED
  BY <1>1, <1>2, <1>6, <1>7, <1>9, <1>10 DEF t, hits, held

LEMMA EarlierHeld ==
    ASSUME NEW market \in Seq(BarSet), NEW at, NEW end, NEW last \in HeldBars(market, at, end),
           NEW k \in OpenBars(market, at, end), k <= last
    PROVE  k \in HeldBars(market, at, end)
<1> DEFINE O == OpenBars(market, at, end)
           Before(m) == {j \in O : j < m}
<1>1. IsFiniteSet(O) /\ O \in SUBSET Nat /\ last \in O
  <2>1. IsFiniteSet(O) /\ last \in O
    BY HeldAreBars
  <2>2. ASSUME NEW j \in O PROVE j \in Nat
    BY HeldAreBars, Bars
  <2> QED
    BY <2>1, <2>2
<1>2. Cardinality(Before(last)) < HorizonBars
  BY DEF HeldBars
<1>3. HorizonBars \in Nat
  BY ReplayAssumption DEF ReplayAssumption
<1> HIDE DEF O
<1>4. Before(k) \subseteq Before(last)
  <2>1. ASSUME NEW j \in Before(k) PROVE j \in Before(last)
    <3>1. j \in O /\ j \in Nat /\ k \in Nat /\ last \in Nat /\ j < k
      BY <1>1 DEF O
    <3> QED
      BY <3>1
  <2> QED
    BY <2>1
<1>5. IsFiniteSet(Before(last)) /\ IsFiniteSet(Before(k))
  BY <1>1, FS_Subset
<1> HIDE DEF Before
<1>6. Cardinality(Before(k)) <= Cardinality(Before(last))
      /\ Cardinality(Before(k)) \in Nat /\ Cardinality(Before(last)) \in Nat
  BY <1>4, <1>5, FS_Subset, FS_CardinalityType
<1>7. Cardinality(Before(k)) < HorizonBars
  BY <1>2, <1>3, <1>6
<1> QED
  BY <1>7 DEF HeldBars, Before, O

\* A stored bar between the entry and a held bar is held.
LEMMA BetweenHeld ==
    ASSUME NEW market \in Seq(BarSet), NEW c \in Nat, NEW end \in Nat,
           EntryBars(market, CloseOf(c), end) # {},
           NEW last \in HeldBars(market, CloseOf(c), end),
           NEW k \in EntryOf(market, CloseOf(c), end)..last, market[k].stored
    PROVE  k \in HeldBars(market, CloseOf(c), end)
<1> DEFINE at == CloseOf(c)
           first == EntryOf(market, at, end)
<1>1. first \in Nat \ {0} /\ first \in EntryBars(market, at, end)
  BY EntryIs
<1>2. last \in OpenBars(market, at, end) /\ last \in DOMAIN market /\ last \in Nat \ {0}
  BY HeldAreBars
<1> HIDE DEF first
<1>3. k \in Nat \ {0} /\ first <= k /\ k <= last
  BY <1>1, <1>2 DEF first
<1>4. k \in DOMAIN market
  BY <1>2, <1>3, Bars
<1>5. /\ OpenOf(first) \in Int /\ CloseOf(first) \in Int /\ OpenOf(first) < CloseOf(first)
      /\ OpenOf(k) \in Int /\ CloseOf(k) \in Int /\ CloseOf(first) <= CloseOf(k)
      /\ OpenOf(last) \in Int /\ CloseOf(last) \in Int /\ CloseOf(k) <= CloseOf(last)
      /\ OpenOf(k) = CloseOf(k) - BarLen /\ OpenOf(last) = CloseOf(last) - BarLen /\ BarLen \in Int
      /\ at \in Int
  BY <1>1, <1>2, <1>3, BarOrder, ReplayAssumption DEF ReplayAssumption
<1>6. EnteredAt(market, at, end) = OpenOf(first)
  BY DEF EnteredAt, first
<1>7. /\ CloseOf(first) > at /\ CloseOf(last) < end /\ OpenOf(last) < LimitOf(market, at, end)
  BY <1>1, <1>2 DEF EntryBars, OpenBars, Later
<1>8. LimitOf(market, at, end) \in Int
  <2>1. HorizonBars * BarLen \in Int
    BY ReplayAssumption DEF ReplayAssumption
  <2> QED
    BY <2>1, <1>5, <1>6 DEF LimitOf
<1>9. k \in Later(market, at, end)
  BY <1>4, <1>5, <1>7 DEF Later
<1>10. k \in OpenBars(market, at, end)
  <2>1. CloseOf(k) >= EnteredAt(market, at, end)
    BY <1>5, <1>6
  <2>2. OpenOf(k) < LimitOf(market, at, end)
    BY <1>5, <1>7, <1>8
  <2> QED
    BY <1>9, <2>1, <2>2 DEF OpenBars
<1> QED
  BY <1>3, <1>10, EarlierHeld

-----------------------------------------------------------------------------
\* The positions of candle i.
Positions(i, length) == (2 * ((i - 1) * length + 1) - 1)..(2 * (i * length))

LEMMA CandleOf ==
    ASSUME NEW length \in Nat \ {0}, NEW f \in Nat, NEW j \in Nat \ {0}, j <= 2 * (f * length)
    PROVE  \E i \in 1..f : j \in Positions(i, length)
<1>1. PICK d \in Nat \ {0} : d = 2 * length
  OBVIOUS
<1>2. PICK i \in Nat \ {0}, r \in 1..d : j = (i - 1) * d + r
  BY <1>1, Stretch
<1>3. (i - 1) * d = 2 * ((i - 1) * length) /\ i * d = 2 * (i * length)
      /\ (i - 1) * length \in Int /\ i * length \in Int /\ f * length \in Int
      /\ i * length = (i - 1) * length + length
  BY <1>1
<1>4. j \in Positions(i, length)
  BY <1>1, <1>2, <1>3 DEF Positions
<1>5. i <= f
  <2> SUFFICES ASSUME f + 1 <= i PROVE FALSE
    BY <1>2
  <2>1. PICK e \in Nat : e = i - 1 - f
    BY <1>2
  <2>2. e * length >= 0 /\ e * length = (i - 1) * length - f * length
    BY <1>2, <2>1
  <2>3. (i - 1) * length >= f * length
    BY <2>2, <1>3
  <2> QED
    BY <1>1, <1>2, <1>3, <2>3
<1> QED
  BY <1>2, <1>4, <1>5

\* What one price does.
AimedAt(plan, x) == HitsTarget(plan.side, {x}, plan.tp1)
StoppedAt(plan, x) == HitsStop(plan.side, {x}, plan.stop)

LEMMA CandleTouch ==
    ASSUME NEW plan, NEW bar, NEW i, NEW length
    PROVE  /\ AimsAt(plan, bar, i, length) <=> \E n \in Positions(i, length) : AimedAt(plan, bar.path[n])
           /\ StopsAt(plan, bar, i, length) <=> \E n \in Positions(i, length) : StoppedAt(plan, bar.path[n])
  BY DEF AimsAt, StopsAt, AimedAt, StoppedAt, CandlePrices, PricesIn, HitsTarget, HitsStop, Positions

LEMMA BarTouch ==
    ASSUME NEW plan, NEW bar
    PROVE  /\ Aims(plan, bar) <=> \E n \in 1..(2 * BarLen) : AimedAt(plan, bar.path[n])
           /\ Stops(plan, bar) <=> \E n \in 1..(2 * BarLen) : StoppedAt(plan, bar.path[n])
<1>1. (2 * 1 - 1)..(2 * BarLen) = 1..(2 * BarLen)
  BY ReplayAssumption DEF ReplayAssumption
<1> QED
  BY <1>1 DEF Aims, Stops, AimedAt, StoppedAt, PricesIn, HitsTarget, HitsStop

\* When the lower candles say that the target came first, it did.
LEMMA ReplayedIsTrue ==
    ASSUME NEW plan, NEW bar, NEW k \in Nat \ {0}, NEW at \in Int, NEW fillAt \in Int,
           NEW end \in Int, NEW length \in Nat \ {0}, NEW stored \in SUBSET CandleNumbers(length),
           fillAt <= OpenOf(k),
           Replayed(plan, bar, k, at, fillAt, end, stored, length) # Absent,
           Replayed(plan, bar, k, at, fillAt, end, stored, length).hit = "TP1_FIRST"
    PROVE  \E n \in 1..(2 * BarLen) :
              /\ AimedAt(plan, bar.path[n])
              /\ \A m \in 1..(2 * BarLen) : StoppedAt(plan, bar.path[m]) => n < m
<1> DEFINE P == Passed(stored, OpenOf(k), length, at, end)
           r == Replayed(plan, bar, k, at, fillAt, end, stored, length)
<1>1. P \in SUBSET CandleNumbers(length) /\ GridOK(P, OpenOf(k), length, fillAt)
      /\ r = FirstTouch(plan, bar, P, OpenOf(k), length)
  BY DEF Passed, Replayed
<1>2. OpenOf(k) \in Int /\ BarLen \in Nat \ {0}
  BY BarOrder, ReplayAssumption DEF ReplayAssumption
<1>3. r # Absent /\ r.hit = "TP1_FIRST"
  OBVIOUS
<1> HIDE DEF P, r
<1>4. \A i \in P : i \in Nat \ {0} /\ i * length <= BarLen
  BY <1>1 DEF CandleNumbers
<1>5. 1 \in P
  <2>1. P # {} /\ P \in SUBSET Nat
    BY <1>1, <1>4 DEF GridOK
  <2>2. PICK i : i = Min(P) /\ i \in P
    BY <2>1, LeastIs
  <2>3. (i - 1) * length <= 0 /\ i \in Nat \ {0}
    <3>1. OpenOf(k) + (i - 1) * length <= fillAt /\ i \in Nat \ {0} /\ (i - 1) * length \in Int
      BY <1>1, <1>4, <2>2 DEF GridOK
    <3> QED
      BY <3>1, <1>2
  <2>4. i = 1
    <3> SUFFICES ASSUME i - 1 >= 1 PROVE FALSE
      BY <2>3
    <3>1. (i - 1) * length >= length
      BY <2>3
    <3> QED
      BY <3>1, <2>3
  <2> QED
    BY <2>2, <2>4
<1>6. PICK f \in P : /\ AimsAt(plan, bar, f, length) \/ StopsAt(plan, bar, f, length)
                     /\ ~AimsAt(plan, bar, f, length) \/ ~StopsAt(plan, bar, f, length)
                     /\ \A i \in P : AimsAt(plan, bar, i, length) \/ StopsAt(plan, bar, i, length) => f <= i
                     /\ r = [hit |-> IF AimsAt(plan, bar, f, length) THEN "TP1_FIRST" ELSE "SL_FIRST",
                             at |-> OpenOf(k) + f * length]
  <2>1. FirstTouch(plan, bar, P, OpenOf(k), length) # Absent
    BY <1>1, <1>3
  <2>2. PICK o \in Int : o = OpenOf(k)
    BY <1>2
  <2>3. \E f \in P :
              /\ AimsAt(plan, bar, f, length) \/ StopsAt(plan, bar, f, length)
              /\ ~AimsAt(plan, bar, f, length) \/ ~StopsAt(plan, bar, f, length)
              /\ \A i \in P : AimsAt(plan, bar, i, length) \/ StopsAt(plan, bar, i, length) => f <= i
              /\ FirstTouch(plan, bar, P, OpenOf(k), length) =
                    [hit |-> IF AimsAt(plan, bar, f, length) THEN "TP1_FIRST" ELSE "SL_FIRST",
                     at |-> OpenOf(k) + f * length]
    BY <1>1, <2>1, <2>2, TouchIs
  <2> QED
    BY <1>1, <2>3
<1>7. AimsAt(plan, bar, f, length) /\ ~StopsAt(plan, bar, f, length)
  BY <1>3, <1>6
<1>8. 1..f \subseteq P
  BY <1>1, <1>5 DEF GridOK
<1>9. f \in Nat \ {0} /\ f * length <= BarLen /\ f * length \in Nat
  BY <1>4
<1>10. PICK n \in Positions(f, length) : AimedAt(plan, bar.path[n])
  BY <1>7, CandleTouch
<1>11. n \in 1..(2 * BarLen) /\ n <= 2 * (f * length)
  <2>1. (f - 1) * length \in Nat
    BY <1>9
  <2> QED
    BY <1>2, <1>9, <2>1 DEF Positions
<1>12. ASSUME NEW m \in 1..(2 * BarLen), StoppedAt(plan, bar.path[m]) PROVE n < m
  <2> SUFFICES ASSUME m <= 2 * (f * length) PROVE FALSE
    BY <1>2, <1>9, <1>11
  <2>1. PICK i \in 1..f : m \in Positions(i, length)
    BY <1>9, CandleOf
  <2>2. StopsAt(plan, bar, i, length)
    BY <2>1, <1>12, CandleTouch
  <2>3. i \in P /\ f <= i
    BY <1>6, <1>8, <2>1, <2>2
  <2>4. i = f
    BY <2>1, <2>3, <1>9
  <2> QED
    BY <2>2, <2>4, <1>7
<1> QED
  BY <1>10, <1>11, <1>12

LEMMA PlanSide ==
    ASSUME NEW s PROVE PlanFor(s).side = SideOf(s)
<1>1. PlanLong(s).side = "LONG"
  BY DEF PlanLong, Refused
<1>2. PlanShort(s).side = "SHORT"
  BY DEF PlanShort, Refused
<1> QED
  BY <1>1, <1>2 DEF PlanFor, PlanOf, SideOf

\* The target a trade is said to have reached first was reached first.
LEMMA TargetWasFirst ==
    ASSUME ReplayInv, NEW t \in Recorded, t.outcome = "TP1_FIRST",
           \A k \in BarOf(t.fillAt + 1)..BarOf(t.exitAt) : tape[k].stored
    PROVE  \E n \in TouchesUpTo(t, BarOf(t.exitAt), FALSE) :
              \A m \in TouchesUpTo(t, BarOf(t.exitAt), TRUE) : n < m
<1>1. PICK c \in Nat, s \in Setups : t = Trade(tape, CloseOf(c), s, runEnd)
  BY DEF ReplayInv, Recorded, AllTrades
<1> DEFINE at == CloseOf(c)
           hits == HitsOf(tape, at, s, runEnd)
           plan == PlanFor(s)
           first == EntryOf(tape, at, runEnd)
<1>2. tape \in Seq(BarSet) /\ runEnd \in Nat /\ at \in Int
  BY BarOrder, ReplayAssumption DEF ReplayAssumption, ReplayInv
<1>3. EntryBars(tape, at, runEnd) # {} /\ t.fillAt = OpenOf(first)
  BY <1>1, <1>2, EndedIs DEF EnteredAt
<1>4. PICK last \in HeldBars(tape, at, runEnd) :
         /\ hits[last] # Absent /\ hits[last].hit = "TP1_FIRST" /\ t.exitAt = hits[last].at
         /\ \A k \in HeldBars(tape, at, runEnd) : k < last => hits[k] = Absent
  BY <1>1, <1>2, EndedIs
<1>5. t.side = plan.side /\ PlanOf(t.side, t.setup) = plan
  BY <1>1, TradeKeeps, PlanSide DEF PlanFor
<1>6. \A k \in HeldBars(tape, at, runEnd) :
         /\ k \in Nat \ {0} /\ tape[k] \in BarSet
         /\ hits[k] = BarHit(plan, tape[k], k, at, OpenOf(first), runEnd)
  BY <1>2, HeldAreBars, Bars DEF HitsOf, EnteredAt
<1>7. first \in Nat \ {0} /\ first <= last
  <2>1. last \in Later(tape, at, runEnd) /\ CloseOf(last) >= OpenOf(first)
    BY <1>2, HeldAreBars DEF OpenBars, EnteredAt
  <2> QED
    BY <1>2, <1>3, <2>1, EntryIs
<1> HIDE DEF hits, plan, first
<1>8. last \in Nat \ {0} /\ last \in Int /\ OpenOf(first) \in Nat
      /\ OpenOf(first) \in Int /\ OpenOf(last) \in Int
  <2>1. OpenOf(first) \in Nat
    BY <1>7, ReplayAssumption DEF OpenOf, ReplayAssumption
  <2> QED
    BY <1>6, <2>1, BarOrder
<1>18. OpenOf(first) <= OpenOf(last) /\ OpenOf(last) = CloseOf(last) - BarLen
       /\ CloseOf(last) \in Int /\ BarLen \in Nat \ {0}
  <2>1. /\ CloseOf(first) <= CloseOf(last) /\ CloseOf(first) \in Int /\ CloseOf(last) \in Int
        /\ OpenOf(first) = CloseOf(first) - BarLen
    BY <1>7, <1>8, BarOrder
  <2>2. OpenOf(last) = CloseOf(last) - BarLen
    BY <1>8, BarOrder
  <2>3. BarLen \in Nat \ {0}
    BY ReplayAssumption DEF ReplayAssumption
  <2> QED
    BY <2>1, <2>2, <2>3
<1> DEFINE h == hits[last]
<1>17. PICK b \in BarSet, e \in Int, end \in Int :
          /\ b = tape[last] /\ e = OpenOf(first) /\ end = runEnd
          /\ h = BarHit(plan, b, last, at, e, end) /\ h # Absent /\ h.hit = "TP1_FIRST"
          /\ t.exitAt = h.at
  <2>1. hits[last] = BarHit(plan, tape[last], last, at, OpenOf(first), runEnd) /\ tape[last] \in BarSet
    BY <1>6
  <2>2. OpenOf(first) \in Int /\ runEnd \in Int
    BY <1>2, <1>8
  <2> QED
    BY <1>4, <2>1, <2>2
<1> HIDE DEF h
<1>9. BarOf(t.exitAt) = last
  <2>1. t.exitAt \in Int /\ OpenOf(last) < t.exitAt /\ t.exitAt <= CloseOf(last)
    <3>1. h \in HitSet /\ OpenOf(last) < h.at /\ h.at <= CloseOf(last)
      BY <1>2, <1>8, <1>17, HitPlace
    <3> QED
      BY <3>1, <1>17 DEF HitSet
  <2> QED
    BY <2>1, <1>8, BarOfMinute
<1>10. BarOf(t.fillAt + 1) = first
  <2>1. OpenOf(first) < OpenOf(first) + 1 /\ OpenOf(first) + 1 <= CloseOf(first)
    BY <1>7, BarOrder
  <2> QED
    BY <1>3, <1>7, <1>8, <2>1, BarOfMinute
<1>11. \A k \in first..(last - 1) : ~Stops(plan, tape[k])
  <2> SUFFICES ASSUME NEW k \in first..(last - 1) PROVE ~Stops(plan, tape[k])
    OBVIOUS
  <2>1. k \in first..last /\ k < last /\ tape[k].stored
    BY <1>7, <1>8, <1>9, <1>10
  <2>2. k \in HeldBars(tape, at, runEnd)
    BY <1>2, <1>3, <2>1, BetweenHeld DEF first
  <2>3. hits[k] = Absent
    BY <1>4, <2>1, <2>2
  <2>4. PICK bar \in BarSet :
           bar = tape[k] /\ BarHit(plan, bar, k, at, e, end) = Absent
    BY <1>2, <1>6, <1>8, <1>17, <2>2, <2>3
  <2>5. ~Stops(plan, bar)
    BY <1>2, <1>6, <2>2, <2>4, HitNone
  <2> QED
    BY <2>4, <2>5
\* The price within the last bar that comes before every touch of the stop.
<1>12. PICK x \in 1..(2 * BarLen) :
          /\ AimedAt(plan, tape[last].path[x])
          /\ \A y \in 1..(2 * BarLen) : StoppedAt(plan, tape[last].path[y]) => x < y
  <2>1. Aims(plan, b)
    BY <1>2, <1>8, <1>17, HitTarget
  <2>2. CASE ~Stops(plan, b)
    BY <1>17, <2>1, <2>2, BarTouch
  <2>3. CASE Stops(plan, b)
    <3> DEFINE one == Replayed(plan, b, last, at, e, end, b.ones, 1)
               five == Replayed(plan, b, last, at, e, end, b.fives, FiveLen)
    <3>1. (one # Absent /\ h = one) \/ (five # Absent /\ h = five)
      <4>1. PICK g : g = h
        OBVIOUS
      <4>2. /\ g = BarHit(plan, b, last, at, e, end) /\ g # Absent /\ g.hit = "TP1_FIRST"
            /\ last \in Nat \ {0} /\ at \in Int
        BY <1>2, <1>8, <1>17, <4>1
      <4>3. \/ /\ Replayed(plan, b, last, at, e, end, b.ones, 1) # Absent
               /\ g = Replayed(plan, b, last, at, e, end, b.ones, 1)
            \/ /\ Replayed(plan, b, last, at, e, end, b.fives, FiveLen) # Absent
               /\ g = Replayed(plan, b, last, at, e, end, b.fives, FiveLen)
        BY <2>3, <4>2, HitTarget
      <4> QED
        BY <4>1, <4>3
    <3>2. e <= OpenOf(last)
      BY <1>17, <1>18
    <3>3. /\ FiveLen \in Nat \ {0} /\ b.ones \in SUBSET CandleNumbers(1)
          /\ b.fives \in SUBSET CandleNumbers(FiveLen)
      BY ReplayAssumption DEF ReplayAssumption, BarSet, CandleNumbers
    <3>4. CASE one # Absent /\ h = one
      <4>1. Replayed(plan, b, last, at, e, end, b.ones, 1).hit = "TP1_FIRST"
        BY <1>17, <3>4
      <4>2. \E x \in 1..(2 * BarLen) :
              /\ AimedAt(plan, b.path[x])
              /\ \A y \in 1..(2 * BarLen) : StoppedAt(plan, b.path[y]) => x < y
        <5>1. Replayed(plan, b, last, at, e, end, b.ones, 1) # Absent
          BY <3>4
        <5>2. 1 \in Nat \ {0}
          OBVIOUS
        <5> QED
          BY <1>2, <1>8, <3>2, <3>3, <4>1, <5>1, <5>2, ReplayedIsTrue
      <4> QED
        BY <1>17, <4>2
    <3>5. CASE five # Absent /\ h = five
      <4>1. Replayed(plan, b, last, at, e, end, b.fives, FiveLen).hit = "TP1_FIRST"
        BY <1>17, <3>5
      <4>2. \E x \in 1..(2 * BarLen) :
              /\ AimedAt(plan, b.path[x])
              /\ \A y \in 1..(2 * BarLen) : StoppedAt(plan, b.path[y]) => x < y
        BY <1>2, <1>8, <3>2, <3>3, <3>5, <4>1, ReplayedIsTrue
      <4> QED
        BY <1>17, <4>2
    <3> QED
      BY <3>1, <3>4, <3>5
  <2> QED
    BY <2>2, <2>3
<1> DEFINE n == (last - 1) * (2 * BarLen) + x
<1>13. PriceAt(n) = tape[last].path[x] /\ n \in (2 * OpenOf(first) + 1)..(2 * CloseOf(last))
       /\ n = 2 * OpenOf(last) + x
  <2>1. PriceAt(n) = tape[last].path[x]
    BY <1>8, PriceIs
  <2>2. n = 2 * OpenOf(last) + x
    BY <1>8, ReplayAssumption DEF OpenOf, ReplayAssumption
  <2> QED
    BY <1>8, <1>18, <2>1, <2>2
<1> HIDE DEF n
<1>14. n \in TouchesUpTo(t, BarOf(t.exitAt), FALSE)
  BY <1>3, <1>5, <1>9, <1>12, <1>13 DEF TouchesUpTo, AimedAt
<1>15. ASSUME NEW m \in TouchesUpTo(t, BarOf(t.exitAt), TRUE) PROVE n < m
  <2>1. m \in (2 * OpenOf(first) + 1)..(2 * CloseOf(last)) /\ StoppedAt(plan, PriceAt(m))
    BY <1>3, <1>5, <1>9, <1>15 DEF TouchesUpTo, StoppedAt
  <2>2. PICK k \in first..last, y \in 1..(2 * BarLen) :
           m = (k - 1) * (2 * BarLen) + y /\ m = 2 * OpenOf(k) + y
    BY <1>7, <1>8, <2>1, PositionIn
  <2>3. PriceAt(m) = tape[k].path[y]
    BY <1>7, <2>2, PriceIs
  <2>4. CASE k = last
    <3>1. x < y
      BY <1>12, <2>1, <2>3, <2>4
    <3> QED
      BY <3>1, <1>8, <1>13, <2>2, <2>4
  <2>5. CASE k # last
    <3>1. k \in first..(last - 1)
      BY <1>7, <1>8, <2>2, <2>5
    <3>2. Stops(plan, tape[k])
      BY <2>1, <2>3, BarTouch
    <3> QED
      BY <3>1, <3>2, <1>11
  <2> QED
    BY <2>4, <2>5
<1> QED
  BY <1>14, <1>15

THEOREM TargetsAreTrue == ReplaySpec => []NeverOptimistic
<1>1. ReplayInv => NeverOptimistic
  BY TargetWasFirst DEF NeverOptimistic
<1> QED
  BY <1>1, ReplayStarts, ReplaySteps, PTL DEF ReplaySpec

-----------------------------------------------------------------------------
(* A run that ends earlier. *)

\* The lower candles of a bar that closes before both ends are all passed on by both runs.
LEMMA SameReplay ==
    ASSUME NEW plan, NEW bar, NEW k \in Nat \ {0}, NEW at \in Int, NEW fillAt, NEW end \in Int,
           NEW cut \in Int, NEW length \in Nat \ {0}, NEW stored \in SUBSET CandleNumbers(length),
           CloseOf(k) < cut, CloseOf(k) < end
    PROVE  Replayed(plan, bar, k, at, fillAt, cut, stored, length) =
              Replayed(plan, bar, k, at, fillAt, end, stored, length)
<1>1. OpenOf(k) \in Int /\ CloseOf(k) \in Int /\ OpenOf(k) = CloseOf(k) - BarLen /\ BarLen \in Int
  BY BarOrder, ReplayAssumption DEF ReplayAssumption
<1>2. ASSUME NEW i \in stored
      PROVE  OpenOf(k) + i * length < cut /\ OpenOf(k) + i * length < end
  <2>1. i \in Nat /\ i * length <= BarLen /\ i * length \in Int
    BY DEF CandleNumbers
  <2> QED
    BY <1>1, <2>1
<1>3. Passed(stored, OpenOf(k), length, at, cut) = Passed(stored, OpenOf(k), length, at, end)
  BY <1>2 DEF Passed
<1> QED
  BY <1>3 DEF Replayed

LEMMA SameHit ==
    ASSUME NEW plan, NEW bar \in BarSet, NEW k \in Nat \ {0}, NEW at \in Int, NEW fillAt,
           NEW end \in Int, NEW cut \in Int, CloseOf(k) < cut, CloseOf(k) < end
    PROVE  BarHit(plan, bar, k, at, fillAt, cut) = BarHit(plan, bar, k, at, fillAt, end)
<1>1. /\ FiveLen \in Nat \ {0} /\ bar.ones \in SUBSET CandleNumbers(1) /\ 1 \in Nat \ {0}
      /\ bar.fives \in SUBSET CandleNumbers(FiveLen)
  BY ReplayAssumption DEF ReplayAssumption, BarSet, CandleNumbers
<1>2. Replayed(plan, bar, k, at, fillAt, cut, bar.ones, 1) =
         Replayed(plan, bar, k, at, fillAt, end, bar.ones, 1)
  BY <1>1, SameReplay
<1>3. Replayed(plan, bar, k, at, fillAt, cut, bar.fives, FiveLen) =
         Replayed(plan, bar, k, at, fillAt, end, bar.fives, FiveLen)
  BY <1>1, SameReplay
<1> QED
  BY <1>2, <1>3, HitForm

\* A run and one that ends just after the close of bar m.
Cut(m) == CloseOf(m) + 1

LEMMA CutBars ==
    ASSUME NEW market \in Seq(BarSet), NEW c \in Nat, NEW end \in Nat, NEW m \in Nat, Cut(m) <= end
    PROVE  /\ Cut(m) \in Nat /\ CloseOf(m) \in Nat /\ CloseOf(c) \in Nat
           /\ \A k \in Nat \ {0} : OpenOf(k) < CloseOf(m) => CloseOf(k) <= CloseOf(m)
           /\ Later(market, CloseOf(c), Cut(m)) =
                 {k \in Later(market, CloseOf(c), end) : CloseOf(k) <= CloseOf(m)}
           /\ EntryBars(market, CloseOf(c), Cut(m)) \subseteq EntryBars(market, CloseOf(c), end)
           /\ \A k \in EntryBars(market, CloseOf(c), end) :
                 OpenOf(k) < CloseOf(m) => k \in EntryBars(market, CloseOf(c), Cut(m))
<1> DEFINE at == CloseOf(c)
<1>1. CloseOf(m) \in Nat /\ at \in Nat /\ Cut(m) \in Nat /\ FillWait \in Nat
  BY ReplayAssumption DEF ReplayAssumption, CloseOf, Cut
<1>2. ASSUME NEW k \in Nat \ {0}, OpenOf(k) < CloseOf(m) PROVE CloseOf(k) <= CloseOf(m)
  <2>1. k <= m
    <3> SUFFICES ASSUME m < k PROVE FALSE
      OBVIOUS
    <3>1. CloseOf(m) <= OpenOf(k)
      BY BarOrder
    <3>2. OpenOf(k) \in Int
      BY BarOrder
    <3> QED
      BY <3>1, <3>2, <1>1, <1>2
  <2> QED
    BY <2>1, BarOrder
<1>3. \A k \in DOMAIN market : k \in Nat \ {0} /\ CloseOf(k) \in Int /\ OpenOf(k) \in Int
                                /\ OpenOf(k) < CloseOf(k)
  BY Bars, BarOrder
<1>4. Later(market, at, Cut(m)) = {k \in Later(market, at, end) : CloseOf(k) <= CloseOf(m)}
  <2>1. ASSUME NEW k \in DOMAIN market
        PROVE  CloseOf(k) < Cut(m) <=> CloseOf(k) < end /\ CloseOf(k) <= CloseOf(m)
    BY <1>1, <1>3 DEF Cut
  <2> QED
    BY <2>1 DEF Later
<1>5. \A k \in Later(market, at, end) : k \in DOMAIN market /\ CloseOf(k) < end
  BY DEF Later
<1> HIDE DEF at
<1>6. ASSUME NEW k \in EntryBars(market, at, Cut(m)) PROVE k \in EntryBars(market, at, end)
  <2>1. k \in Later(market, at, end) /\ OpenOf(k) >= at
    BY <1>4 DEF EntryBars
  <2>2. IF Cut(m) <= at + FillWait THEN OpenOf(k) < Cut(m) ELSE OpenOf(k) <= at + FillWait
    BY DEF EntryBars
  <2>3. IF end <= at + FillWait THEN OpenOf(k) < end ELSE OpenOf(k) <= at + FillWait
    BY <1>1, <1>3, <1>5, <2>1, <2>2
  <2> QED
    BY <2>1, <2>3 DEF EntryBars
<1>7. ASSUME NEW k \in EntryBars(market, at, end), OpenOf(k) < CloseOf(m)
      PROVE  k \in EntryBars(market, at, Cut(m))
  <2>1. k \in Later(market, at, end) /\ OpenOf(k) >= at
    BY DEF EntryBars
  <2>2. IF end <= at + FillWait THEN OpenOf(k) < end ELSE OpenOf(k) <= at + FillWait
    BY DEF EntryBars
  <2>3. k \in Later(market, at, Cut(m))
    BY <1>2, <1>3, <1>4, <1>5, <1>7, <2>1
  <2>4. IF Cut(m) <= at + FillWait THEN OpenOf(k) < Cut(m) ELSE OpenOf(k) <= at + FillWait
    BY <1>1, <1>3, <1>5, <1>7, <2>1, <2>2 DEF Cut
  <2> QED
    BY <2>1, <2>3, <2>4 DEF EntryBars
<1> QED
  BY <1>1, <1>2, <1>4, <1>6, <1>7 DEF at

\* The two runs enter on the same bar, if it closes before both ends.
LEMMA CutEntry ==
    ASSUME NEW market \in Seq(BarSet), NEW c \in Nat, NEW end \in Nat, NEW m \in Nat, Cut(m) <= end,
           EntryBars(market, CloseOf(c), end) # {},
           EnteredAt(market, CloseOf(c), end) < CloseOf(m)
    PROVE  /\ EntryBars(market, CloseOf(c), Cut(m)) # {}
           /\ EntryOf(market, CloseOf(c), Cut(m)) = EntryOf(market, CloseOf(c), end)
<1> DEFINE at == CloseOf(c)
           first == EntryOf(market, at, end)
           early == EntryOf(market, at, Cut(m))
<1>1. first \in EntryBars(market, at, end) /\ \A k \in EntryBars(market, at, end) : first <= k
  BY EntryIs
<1>2. first \in EntryBars(market, at, Cut(m))
  BY <1>1, CutBars DEF EnteredAt
<1>3. Cut(m) \in Nat
  BY CutBars
<1>4. early \in EntryBars(market, at, Cut(m)) /\ \A k \in EntryBars(market, at, Cut(m)) : early <= k
  BY <1>2, <1>3, EntryIs
<1>5. early \in EntryBars(market, at, end)
  BY <1>4, CutBars
<1>6. first \in Nat /\ early \in Nat
  BY <1>1, <1>5, Bars DEF EntryBars, Later
<1>7. first <= early /\ early <= first
  BY <1>1, <1>2, <1>4, <1>5
<1> HIDE DEF first, early
<1>8. first = early
  BY <1>6, <1>7
<1> QED
  BY <1>2, <1>8 DEF first, early

\* The shorter run holds the position over the bars of the longer one that close before its end.
LEMMA CutHeld ==
    ASSUME NEW market \in Seq(BarSet), NEW c \in Nat, NEW end \in Nat, NEW m \in Nat, Cut(m) <= end,
           EntryBars(market, CloseOf(c), end) # {},
           EnteredAt(market, CloseOf(c), end) < CloseOf(m)
    PROVE  HeldBars(market, CloseOf(c), Cut(m)) =
              {k \in HeldBars(market, CloseOf(c), end) : CloseOf(k) <= CloseOf(m)}
<1> DEFINE at == CloseOf(c)
           O == OpenBars(market, at, end)
           P == OpenBars(market, at, Cut(m))
<1>1. EnteredAt(market, at, Cut(m)) = EnteredAt(market, at, end)
  BY CutEntry DEF EnteredAt
<1>2. PICK e \in Int, held \in Int : /\ e = EnteredAt(market, at, end)
                                    /\ held = e + HorizonBars * BarLen
  <2>1. EnteredAt(market, at, end) \in Int
    <3>1. PICK k \in Int : k = EntryOf(market, at, end)
      BY EntryIs
    <3> QED
      BY <3>1, BarOrder DEF EnteredAt
  <2>2. HorizonBars * BarLen \in Int
    BY ReplayAssumption DEF ReplayAssumption
  <2> QED
    BY <2>1, <2>2
<1>3. /\ LimitOf(market, at, end) = (IF held > end THEN end ELSE held)
      /\ LimitOf(market, at, Cut(m)) = (IF held > Cut(m) THEN Cut(m) ELSE held)
  BY <1>1, <1>2 DEF LimitOf
<1>4. Cut(m) \in Nat /\ CloseOf(m) \in Nat /\ Cut(m) = CloseOf(m) + 1
  BY CutBars DEF Cut
<1>5. \A k \in DOMAIN market : k \in Nat \ {0} /\ CloseOf(k) \in Int /\ OpenOf(k) \in Int
                                /\ OpenOf(k) < CloseOf(k)
  BY Bars, BarOrder
<1>6. P = {k \in O : CloseOf(k) <= CloseOf(m)}
  <2>1. ASSUME NEW k \in DOMAIN market, CloseOf(k) <= CloseOf(m), CloseOf(k) < end
        PROVE  OpenOf(k) < LimitOf(market, at, end) <=> OpenOf(k) < LimitOf(market, at, Cut(m))
    BY <1>3, <1>4, <1>5, <2>1
  <2>2. Later(market, at, Cut(m)) = {k \in Later(market, at, end) : CloseOf(k) <= CloseOf(m)}
    BY CutBars
  <2>3. \A k \in Later(market, at, end) : k \in DOMAIN market /\ CloseOf(k) < end
    BY DEF Later
  <2>4. \A k : k \in P <=> /\ k \in Later(market, at, Cut(m)) /\ CloseOf(k) >= e
                           /\ OpenOf(k) < LimitOf(market, at, Cut(m))
    BY <1>1, <1>2 DEF OpenBars
  <2>5. \A k : k \in O <=> /\ k \in Later(market, at, end) /\ CloseOf(k) >= e
                           /\ OpenOf(k) < LimitOf(market, at, end)
    BY <1>2 DEF OpenBars
  <2> HIDE DEF P, O, at
  <2>6. \A k : k \in P <=> k \in O /\ CloseOf(k) <= CloseOf(m)
    BY <2>1, <2>2, <2>3, <2>4, <2>5
  <2> QED
    BY <2>6
<1>7. \A k \in O : k \in Nat
  BY HeldAreBars, Bars
<1> HIDE DEF O, P
<1>8. ASSUME NEW k \in P PROVE {j \in P : j < k} = {j \in O : j < k}
  <2>1. ASSUME NEW j \in O, j < k PROVE j \in P
    <3>1. j \in Nat /\ k \in Nat /\ CloseOf(k) <= CloseOf(m)
      BY <1>6, <1>7
    <3>2. CloseOf(j) <= CloseOf(k) /\ CloseOf(j) \in Int /\ CloseOf(k) \in Int
      BY <2>1, <3>1, BarOrder
    <3> QED
      BY <3>1, <3>2, <1>4, <1>6
  <2> QED
    BY <2>1, <1>6
<1>9. HeldBars(market, at, Cut(m)) = {k \in P : Cardinality({j \in P : j < k}) < HorizonBars}
  BY DEF HeldBars, P
<1>10. HeldBars(market, at, end) = {k \in O : Cardinality({j \in O : j < k}) < HorizonBars}
  BY DEF HeldBars, O
<1>11. \A k : k \in HeldBars(market, at, Cut(m)) <=>
                k \in HeldBars(market, at, end) /\ CloseOf(k) <= CloseOf(m)
  <2> HIDE DEF at
  <2> TAKE k
  <2>1. CASE k \in P
    BY <2>1, <1>6, <1>8, <1>9, <1>10
  <2>2. CASE k \notin P
    BY <2>2, <1>6, <1>9, <1>10
  <2> QED
    BY <2>1, <2>2
<1> QED
  BY <1>11

Labels == {"outcome", "fillAt", "fill", "exitAt", "exit"}

\* What a trade that depends on nothing beyond a bar is labelled, it is labelled by a run that
\* ends with that bar.
LEMMA CutTrade ==
    ASSUME NEW market \in Seq(BarSet), NEW c \in Nat, NEW s, NEW end \in Nat, NEW m \in Nat,
           Cut(m) <= end, ~(Trade(market, CloseOf(c), s, end).depEnd >= CloseOf(m)),
           NEW label \in Labels
    PROVE  Trade(market, CloseOf(c), s, Cut(m))[label] = Trade(market, CloseOf(c), s, end)[label]
<1> DEFINE at == CloseOf(c)
           t == Trade(market, at, s, end)
           u == Trade(market, at, s, Cut(m))
           plan == PlanFor(s)
           hits == HitsOf(market, at, s, end)
           cuts == HitsOf(market, at, s, Cut(m))
           f == FilledTrade(market, at, s, end)
           g == FilledTrade(market, at, s, Cut(m))
<1>1. CASE ~plan.valid
  <2>1. t = Unfilled(s, at, "SKIPPED", at) /\ u = Unfilled(s, at, "SKIPPED", at)
    BY <1>1, TradeIs
  <2> QED
    BY <2>1
<1>2. CASE plan.valid /\ EntryBars(market, at, end) = {}
  <2>1. EntryBars(market, at, Cut(m)) = {}
    BY <1>2, CutBars
  <2>2. t = Unfilled(s, at, "NO_FILL", Deadline(at, end))
        /\ u = Unfilled(s, at, "NO_FILL", Deadline(at, Cut(m)))
    BY <1>2, <2>1, TradeIs
  <2>3. \A d, e : Unfilled(s, at, "NO_FILL", d)[label] = Unfilled(s, at, "NO_FILL", e)[label]
    BY DEF Unfilled, Labels
  <2> QED
    BY <2>2, <2>3
<1>3. CASE plan.valid /\ EntryBars(market, at, end) # {}
  <2>1. /\ DOMAIN f = TradeFields /\ f.fillAt = EnteredAt(market, at, end) /\ f.exitAt = Absent
        /\ f.outcome = "ENTRY_INVALIDATED_STALE_RISK_PLAN" /\ f.exit = Absent
        /\ f.fill = FillOf(market, at, s, end) /\ f.depEnd = EnteredAt(market, at, end)
    BY FilledFields
  <2>2. /\ DOMAIN g = TradeFields /\ g.fillAt = EnteredAt(market, at, Cut(m)) /\ g.exitAt = Absent
        /\ g.outcome = "ENTRY_INVALIDATED_STALE_RISK_PLAN" /\ g.exit = Absent
        /\ g.fill = FillOf(market, at, s, Cut(m))
    BY FilledFields
  <2>3. /\ CloseOf(m) \in Nat /\ Cut(m) \in Nat /\ Cut(m) = CloseOf(m) + 1 /\ at \in Nat
        /\ \A k \in Nat \ {0} : OpenOf(k) < CloseOf(m) => CloseOf(k) <= CloseOf(m)
    BY CutBars DEF Cut
  <2> DEFINE first == EntryOf(market, at, end)
             fillAt == EnteredAt(market, at, end)
  <2>4. first \in Nat \ {0} /\ first \in EntryBars(market, at, end) /\ fillAt = OpenOf(first)
        /\ \A k \in Later(market, at, end) : CloseOf(k) >= OpenOf(first) => first <= k
    BY <1>3, EntryIs DEF EnteredAt
  <2>5. fillAt \in Int /\ CloseOf(first) \in Int /\ fillAt < CloseOf(first)
    BY <2>4, BarOrder
  <2>6. ASSUME fillAt < CloseOf(m)
        PROVE  /\ EntryBars(market, at, Cut(m)) # {} /\ EnteredAt(market, at, Cut(m)) = fillAt
               /\ FillOf(market, at, s, Cut(m)) = FillOf(market, at, s, end)
               /\ HeldBars(market, at, Cut(m)) = {k \in HeldBars(market, at, end) : CloseOf(k) <= CloseOf(m)}
    BY <1>3, <2>6, CutEntry, CutHeld DEF EnteredAt, FillOf
  <2>7. CASE StaleFill(plan, FillOf(market, at, s, end))
    <3>1. t = f
      BY <1>3, <2>7, TradeIs
    <3>2. fillAt < CloseOf(m)
      BY <2>1, <2>3, <2>5, <3>1
    <3>3. u = g
      BY <1>3, <2>6, <2>7, <3>2, TradeIs
    <3> HIDE DEF t, u, f, g, fillAt
    <3> QED
      BY <2>1, <2>2, <2>6, <3>1, <3>2, <3>3 DEF Labels, fillAt, t, u
  <2>8. CASE ~StaleFill(plan, FillOf(market, at, s, end))
    <3>1. t = Settled(f, plan, market, hits, LimitOf(market, at, end))
      BY <1>3, <2>8, TradeIs
    <3>2. ASSUME fillAt < CloseOf(m)
          PROVE  u = Settled(g, plan, market, cuts, LimitOf(market, at, Cut(m)))
      BY <1>3, <2>6, <2>8, <3>2, TradeIs
    <3>3. DOMAIN hits = HeldBars(market, at, end) /\ DOMAIN cuts = HeldBars(market, at, Cut(m))
      BY DEF HitsOf
    <3>4. \A k \in HeldBars(market, at, end) :
             /\ k \in Nat \ {0} /\ k \in Later(market, at, end) /\ CloseOf(k) < end
             /\ CloseOf(k) >= fillAt /\ market[k] \in BarSet /\ CloseOf(k) \in Int
      <4> TAKE k \in HeldBars(market, at, end)
      <4>1. k \in OpenBars(market, at, end)
        BY HeldAreBars
      <4>2. k \in Later(market, at, end) /\ CloseOf(k) >= fillAt
        BY <4>1 DEF OpenBars
      <4>3. k \in DOMAIN market /\ CloseOf(k) < end
        BY <4>2 DEF Later
      <4>4. k \in Nat \ {0} /\ market[k] \in BarSet
        BY <4>3, Bars
      <4>5. CloseOf(k) \in Int
        BY <4>4, BarOrder
      <4> QED
        BY <4>2, <4>3, <4>4, <4>5
    <3>5. ASSUME fillAt < CloseOf(m), NEW k \in HeldBars(market, at, Cut(m))
          PROVE  k \in HeldBars(market, at, end) /\ cuts[k] = hits[k]
      <4>1. k \in HeldBars(market, at, end) /\ CloseOf(k) <= CloseOf(m) /\ k \in Nat \ {0}
            /\ CloseOf(k) < end /\ market[k] \in BarSet /\ CloseOf(k) \in Int
        BY <2>6, <3>4, <3>5
      <4>2. CloseOf(k) < Cut(m)
        BY <2>3, <4>1
      <4>3. BarHit(plan, market[k], k, at, fillAt, Cut(m)) = BarHit(plan, market[k], k, at, fillAt, end)
        BY <2>3, <4>1, <4>2, SameHit
      <4> QED
        BY <2>6, <3>5, <4>1, <4>3 DEF HitsOf
    <3> DEFINE over == Over(hits)
               last == EndedBy(hits)
               limit == LimitOf(market, at, end)
    <3>6. /\ t.fillAt = f.fillAt /\ t.fill = f.fill
          /\ over = {} => /\ t.outcome = "UNRESOLVED" /\ t.depEnd = limit
                          /\ t.exitAt = f.exitAt /\ t.exit = f.exit
          /\ over # {} => /\ t.outcome = hits[last].hit /\ t.exitAt = hits[last].at
                          /\ t.depEnd = hits[last].at
                          /\ t.exit = IF hits[last].hit = "TP1_FIRST" THEN plan.tp1
                                      ELSE IF hits[last].hit = "SL_FIRST" THEN plan.stop
                                      ELSE f.fill
      BY <2>1, <3>1, SettledFields
    <3>7. ASSUME fillAt < CloseOf(m)
          PROVE  /\ u.fillAt = g.fillAt /\ u.fill = g.fill
                 /\ Over(cuts) = {} => /\ u.outcome = "UNRESOLVED"
                                       /\ u.exitAt = g.exitAt /\ u.exit = g.exit
                 /\ Over(cuts) # {} =>
                      /\ u.outcome = cuts[EndedBy(cuts)].hit /\ u.exitAt = cuts[EndedBy(cuts)].at
                      /\ u.exit = IF cuts[EndedBy(cuts)].hit = "TP1_FIRST" THEN plan.tp1
                                  ELSE IF cuts[EndedBy(cuts)].hit = "SL_FIRST" THEN plan.stop
                                  ELSE g.fill
      BY <2>2, <3>2, <3>7, SettledFields
    <3>8. ASSUME fillAt < CloseOf(m), NEW k \in Over(cuts) PROVE k \in over /\ cuts[k] = hits[k]
      BY <3>3, <3>5, <3>8 DEF Over
    <3>9. CASE over = {}
      <4>1. fillAt < CloseOf(m)
        <5>1. fillAt < limit /\ limit \in Int
          <6>1. CloseOf(first) < end
            BY <2>4 DEF EntryBars, Later
          <6>2. HorizonBars * BarLen \in Int /\ HorizonBars * BarLen > 0
            BY ReplayAssumption DEF ReplayAssumption
          <6> HIDE DEF fillAt, first
          <6>3. limit = (IF fillAt + HorizonBars * BarLen > end THEN end ELSE fillAt + HorizonBars * BarLen)
            BY DEF LimitOf, fillAt
          <6> QED
            BY <2>5, <6>1, <6>2, <6>3
        <5>2. t.depEnd = limit
          BY <3>6, <3>9
        <5> HIDE DEF t, limit, fillAt
        <5>3. ~(limit >= CloseOf(m))
          BY <5>2 DEF t
        <5> QED
          BY <2>3, <2>5, <5>1, <5>3
      <4>2. Over(cuts) = {}
        BY <3>8, <3>9, <4>1
      <4> HIDE DEF t, u, f, g, fillAt, hits, cuts, limit
      <4> QED
        BY <2>1, <2>2, <2>6, <3>6, <3>7, <3>9, <4>1, <4>2 DEF Labels, t, u, fillAt
    <3>10. CASE over # {}
      <4>1. over \in SUBSET Nat
        BY <3>3, <3>4 DEF Over
      <4>2. last \in over /\ \A k \in over : last <= k
        BY <3>10, <4>1, LeastIs DEF EndedBy
      <4>3. last \in HeldBars(market, at, end) /\ hits[last] # Absent
        BY <3>3, <4>2 DEF Over
      <4>4. OpenOf(last) < hits[last].at /\ hits[last].at \in Int /\ OpenOf(last) \in Int
        <5>1. PICK h : h = hits[last] /\ h = BarHit(plan, market[last], last, at, fillAt, end)
          BY <4>3 DEF HitsOf
        <5>2. last \in Nat \ {0} /\ market[last] \in BarSet /\ at \in Int /\ h # Absent
          BY <2>3, <3>4, <4>3, <5>1
        <5>3. h \in HitSet /\ OpenOf(last) < h.at
          BY <2>5, <5>1, <5>2, HitPlace
        <5> QED
          BY <5>1, <5>2, <5>3, BarOrder DEF HitSet
      <4>5. first <= last
        BY <2>4, <3>4, <4>3
      <4>6. OpenOf(first) <= OpenOf(last)
        <5>1. /\ CloseOf(first) <= CloseOf(last) /\ OpenOf(first) = CloseOf(first) - BarLen
              /\ CloseOf(first) \in Int
          BY <2>4, <3>4, <4>3, <4>5, BarOrder
        <5>2. OpenOf(last) = CloseOf(last) - BarLen /\ CloseOf(last) \in Int
          BY <3>4, <4>3, BarOrder
        <5> QED
          BY <5>1, <5>2, ReplayAssumption DEF ReplayAssumption
      <4>7. hits[last].at < CloseOf(m)
        <5>1. t.depEnd = hits[last].at
          BY <3>6, <3>10
        <5> HIDE DEF t, hits, last
        <5>2. ~(hits[last].at >= CloseOf(m))
          BY <5>1 DEF t
        <5> QED
          BY <2>3, <4>4, <5>2
      <4>8. fillAt < CloseOf(m) /\ CloseOf(last) <= CloseOf(m)
        <5>1. fillAt < CloseOf(m) /\ OpenOf(last) < CloseOf(m)
          BY <2>3, <2>4, <2>5, <4>4, <4>6, <4>7
        <5> QED
          BY <2>3, <3>4, <4>3, <5>1
      <4>9. last \in HeldBars(market, at, Cut(m)) /\ cuts[last] = hits[last]
        BY <2>6, <3>5, <4>3, <4>8
      <4>10. last \in Over(cuts)
        BY <3>3, <4>3, <4>9 DEF Over
      <4>11. EndedBy(cuts) = last
        <5>1. Over(cuts) \in SUBSET Nat /\ Over(cuts) # {}
          BY <3>8, <4>1, <4>8, <4>10
        <5>2. EndedBy(cuts) \in Over(cuts) /\ \A k \in Over(cuts) : EndedBy(cuts) <= k
          BY <5>1, LeastIs DEF EndedBy
        <5>3. EndedBy(cuts) \in over
          BY <3>8, <4>8, <5>2
        <5>4. EndedBy(cuts) <= last /\ last <= EndedBy(cuts) /\ last \in Nat /\ EndedBy(cuts) \in Nat
          BY <4>1, <4>2, <4>10, <5>2, <5>3
        <5> HIDE DEF last, cuts
        <5> QED
          BY <5>4
      <4> HIDE DEF t, u, f, g, fillAt, hits, cuts, last, over
      <4>12. Over(cuts) # {}
        BY <4>10
      <4> QED
        BY <2>1, <2>2, <2>6, <3>6, <3>7, <3>10, <4>8, <4>9, <4>11, <4>12 DEF Labels, t, u, fillAt
    <3> QED
      BY <3>9, <3>10
  <2> QED
    BY <2>7, <2>8
<1> QED
  BY <1>1, <1>2, <1>3

-----------------------------------------------------------------------------
(* Folds. *)

\* What a fold trains and validates on ends before the run does.
LEMMA WindowsEnd ==
    ASSUME NEW c \in Configs, NEW i \in 1..c.folds, NEW total \in Nat
    PROVE  LET w == FoldWindows(c, i, total)
           IN  /\ w.train[2] \in Nat /\ (w.train[2] > 0 => w.train[2] < total)
               /\ w.val[2] \in Nat /\ (w.val[2] > 0 => w.val[2] < total)
<1>1. /\ c.folds \in Nat \ {0} /\ c.train \in Nat \ {0} /\ c.val \in Nat /\ c.oos \in Nat \ {0}
      /\ c.train + c.val + c.oos = 100
  BY ReplayAssumption DEF ReplayAssumption
<1>2. PICK tr \in Nat, vl \in Nat, oo \in Nat : tr = c.train /\ vl = c.val /\ oo = c.oos
  BY <1>1
<1>3. PICK x, y, z \in Nat : x = total * tr /\ y = total * vl /\ z = total * oo
  OBVIOUS
<1>4. x + y + z = 100 * total
  <2>1. total * tr + total * vl + total * oo = total * (tr + vl + oo)
    OBVIOUS
  <2>2. tr + vl + oo = 100
    BY <1>1, <1>2
  <2> QED
    BY <1>3, <2>1, <2>2
<1>5. z >= total
  <2>1. oo - 1 \in Nat
    BY <1>1, <1>2
  <2>2. total * (oo - 1) \in Nat /\ total * oo = total * (oo - 1) + total
    BY <2>1
  <2> QED
    BY <1>3, <2>2
<1>6. PICK a, v, o \in Nat : a = x \div 100 /\ v = y \div 100 /\ o = z \div 100
  BY <1>3, Division
<1>7. 100 * a <= x /\ 100 * v <= y /\ 100 * o <= z
  <2>1. x = 100 * (x \div 100) + (x % 100) /\ x % 100 \in 0..(100 - 1)
    BY Division
  <2>2. y = 100 * (y \div 100) + (y % 100) /\ y % 100 \in 0..(100 - 1)
    BY Division
  <2>3. z = 100 * (z \div 100) + (z % 100) /\ z % 100 \in 0..(100 - 1)
    BY Division
  <2> QED
    BY <1>6, <2>1, <2>2, <2>3
<1>8. PICK f \in Nat \ {0} : f = c.folds
  BY <1>1
<1>9. PICK d \in Nat : d = o \div f /\ f * d <= o
  <2>1. /\ o \div f \in Nat /\ o % f \in 0..(f - 1)
        /\ o = f * (o \div f) + (o % f)
    BY Division
  <2> QED
    BY <2>1
<1>10. PICK e \in Nat : e = d * (i - 1) /\ e + d <= o
  <2>1. i - 1 \in Nat /\ f - i \in Nat /\ i \in Nat
    BY <1>8
  <2>2. d * (i - 1) \in Nat /\ d * (f - i) \in Nat
    BY <2>1
  <2>3. f * d = d * (i - 1) + d + d * (f - i)
    BY <2>1
  <2> QED
    BY <1>9, <2>2, <2>3
<1>11. /\ FoldWindows(c, i, total).train[2] = a + e
       /\ FoldWindows(c, i, total).val[2] = a + e + v
  BY <1>2, <1>3, <1>6, <1>8, <1>9, <1>10 DEF FoldWindows
<1>12. a + e + v > 0 => a + e + v < total
  <2>1. CASE d >= 1
    BY <1>4, <1>7, <1>10, <2>1
  <2>2. CASE d = 0
    <3>1. e = 0
      BY <1>10, <2>2
    <3> QED
      BY <1>4, <1>5, <1>7, <3>1
  <2> QED
    BY <2>1, <2>2
<1> QED
  BY <1>11, <1>12

\* A trade a purged segment keeps ends inside it, so the same candidate in a run that ends
\* with the segment gets the same labels.
LEMMA KeptStands ==
    ASSUME ReplayInv, NEW window, window[2] \in Nat, window[2] > 0 => window[2] < runEnd,
           window[2] % BarLen = 0, NEW i \in Kept(window, TRUE), NEW label \in Labels
    PROVE  Trade(tape, trades[i].at, trades[i].setup, window[2] + 1)[label] = trades[i][label]
<1>1. i \in DOMAIN trades /\ trades[i].at < window[2] /\ ~(trades[i].depEnd >= window[2])
  BY DEF Kept
<1>2. PICK c \in Nat, s \in Setups : trades[i] = Trade(tape, CloseOf(c), s, runEnd)
  BY <1>1 DEF ReplayInv, AllTrades
<1>3. trades[i].at = CloseOf(c) /\ trades[i].setup = s
  BY <1>2, TradeKeeps
<1>4. tape \in Seq(BarSet) /\ runEnd \in Nat /\ BarLen \in Nat \ {0}
  BY ReplayAssumption DEF ReplayInv, ReplayAssumption
<1>5. PICK m \in Nat : window[2] = CloseOf(m)
  <2>1. PICK w \in Nat : w = window[2]
    OBVIOUS
  <2>2. w \div BarLen \in Nat /\ w = BarLen * (w \div BarLen) + (w % BarLen)
    BY <1>4, Division
  <2>3. PICK q \in Nat : q = w \div BarLen
    BY <2>2
  <2>4. w = q * BarLen
    BY <1>4, <2>1, <2>2, <2>3
  <2> QED
    BY <2>1, <2>4 DEF CloseOf
<1>6. CloseOf(c) \in Nat /\ window[2] > 0
  <2>1. CloseOf(c) \in Nat
    BY <1>4 DEF CloseOf
  <2> QED
    BY <1>1, <1>3, <2>1
<1>7. Cut(m) <= runEnd /\ Cut(m) = window[2] + 1
  BY <1>4, <1>5, <1>6 DEF Cut
<1>8. ~(Trade(tape, CloseOf(c), s, runEnd).depEnd >= CloseOf(m))
  BY <1>1, <1>2, <1>5
<1>9. Trade(tape, CloseOf(c), s, Cut(m))[label] = Trade(tape, CloseOf(c), s, runEnd)[label]
  BY <1>4, <1>7, <1>8, CutTrade
<1> QED
  BY <1>2, <1>3, <1>7, <1>9

\* What a purged walk-forward run trains and validates on owes nothing to a later price.
THEOREM LabelsAreOwned == ReplaySpec => []LabelsOwnTheirPast
<1>1. ReplayInv => LabelsOwnTheirPast
  <2> SUFFICES ASSUME ReplayInv, report # Absent, report.config.purge,
                      NEW j \in DOMAIN report.folds
               PROVE  LET fold == report.folds[j]
                          stands(kept, until) ==
                              until % BarLen = 0 =>
                                  \A i \in kept : \A label \in Labels :
                                      Trade(tape, trades[i].at, trades[i].setup, until + 1)[label]
                                      = trades[i][label]
                      IN  /\ stands(fold.train, fold.windows.train[2])
                          /\ stands(fold.val, fold.windows.val[2])
    BY Zenon DEF LabelsOwnTheirPast, Labels
  <2>1. PICK c \in Configs : c = report.config
    BY DEF ReplayInv
  <2>2. j \in 1..c.folds /\ report.folds[j] = FoldOf(c, j) /\ c.purge = TRUE
    <3>1. c.purge \in BOOLEAN
      BY ReplayAssumption DEF ReplayAssumption
    <3> QED
      BY <2>1, <3>1 DEF ReplayInv
  <2> DEFINE w == FoldWindows(c, j, runEnd)
  <2>3. /\ report.folds[j].windows = w
        /\ report.folds[j].train = Kept(w.train, TRUE)
        /\ report.folds[j].val \subseteq Kept(w.val, TRUE)
    <3>1. report.folds[j] = [windows |-> w, train |-> Kept(w.train, c.purge),
                             val |-> IF c.val = 0 THEN {} ELSE Kept(w.val, c.purge),
                             oos |-> Kept(w.oos, c.purge)]
      BY <2>2 DEF FoldOf
    <3> HIDE DEF w
    <3>2. (IF c.val = 0 THEN {} ELSE Kept(w.val, c.purge)) \subseteq Kept(w.val, TRUE)
      BY <2>2
    <3>3. /\ report.folds[j].windows = w
          /\ report.folds[j].train = Kept(w.train, c.purge)
          /\ report.folds[j].val = (IF c.val = 0 THEN {} ELSE Kept(w.val, c.purge))
      BY <3>1
    <3> QED
      BY <2>2, <3>2, <3>3
  <2>4. runEnd \in Nat
    BY ReplayAssumption DEF ReplayInv, ReplayAssumption
  <2>5. /\ w.train[2] \in Nat /\ (w.train[2] > 0 => w.train[2] < runEnd)
        /\ w.val[2] \in Nat /\ (w.val[2] > 0 => w.val[2] < runEnd)
    BY <2>2, <2>4, WindowsEnd
  <2> HIDE DEF w
  <2>6. ASSUME w.train[2] % BarLen = 0, NEW i \in Kept(w.train, TRUE), NEW label \in Labels
        PROVE  Trade(tape, trades[i].at, trades[i].setup, w.train[2] + 1)[label] = trades[i][label]
    BY <2>5, <2>6, KeptStands
  <2>7. ASSUME w.val[2] % BarLen = 0, NEW i \in Kept(w.val, TRUE), NEW label \in Labels
        PROVE  Trade(tape, trades[i].at, trades[i].setup, w.val[2] + 1)[label] = trades[i][label]
    BY <2>5, <2>7, KeptStands
  <2> QED
    BY <2>3, <2>6, <2>7
<1> QED
  BY <1>1, ReplayStarts, ReplaySteps, PTL DEF ReplaySpec

-----------------------------------------------------------------------------
(* CandidateScore.                                                         *)

\* What the two scripts say of a replay.
ScoresOf(ts, base) ==
    [whole |-> WholeFigures(ts), long |-> SideOfWhole(ts, "LONG"), short |-> SideOfWhole(ts, "SHORT"),
     qualified |-> Qualified(ts, CeilingOver(WholeFigures(base).mdd)),
     longAlone |-> SideAlone(ts, "LONG"), shortAlone |-> SideAlone(ts, "SHORT"),
     composite |-> CompositeQualified(ts)]

ScoreInv == replay \in Replays /\ (scores = <<>> \/ scores = ScoresOf(replay, baseline))

LEMMA ScoreInvHolds == ScoreSpec => []ScoreInv
<1>1. ScoreInit => ScoreInv
  BY DEF ScoreInit, ScoreInv
<1>2. ScoreInv /\ [ScoreReplay]_scoreVars => ScoreInv'
  <2> SUFFICES ASSUME ScoreInv, [ScoreReplay]_scoreVars PROVE ScoreInv'
    OBVIOUS
  <2>1. CASE ScoreReplay
    <3>1. scores' = ScoresOf(replay, baseline) /\ replay' = replay /\ baseline' = baseline
      BY <2>1, Zenon DEF ScoreReplay, ScoresOf
    <3> QED
      BY <3>1, Zenon DEF ScoreInv
  <2>2. CASE UNCHANGED scoreVars
    BY <2>2, Zenon DEF scoreVars, ScoreInv
  <2> QED
    BY <2>1, <2>2
<1> QED
  BY <1>1, <1>2, PTL DEF ScoreSpec

\* Genuine trades of a side, of those a condition lets through first.
LEMMA SideOfSelected ==
    ASSUME NEW T, NEW ts \in Seq(T), NEW S, NEW side
    PROVE  OnSide(GenuineIn(Having(ts, S)), side)
           = Having(Having(ts, {t \in ToSet(ts) : Genuine(t) /\ t.side = side}), S)
<1> DEFINE h == Having(ts, S)
           g == GenuineIn(h)
           G == {t \in ToSet(h) : Genuine(t)}
           O == {t \in ToSet(g) : t.side = side}
           B == {t \in ToSet(ts) : Genuine(t) /\ t.side = side}
<1>1. h \in Seq(T) /\ ToSet(h) = ToSet(ts) \cap S
  BY HavingSeq
<1>2. g = Having(h, G) /\ OnSide(g, side) = Having(g, O)
  BY DEF GenuineIn, OnSide
<1> HIDE DEF h
<1>3. g \in Seq(T) /\ ToSet(g) = ToSet(h) \cap G
  BY <1>1, <1>2, HavingSeq
<1> HIDE DEF g
<1>4. OnSide(g, side) = Having(h, G \cap O)
  <2> HIDE DEF G, O
  <2> QED
    BY <1>1, <1>2, HavingTwice
<1>5. OnSide(g, side) = Having(ts, S \cap (G \cap O))
  BY <1>4, HavingTwice DEF h
<1>6. Having(Having(ts, B), S) = Having(ts, B \cap S)
  BY HavingTwice
<1>7. S \cap (G \cap O) = B \cap S
  BY <1>1, <1>3
<1> QED
  BY <1>5, <1>6, <1>7 DEF g, h

\* The scripts filter and assign in a different order and come to the same trades.
LEMMA SidesAgree ==
    ASSUME NEW T, NEW ts \in Seq(T), NEW side
    PROVE  SideOfWhole(ts, side) = SideAlone(ts, side)
<1> DEFINE B == {t \in ToSet(ts) : Genuine(t) /\ t.side = side}
           chosen == Having(ts, B)
<1>1. chosen \in Seq(T) /\ ToSet(chosen) \subseteq ToSet(ts)
  BY HavingSeq
<1>2. \A S : OnSide(GenuineIn(Having(ts, S)), side) = Having(chosen, S)
  BY SideOfSelected
<1> HIDE DEF B, chosen
<1>3. OnSide(FilledIn(ts), side) = Unique(chosen)
  <2> DEFINE U(s) == {t \in ToSet(s) : \E f \in DOMAIN ValFolds : InFold(t, f)}
  <2>1. OnSide(FilledIn(ts), side) = Having(chosen, U(ts))
    BY <1>2 DEF FilledIn, Unique
  <2>2. ToSet(chosen) \cap U(ts) = ToSet(chosen) \cap U(chosen)
    BY <1>1
  <2> HIDE DEF U
  <2>3. Having(chosen, U(ts)) = Having(chosen, U(chosen))
    BY <1>1, <2>2, HavingOnly
  <2> QED
    BY <2>1, <2>3 DEF Unique, U
<1>4. ASSUME NEW f \in DOMAIN ValFolds
      PROVE  OnSide(GenuineIn(OfFold(ts, f)), side) = OfFold(chosen, f)
  <2> DEFINE I(s) == {t \in ToSet(s) : InFold(t, f)}
  <2>1. OnSide(GenuineIn(OfFold(ts, f)), side) = Having(chosen, I(ts))
    BY <1>2 DEF OfFold
  <2>2. ToSet(chosen) \cap I(ts) = ToSet(chosen) \cap I(chosen)
    BY <1>1
  <2> HIDE DEF I
  <2>3. Having(chosen, I(ts)) = Having(chosen, I(chosen))
    BY <1>1, <2>2, HavingOnly
  <2> QED
    BY <2>1, <2>3 DEF OfFold, I
<1>5. SideByFold(ts, side) = [f \in DOMAIN ValFolds |-> OfFold(chosen, f)]
  BY <1>4 DEF SideByFold, FilledByFold
<1> DEFINE byFold == [f \in DOMAIN ValFolds |-> OfFold(chosen, f)]
<1>6. SideOfWhole(ts, side)
      = StatisticsOf(OnSide(FilledIn(ts), side), SideByFold(ts, side), AbsoluteScale(SideByFold(ts, side)))
  BY Zenon DEF SideOfWhole
<1>7. SideAlone(ts, side) = StatisticsOf(Unique(chosen), byFold, AbsoluteScale(byFold))
  BY Zenon DEF SideAlone, chosen, B
<1> HIDE DEF byFold
<1> QED
  BY <1>3, <1>5, <1>6, <1>7, Zenon DEF byFold

\* The sides the composite is chosen from are the sides of the calibration's ledger.
THEOREM SidesAreOne == ScoreSpec => []SidesAreCountedAlike
<1>1. ScoreInv => SidesAreCountedAlike
  <2> SUFFICES ASSUME ScoreInv, scores # <<>>
               PROVE  scores.long = scores.longAlone /\ scores.short = scores.shortAlone
    BY Zenon DEF SidesAreCountedAlike, Scored
  <2>1. scores = ScoresOf(replay, baseline) /\ replay \in Replays
    BY Zenon DEF ScoreInv
  <2>2. replay \in Seq(SimulatedTrades)
    BY <2>1, ScoreAssumption, Zenon DEF ScoreAssumption
  <2>3. /\ SideOfWhole(replay, "LONG") = SideAlone(replay, "LONG")
        /\ SideOfWhole(replay, "SHORT") = SideAlone(replay, "SHORT")
    BY <2>2, SidesAgree
  <2>4. /\ scores.long = SideOfWhole(replay, "LONG") /\ scores.longAlone = SideAlone(replay, "LONG")
        /\ scores.short = SideOfWhole(replay, "SHORT") /\ scores.shortAlone = SideAlone(replay, "SHORT")
    BY <2>1 DEF ScoresOf
  <2> QED
    BY <2>3, <2>4, Zenon
<1> QED
  BY <1>1, ScoreInvHolds, PTL

\* Of the original requirements the composite gives up the baseline's ceiling and the sign of
\* the mean, and no other.
THEOREM CompositeGivesUpLittle == ScoreSpec => []CompositeFallsShortOfBaseline
<1>1. ScoreInv => CompositeFallsShortOfBaseline
  <2> DEFINE whole == WholeFigures(replay)
             ceiling == CeilingOver(WholeFigures(baseline).mdd)
             folds == FilledByFold(replay)
  <2> SUFFICES ASSUME ScoreInv, scores # <<>>, scores.composite, 100 * scores.whole.mdd <= ceiling,
                      ~(Mean(scores.whole.expectancies) < 0)
               PROVE  scores.qualified
    BY Zenon DEF CompositeFallsShortOfBaseline, Scored
  <2>1. scores = ScoresOf(replay, baseline)
    BY Zenon DEF ScoreInv
  <2>2. /\ scores.composite = CompositeQualified(replay) /\ scores.whole = whole
        /\ scores.qualified = Qualified(replay, ceiling)
    BY <2>1 DEF ScoresOf
  <2>3. whole.expectancies = Expectancies(folds)
    BY DEF WholeFigures, StatisticsOf
  <2>4. PlainScale(folds) = AbsoluteScale(folds)
    BY <2>2, <2>3, Zenon DEF PlainScale, AbsoluteScale, Magnitude
  <2>5. CompositeFigures(replay) = whole
    BY <2>4, Zenon DEF CompositeFigures, WholeFigures
  <2>6. /\ Enough(SideOfWhole(replay, "LONG"), SideOfWhole(replay, "SHORT"), whole)
        /\ whole.lcb > 0 /\ Steady(whole)
    BY <2>2, <2>5, Zenon DEF CompositeQualified
  <2> QED
    BY <2>2, <2>6, Zenon DEF Qualified
<1> QED
  BY <1>1, ScoreInvHolds, PTL

-----------------------------------------------------------------------------
(* The drawdown, by induction over the trades: if a figure was wrong after *)
(* some number of trades, it would be wrong after a least number of them.  *)

\* f is the account up to trade k.
IsAccount(f, k, rs) == f = [i \in 0..k |-> IF i = 0 THEN 0 ELSE f[i - 1] + rs[i]]

LEMMA AccountIs ==
    ASSUME NEW rs \in Seq(Int)
    PROVE  /\ IsAccount(Account(rs), Len(rs), rs)
           /\ \A k \in 0..Len(rs) : Account(rs)[k] \in Int
<1> DEFINE n == Len(rs)
           Bad == {k \in 0..n : ~\E f : IsAccount(f, k, rs)}
<1>1. n \in Nat /\ \A k \in 1..n : rs[k] \in Int
  OBVIOUS
<1>2. Bad = {}
  <2> SUFFICES ASSUME Bad # {} PROVE FALSE
    OBVIOUS
  <2>1. PICK k \in Bad : \A m \in Bad : k <= m
    <3>1. Bad \in SUBSET Nat
      OBVIOUS
    <3> HIDE DEF Bad
    <3> QED
      BY <3>1, LeastNumber
  <2>2. k # 0
    <3>1. IsAccount([i \in 0..0 |-> 0], 0, rs)
      BY DEF IsAccount
    <3> QED
      BY <3>1
  <2>3. k - 1 \in 0..n /\ k - 1 \notin Bad
    BY <1>1, <2>1, <2>2
  <2>4. PICK f : IsAccount(f, k - 1, rs)
    BY <2>3
  <2> DEFINE h == [i \in 0..k |-> IF i = k THEN f[k - 1] + rs[k] ELSE f[i]]
  <2>5. ASSUME NEW i \in 0..k PROVE h[i] = IF i = 0 THEN 0 ELSE h[i - 1] + rs[i]
    <3>1. k \in Nat /\ k > 0 /\ i \in Nat
      BY <2>1, <2>2
    <3>2. CASE i = k
      <4>1. k - 1 \in 0..k /\ k - 1 # k
        BY <3>1
      <4>2. h[k - 1] = f[k - 1] /\ h[i] = f[k - 1] + rs[k]
        BY <3>2, <4>1
      <4> QED
        BY <3>1, <3>2, <4>2
    <3>3. CASE i # k
      <4>1. i \in 0..(k - 1) /\ h[i] = f[i]
        BY <3>1, <3>3
      <4>2. f[i] = IF i = 0 THEN 0 ELSE f[i - 1] + rs[i]
        BY <2>4, <4>1 DEF IsAccount
      <4>3. i # 0 => i - 1 \in 0..k /\ i - 1 # k
        BY <3>1, <3>3
      <4>4. i # 0 => h[i - 1] = f[i - 1]
        BY <4>3
      <4> QED
        BY <4>1, <4>2, <4>4
    <3> QED
      BY <3>2, <3>3
  <2>6. h = [i \in 0..k |-> h[i]]
    OBVIOUS
  <2>7. IsAccount(h, k, rs)
    <3> HIDE DEF h
    <3> QED
      BY <2>5, <2>6 DEF IsAccount
  <2> QED
    BY <2>1, <2>7
<1>3. \E f : IsAccount(f, n, rs)
  BY <1>1, <1>2
<1>4. Account(rs) = CHOOSE f : IsAccount(f, n, rs)
  BY DEF Account, IsAccount
<1>5. IsAccount(Account(rs), n, rs)
  <2> HIDE DEF n
  <2> QED
    BY <1>3, <1>4, Zenon
<1> DEFINE a == Account(rs)
           Odd == {k \in 0..n : a[k] \notin Int}
<1>6. \A k \in 0..n : a[k] = IF k = 0 THEN 0 ELSE a[k - 1] + rs[k]
  BY <1>5 DEF IsAccount
<1> HIDE DEF a
<1>7. Odd = {}
  <2> SUFFICES ASSUME Odd # {} PROVE FALSE
    OBVIOUS
  <2>1. PICK k \in Odd : \A m \in Odd : k <= m
    <3>1. Odd \in SUBSET Nat
      OBVIOUS
    <3> HIDE DEF Odd
    <3> QED
      BY <3>1, LeastNumber
  <2>2. k # 0
    BY <1>6
  <2>3. k \in 1..n /\ k - 1 \in 0..n /\ k - 1 \notin Odd
    BY <1>1, <2>1, <2>2
  <2>4. a[k - 1] \in Int /\ rs[k] \in Int /\ a[k] = a[k - 1] + rs[k]
    BY <1>1, <1>6, <2>2, <2>3
  <2> QED
    BY <2>4
<1> QED
  BY <1>5, <1>7 DEF a

\* g is the fold over every part of the trades up to k.
IsFalling(g, k, rs) ==
    g = [s \in SUBSET (1..k) |-> IF s = {} THEN NoProfit ELSE WithProfit(g[s \ {Max(s)}], rs[Max(s)])]

Falling(rs) ==
    CHOOSE g : g = [s \in SUBSET (DOMAIN rs) |->
                        IF s = {} THEN NoProfit ELSE WithProfit(g[s \ {Max(s)}], rs[Max(s)])]

LEMMA DrawdownFalls ==
    ASSUME NEW rs
    PROVE  Drawdown(rs) = Falling(rs)[DOMAIN rs].worst
  BY DEF Drawdown, FoldLeft, MapThenFoldSet, Falling

LEMMA FallingIs ==
    ASSUME NEW rs \in Seq(Int)
    PROVE  IsFalling(Falling(rs), Len(rs), rs)
<1> DEFINE n == Len(rs)
           Bad == {k \in 0..n : ~\E g : IsFalling(g, k, rs)}
<1>1. n \in Nat /\ DOMAIN rs = 1..n
  OBVIOUS
<1>2. Bad = {}
  <2> SUFFICES ASSUME Bad # {} PROVE FALSE
    OBVIOUS
  <2>1. PICK k \in Bad : \A m \in Bad : k <= m
    <3>1. Bad \in SUBSET Nat
      OBVIOUS
    <3> HIDE DEF Bad
    <3> QED
      BY <3>1, LeastNumber
  <2>2. k # 0
    <3>1. 1..0 = {} /\ SUBSET (1..0) = {{}}
      OBVIOUS
    <3>2. IsFalling([s \in SUBSET (1..0) |-> NoProfit], 0, rs)
      BY <3>1 DEF IsFalling
    <3> QED
      BY <3>2
  <2>3. k \in Nat /\ k > 0 /\ k - 1 \in 0..n /\ k - 1 \notin Bad
    <3>1. k \in Nat /\ k > 0 /\ k - 1 \in 0..n /\ ~(k <= k - 1)
      BY <1>1, <2>1, <2>2
    <3> QED
      BY <2>1, <3>1
  <2>4. PICK g : IsFalling(g, k - 1, rs)
    BY <2>3
  <2> DEFINE h == [s \in SUBSET (1..k) |-> IF k \in s THEN WithProfit(g[s \ {k}], rs[k]) ELSE g[s]]
  <2>5. \A s \in SUBSET (1..k) : k \notin s => s \in SUBSET (1..(k - 1))
    BY <2>3
  <2>6. ASSUME NEW s \in SUBSET (1..k)
        PROVE  h[s] = IF s = {} THEN NoProfit ELSE WithProfit(h[s \ {Max(s)}], rs[Max(s)])
    <3>1. CASE k \in s
      <4>1. Max(s) = k
        <5>1. \A j \in s : j <= k
          BY <2>3
        <5> QED
          BY ONLY <2>3, <3>1, <5>1, s \in SUBSET (1..k), MaxIs
      <4>2. h[s \ {k}] = g[s \ {k}] /\ h[s] = WithProfit(g[s \ {k}], rs[k])
        BY <3>1
      <4> QED
        BY <3>1, <4>1, <4>2
    <3>2. CASE k \notin s
      <4>1. s \in SUBSET (1..(k - 1)) /\ h[s] = g[s]
        BY <2>5, <3>2
      <4>2. g[s] = IF s = {} THEN NoProfit ELSE WithProfit(g[s \ {Max(s)}], rs[Max(s)])
        BY <2>4, <4>1 DEF IsFalling
      <4>3. h[s \ {Max(s)}] = g[s \ {Max(s)}]
        BY <3>2
      <4> QED
        BY <4>1, <4>2, <4>3
    <3> QED
      BY <3>1, <3>2
  <2>7. h = [s \in SUBSET (1..k) |-> h[s]]
    OBVIOUS
  <2>8. IsFalling(h, k, rs)
    <3> HIDE DEF h
    <3> QED
      BY <2>6, <2>7 DEF IsFalling
  <2> QED
    BY <2>1, <2>8
<1>3. \E g : IsFalling(g, n, rs)
  BY <1>1, <1>2
<1>4. Falling(rs) = CHOOSE g : IsFalling(g, n, rs)
  BY <1>1 DEF Falling, IsFalling
<1> HIDE DEF n
<1>5. IsFalling(Falling(rs), n, rs)
  BY <1>3, <1>4, Zenon
<1> QED
  BY <1>5 DEF n

\* d is right for the account a after k trades.
RightAfter(d, a, k) ==
    /\ d \in [sum : Int, peak : Int, worst : Int]
    /\ d.sum = a[k]
    /\ \E i \in 0..k : d.peak = a[i]
    /\ \A i \in 0..k : a[i] <= d.peak
    /\ \E j \in 0..k : \E i \in 0..j : d.worst = a[i] - a[j]
    /\ \A j \in 0..k : \A i \in 0..j : a[i] - a[j] <= d.worst

LEMMA RightAfterOne ==
    ASSUME NEW k \in Nat, NEW a, \A i \in 0..(k + 1) : a[i] \in Int, NEW d, RightAfter(d, a, k),
           NEW r \in Int, a[k + 1] = a[k] + r
    PROVE  RightAfter(WithProfit(d, r), a, k + 1)
<1> DEFINE e == WithProfit(d, r)
           now == a[k + 1]
<1>1. /\ d \in [sum : Int, peak : Int, worst : Int] /\ now \in Int /\ now = d.sum + r
      /\ d.sum \in Int /\ d.peak \in Int /\ d.worst \in Int
  BY DEF RightAfter
<1>2. 0..(k + 1) = (0..k) \cup {k + 1} /\ k + 1 \in 0..(k + 1) /\ 0..k \subseteq 0..(k + 1)
  OBVIOUS
<1>3. PICK top \in 0..k : d.peak = a[top]
  BY DEF RightAfter
<1>4. PICK j \in 0..k : \E i \in 0..j : d.worst = a[i] - a[j]
  BY DEF RightAfter
<1>5. \A m \in 0..k : a[m] <= d.peak
  BY DEF RightAfter
<1>6. \A q \in 0..k : \A p \in 0..q : a[p] - a[q] <= d.worst
  BY DEF RightAfter
<1>7. 0 <= d.worst
  <2>1. a[0] - a[0] <= d.worst /\ a[0] \in Int
    BY <1>6
  <2> QED
    BY <1>1, <2>1
<1>8. CASE now > d.peak
  <2>1. e = [sum |-> now, peak |-> now, worst |-> d.worst]
    BY <1>1, <1>8 DEF WithProfit
  <2>2. \A m \in 0..(k + 1) : a[m] <= now
    BY <1>1, <1>2, <1>5, <1>8
  <2>3. \A q \in 0..(k + 1) : \A p \in 0..q : a[p] - a[q] <= d.worst
    <3> TAKE q \in 0..(k + 1)
    <3> TAKE p \in 0..q
    <3>1. CASE q \in 0..k
      BY <1>6, <3>1
    <3>2. CASE q = k + 1
      <4>1. p \in 0..(k + 1) /\ a[p] <= now /\ a[p] \in Int
        BY <2>2, <3>2
      <4> QED
        BY <1>1, <1>7, <3>2, <4>1
    <3> QED
      BY <1>2, <3>1, <3>2
  <2> QED
    BY <1>1, <1>2, <1>4, <2>1, <2>2, <2>3 DEF RightAfter
<1>9. CASE ~(now > d.peak)
  <2> DEFINE w == IF d.peak - now > d.worst THEN d.peak - now ELSE d.worst
  <2>1. e = [sum |-> now, peak |-> d.peak, worst |-> w]
    BY <1>1, <1>9 DEF WithProfit
  <2>2. w \in Int /\ d.worst <= w /\ d.peak - now <= w
    BY <1>1
  <2>3. \A m \in 0..(k + 1) : a[m] <= d.peak
    BY <1>1, <1>2, <1>5, <1>9
  <2>4. \E q \in 0..(k + 1) : \E p \in 0..q : w = a[p] - a[q]
    <3>1. CASE w = d.worst
      BY <1>2, <1>4, <3>1
    <3>2. CASE w = d.peak - now
      BY <1>2, <1>3, <3>2
    <3> QED
      BY <3>1, <3>2
  <2>5. \A q \in 0..(k + 1) : \A p \in 0..q : a[p] - a[q] <= w
    <3> TAKE q \in 0..(k + 1)
    <3> TAKE p \in 0..q
    <3>1. CASE q \in 0..k
      <4>1. a[p] - a[q] <= d.worst /\ p \in 0..(k + 1) /\ q \in 0..(k + 1)
        BY <1>2, <1>6, <3>1
      <4>2. a[p] \in Int /\ a[q] \in Int
        BY <4>1
      <4> HIDE DEF w
      <4> QED
        BY <1>1, <2>2, <4>1, <4>2
    <3>2. CASE q = k + 1
      <4>1. p \in 0..(k + 1) /\ a[p] <= d.peak /\ a[p] \in Int
        BY <2>3, <3>2
      <4> HIDE DEF w
      <4> QED
        BY <1>1, <2>2, <3>2, <4>1
    <3> QED
      BY <1>2, <3>1, <3>2
  <2> HIDE DEF w
  <2>6. /\ e \in [sum : Int, peak : Int, worst : Int] /\ e.sum = a[k + 1] /\ e.peak = d.peak /\ e.worst = w
    BY <1>1, <2>1, <2>2
  <2> QED
    BY <1>2, <1>3, <2>3, <2>4, <2>5, <2>6 DEF RightAfter
<1> QED
  BY <1>1, <1>8, <1>9

\* For every list of profits.
LEMMA DrawdownIsDeepest ==
    ASSUME NEW rs \in Seq(Int)
    PROVE  IsDeepestFall(Drawdown(rs), rs)
<1> DEFINE n == Len(rs)
           a == Account(rs)
           g == Falling(rs)
           Bad == {k \in 0..n : ~RightAfter(g[1..k], a, k)}
<1>1. n \in Nat /\ DOMAIN rs = 1..n /\ \A k \in 1..n : rs[k] \in Int
  OBVIOUS
<1>2. \A k \in 0..n : a[k] \in Int /\ a[k] = IF k = 0 THEN 0 ELSE a[k - 1] + rs[k]
  BY AccountIs DEF IsAccount
<1>3. \A s \in SUBSET (1..n) : g[s] = IF s = {} THEN NoProfit ELSE WithProfit(g[s \ {Max(s)}], rs[Max(s)])
  BY FallingIs DEF IsFalling
<1> HIDE DEF a, g
<1>4. g[1..0] = NoProfit
  <2>1. 1..0 = {} /\ 1..0 \in SUBSET (1..n)
    OBVIOUS
  <2> QED
    BY <1>3, <2>1
<1>5. ASSUME NEW k \in 1..n PROVE g[1..k] = WithProfit(g[1..(k - 1)], rs[k])
  <2>0. PICK m \in Nat : m = k /\ m >= 1 /\ m <= n
    BY <1>1
  <2>1. 1..k \in SUBSET (1..n) /\ k \in 1..k /\ 1..k # {} /\ \A j \in 1..k : j <= k
    <3>1. \A j \in 1..m : j \in 1..n /\ j <= m
      BY <1>1, <2>0
    <3>2. m \in 1..m
      BY <2>0
    <3> HIDE DEF n
    <3> QED
      BY <2>0, <3>1, <3>2
  <2>3. (1..k) \ {k} = 1..(k - 1)
    <3>1. \A j \in 1..m : j # m => j \in 1..(m - 1)
      BY <2>0
    <3>2. \A j \in 1..(m - 1) : j \in 1..m /\ j # m
      BY <2>0
    <3> QED
      BY <2>0, <3>1, <3>2
  <2>2. Max(1..k) = k
    <3> DEFINE S == 1..k
    <3>1. S \in SUBSET (1..n) /\ k \in S /\ \A j \in S : j <= k
      BY <2>1
    <3> HIDE DEF S
    <3>2. Max(S) = k
      BY <1>1, <3>1, MaxIs
    <3> QED
      BY <3>2 DEF S
  <2> QED
    BY <1>3, <2>1, <2>2, <2>3
<1>6. Bad = {}
  <2> SUFFICES ASSUME Bad # {} PROVE FALSE
    OBVIOUS
  <2>1. PICK k \in Bad : \A m \in Bad : k <= m
    <3>1. Bad \in SUBSET Nat
      OBVIOUS
    <3> HIDE DEF Bad
    <3> QED
      BY <3>1, LeastNumber
  <2>2. RightAfter(NoProfit, a, 0)
    <3>1. a[0] = 0 /\ 0..0 = {0}
      BY <1>1, <1>2
    <3> QED
      BY <3>1 DEF RightAfter, NoProfit
  <2>3. k # 0
    BY <1>4, <2>1, <2>2
  <2>4. PICK m \in Nat : k = m + 1 /\ m \in 0..n /\ k \in 1..n /\ m \notin Bad
    <3>1. k - 1 \in Nat /\ k = (k - 1) + 1 /\ k - 1 \in 0..n /\ k \in 1..n /\ ~(k <= k - 1)
      BY <1>1, <2>1, <2>3
    <3> QED
      BY <2>1, <3>1
  <2>5. RightAfter(g[1..m], a, m) /\ rs[m + 1] \in Int /\ a[m + 1] = a[m] + rs[m + 1]
        /\ \A i \in 0..(m + 1) : a[i] \in Int
    BY <1>1, <1>2, <2>4
  <2>6. RightAfter(WithProfit(g[1..m], rs[m + 1]), a, m + 1)
    BY <2>5, RightAfterOne
  <2>7. g[1..k] = WithProfit(g[1..m], rs[m + 1])
    BY <1>5, <2>4
  <2> QED
    BY <2>1, <2>4, <2>6, <2>7
<1>7. RightAfter(g[1..n], a, n)
  BY <1>1, <1>6
<1>8. Drawdown(rs) = g[1..n].worst
  BY <1>1, DrawdownFalls DEF g
<1> HIDE DEF Bad
<1> QED
  BY <1>7, <1>8 DEF RightAfter, IsDeepestFall, a

\* A list kept of simulated trades has profits that are numbers.
LEMMA ProfitsAreNumbers ==
    ASSUME NEW ts \in Seq(SimulatedTrades)
    PROVE  Profits(ts) \in Seq(Int)
<1>1. \A i \in 1..Len(ts) : ts[i].r \in Int
  <2>1. \A t \in SimulatedTrades : t.r \in Int
    BY DEF SimulatedTrades
  <2>2. \A i \in 1..Len(ts) : ts[i] \in SimulatedTrades
    OBVIOUS
  <2> QED
    BY <2>1, <2>2, Zenon
<1>2. Profits(ts) = [i \in 1..Len(ts) |-> ts[i].r]
  BY DEF Profits
<1>3. Profits(ts) \in [1..Len(ts) -> Int] /\ Len(ts) \in Nat
  BY <1>1, <1>2
<1> QED
  BY <1>3, FunctionIsSeq

\* run_xauusd_calibration.py:329 and its copies: the figure the gates compare with the ceiling is
\* the deepest fall of the account, for the whole ledger and for each side.
THEOREM DrawdownsAreDeepest == ScoreSpec => []DrawdownIsDeepestFall
<1>1. ScoreInv => DrawdownIsDeepestFall
  <2> SUFFICES ASSUME ScoreInv, scores # <<>>
               PROVE  /\ IsDeepestFall(scores.whole.mdd, Profits(FilledIn(replay)))
                      /\ IsDeepestFall(scores.long.mdd, Profits(OnSide(FilledIn(replay), "LONG")))
                      /\ IsDeepestFall(scores.short.mdd, Profits(OnSide(FilledIn(replay), "SHORT")))
    BY Zenon DEF DrawdownIsDeepestFall, Scored
  <2>1. scores = ScoresOf(replay, baseline) /\ replay \in Replays
    BY Zenon DEF ScoreInv
  <2>2. replay \in Seq(SimulatedTrades)
    BY <2>1, ScoreAssumption, Zenon DEF ScoreAssumption
  <2>3. FilledIn(replay) \in Seq(SimulatedTrades)
    BY <2>2, HavingSeq DEF FilledIn, GenuineIn, Unique
  <2>4. \A side \in {"LONG", "SHORT"} : OnSide(FilledIn(replay), side) \in Seq(SimulatedTrades)
    BY <2>3, HavingSeq DEF OnSide
  <2>5. /\ scores.whole = WholeFigures(replay) /\ scores.long = SideOfWhole(replay, "LONG")
        /\ scores.short = SideOfWhole(replay, "SHORT")
    BY <2>1 DEF ScoresOf
  <2>6. \A ts, folds, scale : StatisticsOf(ts, folds, scale).mdd = Drawdown(Profits(ts))
    BY DEF StatisticsOf
  <2>7. /\ scores.whole.mdd = Drawdown(Profits(FilledIn(replay)))
        /\ scores.long.mdd = Drawdown(Profits(OnSide(FilledIn(replay), "LONG")))
        /\ scores.short.mdd = Drawdown(Profits(OnSide(FilledIn(replay), "SHORT")))
    BY <2>5, <2>6, Zenon DEF WholeFigures, SideOfWhole
  <2>8. /\ Profits(FilledIn(replay)) \in Seq(Int)
        /\ Profits(OnSide(FilledIn(replay), "LONG")) \in Seq(Int)
        /\ Profits(OnSide(FilledIn(replay), "SHORT")) \in Seq(Int)
    BY <2>3, <2>4, ProfitsAreNumbers
  <2> QED
    BY <2>7, <2>8, DrawdownIsDeepest
<1> QED
  BY <1>1, ScoreInvHolds, PTL
=============================================================================
