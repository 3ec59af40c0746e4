---------------------------- MODULE Frames_proof ----------------------------
(***************************************************************************)
(* What the operators on the frame array find, for every frame array.      *)
(***************************************************************************)
EXTENDS Memory, FiniteSetTheorems, TLAPS

Injective(f) == \A v, w \in DOMAIN f : f[v] = f[w] => v = w

\* A finite set of integers has an element of each rank below its size: ranks
\* differ, so they are a bijection to the numbers below the size.
LEMMA NthFacts ==
  ASSUME NEW S \in SUBSET Int, IsFiniteSet(S),
         NEW k \in Nat, k < Cardinality(S)
  PROVE  /\ Nth(S, k) \in S
         /\ Cardinality({g \in S : g < Nth(S, k)}) = k
<1> DEFINE below(f) == {g \in S : g < f}
           ranks == 0 .. Cardinality(S) - 1
           rank == [f \in S |-> Cardinality(below(f))]
<1>1. Cardinality(S) \in Nat
  BY FS_CardinalityType
<1>2. ASSUME NEW f \in S
      PROVE  IsFiniteSet(below(f)) /\ Cardinality(below(f)) \in ranks
  <2>1. below(f) \in SUBSET S /\ f \notin below(f)
    OBVIOUS
  <2>2. /\ IsFiniteSet(below(f)) /\ Cardinality(below(f)) <= Cardinality(S)
        /\ Cardinality(S) # Cardinality(below(f))
    BY <2>1, FS_Subset
  <2>3. Cardinality(below(f)) \in Nat
    BY <2>2, FS_CardinalityType
  <2> HIDE DEF below
  <2> QED BY <1>1, <2>2, <2>3
<1>3. ASSUME NEW f \in S, NEW h \in S, f < h
      PROVE  Cardinality(below(f)) # Cardinality(below(h))
  <2>1. below(f) \in SUBSET below(h)
    <3>1. ASSUME NEW g \in S, g < f PROVE g < h
      BY <1>3, <3>1
    <3> QED BY <3>1
  <2>2. f \in below(h) /\ f \notin below(f)
    BY <1>3
  <2> HIDE DEF below
  <2> QED BY <1>2, <2>1, <2>2, FS_Subset
<1>4. rank \in Injection(S, ranks)
  <2>1. rank \in [S -> ranks]
    BY <1>2
  <2>2. \A f, h \in S : rank[f] = rank[h] => f = h
    <3> SUFFICES ASSUME NEW f \in S, NEW h \in S, f # h
                 PROVE  rank[f] # rank[h]
      OBVIOUS
    <3>1. f < h \/ h < f
      OBVIOUS
    <3> QED BY <1>3, <3>1
  <2> HIDE DEF rank
  <2> QED BY <2>1, <2>2 DEF Injection, IsInjective
<1>5. IsFiniteSet(ranks) /\ Cardinality(ranks) = Cardinality(S)
  <2>1. PICK n \in Nat : n = Cardinality(S)
    BY <1>1
  <2>2. 0 \in Int /\ n - 1 \in Int
    OBVIOUS
  <2>3. /\ IsFiniteSet(0 .. n - 1)
        /\ Cardinality(0 .. n - 1) = IF 0 > n - 1 THEN 0 ELSE (n - 1) - 0 + 1
    BY <2>2, FS_Interval
  <2> QED BY <2>1, <2>3
<1>6. rank \in Surjection(S, ranks)
  BY <1>4, <1>5, FS_Injection
<1>7. \E f \in S : Cardinality(below(f)) = k
  <2>1. k \in ranks
    BY <1>1
  <2>2. \E f \in S : rank[f] = k
    BY <1>6, <2>1 DEF Surjection
  <2> QED BY <2>2
<1> QED BY <1>7 DEF Nth

\* Elements of different ranks are different.
LEMMA NthInjective ==
  ASSUME NEW S \in SUBSET Int, IsFiniteSet(S),
         NEW k \in Nat, k < Cardinality(S), NEW m \in Nat, m < Cardinality(S),
         Nth(S, k) = Nth(S, m)
  PROVE  k = m
<1>1. Cardinality({g \in S : g < Nth(S, k)}) = k
  BY NthFacts
<1>2. Cardinality({g \in S : g < Nth(S, m)}) = m
  BY NthFacts
<1> QED BY <1>1, <1>2

\* Frames is finite; so is what is free of it.
LEMMA FreeFrames ==
  ASSUME NEW occ
  PROVE  /\ Frames \ occ \in SUBSET Int
         /\ IsFiniteSet(Frames \ occ)
         /\ NumFree(occ) \in Nat
<1>1. Frames \in SUBSET Int /\ IsFiniteSet(Frames)
  BY MemoryAssumption, FS_Interval DEF Frames, TopPage
<1>2. IsFiniteSet(Frames \ occ)
  BY <1>1, FS_Difference
<1> QED BY <1>1, <1>2, FS_CardinalityType DEF NumFree

\* near orders V: near[v] are the elements before v.
Orders(near, V) ==
  /\ near \in [V -> SUBSET V]
  /\ \A v \in V : v \notin near[v]
  /\ \A v, w \in V : v # w => \/ v \in near[w] /\ near[v] \subseteq near[w]
                              \/ w \in near[v] /\ near[w] \subseteq near[v]

Ranked(occ, V, near) == [v \in V |-> Nth(Frames \ occ, Cardinality(near[v]))]

\* Pages that come in some order are given different free frames when each is
\* given the one whose rank is the number of pages before it.
LEMMA RankedFacts ==
  ASSUME NEW occ, NEW V, IsFiniteSet(V), Cardinality(V) <= NumFree(occ),
         NEW near, Orders(near, V)
  PROVE  /\ Ranked(occ, V, near) \in [V -> Frames \ occ]
         /\ Injective(Ranked(occ, V, near))
<1> USE DEF Orders
<1> DEFINE S == Frames \ occ
           given == Ranked(occ, V, near)
<1>1. S \in SUBSET Int /\ IsFiniteSet(S) /\ Cardinality(S) \in Nat
  BY FreeFrames DEF NumFree
<1>2. Cardinality(V) \in Nat /\ Cardinality(V) <= Cardinality(S)
  BY FS_CardinalityType DEF NumFree
<1> HIDE DEF S
<1>3. ASSUME NEW v \in V
      PROVE  /\ IsFiniteSet(near[v]) /\ Cardinality(near[v]) \in Nat
             /\ Cardinality(near[v]) < Cardinality(S)
  <2>1. /\ IsFiniteSet(near[v]) /\ Cardinality(near[v]) <= Cardinality(V)
        /\ Cardinality(V) # Cardinality(near[v])
    BY FS_Subset
  <2>2. Cardinality(near[v]) \in Nat
    BY <2>1, FS_CardinalityType
  <2> QED BY <1>1, <1>2, <2>1, <2>2
<1>4. ASSUME NEW v \in V, NEW w \in V, w \in near[v], near[w] \subseteq near[v]
      PROVE  Cardinality(near[v]) # Cardinality(near[w])
  <2>1. near[w] \in SUBSET near[v] /\ near[w] # near[v]
    BY <1>4
  <2> QED BY <1>3, <2>1, FS_Subset
<1>5. ASSUME NEW v \in V
      PROVE  Nth(S, Cardinality(near[v])) \in S
  BY <1>1, <1>3, NthFacts
<1>6. ASSUME NEW v \in V, NEW w \in V,
             Nth(S, Cardinality(near[v])) = Nth(S, Cardinality(near[w]))
      PROVE  v = w
  <2>1. Cardinality(near[v]) = Cardinality(near[w])
    BY <1>1, <1>3, <1>6, NthInjective
  <2> QED BY <1>4, <2>1
<1>8. DOMAIN given = V /\ \A v \in V : given[v] = Nth(S, Cardinality(near[v]))
  BY DEF Ranked, S
<1> HIDE DEF given
<1>9. given \in [V -> S]
  <2>1. \A v \in V : given[v] \in S
    BY <1>5, <1>8
  <2>2. given = [v \in V |-> given[v]]
    BY DEF given, Ranked
  <2> QED BY <2>1, <2>2
<1>10. Injective(given)
  <2>1. \A v, w \in V : given[v] = given[w] => v = w
    <3> SUFFICES ASSUME NEW v \in V, NEW w \in V, given[v] = given[w]
                 PROVE  v = w
      OBVIOUS
    <3>1. given[v] = Nth(S, Cardinality(near[v])) /\ given[w] = Nth(S, Cardinality(near[w]))
      BY <1>8
    <3>2. Nth(S, Cardinality(near[v])) = Nth(S, Cardinality(near[w]))
      BY <3>1
    <3> QED BY <1>6, <3>2
  <2> QED BY <2>1, <1>8 DEF Injective
<1> QED BY <1>9, <1>10 DEF S, given

\* Fresh gives different pages different free frames.
LEMMA FreshFacts ==
  ASSUME NEW occ, NEW V \in SUBSET Int, IsFiniteSet(V),
         Cardinality(V) <= NumFree(occ)
  PROVE  /\ Fresh(occ, V) \in [V -> Frames \ occ]
         /\ Injective(Fresh(occ, V))
<1> DEFINE near == [v \in V |-> {w \in V : w < v}]
<1>1. near \in [V -> SUBSET V] /\ \A v \in V : v \notin near[v]
  OBVIOUS
<1>2. ASSUME NEW v \in V, NEW w \in V, v < w
      PROVE  v \in near[w] /\ near[v] \subseteq near[w]
  <2>1. ASSUME NEW u \in V, u < v PROVE u < w
    BY <1>2, <2>1
  <2> QED BY <1>2, <2>1
<1>3. Fresh(occ, V) = Ranked(occ, V, near)
  BY DEF Fresh, Ranked
<1>4. \A v, w \in V : v # w => v < w \/ w < v
  OBVIOUS
<1> HIDE DEF near
<1>5. Orders(near, V)
  BY <1>1, <1>2, <1>4 DEF Orders
<1> QED BY <1>3, <1>5, RankedFacts

\* So does FreshDown.
LEMMA FreshDownFacts ==
  ASSUME NEW occ, NEW V \in SUBSET Int, IsFiniteSet(V),
         Cardinality(V) <= NumFree(occ)
  PROVE  /\ FreshDown(occ, V) \in [V -> Frames \ occ]
         /\ Injective(FreshDown(occ, V))
<1> DEFINE near == [v \in V |-> {w \in V : w > v}]
<1>1. near \in [V -> SUBSET V] /\ \A v \in V : v \notin near[v]
  OBVIOUS
<1>2. ASSUME NEW v \in V, NEW w \in V, v < w
      PROVE  w \in near[v] /\ near[w] \subseteq near[v]
  <2>1. ASSUME NEW u \in V, u > w PROVE u > v
    BY <1>2, <2>1
  <2> QED BY <1>2, <2>1
<1>3. FreshDown(occ, V) = Ranked(occ, V, near)
  BY DEF FreshDown, Ranked
<1>4. \A v, w \in V : v # w => v < w \/ w < v
  OBVIOUS
<1> HIDE DEF near
<1>5. Orders(near, V)
  BY <1>1, <1>2, <1>4 DEF Orders
<1> QED BY <1>3, <1>5, RankedFacts

=============================================================================
