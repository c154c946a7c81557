-------------------------------- MODULE Sums --------------------------------
(***************************************************************************)
(* Sums over finite sets, as MapThenSumSet computes them, for the proofs   *)
(* about counters that are kept equal to a sum.  The induction is over the *)
(* subsets of a finite set, of which a smallest exception would exist      *)
(* (WFMin): a set of good subsets takes the place of a predicate.          *)
(***************************************************************************)
EXTENDS Integers, FiniteSets, FiniteSetTheorems, TLAPS, FiniteSetsExt

\* A set G that a subset of S belongs to once its own proper subsets do.
LEMMA SetInduction ==
  ASSUME NEW S, IsFiniteSet(S), NEW G,
         \A U \in SUBSET S : (\A V \in SUBSET U : V # U => V \in G) => U \in G
  PROVE  S \in G
<1> SUFFICES ASSUME S \notin G PROVE FALSE
  OBVIOUS
<1> DEFINE Bad == {U \in FiniteSubsetsOf(S) : U \notin G}
<1>1. S \in Bad
  BY DEF FiniteSubsetsOf
<1>2. PICK U \in Bad : \A V \in Bad : ~(<<V, U>> \in StrictSubsetOrdering(S))
  <2>1. Bad \subseteq FiniteSubsetsOf(S) /\ Bad # {}
    BY <1>1
  <2> HIDE DEF Bad
  <2> QED
    BY <2>1, FS_StrictSubsetOrderingWellFounded, WFMin
<1>3. U \in SUBSET S /\ IsFiniteSet(U)
  BY DEF FiniteSubsetsOf
<1>4. ASSUME NEW V \in SUBSET U, V # U PROVE V \in G
  <2>1. V \in FiniteSubsetsOf(S)
    BY <1>3, FS_Subset DEF FiniteSubsetsOf
  <2>2. <<V, U>> \in StrictSubsetOrdering(S)
    BY <1>3, <1>4 DEF StrictSubsetOrdering
  <2> QED BY <1>2, <2>1, <2>2
<1> QED BY <1>3, <1>4

\* The element FoldSet takes first.
AnyOf(s) == CHOOSE x \in s : TRUE

\* The function on subsets that MapThenSumSet chooses.
Summing(f, S, g) ==
  g = [s \in SUBSET S |-> IF s = {} THEN 0 ELSE f[AnyOf(s)] + g[s \ {AnyOf(s)}]]

\* The sum of f over S.
Total(f, S) == MapThenSumSet(LAMBDA e : f[e], S)

\* Such a function exists.
LEMMA SummingExists ==
  ASSUME NEW S, IsFiniteSet(S), NEW f, \A e \in S : f[e] \in Nat
  PROVE  \E g \in [SUBSET S -> Nat] : Summing(f, S, g)
<1> DEFINE Eq(g, s) == g[s] = IF s = {} THEN 0 ELSE f[AnyOf(s)] + g[s \ {AnyOf(s)}]
           G == {U \in SUBSET S : \E g \in [SUBSET S -> Nat] : \A s \in SUBSET S :
                                    Cardinality(s) <= Cardinality(U) => Eq(g, s)}
<1>1. ASSUME NEW s \in SUBSET S
      PROVE  /\ IsFiniteSet(s) /\ Cardinality(s) \in Nat
             /\ s # {} => /\ AnyOf(s) \in s /\ AnyOf(s) \in S
                          /\ s \ {AnyOf(s)} \in SUBSET S
                          /\ Cardinality(s \ {AnyOf(s)}) = Cardinality(s) - 1
  <2>1. IsFiniteSet(s) /\ Cardinality(s) \in Nat
    BY FS_Subset, FS_CardinalityType
  <2>2. s # {} => AnyOf(s) \in s
    BY DEF AnyOf
  <2>3. s # {} => Cardinality(s \ {AnyOf(s)}) = Cardinality(s) - 1
    BY <2>1, <2>2, FS_RemoveElement
  <2> QED BY <2>1, <2>2, <2>3
<1>2. ASSUME NEW U \in SUBSET S, \A V \in SUBSET U : V # U => V \in G
      PROVE  U \in G
  <2>1. CASE U = {}
    <3>1. PICK g : g = [s \in SUBSET S |-> 0]
      OBVIOUS
    <3>2. \A s \in SUBSET S : Cardinality(s) <= Cardinality(U) => s = {}
      <4>1. Cardinality(U) = 0
        BY <2>1, FS_EmptySet
      <4>2. ASSUME NEW s \in SUBSET S, Cardinality(s) <= Cardinality(U) PROVE s = {}
        <5>1. IsFiniteSet(s) /\ Cardinality(s) \in Nat
          BY <1>1
        <5>2. Cardinality(s) = 0
          BY <4>1, <4>2, <5>1
        <5> QED BY <5>1, <5>2, FS_EmptySet
      <4> QED BY <4>2
    <3>3. \A s \in SUBSET S : Cardinality(s) <= Cardinality(U) => Eq(g, s)
      BY <3>1, <3>2
    <3> QED BY <3>1, <3>3
  <2>2. CASE U # {}
    <3>1. PICK V : V = U \ {AnyOf(U)}
      OBVIOUS
    <3>2. V \in G /\ Cardinality(V) = Cardinality(U) - 1
      BY <1>1, <1>2, <2>2, <3>1
    <3>3. PICK g \in [SUBSET S -> Nat] : \A s \in SUBSET S :
             Cardinality(s) <= Cardinality(V) => Eq(g, s)
      BY <3>2
    <3>4. PICK h : h = [s \in SUBSET S |-> IF s = {} THEN 0
                                           ELSE f[AnyOf(s)] + g[s \ {AnyOf(s)}]]
      OBVIOUS
    <3>5. h \in [SUBSET S -> Nat]
      <4>1. ASSUME NEW s \in SUBSET S
            PROVE  (IF s = {} THEN 0 ELSE f[AnyOf(s)] + g[s \ {AnyOf(s)}]) \in Nat
        <5>1. s # {} => f[AnyOf(s)] \in Nat /\ g[s \ {AnyOf(s)}] \in Nat
          BY <1>1
        <5> QED BY <5>1
      <4> QED BY <3>4, <4>1
    <3>6. ASSUME NEW s \in SUBSET S, Cardinality(s) <= Cardinality(U) PROVE Eq(h, s)
      <4>1. CASE s = {}
        BY <3>4, <4>1
      <4>2. CASE s # {}
        <5>1. PICK t \in SUBSET S : t = s \ {AnyOf(s)}
          BY <1>1, <4>2
        <5>2. Cardinality(t) <= Cardinality(V)
            <6>1. Cardinality(t) = Cardinality(s) - 1
            BY <1>1, <4>2, <5>1
          <6>2. Cardinality(s) \in Nat /\ Cardinality(U) \in Nat
            BY <1>1
          <6> QED BY <3>2, <3>6, <6>1, <6>2
        <5>3. g[t] = h[t]
          BY <3>3, <3>4, <5>2
        <5> QED BY <3>4, <4>2, <5>1, <5>3
      <4> QED BY <4>1, <4>2
    <3> QED BY <3>5, <3>6
  <2> QED BY <2>1, <2>2
<1>3. S \in G
  <2> HIDE DEF G
  <2> QED BY <1>2, SetInduction
<1>4. PICK g \in [SUBSET S -> Nat] : \A s \in SUBSET S :
         Cardinality(s) <= Cardinality(S) => Eq(g, s)
  BY <1>3
<1>5. \A s \in SUBSET S : Eq(g, s)
  BY <1>4, FS_Subset
<1>6. g = [s \in SUBSET S |-> IF s = {} THEN 0 ELSE f[AnyOf(s)] + g[s \ {AnyOf(s)}]]
  BY <1>4, <1>5
<1> QED BY <1>6 DEF Summing

\* The order in which elements are taken does not matter.
LEMMA SummingAdds ==
  ASSUME NEW S, IsFiniteSet(S), NEW f, \A e \in S : f[e] \in Nat,
         NEW g, Summing(f, S, g), \A U \in SUBSET S : g[U] \in Nat
  PROVE  \A T \in SUBSET S : \A y \in S \ T : g[T \union {y}] = f[y] + g[T]
<1> SUFFICES ASSUME NEW T \in SUBSET S, NEW y \in S \ T
             PROVE  g[T \union {y}] = f[y] + g[T]
  OBVIOUS
<1> DEFINE G == {U \in SUBSET S : \A x \in S \ U : g[U \union {x}] = f[x] + g[U]}
<1>1. \A s \in SUBSET S : g[s] = IF s = {} THEN 0 ELSE f[AnyOf(s)] + g[s \ {AnyOf(s)}]
  BY DEF Summing
<1>2. ASSUME NEW U \in SUBSET T, \A V \in SUBSET U : V # U => V \in G
      PROVE  U \in G
  <2> SUFFICES ASSUME NEW x \in S \ U PROVE g[U \union {x}] = f[x] + g[U]
    OBVIOUS
  <2>1. PICK s \in SUBSET S : s = U \union {x}
    OBVIOUS
  <2>2. PICK c \in s : c = AnyOf(s)
    BY <2>1 DEF AnyOf
  <2>3. g[s] = f[c] + g[s \ {c}]
    BY <1>1, <2>1, <2>2
  <2>4. CASE c = x
    <3>1. s \ {c} = U
      BY <2>1, <2>4
    <3> QED BY <2>1, <2>3, <2>4, <3>1
  <2>5. CASE c # x
    <3>1. PICK V \in SUBSET U : V = U \ {c}
      OBVIOUS
    <3>2. c \in U /\ V # U /\ s \ {c} = V \union {x} /\ V \union {c} = U
          /\ x \in S \ V /\ c \in S \ V
      BY <2>1, <2>2, <2>5, <3>1
    <3>3. V \in G
      BY <1>2, <3>1, <3>2
    <3>4. g[V \union {x}] = f[x] + g[V] /\ g[V \union {c}] = f[c] + g[V]
      BY <3>2, <3>3
    <3>5. g[V] \in Nat /\ f[x] \in Nat /\ f[c] \in Nat
      BY <3>1, <3>2
    <3>6. g[s] = f[c] + (f[x] + g[V]) /\ g[U] = f[c] + g[V]
      BY <2>3, <3>2, <3>4
    <3> QED BY <2>1, <3>5, <3>6
  <2> QED BY <2>4, <2>5
<1>3. T \in G
  <2>1. IsFiniteSet(T)
    BY FS_Subset
  <2> HIDE DEF G
  <2> QED BY <1>2, <2>1, SetInduction
<1> QED BY <1>3

\* It depends on nothing but the values on its set.
LEMMA SummingAgrees ==
  ASSUME NEW S, IsFiniteSet(S), NEW T \in SUBSET S, NEW f, NEW k,
         \A e \in T : f[e] = k[e], NEW g, NEW h, Summing(f, S, g), Summing(k, T, h)
  PROVE  \A U \in SUBSET T : g[U] = h[U]
<1> SUFFICES ASSUME NEW W \in SUBSET T PROVE g[W] = h[W]
  OBVIOUS
<1> DEFINE G == {U \in SUBSET T : g[U] = h[U]}
<1>1. ASSUME NEW U \in SUBSET W, \A V \in SUBSET U : V # U => V \in G
      PROVE  U \in G
  <2>1. /\ g[U] = IF U = {} THEN 0 ELSE f[AnyOf(U)] + g[U \ {AnyOf(U)}]
        /\ h[U] = IF U = {} THEN 0 ELSE k[AnyOf(U)] + h[U \ {AnyOf(U)}]
    BY DEF Summing
  <2>2. CASE U = {}
    BY <2>1, <2>2
  <2>3. CASE U # {}
    <3>1. AnyOf(U) \in U /\ f[AnyOf(U)] = k[AnyOf(U)]
      BY <2>3 DEF AnyOf
    <3>2. U \ {AnyOf(U)} \in G
      BY <1>1, <3>1
    <3> QED BY <2>1, <2>3, <3>1, <3>2
  <2> QED BY <2>2, <2>3
<1>2. W \in G
  <2>1. IsFiniteSet(W)
    BY FS_Subset
  <2> HIDE DEF G
  <2> QED BY <1>1, <2>1, SetInduction
<1> QED BY <1>2

\* The sum over a part of S, read from the function for S.
LEMMA TotalIs ==
  ASSUME NEW S, IsFiniteSet(S), NEW f, \A e \in S : f[e] \in Nat,
         NEW T \in SUBSET S, NEW g, Summing(f, S, g)
  PROVE  Total(f, T) = g[T]
<1>1. PICK h : h = CHOOSE x : Summing(f, T, x)
  OBVIOUS
<1>2. Total(f, T) = h[T]
  BY <1>1 DEF Total, MapThenSumSet, MapThenFoldSet, Summing, AnyOf
<1>3. Summing(f, T, h)
  BY <1>1, FS_Subset, SummingExists
<1> QED BY <1>2, <1>3, SummingAgrees

\* The sum grows by what an element brings.
LEMMA TotalAdds ==
  ASSUME NEW S, IsFiniteSet(S), NEW f, \A e \in S : f[e] \in Nat, NEW T \in SUBSET S
  PROVE  /\ Total(f, T) \in Nat /\ Total(f, {}) = 0
         /\ \A y \in S : y \notin T => Total(f, T \union {y}) = f[y] + Total(f, T)
<1>1. PICK g \in [SUBSET S -> Nat] : Summing(f, S, g)
  BY SummingExists
<1>2. \A U \in SUBSET S : Total(f, U) = g[U]
  BY <1>1, TotalIs
<1>3. g[{}] = 0
  BY <1>1 DEF Summing
<1>5. \A U \in SUBSET S : g[U] \in Nat
  OBVIOUS
<1>4. \A y \in S \ T : g[T \union {y}] = f[y] + g[T]
  BY <1>1, <1>5, SummingAdds
<1> QED BY <1>1, <1>2, <1>3, <1>4

\* Nothing counts but the values on the set.
LEMMA TotalAgrees ==
  ASSUME NEW S, IsFiniteSet(S), NEW f, NEW k,
         \A e \in S : f[e] \in Nat /\ f[e] = k[e]
  PROVE  Total(f, S) = Total(k, S)
<1>1. PICK g : Summing(f, S, g)
  BY SummingExists
<1>2. PICK h : Summing(k, S, h)
  BY SummingExists
<1>3. Total(f, S) = g[S] /\ Total(k, S) = h[S]
  BY <1>1, <1>2, TotalIs
<1>4. S \in SUBSET S /\ \A e \in S : f[e] = k[e]
  OBVIOUS
<1>5. \A U \in SUBSET S : g[U] = h[U]
  BY <1>1, <1>2, <1>4, SummingAgrees
<1> QED BY <1>3, <1>5

\* One value changes.
LEMMA TotalChanges ==
  ASSUME NEW S, IsFiniteSet(S), NEW f, NEW k, NEW y \in S,
         \A e \in S : f[e] \in Nat /\ k[e] \in Nat,
         \A e \in S \ {y} : f[e] = k[e]
  PROVE  Total(f, S) \in Nat /\ Total(k, S) = Total(f, S) - f[y] + k[y] /\ f[y] <= Total(f, S)
<1>1. PICK T : T = S \ {y}
  OBVIOUS
<1>5. T \in SUBSET S /\ S = T \union {y} /\ y \notin T
  BY <1>1
<1>0. IsFiniteSet(T)
  BY <1>5, FS_Subset
<1>2. Total(f, T) = Total(k, T)
  BY <1>0, <1>1, <1>5, TotalAgrees
<1>3. Total(f, S) = f[y] + Total(f, T) /\ Total(f, T) \in Nat
  BY <1>5, TotalAdds
<1>4. Total(k, S) = k[y] + Total(k, T)
  BY <1>5, TotalAdds
<1> QED BY <1>2, <1>3, <1>4

\* An element leaves.
LEMMA TotalRemoves ==
  ASSUME NEW S, IsFiniteSet(S), NEW f, \A e \in S : f[e] \in Nat, NEW y \in S
  PROVE  /\ Total(f, S) \in Nat /\ Total(f, S \ {y}) \in Nat
         /\ Total(f, S) = f[y] + Total(f, S \ {y})
<1>1. PICK T : T = S \ {y}
  OBVIOUS
<1>2. T \in SUBSET S /\ S = T \union {y} /\ y \notin T
  BY <1>1
<1>3. Total(f, T) \in Nat /\ Total(f, S) = f[y] + Total(f, T)
  BY <1>2, TotalAdds
<1> QED BY <1>1, <1>3

\* One value grows at most.
LEMMA TotalGrows ==
  ASSUME NEW S, IsFiniteSet(S), NEW f, NEW k, NEW y,
         \A e \in S : f[e] \in Nat /\ k[e] \in Nat /\ f[e] <= k[e],
         \A e \in S \ {y} : f[e] = k[e]
  PROVE  Total(f, S) <= Total(k, S)
<1>1. CASE y \in S
  <2>1. Total(f, S) \in Nat /\ Total(k, S) = Total(f, S) - f[y] + k[y]
    BY <1>1, TotalChanges
  <2>2. f[y] \in Nat /\ k[y] \in Nat /\ f[y] <= k[y]
    BY <1>1
  <2> QED BY <2>1, <2>2
<1>2. CASE y \notin S
  <2>1. \A e \in S : f[e] \in Nat /\ f[e] = k[e]
    BY <1>2
  <2>2. Total(f, S) = Total(k, S) /\ Total(f, S) \in Nat
    BY <2>1, TotalAgrees, TotalAdds
  <2> QED BY <2>2
<1> QED BY <1>1, <1>2

\* A set and the rest.
LEMMA TotalSplits ==
  ASSUME NEW S, IsFiniteSet(S), NEW f, \A e \in S : f[e] \in Nat, NEW T \in SUBSET S
  PROVE  /\ Total(f, T) \in Nat /\ Total(f, S \ T) \in Nat
         /\ Total(f, S) = Total(f, T) + Total(f, S \ T)
<1> DEFINE G == {U \in SUBSET S : Total(f, S) = Total(f, U) + Total(f, S \ U)}
<1>1. \A U \in SUBSET S : Total(f, U) \in Nat
  BY TotalAdds
<1>2. ASSUME NEW U \in SUBSET T, \A V \in SUBSET U : V # U => V \in G
      PROVE  U \in G
  <2>1. CASE U = {}
    <3>1. Total(f, {}) = 0 /\ S \ {} = S
      BY TotalAdds
    <3> QED BY <1>1, <2>1, <3>1
  <2>2. CASE U # {}
    <3>1. PICK y \in U : TRUE
      BY <2>2
    <3>2. PICK V, W : V = U \ {y} /\ W = S \ U
      OBVIOUS
    <3>3. /\ V \in SUBSET U /\ V # U /\ U = V \union {y} /\ S \ V = W \union {y}
          /\ W \in SUBSET S /\ y \in S /\ y \notin V /\ y \notin W
      BY <3>1, <3>2
    <3>4. Total(f, S) = Total(f, V) + Total(f, W \union {y})
      BY <1>2, <3>3
    <3>5. Total(f, U) = f[y] + Total(f, V)
      BY <3>3, TotalAdds
    <3>6. Total(f, W \union {y}) = f[y] + Total(f, W)
      BY <3>3, TotalAdds
    <3>7. Total(f, V) \in Nat /\ Total(f, W) \in Nat /\ f[y] \in Nat
      BY <1>1, <3>3
    <3> QED BY <3>2, <3>4, <3>5, <3>6, <3>7
  <2> QED BY <2>1, <2>2
<1>3. T \in G
  <2>1. IsFiniteSet(T)
    BY FS_Subset
  <2> HIDE DEF G
  <2> QED BY <1>2, <2>1, SetInduction
<1> QED BY <1>1, <1>3

\* A finite set of numbers has a largest and a smallest one.
LEMMA HasExtremes ==
  ASSUME NEW S, IsFiniteSet(S), S \subseteq Int, S # {}
  PROVE  \E x, y \in S : \A z \in S : x <= z /\ z <= y
<1> DEFINE G == {U \in SUBSET S : U # {} => \E x, y \in U : \A z \in U : x <= z /\ z <= y}
<1>1. ASSUME NEW U \in SUBSET S, \A V \in SUBSET U : V # U => V \in G
      PROVE  U \in G
  <2> SUFFICES ASSUME U # {} PROVE \E x, y \in U : \A z \in U : x <= z /\ z <= y
    OBVIOUS
  <2>1. PICK a \in U : TRUE
    OBVIOUS
  <2>2. PICK V \in SUBSET U : V = U \ {a}
    OBVIOUS
  <2>3. CASE V = {}
    BY <2>1, <2>2, <2>3
  <2>4. CASE V # {}
    <3>1. V \in G
      <4>1. V # U
        BY <2>1, <2>2
      <4> HIDE DEF G
      <4> QED BY <1>1, <4>1
    <3>2. PICK x, y \in V : \A z \in V : x <= z /\ z <= y
      BY <2>4, <3>1
    <3>3. PICK b, c \in U : b = (IF a <= x THEN a ELSE x) /\ c = (IF y <= a THEN a ELSE y)
      BY <2>1, <2>2
    <3>4. b <= a /\ b <= x /\ a <= c /\ y <= c
      BY <3>2, <3>3
    <3>5. ASSUME NEW z \in U PROVE b <= z /\ z <= c
      <4>1. CASE z = a
        BY <3>4, <4>1
      <4>2. CASE z # a
        <5>1. x <= z /\ z <= y
          BY <2>2, <3>2, <4>2
        <5> QED BY <3>4, <5>1
      <4> QED BY <4>1, <4>2
    <3> QED BY <3>5
  <2> QED BY <2>3, <2>4
<1>2. S \in G
  <2> HIDE DEF G
  <2> QED BY <1>1, SetInduction
<1> QED BY <1>2
=============================================================================
